---------------------------- MODULE LoadAddProofs ----------------------------
(***************************************************************************)
(* Proofs about load_add: its type invariant, that the addresses which a   *)
(* relocation assigns leave room for every ADD, in order and below the     *)
(* code, and that whatever a load does to one application, failures        *)
(* included, it leaves the others alone, for any number of applications,   *)
(* any sizes, any page size and any code in the EEPROM.                    *)
(***************************************************************************)
EXTENDS LoadAdd, FiniteSetTheorems, WellFoundedInduction, TLAPS

USE AppsAssumption, PageAssumption, AcbAssumption, CodeAssumption,
    SizesAssumption, LoadsAssumption

\* The lowest code address lies between the databases and CODE_START.
LEMMA CodeStart ==
  /\ code_start \in Nat
  /\ DB_START < code_start /\ code_start <= CODE_START
  /\ code_start < Word
  /\ Word \in Nat \ {0}
<1> DEFINE A == {CODE_START} \cup CodeAddrs
<1>1. PICK a \in A : \A b \in A : a <= b
  OBVIOUS
<1>2. code_start \in A /\ \A b \in A : code_start <= b
  BY <1>1 DEF code_start
<1>3. A \subseteq Nat
  OBVIOUS
<1>4. PICK s \in Sizes : TRUE
  OBVIOUS
<1> QED
  BY <1>2, <1>3, <1>4

\* A u16 is an address.
LEMMA U16Type == \A x \in Int : U16(x) \in Addresses
  BY CodeStart DEF U16, Addresses

\* A size is a number.
LEMMA SizesAreNumbers == \A s \in Sizes \cup {0} : s \in Nat
  OBVIOUS

\* u16 arithmetic is exact below Word.
LEMMA U16Exact == \A x \in Addresses : U16(x) = x
  BY CodeStart DEF U16, Addresses

LEMMA AvailExact == avail = code_start - DB_START /\ avail \in Addresses
<1>1. code_start - DB_START \in Addresses
  BY CodeStart DEF Addresses
<1> QED
  BY <1>1, U16Exact DEF avail

\* There is at least one external ADD, and finitely many.
LEMMA ExtFinite == IsFiniteSet(Ext) /\ Cardinality(Ext) \in Nat \ {0}
<1>1. IsFiniteSet(Apps)
  BY FS_Interval DEF Apps
<1>2. IsFiniteSet(Ext)
  BY <1>1, FS_Subset
<1> QED
  BY <1>2, FS_CardinalityType, FS_EmptySet

\* Dividing in whole pages, and among n ADDs, gives no more than there is.
LEMMA WholePages ==
  ASSUME NEW u \in Nat, NEW p \in Nat \ {0}
  PROVE  (u \div p) * p \in Nat /\ (u \div p) * p <= u
<1>1. u \div p \in Nat /\ (u \div p) * p <= u
  OBVIOUS
<1> QED
  BY <1>1

LEMMA WholeShares ==
  ASSUME NEW u \in Nat, NEW p \in Nat \ {0}, NEW n \in Nat \ {0}
  PROVE  /\ (u \div (n * p)) * p \in Nat
         /\ n * ((u \div (n * p)) * p) <= u
<1> DEFINE q == u \div (n * p)
<1>1. n * p \in Nat \ {0}
  OBVIOUS
<1>2. q \in Nat /\ q * (n * p) <= u
  BY <1>1, WholePages
<1> HIDE DEF q
<1>3. n * (q * p) = q * (n * p) /\ q * p \in Nat
  BY <1>2
<1> QED
  BY <1>2, <1>3 DEF q

-----------------------------------------------------------------------------
(* Types *)

LEMMA LeftType ==
  ASSUME total \in Addresses
  PROVE  /\ left \in Addresses
         /\ pages \in Addresses /\ pages <= left
         /\ share \in Nat /\ Cardinality(Ext) * share <= pages
<1>1. left \in Addresses /\ left \in Nat
  BY AvailExact, U16Type DEF left, Addresses
<1>2. pages \in Nat /\ pages <= left
  BY <1>1, WholePages DEF pages
<1>3. pages \in Addresses
  BY <1>1, <1>2 DEF Addresses
<1>4. share \in Nat /\ Cardinality(Ext) * share <= pages
  BY <1>2, ExtFinite, WholeShares DEF share
<1> QED
  BY <1>1, <1>2, <1>3, <1>4

\* The bytes of an ADD are cells.
LEMMA BytesType == \A d \in Adds : Bytes(d) \in [0..(d.size - 1) -> Cells]
  BY DEF Bytes, Cells, Adds

LEMMA SizeAtType ==
  ASSUME eeprom \in [Addresses -> Cells], NEW a \in Addresses
  PROVE  SizeAt(a) \in Sizes \cup {0}
  BY DEF SizeAt, Cells, Adds, Blank

\* What a write command sends, and what it leaves in memory.
LEMMA PageType ==
  ASSUME TypeOK, Writing, target \in Ext, off < SizeOf(target)
  PROVE  Chunk \in Nat \ {0} /\ PageWritten \in [Addresses -> Cells]
<1>1. /\ SizeOf(target) \in Nat
      /\ Source(target) \in [0..(SizeOf(target) - 1) -> Cells]
  <2>1. CASE pc = "inplace"
    <3>1. data \in Adds
      BY <2>1 DEF TypeOK
    <3>2. data.size \in Nat /\ Bytes(data) \in [0..(data.size - 1) -> Cells]
      BY <3>1, BytesType DEF Adds
    <3> QED
      BY <2>1, <3>2 DEF SizeOf, Source, alloc_size
  <2>2. CASE pc = "move"
    <3>1. SizeOf(target) = add_size[target] /\ Source(target) = ram[target]
      BY <2>2 DEF SizeOf, Source
    <3>2. add_size[target] \in Sizes \cup {0}
      BY DEF TypeOK
    <3>3. ram[target] \in [0..(add_size[target] - 1) -> Cells]
      BY DEF TypeOK
    <3>4. add_size[target] \in Nat
      BY <3>2, SizesAreNumbers
    <3> QED
      BY <3>1, <3>3, <3>4
  <2> QED
    BY <2>1, <2>2 DEF Writing
<1>2. /\ off \in Nat /\ eeprom \in [Addresses -> Cells]
      /\ hostAddr \in [Ext -> Addresses]
  BY DEF TypeOK
<1>3. Chunk \in Nat \ {0} /\ off + Chunk <= SizeOf(target)
  BY <1>1, <1>2 DEF Chunk
<1>4. ASSUME NEW k \in off..(off + Chunk - 1)
      PROVE  Source(target)[k] \in Cells
  <2>1. k \in 0..(SizeOf(target) - 1)
    BY <1>1, <1>2, <1>3
  <2> QED
    BY <1>1, <2>1
<1>5. PageWritten \in [Addresses -> Cells]
  BY <1>2, <1>4 DEF PageWritten
<1> QED
  BY <1>3, <1>5

\* A call that returns resets its locals.
LEMMA ReturnType ==
  ASSUME NEW r \in {-1, 0}, Return(r)
  PROVE  /\ pc' \in {"idle", "ended"} /\ idx' = -1 /\ data' = Blank
         /\ i' = 0 /\ off' = 0
         /\ add_size' = NoSizes /\ ram' = NoAdds /\ before' = NothingBefore
         /\ total' = 0 /\ unused' = 0 /\ dist' = 0 /\ db_end' = 0
         /\ result' = r
  BY DEF Return

\* The values of the locals while no call is in progress have their types.
LEMMA LocalsAtRest ==
  /\ NoSizes \in [Ext -> Sizes \cup {0}]
  /\ DOMAIN NoAdds = Ext
  /\ \A a \in Ext : NoAdds[a] \in [0..(NoSizes[a] - 1) -> Cells]
  /\ NothingBefore \in [0..NUM_APPS -> Nat]
  /\ NothingBefore[0] = 0
  /\ 0 \in Addresses
<1>1. 0 \in 0..NUM_APPS
  OBVIOUS
<1>2. \A a \in Ext : NoAdds[a] = << >> /\ NoSizes[a] = 0
  BY DEF NoAdds, NoSizes
<1>3. << >> \in [0..(0 - 1) -> Cells]
  <2>1. 0..(0 - 1) = {}
    OBVIOUS
  <2>2. DOMAIN << >> = {}
    OBVIOUS
  <2> QED
    BY <2>1, <2>2
<1> QED
  BY <1>1, <1>2, <1>3, CodeStart DEF NoAdds, NoSizes, NothingBefore, Addresses

\* A load that is done.
LEMMA SucceedType ==
  ASSUME TypeOK, Succeed, pc \notin {"idle", "ended"},
         devAddr' \in [Ext -> Addresses],
         UNCHANGED <<eeprom, hostAddr, loads, overfull>>
  PROVE  TypeOK'
<1>1. Return(0) /\ lost' = FALSE /\ torn' \subseteq Ext
  BY DEF Succeed, TypeOK
<1>2. stored' \in [Ext -> Adds]
  BY DEF Succeed, TypeOK
<1>3. /\ pc' \in {"idle", "ended"} /\ idx' = -1 /\ data' = Blank
      /\ i' = 0 /\ off' = 0
      /\ add_size' = NoSizes /\ ram' = NoAdds /\ before' = NothingBefore
      /\ total' = 0 /\ unused' = 0 /\ dist' = 0 /\ db_end' = 0
      /\ result' = 0
  BY <1>1, ReturnType
<1>4. /\ add_size' \in [Ext -> Sizes \cup {0}] /\ DOMAIN ram' = Ext
      /\ \A a \in Ext : ram'[a] \in [0..(add_size'[a] - 1) -> Cells]
      /\ before' \in [0..NUM_APPS -> Nat]
      /\ total' \in Addresses /\ unused' \in Addresses /\ dist' \in Nat
      /\ db_end' \in Addresses /\ i' \in 0..NUM_APPS /\ off' \in Nat
  BY <1>3, LocalsAtRest
<1>5. /\ eeprom' \in [Addresses -> Cells] /\ hostAddr' \in [Ext -> Addresses]
      /\ loads' \in 0..MaxLoads /\ overfull' \in BOOLEAN
  BY DEF TypeOK
<1> QED
  BY <1>1, <1>2, <1>3, <1>4, <1>5 DEF TypeOK

\* Every step keeps the types.
LEMMA TypeStep == TypeOK /\ [Next]_vars => TypeOK'
<1> SUFFICES ASSUME TypeOK, [Next]_vars PROVE TypeOK'
  OBVIOUS
<1>1. CASE StartSession
  BY <1>1 DEF StartSession, TypeOK, watch, locals, args, reads, sums, history
<1>2. CASE Load
  BY <1>2 DEF Load, TypeOK, watch, args, reads, sums, history, Adds
<1>3. CASE Start
  BY <1>3 DEF Start, TypeOK, watch, locals, args, reads, sums, history
<1>4. CASE Skip
  <2>1. i + 1 \in 0..NUM_APPS /\ i \in 0..NUM_APPS
    BY <1>4 DEF Skip, Apps
  <2>2. before' \in [0..NUM_APPS -> Nat]
    BY <1>4, <2>1 DEF Skip, SkipTo, TypeOK
  <2> QED
    BY <1>4, <2>1, <2>2 DEF Skip, SkipTo, TypeOK, watch, args, sums, history
<1>5. CASE Collect
  <2> DEFINE size == IF i = idx THEN alloc_size ELSE SizeAt(hostAddr[i])
             bytes == IF i = idx THEN Bytes(data)
                      ELSE [k \in 0..(size - 1) |->
                               eeprom[U16(hostAddr[i] + k)]]
  <2>1. /\ pc = "read" /\ i \in Ext /\ i \in 0..(NUM_APPS - 1)
        /\ data \in Adds /\ idx \in Ext /\ hostAddr[i] \in Addresses
    BY <1>5 DEF Collect, TypeOK, Apps
  <2>2. size \in Sizes \cup {0}
    <3>1. alloc_size \in Sizes
      BY <2>1 DEF alloc_size, Adds
    <3> QED
      BY <2>1, <3>1, SizeAtType DEF TypeOK
  <2>3. bytes \in [0..(size - 1) -> Cells]
    <3>1. CASE i = idx
      BY <2>1, <3>1, BytesType DEF alloc_size
    <3>2. CASE i # idx
      <4>1. \A k \in 0..(size - 1) : U16(hostAddr[i] + k) \in Addresses
        BY <2>1, U16Type DEF Addresses
      <4> QED
        BY <3>2, <4>1 DEF TypeOK
    <3> QED
      BY <3>1, <3>2
  <2> HIDE DEF size, bytes
  <2>4. /\ add_size' = [add_size EXCEPT ![i] = size]
        /\ ram' = [ram EXCEPT ![i] = bytes]
        /\ total' = U16(total + size)
        /\ before' = [before EXCEPT ![i + 1] = before[i] + size]
    BY <1>5 DEF Collect, size, bytes
  <2>5. /\ add_size' \in [Ext -> Sizes \cup {0}]
        /\ DOMAIN ram' = Ext
        /\ \A a \in Ext : ram'[a] \in [0..(add_size'[a] - 1) -> Cells]
    <3>1. /\ add_size \in [Ext -> Sizes \cup {0}] /\ DOMAIN ram = Ext
          /\ \A a \in Ext : ram[a] \in [0..(add_size[a] - 1) -> Cells]
      BY DEF TypeOK
    <3>2. ASSUME NEW a \in Ext
          PROVE  ram'[a] \in [0..(add_size'[a] - 1) -> Cells]
      <4>1. CASE a = i
        <5>1. ram'[a] = bytes /\ add_size'[a] = size
          BY <2>4, <3>1, <4>1
        <5> QED
          BY <2>3, <5>1
      <4>2. CASE a # i
        <5>1. ram'[a] = ram[a] /\ add_size'[a] = add_size[a]
          BY <2>4, <3>1, <4>2
        <5> QED
          BY <3>1, <5>1
      <4> QED
        BY <4>1, <4>2
    <3> QED
      BY <2>2, <2>4, <3>1, <3>2
  <2>6. total' \in Addresses /\ before' \in [0..NUM_APPS -> Nat]
    <3>1. size \in Nat /\ total \in Addresses
      BY <2>2 DEF TypeOK
    <3>2. total' \in Addresses
      BY <2>4, <3>1, U16Type DEF Addresses
    <3> QED
      BY <2>1, <2>4, <3>1, <3>2 DEF TypeOK
  <2>7. i' \in 0..NUM_APPS
    BY <1>5, <2>1 DEF Collect
  <2> QED
    BY <1>5, <2>5, <2>6, <2>7 DEF Collect, TypeOK, watch, args, history
<1>6. CASE Refuse
  BY <1>6, ReturnType, LocalsAtRest DEF Refuse, TypeOK, watch, history
<1>7. CASE Distribute
  <2>1. /\ unused' \in Addresses /\ dist' \in Nat /\ overfull' \in BOOLEAN
        /\ db_end' \in Addresses /\ pc' = "place" /\ i' = 0
    BY <1>7, LeftType, CodeStart DEF Distribute, TypeOK, Addresses
  <2> QED
    BY <1>7, <2>1 DEF Distribute, TypeOK, watch, args, reads
<1>8. CASE Place
  <2>1. /\ i \in Ext /\ i \in 0..(NUM_APPS - 1) /\ db_end \in Addresses
        /\ add_size[i] \in Nat /\ dist \in Nat /\ unused \in Addresses
    <3>1. i \in Ext /\ i \in 0..(NUM_APPS - 1)
      BY <1>8 DEF Place, Apps
    <3>2. add_size[i] \in Sizes \cup {0}
      BY <3>1 DEF TypeOK
    <3>3. db_end \in Addresses /\ dist \in Nat /\ unused \in Addresses
      BY DEF TypeOK
    <3> QED
      BY <3>1, <3>2, <3>3, SizesAreNumbers
  <2>2. hostAddr' \in [Ext -> Addresses]
    BY <1>8, <2>1 DEF Place, TypeOK
  <2>3. db_end' \in Addresses
    BY <1>8, <2>1, U16Type DEF Place, Addresses
  <2>4. i' \in 0..NUM_APPS
    BY <1>8, <2>1 DEF Place
  <2> QED
    BY <1>8, <2>2, <2>3, <2>4 DEF Place, TypeOK, watch, args, reads, history
<1>9. CASE WritePage
  <2>1. Chunk \in Nat /\ PageWritten \in [Addresses -> Cells]
    BY <1>9, PageType DEF WritePage
  <2>2. torn' \subseteq Ext /\ lost' \in BOOLEAN
    BY <1>9 DEF WritePage, Unsettle, TypeOK, Writing
  <2> QED
    BY <1>9, <2>1, <2>2 DEF WritePage, TypeOK, args, reads, sums
<1>10. CASE Written
  <2>1. CASE pc = "inplace" /\ Succeed
    BY <1>10, <2>1, SucceedType DEF Written, watch, TypeOK
  <2>2. CASE pc = "move" /\ ~(pc = "inplace" /\ Succeed)
    <3>1. i' = i + 1 /\ i \in Ext /\ off' = 0
      BY <1>10, <2>2 DEF Written, target
    <3>2. i' \in 0..NUM_APPS
      BY <3>1 DEF Apps
    <3> QED
      BY <1>10, <2>2, <3>1, <3>2
      DEF Written, TypeOK, watch, args, reads, sums
  <2> QED
    BY <1>10, <2>1, <2>2 DEF Written
<1>11. CASE NextPhase
  BY <1>11 DEF NextPhase, TypeOK, watch, args, reads, sums, history
<1>12. CASE UpdateAcb
  <2>1. devAddr' \in [Ext -> Addresses]
    BY <1>12 DEF UpdateAcb, AcbWritten, TypeOK
  <2>2. CASE Succeed
    BY <1>12, <2>1, <2>2, SucceedType DEF UpdateAcb
  <2>3. CASE off < LastAcbPage /\ ~Succeed
    BY <1>12, <2>1, <2>3 DEF UpdateAcb, TypeOK, args, reads, sums
  <2> QED
    BY <1>12, <2>2, <2>3 DEF UpdateAcb
<1>13. CASE CommandFails
  <2>1. /\ eeprom' \in [Addresses -> Cells] /\ devAddr' \in [Ext -> Addresses]
        /\ torn' \subseteq Ext /\ lost' \in BOOLEAN
    <3>1. CASE UNCHANGED <<watch, torn, lost>>
      BY <3>1 DEF watch, TypeOK
    <3>2. CASE /\ Writing /\ target \in Ext /\ off < SizeOf(target)
               /\ eeprom' \in {eeprom, PageWritten}
               /\ Unsettle
               /\ UNCHANGED devAddr
      BY <3>2, PageType DEF Unsettle, Writing, TypeOK
    <3>3. CASE /\ devAddr' \in {devAddr, AcbWritten}
               /\ UNCHANGED <<eeprom, torn, lost>>
      BY <3>3 DEF AcbWritten, TypeOK
    <3> QED
      BY <1>13, <3>1, <3>2, <3>3 DEF CommandFails
  <2>2. Return(-1) /\ UNCHANGED <<hostAddr, loads, stored, overfull>>
    BY <1>13 DEF CommandFails
  <2> QED
    BY <2>1, <2>2, ReturnType, LocalsAtRest DEF TypeOK
<1>14. CASE UNCHANGED vars
  BY <1>14 DEF TypeOK, vars, watch, locals, args, reads, sums, history
<1> QED
  BY <1>1, <1>2, <1>3, <1>4, <1>5, <1>6, <1>7, <1>8, <1>9, <1>10, <1>11,
     <1>12, <1>13, <1>14 DEF Next, Run

LEMMA TypeInit == Init => TypeOK
<1> SUFFICES ASSUME Init PROVE TypeOK
  OBVIOUS
<1>1. PICK first \in {f \in [Ext -> [app : Ext, ver : {0}, size : InitSizes]] :
                          \A a \in Ext : f[a].app = a},
           addr \in [Ext -> DB_START..code_start] :
         /\ devAddr = addr
         /\ stored = first
         /\ eeprom = [x \in Addresses |->
               IF \E a \in Ext : x - addr[a] \in 0..(first[a].size - 1)
               THEN LET a == CHOOSE a \in Ext :
                                x - addr[a] \in 0..(first[a].size - 1)
                    IN [add |-> first[a], off |-> x - addr[a]]
               ELSE BlankCell]
  BY DEF Init
<1>2. devAddr \in [Ext -> Addresses] /\ hostAddr = devAddr
  BY <1>1, CodeStart DEF Init, Addresses
<1>3. \A a \in Ext : first[a] \in Adds
  <2>1. first \in [Ext -> [app : Ext, ver : {0}, size : InitSizes]]
    OBVIOUS
  <2>2. \A a \in Ext : first[a] \in [app : Ext, ver : {0}, size : InitSizes]
    BY <2>1
  <2>3. 0 \in 0..MaxLoads /\ InitSizes \subseteq Sizes
    OBVIOUS
  <2> QED
    BY <2>2, <2>3 DEF Adds
<1>4. stored \in [Ext -> Adds]
  BY <1>1, <1>3
<1>5. eeprom \in [Addresses -> Cells]
  <2>1. BlankCell \in Cells
    BY DEF BlankCell, Cells
  <2>2. ASSUME NEW x \in Addresses,
               \E a \in Ext : x - addr[a] \in 0..(first[a].size - 1)
        PROVE  LET a == CHOOSE a \in Ext :
                           x - addr[a] \in 0..(first[a].size - 1)
               IN [add |-> first[a], off |-> x - addr[a]] \in Cells
    <3> DEFINE b == CHOOSE a \in Ext : x - addr[a] \in 0..(first[a].size - 1)
    <3>1. b \in Ext /\ x - addr[b] \in 0..(first[b].size - 1)
      BY <2>2
    <3> HIDE DEF b
    <3>2. [add |-> first[b], off |-> x - addr[b]] \in Cells
      BY <3>1, <1>3 DEF Cells
    <3> QED
      BY <3>2 DEF b
  <2> QED
    BY <1>1, <2>1, <2>2
<1>6. /\ pc = "idle" /\ idx = -1 /\ data = Blank /\ i = 0 /\ off = 0
      /\ ram = NoAdds /\ add_size = NoSizes /\ before = NothingBefore
      /\ total = 0 /\ unused = 0 /\ dist = 0 /\ db_end = 0
      /\ result = 1 /\ loads = 0
      /\ torn = {} /\ lost = FALSE /\ overfull = FALSE
  BY DEF Init
<1>7. /\ add_size \in [Ext -> Sizes \cup {0}] /\ DOMAIN ram = Ext
      /\ \A a \in Ext : ram[a] \in [0..(add_size[a] - 1) -> Cells]
      /\ before \in [0..NUM_APPS -> Nat]
      /\ total \in Addresses /\ unused \in Addresses /\ dist \in Nat
      /\ db_end \in Addresses /\ i \in 0..NUM_APPS /\ off \in Nat
      /\ loads \in 0..MaxLoads
  BY <1>6, LocalsAtRest
<1> QED
  BY <1>2, <1>4, <1>5, <1>6, <1>7 DEF TypeOK

\* Every variable keeps its type: in particular the indices of all loops stay
\* within the tables and every address within 16 bits.
THEOREM TypeCorrect == Spec => []TypeOK
  BY TypeInit, TypeStep, PTL DEF Spec

-----------------------------------------------------------------------------
(* Placing the ADDs *)

\* An application's index is a number.
LEMMA IndexType == \A a \in Ext : a \in 0..(NUM_APPS - 1) /\ a \in Nat /\ a < NUM_APPS
<1>1. \A a \in Ext : a \in Apps
  OBVIOUS
<1>2. \A a \in Apps : a \in 0..(NUM_APPS - 1) /\ a \in Nat /\ a < NUM_APPS
  BY DEF Apps
<1> QED
  BY <1>1, <1>2

\* How many ADDs stand below an index.
LEMMA RankType == \A n \in Nat : rank(n) \in Nat /\ rank(n) <= Cardinality(Ext)
<1> SUFFICES ASSUME NEW n \in Nat
             PROVE  rank(n) \in Nat /\ rank(n) <= Cardinality(Ext)
  OBVIOUS
<1>1. {b \in Ext : b < n} \in SUBSET Ext
  OBVIOUS
<1> QED
  BY <1>1, ExtFinite, FS_Subset, FS_CardinalityType DEF rank

LEMMA NoneBelowZero == \A b \in Ext : ~(b < 0)
  BY IndexType

LEMMA RankZero == rank(0) = 0
<1>1. \A b \in Ext : ~(b < 0)
  BY NoneBelowZero
<1>2. {b \in Ext : b < 0} = {}
  BY <1>1
<1> QED
  BY <1>2, FS_EmptySet DEF rank

LEMMA RankStep ==
  \A n \in Nat : rank(n + 1) = rank(n) + (IF n \in Ext THEN 1 ELSE 0)
<1> SUFFICES ASSUME NEW n \in Nat
             PROVE  rank(n + 1) = rank(n) + (IF n \in Ext THEN 1 ELSE 0)
  OBVIOUS
<1> DEFINE Below(m) == {b \in Ext : b < m}
<1>1. IsFiniteSet(Below(n)) /\ n \notin Below(n)
  BY ExtFinite, FS_Subset
<1>2. Below(n + 1) = IF n \in Ext THEN Below(n) \cup {n} ELSE Below(n)
  <2>1. \A b \in Ext : b < n + 1 <=> b < n \/ b = n
    BY IndexType
  <2> QED
    BY <2>1
<1>3. Cardinality(Below(n) \cup {n}) = Cardinality(Below(n)) + 1
  BY <1>1, FS_AddElement
<1>4. Cardinality(Below(n)) \in Nat
  BY <1>1, FS_CardinalityType
<1>5. rank(n) = Cardinality(Below(n)) /\ rank(n + 1) = Cardinality(Below(n + 1))
  BY DEF rank
<1> HIDE DEF Below
<1>6. CASE n \in Ext
  BY <1>2, <1>3, <1>5, <1>6
<1>7. CASE n \notin Ext
  BY <1>2, <1>4, <1>5, <1>7
<1> QED
  BY <1>6, <1>7

LEMMA RankMonotonic == \A m, n \in Nat : m <= n => rank(m) <= rank(n)
<1> SUFFICES ASSUME NEW m \in Nat, NEW n \in Nat, m <= n
             PROVE  rank(m) <= rank(n)
  OBVIOUS
<1>1. {b \in Ext : b < m} \in SUBSET {b \in Ext : b < n}
  <2>1. \A b \in Ext : b < m => b < n
    BY IndexType
  <2> QED
    BY <2>1
<1>2. IsFiniteSet({b \in Ext : b < n})
  BY ExtFinite, FS_Subset
<1> QED
  BY <1>1, <1>2, FS_Subset DEF rank

\* Multiplication of natural numbers: one factor more, and monotonicity.
LEMMA OneMore == \A k, d \in Nat : (k + 1) * d = k * d + d /\ k * d \in Nat
  OBVIOUS

LEMMA TimesMonotonic ==
  ASSUME NEW k \in Nat, NEW l \in Nat, NEW d \in Nat, k <= l
  PROVE  k * d <= l * d
<1>1. PICK e \in Nat : l = k + e
  <2>1. l - k \in Nat /\ l = k + (l - k)
    OBVIOUS
  <2> QED
    BY <2>1
<1>2. l * d = k * d + e * d
  BY <1>1
<1>3. e * d \in Nat /\ k * d \in Nat
  OBVIOUS
<1> QED
  BY <1>2, <1>3

\* The unused memory in front of an index grows with it, up to all of it.
LEMMA GapMonotonic ==
  ASSUME dist \in Nat, unused \in Nat, idx \in Nat,
         NEW m \in Nat, NEW n \in Nat, m <= n
  PROVE  gap(m) \in Nat /\ gap(n) \in Nat /\ gap(m) <= gap(n)
<1>1. rank(m) \in Nat /\ rank(n) \in Nat /\ rank(m) <= rank(n)
  BY RankType, RankMonotonic
<1>2. rank(m) * dist <= rank(n) * dist
  BY <1>1, TimesMonotonic
<1>3. rank(m) * dist \in Nat /\ rank(n) * dist \in Nat
  BY <1>1, OneMore
<1> QED
  BY <1>2, <1>3 DEF gap

\* One ADD further, one share more; the only one is that of idx when there is
\* not enough for all.
LEMMA GapStep ==
  ASSUME dist \in Nat, unused \in Nat, idx \in Ext, NEW n \in Nat
  PROVE  /\ n \in Ext => gap(n + 1) = gap(n) + (IF dist # 0 THEN dist
                                   ELSE IF n = idx THEN unused ELSE 0)
         /\ n \notin Ext => gap(n + 1) = gap(n)
<1>1. idx \in Nat
  BY IndexType
<1>2. rank(n) \in Nat /\ rank(n + 1) = rank(n) + (IF n \in Ext THEN 1 ELSE 0)
  BY RankType, RankStep
<1>3. (rank(n) + 1) * dist = rank(n) * dist + dist /\ rank(n) * dist \in Nat
  BY <1>2, OneMore
<1>4. n + 1 > idx <=> n > idx \/ n = idx
  BY <1>1
<1>5. CASE n \in Ext
  BY <1>1, <1>2, <1>3, <1>4, <1>5 DEF gap
<1>6. CASE n \notin Ext
  <2>1. n # idx /\ rank(n + 1) = rank(n)
    BY <1>2, <1>6
  <2> QED
    BY <1>4, <1>6, <2>1 DEF gap
<1> QED
  BY <1>5, <1>6

LEMMA GapBound ==
  ASSUME dist \in Nat, unused \in Nat, Cardinality(Ext) * dist <= unused,
         NEW n \in Nat
  PROVE  gap(n) <= unused
<1>1. rank(n) \in Nat /\ rank(n) <= Cardinality(Ext) /\ Cardinality(Ext) \in Nat
  BY RankType, ExtFinite
<1>2. rank(n) * dist <= Cardinality(Ext) * dist
  BY <1>1, TimesMonotonic
<1>3. rank(n) * dist \in Nat /\ Cardinality(Ext) * dist \in Nat
  BY <1>1, OneMore
<1> QED
  BY <1>2, <1>3 DEF gap

-----------------------------------------------------------------------------

\* One more term in the sums keeps them right.
LEMMA SumGrows ==
  ASSUME before \in [0..NUM_APPS -> Nat], NEW k \in 0..(NUM_APPS - 1),
         NEW s \in Nat, before' = [before EXCEPT ![k + 1] = before[k] + s],
         \A m, n \in 0..NUM_APPS : m <= n /\ n <= k => before[m] <= before[n]
  PROVE  /\ before'[k + 1] = before[k] + s
         /\ \A n \in 0..k : before'[n] = before[n] /\ before[n] \in Nat
         /\ \A m, n \in 0..NUM_APPS :
               m <= n /\ n <= k + 1 => before'[m] <= before'[n]
<1>1. k + 1 \in 0..NUM_APPS
  OBVIOUS
<1>2. before'[k + 1] = before[k] + s
  BY <1>1
<1>3. \A n \in 0..k : before'[n] = before[n] /\ before[n] \in Nat
  BY <1>1
<1>4. ASSUME NEW m \in 0..NUM_APPS, NEW n \in 0..NUM_APPS, m <= n, n <= k + 1
      PROVE  before'[m] <= before'[n]
  <2>1. CASE n <= k
    BY <1>3, <1>4, <2>1
  <2>2. CASE n = k + 1 /\ m <= k
    <3>1. m \in 0..k /\ k \in 0..NUM_APPS
      BY <2>2
    <3>2. before'[m] = before[m] /\ before[m] <= before[k] /\ before[m] \in Nat
          /\ before[k] \in Nat
      BY <1>3, <3>1
    <3> QED
      BY <1>2, <2>2, <3>2
  <2>3. CASE n = k + 1 /\ m = k + 1
    BY <1>2, <1>3, <2>3
  <2> QED
    BY <1>4, <2>1, <2>2, <2>3
<1> QED
  BY <1>2, <1>3, <1>4

LEMMA AtRestStep == TypeOK /\ AtRest /\ [Next]_vars => AtRest'
<1> SUFFICES ASSUME TypeOK, AtRest, [Next]_vars, pc' \in {"idle", "start", "ended"}
             PROVE  i' = 0 /\ total' = 0 /\ before'[0] = 0
  BY DEF AtRest
<1>1. CASE StartSession \/ Load
  BY <1>1 DEF StartSession, Load, AtRest, locals, reads, sums
<1>2. CASE UNCHANGED vars
  BY <1>2 DEF AtRest, vars, locals, reads, sums
<1>3. CASE \E r \in {-1, 0} : Return(r)
  BY <1>3, ReturnType, LocalsAtRest
<1>4. CASE Run /\ ~\E r \in {-1, 0} : Return(r)
  <2>1. pc' \notin {"idle", "start", "ended"}
    BY <1>4 DEF Run, Start, Skip, SkipTo, Collect, Refuse, Distribute, Place,
       WritePage, Written, NextPhase, UpdateAcb, CommandFails, Succeed, Writing
  <2> QED
    BY <2>1
<1> QED
  BY <1>1, <1>2, <1>3, <1>4 DEF Next

\* The sums.
LEMMA SumsStep ==
  TypeOK /\ TypeOK' /\ AtRest /\ SumsRight /\ [Next]_vars => SumsRight'
<1> DEFINE Loops == {"read", "place", "move", "acb"}
<1> SUFFICES ASSUME TypeOK, TypeOK', AtRest, SumsRight, [Next]_vars, pc' \in Loops
             PROVE  SumsRight'
  BY DEF SumsRight
<1>0. /\ before \in [0..NUM_APPS -> Nat] /\ i \in 0..NUM_APPS
      /\ add_size \in [Ext -> Sizes \cup {0}]
  BY DEF TypeOK
<1>1. CASE Start
  <2>1. pc' = "read" /\ i' = 0 /\ total' = 0 /\ before'[0] = 0
    BY <1>1 DEF Start, AtRest, locals, reads, sums
  <2>2. before' \in [0..NUM_APPS -> Nat]
    BY DEF TypeOK
  <2> QED
    BY <2>1, <2>2 DEF SumsRight, covered
<1>2. CASE pc = "read" /\ (Skip \/ Collect)
  <2> DEFINE s == IF i \in Ext THEN add_size'[i] ELSE 0
  <2>1. /\ i \in 0..(NUM_APPS - 1) /\ i' = i + 1 /\ pc' = "read"
        /\ s \in Nat
        /\ before' = [before EXCEPT ![i + 1] = before[i] + s]
        /\ \A a \in Ext \ {i} : add_size'[a] = add_size[a]
        /\ total' = U16(total + s)
    <3>1. CASE Skip
      <4>1. /\ i \in Apps /\ i \notin Ext /\ i' = i + 1 /\ pc' = "read"
            /\ before' = [before EXCEPT ![i + 1] = before[i]]
            /\ add_size' = add_size /\ total' = total
        BY <1>2, <3>1 DEF Skip, SkipTo, sums
      <4>2. total \in Addresses /\ total + 0 = total
        BY DEF TypeOK, Addresses
      <4>3. i \in 0..(NUM_APPS - 1) /\ before[i] + 0 = before[i]
        BY <1>0, <4>1 DEF Apps
      <4> QED
        BY <4>1, <4>2, <4>3, U16Exact
    <3>2. CASE Collect
      <4>1. i \in Ext /\ i' = i + 1 /\ pc' = "read"
        BY <1>2, <3>2 DEF Collect
      <4>2. i \in 0..(NUM_APPS - 1)
        BY <4>1, IndexType
      <4>3. add_size'[i] \in Nat
        <5>1. add_size'[i] \in Sizes \cup {0}
          BY <4>1 DEF TypeOK
        <5> QED
          BY <5>1, SizesAreNumbers
      <4>4. PICK z : /\ add_size' = [add_size EXCEPT ![i] = z]
                     /\ total' = U16(total + z)
                     /\ before' = [before EXCEPT ![i + 1] = before[i] + z]
        BY <3>2 DEF Collect
      <4>5. add_size'[i] = z /\ \A a \in Ext \ {i} : add_size'[a] = add_size[a]
        BY <1>0, <4>1, <4>4
      <4> QED
        BY <4>1, <4>2, <4>3, <4>4, <4>5
    <3> QED
      BY <1>2, <3>1, <3>2
  <2>2. covered = i /\ covered' = i + 1
    BY <1>2, <2>1 DEF covered
  <2> HIDE DEF s
  <2>3. /\ before'[i + 1] = before[i] + s
        /\ \A n \in 0..i : before'[n] = before[n] /\ before[n] \in Nat
        /\ \A m, n \in 0..NUM_APPS :
              m <= n /\ n <= i + 1 => before'[m] <= before'[n]
    BY <1>0, <1>2, <2>1, <2>2, SumGrows DEF SumsRight
  <2>4. ASSUME NEW n \in 0..(NUM_APPS - 1), n < i + 1
        PROVE  before'[n + 1]
                  = before'[n] + (IF n \in Ext THEN add_size'[n] ELSE 0)
    <3>1. CASE n = i
      BY <2>1, <2>3, <3>1 DEF s
    <3>2. CASE n < i
      <4>1. before[n + 1] = before[n] + (IF n \in Ext THEN add_size[n] ELSE 0)
        BY <1>2, <2>2, <3>2 DEF SumsRight
      <4>2. before'[n + 1] = before[n + 1] /\ before'[n] = before[n]
        BY <1>0, <2>3, <3>2
      <4>3. n \in Ext => add_size'[n] = add_size[n]
        BY <2>1, <3>2
      <4> QED
        BY <4>1, <4>2, <4>3
    <3> QED
      BY <1>0, <2>4, <3>1, <3>2
  <2>5. before'[0] = 0
    BY <1>0, <1>2, <2>3 DEF SumsRight
  <2>6. before'[i + 1] < Word => total' = before'[i + 1]
    <3>1. ASSUME before'[i + 1] < Word PROVE total' = before'[i + 1]
      <4>1. before[i] < Word /\ before[i] \in Nat
        BY <1>0, <2>1, <2>3, <3>1, CodeStart
      <4>2. total = before[i]
        BY <1>2, <4>1 DEF SumsRight
      <4>3. total + s \in Addresses
        BY <2>1, <2>3, <3>1, <4>1, <4>2, CodeStart DEF Addresses
      <4> QED
        BY <2>1, <2>3, <4>2, <4>3, U16Exact
    <3> QED
      BY <3>1
  <2> QED
    BY <2>1, <2>2, <2>3, <2>4, <2>5, <2>6 DEF SumsRight
<1>3. CASE Distribute
  <2>1. /\ pc = "read" /\ i = NUM_APPS /\ pc' = "place"
        /\ before' = before /\ add_size' = add_size
    BY <1>3 DEF Distribute, reads
  <2>2. covered = NUM_APPS /\ covered' = NUM_APPS
    BY <2>1 DEF covered
  <2> QED
    BY <2>1, <2>2 DEF SumsRight
<1>4. CASE \/ pc # "read" /\ Skip
           \/ Place \/ WritePage \/ Written \/ NextPhase \/ UpdateAcb
           \/ UNCHANGED vars
  <2>1. /\ pc \in Loops /\ before' = before /\ add_size' = add_size
        /\ i' = i \/ pc # "read"
        /\ total' = total \/ pc # "read"
        /\ pc = "read" <=> pc' = "read"
    <3>1. CASE pc # "read" /\ Skip
      BY <3>1 DEF Skip, SkipTo
    <3>2. CASE Place \/ WritePage \/ NextPhase
      BY <3>2 DEF Place, WritePage, Writing, NextPhase, reads, sums
    <3>3. CASE Written \/ UpdateAcb
      BY <3>3 DEF Written, Writing, UpdateAcb, Succeed, Return, reads, sums
    <3>4. CASE UNCHANGED vars
      BY <3>4 DEF vars, locals, reads, sums
    <3> QED
      BY <1>4, <3>1, <3>2, <3>3, <3>4
  <2>2. covered' = covered
    BY <2>1 DEF covered
  <2> QED
    BY <2>1, <2>2 DEF SumsRight
<1>5. CASE StartSession \/ Load \/ Refuse \/ CommandFails
  BY <1>5 DEF StartSession, Load, Refuse, CommandFails, Return
<1> QED
  BY <1>1, <1>2, <1>3, <1>4, <1>5 DEF Next, Run, Collect

\* A step out of the loops after the sums, or one within them that keeps
\* what was laid down before.
LEMMA LaterLoops ==
  ASSUME TypeOK, [Next]_vars, pc' \in {"place", "move", "acb"}, ~Distribute
  PROVE  /\ pc \in {"place", "move", "acb"}
         /\ UNCHANGED <<before, unused, dist, idx, overfull, add_size>>
         /\ \/ Place
            \/ pc = "place" /\ Skip
            \/ /\ UNCHANGED <<hostAddr, db_end>> /\ placed' = placed
               /\ pc' = "place" => pc = "place" /\ i' = i
<1>1. CASE Place
  BY <1>1 DEF Place, args, reads, history
<1>2. CASE Skip
  BY <1>2 DEF Skip, SkipTo, sums, args, placed, history
<1>3. CASE WritePage
  BY <1>3 DEF WritePage, Writing, args, reads, sums, placed
<1>4. CASE Written
  BY <1>4 DEF Written, Writing, Succeed, Return, args, reads, sums, watch, placed
<1>5. CASE NextPhase
  BY <1>5 DEF NextPhase, args, reads, sums, history, placed
<1>6. CASE UpdateAcb
  BY <1>6 DEF UpdateAcb, Succeed, Return, args, reads, sums, placed
<1>7. CASE UNCHANGED vars
  BY <1>7 DEF vars, locals, args, reads, sums, history, placed
<1>8. CASE StartSession \/ Load \/ Start \/ Collect \/ Refuse \/ CommandFails
  BY <1>8 DEF StartSession, Load, Start, Collect, Refuse, CommandFails, Return
<1> QED
  BY <1>1, <1>2, <1>3, <1>4, <1>5, <1>6, <1>7, <1>8 DEF Next, Run

\* What the ADDs leave over is what there is without them; no sum overflows.
LEMMA SharedStep ==
  TypeOK /\ SumsRight /\ Shared /\ [Next]_vars => Shared'
<1> SUFFICES ASSUME TypeOK, SumsRight, Shared, [Next]_vars,
                    pc' \in {"place", "move", "acb"}, ~overfull'
             PROVE  /\ before'[NUM_APPS] + unused' <= avail
                    /\ Cardinality(Ext) * dist' <= unused'
  BY DEF Shared, avail, code_start, U16
<1>1. CASE Distribute
  <2>1. /\ pc = "read" /\ i = NUM_APPS /\ before' = before
        /\ unused' = pages /\ dist' = share
        /\ ~(before[NUM_APPS] > avail)
    BY <1>1 DEF Distribute, reads
  <2>2. before[NUM_APPS] \in Nat /\ total \in Addresses
    BY DEF TypeOK
  <2>3. avail \in Addresses /\ before[NUM_APPS] < Word
    BY <2>1, <2>2, AvailExact DEF Addresses
  <2>4. total = before[NUM_APPS]
    BY <2>1, <2>3 DEF SumsRight
  <2>5. left = avail - total
    <3>1. avail - total \in Addresses
      BY <2>1, <2>2, <2>3, <2>4 DEF Addresses
    <3> QED
      BY <3>1, U16Exact DEF left
  <2>6. /\ left \in Addresses /\ pages \in Addresses /\ pages <= left
        /\ Cardinality(Ext) * share <= pages
    BY <2>2, LeftType
  <2> QED
    BY <2>1, <2>2, <2>3, <2>4, <2>5, <2>6 DEF Addresses
<1>2. CASE ~Distribute
  BY <1>2, LaterLoops DEF Shared
<1> QED
  BY <1>1, <1>2

\* Each ADD's place is where the ADDs below it and their shares end.
LEMMA PlacementStep ==
  TypeOK /\ PlacingInv /\ [Next]_vars => Placement'
<1> SUFFICES ASSUME TypeOK, PlacingInv, [Next]_vars,
                    pc' \in {"place", "move", "acb"}, ~overfull'
             PROVE  /\ \A a \in Ext : a < placed' =>
                          hostAddr'[a] = DB_START + before'[a] + gap(a)'
                    /\ pc' = "place" => db_end' = DB_START + before'[i'] + gap(i)'
  BY DEF Placement
<1>0. PlacingInv => SumsRight /\ Shared /\ Placement
  BY DEF PlacingInv
<1>1. CASE Distribute
  <2>1. /\ pc = "read" /\ pc' = "place" /\ i' = 0 /\ db_end' = DB_START
        /\ before' = before /\ idx' = idx
        /\ dist' = share
    BY <1>1 DEF Distribute, reads, args
  <2>2. before[0] = 0
    BY <1>0, <2>1 DEF SumsRight
  <2>3. gap(i)' = 0
    <3>1. idx \in Nat /\ share \in Nat
      BY <2>1, IndexType, LeftType DEF TypeOK
    <3>2. rank(i)' = 0
      BY <2>1, RankZero DEF rank
    <3> QED
      BY <2>1, <3>1, <3>2 DEF gap
  <2>4. \A a \in Ext : ~(a < placed')
    <3>1. placed' = 0
      BY <2>1 DEF placed
    <3> QED
      BY <3>1, NoneBelowZero
  <2> QED
    BY <2>1, <2>2, <2>3, <2>4
<1>2. CASE ~Distribute
  <2>1. /\ pc \in {"place", "move", "acb"} /\ ~overfull
        /\ UNCHANGED <<before, unused, dist, idx, add_size>>
    BY <1>2, LaterLoops
  <2>2. /\ before[NUM_APPS] + unused <= avail
        /\ Cardinality(Ext) * dist <= unused
        /\ dist \in Nat /\ unused \in Nat /\ idx \in Ext /\ idx \in Nat
        /\ before \in [0..NUM_APPS -> Nat] /\ i \in 0..NUM_APPS
    <3>1. /\ dist \in Nat /\ unused \in Nat /\ idx \in Ext
          /\ before \in [0..NUM_APPS -> Nat] /\ i \in 0..NUM_APPS
      BY <2>1 DEF TypeOK, Addresses
    <3>2. /\ before[NUM_APPS] + unused <= avail
          /\ Cardinality(Ext) * dist <= unused
      BY <1>0, <2>1 DEF Shared
    <3> QED
      BY <3>1, <3>2, IndexType
  <2>3. \A a \in Ext : gap(a)' = gap(a)
    BY <2>1 DEF gap, rank
  <2>4. \A a \in Ext : a < placed =>
            hostAddr[a] = DB_START + before[a] + gap(a)
    BY <1>0, <2>1 DEF Placement
  <2>5. CASE /\ UNCHANGED <<hostAddr, db_end>> /\ placed' = placed
             /\ pc' = "place" => pc = "place" /\ i' = i
    <3>1. ASSUME pc' = "place" PROVE db_end' = DB_START + before'[i'] + gap(i)'
      <4>1. pc = "place" /\ i' = i /\ db_end' = db_end
        BY <2>5, <3>1
      <4>2. db_end = DB_START + before[i] + gap(i)
        BY <1>0, <2>1, <4>1 DEF Placement
      <4>3. gap(i)' = gap(i)
        BY <2>1, <4>1 DEF gap, rank
      <4> QED
        BY <2>1, <4>1, <4>2, <4>3
    <3> QED
      BY <2>1, <2>3, <2>4, <2>5, <3>1
  <2>6. CASE Place
    <3>1. /\ pc = "place" /\ pc' = "place" /\ i \in Ext /\ i' = i + 1
          /\ hostAddr' = [hostAddr EXCEPT ![i] = db_end]
          /\ db_end' = U16(db_end + add_size[i]
                           + IF dist # 0 THEN dist
                             ELSE IF i = idx THEN unused ELSE 0)
      BY <2>6 DEF Place
    <3>2. /\ i \in 0..(NUM_APPS - 1) /\ i \in Nat
          /\ hostAddr \in [Ext -> Addresses]
      BY <3>1, IndexType DEF TypeOK
    <3>3. db_end = DB_START + before[i] + gap(i)
      BY <1>0, <2>1, <3>1 DEF Placement
    <3>4. gap(i + 1) = gap(i) + (IF dist # 0 THEN dist
                                 ELSE IF i = idx THEN unused ELSE 0)
      BY <2>2, <3>1, <3>2, GapStep
    <3>5. /\ before[i + 1] = before[i] + add_size[i]
          /\ before[i + 1] <= before[NUM_APPS]
          /\ before[i] \in Nat /\ before[i + 1] \in Nat
          /\ before[NUM_APPS] \in Nat
      <4>1. /\ i + 1 \in 0..NUM_APPS /\ NUM_APPS \in 0..NUM_APPS
            /\ covered = NUM_APPS
        BY <3>1, <3>2 DEF covered
      <4> QED
        BY <1>0, <2>2, <3>1, <3>2, <4>1 DEF SumsRight
    <3>6. gap(i) \in Nat /\ gap(i + 1) \in Nat /\ gap(i + 1) <= unused
      <4>1. i + 1 \in Nat /\ i <= i + 1
        BY <3>2
      <4>2. gap(i) \in Nat /\ gap(i + 1) \in Nat
        BY <2>2, <3>2, <4>1, GapMonotonic
      <4>3. gap(i + 1) <= unused
        BY <2>2, <4>1, GapBound
      <4> QED
        BY <4>2, <4>3
    <3>7. add_size[i] \in Nat
      <4>1. add_size[i] \in Sizes \cup {0}
        BY <3>1 DEF TypeOK
      <4> QED
        BY <4>1, SizesAreNumbers
    <3>8. db_end' = DB_START + before[i + 1] + gap(i + 1)
      <4> DEFINE d == IF dist # 0 THEN dist ELSE IF i = idx THEN unused ELSE 0
      <4>0. d \in Nat /\ gap(i + 1) = gap(i) + d
            /\ db_end' = U16(db_end + add_size[i] + d)
        BY <2>2, <3>1, <3>4
      <4> HIDE DEF d
      <4>1. DB_START + before[i + 1] + gap(i + 1) \in Addresses
        <5>1. /\ avail = code_start - DB_START /\ code_start < Word
              /\ code_start \in Nat /\ DB_START \in Nat /\ Word \in Nat
          BY AvailExact, CodeStart, CodeAssumption
        <5>2. before[i + 1] + gap(i + 1) <= avail
          BY <2>2, <3>5, <3>6, <5>1
        <5> QED
          BY <3>5, <3>6, <5>1, <5>2 DEF Addresses
      <4>2. db_end + add_size[i] + d = DB_START + before[i + 1] + gap(i + 1)
        BY <3>3, <3>5, <3>6, <3>7, <4>0
      <4> QED
        BY <4>0, <4>1, <4>2, U16Exact
    <3>9. ASSUME NEW a \in Ext, a < placed'
          PROVE  hostAddr'[a] = DB_START + before'[a] + gap(a)'
      <4>1. a \in Nat /\ a < i + 1 /\ (a < i => a < placed)
        BY <3>1, <3>9, IndexType DEF placed
      <4>2. CASE a = i
        BY <2>1, <2>3, <3>1, <3>2, <3>3, <4>2
      <4>3. CASE a < i
        BY <2>1, <2>3, <2>4, <3>1, <3>2, <4>1, <4>3
      <4> QED
        BY <3>2, <4>1, <4>2, <4>3
    <3>10. gap(i)' = gap(i + 1)
      BY <2>1, <3>1 DEF gap, rank
    <3> QED
      BY <2>1, <3>1, <3>8, <3>9, <3>10
  <2>7. CASE pc = "place" /\ Skip
    <3>1. /\ pc = "place" /\ pc' = "place" /\ i \notin Ext /\ i' = i + 1
          /\ hostAddr' = hostAddr /\ db_end' = db_end /\ i \in Apps
      BY <2>7 DEF Skip, SkipTo, sums
    <3>2. i \in 0..(NUM_APPS - 1) /\ i \in Nat
      BY <3>1 DEF Apps
    <3>3. db_end = DB_START + before[i] + gap(i)
      BY <1>0, <2>1, <3>1 DEF Placement
    <3>4. gap(i + 1) = gap(i)
      BY <2>2, <3>1, <3>2, GapStep
    <3>5. before[i + 1] = before[i]
      <4>1. before[i + 1] = before[i] + 0 /\ before[i] \in Nat
        BY <1>0, <2>2, <3>1, <3>2 DEF SumsRight, covered
      <4> QED
        BY <4>1
    <3>6. ASSUME NEW a \in Ext, a < placed' PROVE a < placed
      <4>1. placed' = i + 1 /\ placed = i
        BY <3>1 DEF placed
      <4>2. a \in Nat /\ a # i
        BY <3>1, IndexType
      <4> QED
        BY <3>2, <3>6, <4>1, <4>2
    <3>7. gap(i)' = gap(i + 1)
      BY <2>1, <3>1 DEF gap, rank
    <3> QED
      BY <2>1, <2>3, <2>4, <3>1, <3>3, <3>4, <3>5, <3>6, <3>7
  <2> QED
    BY <1>2, <2>5, <2>6, <2>7, LaterLoops
<1> QED
  BY <1>1, <1>2

LEMMA PlacingInit == Init => PlacingInv
  BY LocalsAtRest
  DEF Init, PlacingInv, AtRest, SumsRight, Shared, Placement

LEMMA PlacingStep == TypeOK /\ TypeOK' /\ PlacingInv /\ [Next]_vars => PlacingInv'
  BY AtRestStep, SumsStep, SharedStep, PlacementStep DEF PlacingInv

\* The arithmetic of the placement is what PlacedInOrder says of it.
LEMMA PlacingMeansInOrder == TypeOK /\ PlacingInv => PlacedInOrder
<1> SUFFICES ASSUME TypeOK, PlacingInv, pc \in {"move", "acb"}, ~overfull,
                    NEW a \in Ext
             PROVE  /\ DB_START <= hostAddr[a]
                    /\ hostAddr[a] + add_size[a] <= code_start
                    /\ \A b \in Ext :
                          a < b => hostAddr[a] + add_size[a] <= hostAddr[b]
  BY DEF PlacedInOrder
<1>1. /\ covered = NUM_APPS /\ placed = NUM_APPS
  BY DEF covered, placed
<1>2. /\ before[NUM_APPS] + unused <= avail
      /\ Cardinality(Ext) * dist <= unused
      /\ dist \in Nat /\ unused \in Nat /\ idx \in Nat
      /\ before \in [0..NUM_APPS -> Nat]
  <2>1. idx \in Ext /\ dist \in Nat /\ unused \in Addresses
        /\ before \in [0..NUM_APPS -> Nat]
    BY DEF TypeOK
  <2>2. idx \in Nat /\ unused \in Nat
    BY <2>1, IndexType DEF Addresses
  <2> QED
    BY <2>1, <2>2 DEF PlacingInv, Shared
<1>3. \A b \in Ext : hostAddr[b] = DB_START + before[b] + gap(b)
  BY <1>1, IndexType DEF PlacingInv, Placement
<1>4. /\ a \in 0..(NUM_APPS - 1) /\ a \in Nat /\ a + 1 \in 0..NUM_APPS
      /\ NUM_APPS \in 0..NUM_APPS
  BY IndexType
<1>5. add_size[a] \in Nat
  <2>1. add_size[a] \in Sizes \cup {0}
    BY DEF TypeOK
  <2> QED
    BY <2>1, SizesAreNumbers
<1>6. \A m, n \in 0..NUM_APPS : m <= n => before[m] <= before[n]
  BY <1>1 DEF PlacingInv, SumsRight
<1>7. before[a + 1] = before[a] + add_size[a]
  BY <1>1, <1>4 DEF PlacingInv, SumsRight
<1>8. gap(a) \in Nat /\ gap(a) <= unused
  BY <1>2, <1>4, GapMonotonic, GapBound
<1>9. /\ before[a] \in Nat /\ before[a + 1] \in Nat /\ before[NUM_APPS] \in Nat
      /\ before[a + 1] <= before[NUM_APPS]
  BY <1>2, <1>4, <1>6
<1>10. DB_START <= hostAddr[a]
  BY <1>3, <1>8, <1>9
<1>11. hostAddr[a] + add_size[a] <= code_start
  <2>1. avail = code_start - DB_START /\ code_start \in Nat /\ DB_START \in Nat
    BY AvailExact, CodeStart, CodeAssumption
  <2>2. before[a + 1] + gap(a) <= avail
    BY <1>2, <1>8, <1>9, <2>1
  <2>3. hostAddr[a] = DB_START + before[a] + gap(a)
    BY <1>3
  <2> QED
    BY <1>5, <1>7, <1>8, <1>9, <2>1, <2>2, <2>3
<1>12. ASSUME NEW b \in Ext, a < b
       PROVE  hostAddr[a] + add_size[a] <= hostAddr[b]
  <2>1. b \in 0..NUM_APPS /\ b \in Nat /\ a + 1 <= b
    BY <1>4, <1>12, IndexType
  <2>2. before[a + 1] <= before[b] /\ before[b] \in Nat
    BY <1>2, <1>4, <1>6, <2>1
  <2>3. gap(a) <= gap(b) /\ gap(b) \in Nat
    BY <1>2, <1>4, <1>12, <2>1, GapMonotonic
  <2> QED
    BY <1>3, <1>5, <1>7, <1>8, <1>9, <2>2, <2>3
<1> QED
  BY <1>10, <1>11, <1>12

\* In a relocation with room for all ADDs the new addresses keep them apart,
\* in the order of their indices, above DB_START and below the code, however
\* the unused memory is rounded and shared out.
THEOREM PlacesInOrder == Spec => []PlacedInOrder
<1>1. Spec => [](TypeOK /\ PlacingInv)
  <2>1. Init => TypeOK /\ PlacingInv
    BY TypeInit, PlacingInit
  <2>2. (TypeOK /\ PlacingInv) /\ [Next]_vars => (TypeOK /\ PlacingInv)'
    BY TypeStep, PlacingStep
  <2> QED
    BY <2>1, <2>2, PTL DEF Spec
<1> QED
  BY <1>1, PlacingMeansInOrder, PTL

-----------------------------------------------------------------------------
(* What is in memory during a load and after it: sizes, addresses, cells *)

\* What is added up in the following is numbers.
LEMMA Numbers ==
  ASSUME TypeOK
  PROVE  /\ \A a \in Ext : /\ devAddr[a] \in Nat /\ hostAddr[a] \in Nat
                           /\ devAddr[a] \in Addresses /\ hostAddr[a] \in Addresses
                           /\ add_size[a] \in Nat
                           /\ stored[a] \in Adds /\ stored[a].size \in Nat \ {0}
         /\ \A x \in Addresses : SizeAt(x) \in Nat
         /\ i \in Nat /\ off \in Nat
<1>1. \A a \in Ext : /\ devAddr[a] \in Addresses /\ hostAddr[a] \in Addresses
                     /\ add_size[a] \in Sizes \cup {0}
                     /\ stored[a] \in Adds
  BY DEF TypeOK
<1>2. \A d \in Adds : d.size \in Nat \ {0}
  BY SizesAssumption DEF Adds
<1>3. \A x \in Addresses : SizeAt(x) \in Sizes \cup {0}
  BY SizeAtType DEF TypeOK
<1>4. i \in Nat /\ off \in Nat
  BY DEF TypeOK
<1>5. \A x \in Addresses : x \in Nat
  BY DEF Addresses
<1> QED
  BY <1>1, <1>2, <1>3, <1>4, <1>5, SizesAreNumbers

\* The arguments of a call in progress.
LEMMA Arguments ==
  ASSUME TypeOK, pc \notin {"idle", "ended"}
  PROVE  /\ idx \in Ext /\ data \in Adds /\ data.app = idx
         /\ alloc_size \in Nat \ {0} /\ alloc_size = data.size
         /\ CODE_START + alloc_size < Word
<1>1. idx \in Ext /\ data \in Adds /\ data.app = idx
  BY DEF TypeOK
<1>2. data.size \in Sizes
  BY <1>1 DEF Adds
<1> QED
  BY <1>1, <1>2, SizesAssumption DEF alloc_size

\* The bytes of an ADD, one by one.
LEMMA BytesOf ==
  \A d : \A k \in 0..(d.size - 1) : Bytes(d)[k] = [add |-> d, off |-> k]
  BY DEF Bytes

\* The distance of two addresses, computed modulo Word.
LEMMA U16Distance ==
  ASSUME NEW x \in Addresses, NEW h \in Addresses
  PROVE  U16(x - h) = IF x >= h THEN x - h ELSE x - h + Word
<1>1. /\ Word \in Nat \ {0} /\ x \in Nat /\ h \in Nat
      /\ x < Word /\ h < Word
  BY CodeStart DEF Addresses
<1>2. CASE x >= h
  <2>1. x - h \in Addresses
    BY <1>1, <1>2 DEF Addresses
  <2> QED BY <1>2, <2>1, U16Exact
<1>3. CASE x < h
  <2>1. x - h + Word \in 0..(Word - 1) /\ x - h = (-1) * Word + (x - h + Word)
    BY <1>1, <1>3
  <2>2. (x - h) % Word = x - h + Word
    BY <1>1, <2>1
  <2> QED BY <1>1, <1>3, <2>2 DEF U16
<1> QED
  BY <1>1, <1>2, <1>3

\* A write command changes the bytes from off on at the target's address, and
\* no others.
LEMMA PageCells ==
  ASSUME TypeOK, Writing, target \in Ext, off < SizeOf(target),
         hostAddr[target] + SizeOf(target) <= code_start
  PROVE  /\ Chunk \in Nat \ {0} /\ off + Chunk <= SizeOf(target)
         /\ \A x \in Addresses :
               PageWritten[x] =
                  IF x - hostAddr[target] \in off..(off + Chunk - 1)
                  THEN Source(target)[x - hostAddr[target]] ELSE eeprom[x]
<1> DEFINE h == hostAddr[target]
<1>1. SizeOf(target) \in Nat /\ off \in Nat /\ h \in Nat /\ h \in Addresses
  <2>1. pc = "inplace" => SizeOf(target) = alloc_size /\ alloc_size \in Nat
    BY Arguments DEF SizeOf
  <2>2. pc = "move" => SizeOf(target) = add_size[target]
    BY DEF SizeOf
  <2> QED BY <2>1, <2>2, Numbers DEF Writing
<1>2. Chunk \in Nat \ {0} /\ off + Chunk <= SizeOf(target)
  BY <1>1 DEF Chunk
<1>3. ASSUME NEW x \in Addresses
      PROVE  PageWritten[x] = IF x - h \in off..(off + Chunk - 1)
                              THEN Source(target)[x - h] ELSE eeprom[x]
  <2>1. PageWritten[x] = IF U16(x - h) \in off..(off + Chunk - 1)
                         THEN Source(target)[U16(x - h)] ELSE eeprom[x]
    BY DEF PageWritten
  <2>2. CASE x >= h
    BY <1>1, <2>1, <2>2, U16Distance
  <2>3. CASE x < h
    <3>1. x \in Nat /\ code_start \in Nat /\ code_start < Word /\ Word \in Nat
      BY CodeStart DEF Addresses
    <3>2. U16(x - h) = x - h + Word
      BY <1>1, <2>3, <3>1, U16Distance
    <3>3. x - h + Word \notin off..(off + Chunk - 1)
      BY <1>1, <1>2, <3>1
    <3>4. x - h \notin off..(off + Chunk - 1)
      BY <1>1, <2>3, <3>1
    <3> QED BY <2>1, <3>2, <3>3, <3>4
  <2> QED BY <1>1, <2>2, <2>3 DEF Addresses
<1> QED
  BY <1>2, <1>3

\* A set of numbers that is not empty has a least one.
LEMMA LeastNumber ==
  ASSUME NEW S \in SUBSET Nat, S # {}
  PROVE  \E m \in S : \A n \in S : m <= n
<1> DEFINE R == OpToRel(<, Nat)
<1>1. IsWellFoundedOn(R, Nat)
  BY NatLessThanWellFounded
<1>2. \A m, n \in Nat : <<n, m>> \in R <=> n < m
  BY DEF OpToRel
<1> HIDE DEF R
<1>3. PICK m \in S : \A n \in S : <<n, m>> \notin R
  BY <1>1, WFMin
<1>4. ASSUME NEW n \in S PROVE m <= n
  <2>1. m \in Nat /\ n \in Nat
    OBVIOUS
  <2>2. ~(n < m)
    BY <1>2, <1>3, <2>1
  <2> QED BY <2>1, <2>2
<1> QED
  BY <1>4

\* Of the applications behind another one, one is the next.
LEMMA LeastIndex ==
  ASSUME ExtAfter(idx) # {}
  PROVE  \E b \in ExtAfter(idx) : \A c \in ExtAfter(idx) : b <= c
<1>1. ExtAfter(idx) \in SUBSET Nat
  BY IndexType DEF ExtAfter
<1> QED
  BY <1>1, LeastNumber

-----------------------------------------------------------------------------
(* Writing in place *)

\* An ADD that is complete is as long as its first bytes say.
LEMMA SizeStored ==
  ASSUME TypeOK, AddsIntact, Sound, NEW a \in Ext, a \notin torn
  PROVE  SizeAt(devAddr[a]) = stored[a].size
<1>1. Holds(stored[a], devAddr[a]) /\ devAddr[a] \in Nat
      /\ stored[a].size \in Nat \ {0}
  BY Numbers DEF AddsIntact
<1>2. eeprom[devAddr[a] + 0] = [add |-> stored[a], off |-> 0]
  BY <1>1 DEF Holds
<1>3. eeprom[devAddr[a]] = [add |-> stored[a], off |-> 0]
  BY <1>1, <1>2
<1> QED
  BY <1>3 DEF SizeAt

\* Where the ADDs end that stand beside the one that is written in place.
LEMMA Neighbours ==
  ASSUME TypeOK, InOrder, StoringInv, pc = "inplace"
  PROVE  /\ Sound /\ hostAddr = devAddr
         /\ DB_START <= devAddr[idx] /\ devAddr[idx] + alloc_size <= code_start
         /\ \A a \in Ext : a # idx =>
              \A k \in 0..(SizeAt(devAddr[a]) - 1) :
                 /\ devAddr[a] + k \in Addresses
                 /\ (devAddr[a] + k) - devAddr[idx] \notin 0..(alloc_size - 1)
<1>1. Sound /\ hostAddr = devAddr
  BY DEF StoringInv, Known
<1>2. idx \in Ext /\ alloc_size \in Nat
  BY Arguments
<1>3. DB_START <= devAddr[idx] /\ devAddr[idx] + alloc_size <= code_start
      /\ \A b \in Ext : b > idx => devAddr[idx] + alloc_size <= devAddr[b]
  BY <1>1, <1>2 DEF InOrder, StoringInv, InPlace, ExtAfter
<1>4. ASSUME NEW a \in Ext, a # idx, NEW k \in 0..(SizeAt(devAddr[a]) - 1)
      PROVE  /\ devAddr[a] + k \in Addresses
             /\ (devAddr[a] + k) - devAddr[idx] \notin 0..(alloc_size - 1)
  <2>1. /\ devAddr[a] \in Nat /\ devAddr[idx] \in Nat
        /\ SizeAt(devAddr[a]) \in Nat /\ code_start \in Nat
        /\ Word \in Nat /\ code_start < Word
    BY <1>2, Numbers, CodeStart
  <2>2. devAddr[a] + SizeAt(devAddr[a]) <= code_start
    BY <1>1 DEF InOrder
  <2>3. devAddr[a] + k \in Addresses
    BY <2>1, <2>2 DEF Addresses
  <2>4. a \in Nat /\ idx \in Nat
    BY <1>2, IndexType
  <2>5. CASE a < idx
    <3>1. devAddr[a] + SizeAt(devAddr[a]) <= devAddr[idx]
      BY <1>1, <1>2, <2>5 DEF InOrder
    <3> QED BY <2>1, <2>3, <3>1
  <2>6. CASE a > idx
    <3>1. devAddr[idx] + alloc_size <= devAddr[a]
      BY <1>3, <2>6
    <3> QED BY <1>2, <2>1, <2>3, <3>1
  <2> QED BY <1>4, <2>4, <2>5, <2>6
<1> QED
  BY <1>1, <1>3, <1>4

\* What a write in place does to the ADD it is about, to the others, and to
\* what is not databases.
LEMMA InPlaceWrite ==
  ASSUME TypeOK, InOrder, AddsIntact, StoringInv, pc = "inplace", off < alloc_size
  PROVE  /\ \A k \in 0..(alloc_size - 1) : k < off + Chunk =>
               PageWritten[devAddr[idx] + k] = [add |-> data, off |-> k]
         /\ \A a \in Ext : a # idx =>
               \A k \in 0..(SizeAt(devAddr[a]) - 1) :
                  PageWritten[devAddr[a] + k] = eeprom[devAddr[a] + k]
         /\ \A x \in Addresses :
               x < DB_START \/ x >= code_start => PageWritten[x] = eeprom[x]
         /\ Chunk \in Nat \ {0} /\ off + Chunk <= alloc_size
<1> DEFINE h == devAddr[idx]
<1>1. /\ Sound /\ hostAddr = devAddr /\ DB_START <= h /\ h + alloc_size <= code_start
      /\ \A a \in Ext : a # idx =>
              \A k \in 0..(SizeAt(devAddr[a]) - 1) :
                 /\ devAddr[a] + k \in Addresses
                 /\ (devAddr[a] + k) - h \notin 0..(alloc_size - 1)
  BY Neighbours
<1>2. /\ idx \in Ext /\ alloc_size \in Nat /\ alloc_size = data.size
      /\ off \in Nat /\ h \in Nat
      /\ code_start \in Nat /\ Word \in Nat /\ code_start < Word /\ DB_START \in Nat
  BY Arguments, Numbers, CodeStart, CodeAssumption
<1>3. /\ target = idx /\ SizeOf(target) = alloc_size /\ Source(target) = Bytes(data)
      /\ Writing
  BY DEF target, SizeOf, Source, Writing
<1>4. /\ Chunk \in Nat \ {0} /\ off + Chunk <= alloc_size
      /\ \A x \in Addresses :
            PageWritten[x] = IF x - h \in off..(off + Chunk - 1)
                             THEN Bytes(data)[x - h] ELSE eeprom[x]
  BY <1>1, <1>2, <1>3, PageCells
<1>5. \A x \in Addresses : x - h \notin 0..(alloc_size - 1) => PageWritten[x] = eeprom[x]
  <2>1. \A x \in Addresses : x \in Nat
    BY DEF Addresses
  <2>2. \A y \in Int : y \in off..(off + Chunk - 1) => y \in 0..(alloc_size - 1)
    BY <1>2, <1>4
  <2>3. \A x \in Addresses : x - h \in Int
    BY <1>2, <2>1
  <2> QED BY <1>4, <2>2, <2>3
<1>6. ASSUME NEW k \in 0..(alloc_size - 1), k < off + Chunk
      PROVE  PageWritten[h + k] = [add |-> data, off |-> k]
  <2>1. h + k \in Addresses /\ (h + k) - h = k
    BY <1>1, <1>2 DEF Addresses
  <2>2. CASE k \in off..(off + Chunk - 1)
    BY <1>2, <1>4, <2>1, <2>2, BytesOf
  <2>3. CASE k \notin off..(off + Chunk - 1)
    <3>1. k < off
      BY <1>2, <1>4, <1>6, <2>3
    <3>2. eeprom[h + k] = [add |-> data, off |-> k]
      BY <3>1 DEF StoringInv, InPlace
    <3> QED BY <1>4, <2>1, <2>3, <3>2
  <2> QED BY <2>2, <2>3
<1>7. ASSUME NEW x \in Addresses, x < DB_START \/ x >= code_start
      PROVE  PageWritten[x] = eeprom[x]
  <2>1. x - h \notin 0..(alloc_size - 1)
    BY <1>1, <1>2, <1>7 DEF Addresses
  <2> QED BY <1>5, <2>1
<1> HIDE DEF h
<1>8. \A a \in Ext : a # idx =>
         \A k \in 0..(SizeAt(devAddr[a]) - 1) :
            PageWritten[devAddr[a] + k] = eeprom[devAddr[a] + k]
  BY <1>1, <1>5
<1> QED
  BY <1>4, <1>6, <1>7, <1>8 DEF h

-----------------------------------------------------------------------------
(* What a relocation has written *)

\* A write of a relocation completes a page of ADD i, spoils none of those
\* written before it, and stays within the databases.
LEMMA MoveWrite ==
  ASSUME TypeOK, PlacedInOrder, StoringInv, pc = "move", ~overfull,
         i \in Ext, off < add_size[i]
  PROVE  /\ \A a \in Ext : \A k \in 0..(add_size[a] - 1) :
               a < i \/ (a = i /\ k < off + Chunk) =>
                  PageWritten[hostAddr[a] + k] = ram[a][k]
         /\ \A x \in Addresses :
               x < DB_START \/ x >= code_start => PageWritten[x] = eeprom[x]
<1> DEFINE h == hostAddr[i]
<1>1. /\ DB_START <= h /\ h + add_size[i] <= code_start
      /\ \A a \in Ext : /\ hostAddr[a] + add_size[a] <= code_start
                        /\ a < i => hostAddr[a] + add_size[a] <= h
  BY DEF PlacedInOrder
<1>2. /\ off \in Nat /\ h \in Nat /\ add_size[i] \in Nat /\ i \in Nat
      /\ \A a \in Ext : hostAddr[a] \in Nat /\ add_size[a] \in Nat /\ a \in Nat
      /\ code_start \in Nat /\ Word \in Nat /\ code_start < Word /\ DB_START \in Nat
  BY IndexType, Numbers, CodeStart, CodeAssumption
<1>3. /\ target = i /\ SizeOf(target) = add_size[i] /\ Source(target) = ram[i]
      /\ Writing
  BY DEF target, SizeOf, Source, Writing
<1>4. /\ Chunk \in Nat \ {0} /\ off + Chunk <= add_size[i]
      /\ \A x \in Addresses :
            PageWritten[x] = IF x - h \in off..(off + Chunk - 1)
                             THEN ram[i][x - h] ELSE eeprom[x]
  BY <1>1, <1>3, PageCells
<1>5. ASSUME NEW a \in Ext, NEW k \in 0..(add_size[a] - 1),
             a < i \/ (a = i /\ k < off + Chunk)
      PROVE  PageWritten[hostAddr[a] + k] = ram[a][k]
  <2>1. hostAddr[a] + k \in Addresses /\ k \in Nat /\ k < add_size[a]
    BY <1>1, <1>2 DEF Addresses
  <2>2. CASE a = i
    <3>1. (hostAddr[a] + k) - h = k
      BY <1>2, <2>1, <2>2
    <3>2. CASE k \in off..(off + Chunk - 1)
      BY <1>4, <2>1, <2>2, <3>1, <3>2
    <3>3. CASE k \notin off..(off + Chunk - 1)
      <4>1. k < off
        BY <1>2, <1>4, <1>5, <2>1, <2>2, <3>3
      <4>2. eeprom[hostAddr[a] + k] = ram[a][k]
        BY <2>2, <4>1 DEF StoringInv, Moved
      <4> QED BY <1>4, <2>1, <3>1, <3>3, <4>2
    <3> QED BY <3>2, <3>3
  <2>3. CASE a < i
    <3>1. (hostAddr[a] + k) - h \notin off..(off + Chunk - 1)
      BY <1>1, <1>2, <1>4, <2>1, <2>3
    <3>2. eeprom[hostAddr[a] + k] = ram[a][k]
      BY <2>3 DEF StoringInv, Moved
    <3> QED BY <1>4, <2>1, <3>1, <3>2
  <2> QED BY <1>5, <2>2, <2>3
<1>6. ASSUME NEW x \in Addresses, x < DB_START \/ x >= code_start
      PROVE  PageWritten[x] = eeprom[x]
  <2>1. x - h \notin off..(off + Chunk - 1)
    BY <1>1, <1>2, <1>4, <1>6 DEF Addresses
  <2> QED BY <1>4, <2>1
<1> QED
  BY <1>5, <1>6

-----------------------------------------------------------------------------
(* The ADDs as the watch finds them *)

\* What is kept of the ADDs in the watch as long as nothing was cut short.
Settled ==
    AddsIntact /\ InOrder /\ (Sound => \A a \in Ext : SizeAt(devAddr[a]) # 0)

\* A step that touches neither the memory nor the table keeps it.
LEMMA SettledQuiet ==
  ASSUME Settled, Sound' => Sound, UNCHANGED <<eeprom, devAddr, stored, torn>>
  PROVE  Settled'
<1> SUFFICES ASSUME Sound' PROVE Settled'
  BY DEF Settled, AddsIntact, InOrder
<1>1. Sound
  OBVIOUS
<1>2. AddsIntact'
  BY <1>1 DEF Settled, AddsIntact, Holds
<1>3. InOrder' /\ \A a \in Ext : SizeAt(devAddr[a])' # 0
  BY <1>1 DEF Settled, InOrder, SizeAt
<1> QED
  BY <1>2, <1>3 DEF Settled

\* So does a write in place, whether or not its answer arrives.
LEMMA SettledWrite ==
  ASSUME TypeOK, Settled, StoringInv, pc = "inplace", off < alloc_size,
         eeprom' \in {eeprom, PageWritten}, torn' = torn \cup {idx},
         UNCHANGED <<devAddr, stored>>
  PROVE  Settled'
<1> DEFINE h == devAddr[idx]
<1>0. AddsIntact /\ InOrder /\ Sound /\ \A a \in Ext : SizeAt(devAddr[a]) # 0
  BY DEF Settled, StoringInv, Known
<1>t. /\ idx \in Ext /\ alloc_size \in Nat \ {0} /\ alloc_size = data.size
      /\ h \in Nat /\ off \in Nat
  BY Arguments, Numbers
<1>1. \A a \in Ext : a # idx =>
         \A k \in 0..(SizeAt(devAddr[a]) - 1) :
            eeprom'[devAddr[a] + k] = eeprom[devAddr[a] + k]
  BY <1>0, InPlaceWrite
<1>2. \A a \in Ext : a # idx => SizeAt(devAddr[a])' = SizeAt(devAddr[a])
  <2> SUFFICES ASSUME NEW a \in Ext, a # idx
               PROVE  SizeAt(devAddr[a])' = SizeAt(devAddr[a])
    OBVIOUS
  <2>1. devAddr[a] \in Nat /\ SizeAt(devAddr[a]) \in Nat
    BY Numbers
  <2>2. 0 \in 0..(SizeAt(devAddr[a]) - 1)
    BY <1>0, <2>1
  <2>3. eeprom'[devAddr[a] + 0] = eeprom[devAddr[a] + 0]
    BY <1>1, <2>2
  <2>4. eeprom'[devAddr[a]] = eeprom[devAddr[a]]
    BY <2>1, <2>3
  <2> QED BY <2>4 DEF SizeAt
<1>3. eeprom'[h].add.size = SizeAt(h) \/ eeprom'[h].add.size = alloc_size
  <2>1. CASE eeprom' = eeprom
    BY <2>1 DEF SizeAt
  <2>2. CASE eeprom' = PageWritten
    <3>1. /\ Chunk \in Nat \ {0}
          /\ \A k \in 0..(alloc_size - 1) : k < off + Chunk =>
                PageWritten[h + k] = [add |-> data, off |-> k]
      BY <1>0, InPlaceWrite
    <3>2. 0 \in 0..(alloc_size - 1) /\ 0 < off + Chunk
      BY <1>t, <3>1
    <3>3. PageWritten[h + 0] = [add |-> data, off |-> 0]
      BY <3>1, <3>2
    <3>4. eeprom'[h] = [add |-> data, off |-> 0]
      BY <1>t, <2>2, <3>3
    <3> QED BY <1>t, <3>4 DEF SizeAt
  <2> QED BY <2>1, <2>2
<1>4. AddsIntact'
  <2> SUFFICES ASSUME NEW a \in Ext, a \notin torn, a # idx,
                      NEW k \in 0..(stored[a].size - 1)
               PROVE  eeprom'[devAddr[a] + k] = [add |-> stored[a], off |-> k]
    BY DEF AddsIntact, Holds
  <2>1. SizeAt(devAddr[a]) = stored[a].size
    BY <1>0, SizeStored
  <2>2. eeprom[devAddr[a] + k] = [add |-> stored[a], off |-> k]
    BY <1>0 DEF AddsIntact, Holds
  <2> QED BY <1>1, <2>1, <2>2
<1>5. /\ h + alloc_size <= code_start
      /\ \A b \in Ext : b > idx => h + alloc_size <= devAddr[b]
  BY <1>t DEF StoringInv, InPlace, ExtAfter
<1>s. \A a \in Ext : \/ SizeAt(devAddr[a])' = SizeAt(devAddr[a])
                     \/ a = idx /\ SizeAt(devAddr[a])' = alloc_size
  <2>1. \A a \in Ext : SizeAt(devAddr[a])' = eeprom'[devAddr[a]].add.size
    BY DEF SizeAt
  <2> QED BY <1>2, <1>3, <2>1
<1>6. \A a \in Ext : SizeAt(devAddr[a])' # 0
  BY <1>0, <1>t, <1>s
<1>7. InOrder'
  <2> SUFFICES ASSUME NEW a \in Ext
               PROVE  /\ DB_START <= devAddr[a]
                      /\ devAddr[a] + SizeAt(devAddr[a])' <= code_start
                      /\ \A b \in Ext : a < b =>
                            devAddr[a] + SizeAt(devAddr[a])' <= devAddr[b]
    BY DEF InOrder
  <2>1. /\ DB_START <= devAddr[a]
        /\ devAddr[a] + SizeAt(devAddr[a]) <= code_start
        /\ \A b \in Ext : a < b => devAddr[a] + SizeAt(devAddr[a]) <= devAddr[b]
    BY <1>0 DEF InOrder
  <2>2. CASE SizeAt(devAddr[a])' = SizeAt(devAddr[a])
    BY <2>1, <2>2
  <2>3. CASE a = idx /\ SizeAt(devAddr[a])' = alloc_size
    <3>1. \A b \in Ext : a < b => b > idx
      BY <2>3, IndexType
    <3> QED BY <1>5, <2>1, <2>3, <3>1
  <2> QED BY <1>s, <2>2, <2>3
<1> QED
  BY <1>4, <1>6, <1>7 DEF Settled

\* The last byte in place makes the new ADD one of those that are complete.
LEMMA SettledInPlace ==
  ASSUME TypeOK, Settled, StoringInv, pc = "inplace", off = alloc_size,
         stored' = [stored EXCEPT ![idx] = data], torn' = torn \ {idx},
         UNCHANGED <<eeprom, devAddr>>
  PROVE  Settled' /\ Holds(data, devAddr[idx])
<1>0. AddsIntact /\ InOrder /\ Sound /\ \A a \in Ext : SizeAt(devAddr[a]) # 0
  BY DEF Settled, StoringInv, Known
<1>t. idx \in Ext /\ alloc_size \in Nat /\ alloc_size = data.size
      /\ stored \in [Ext -> Adds]
  BY Arguments DEF TypeOK
<1>1. Holds(data, devAddr[idx])
  BY <1>t DEF StoringInv, InPlace, Holds
<1>2. AddsIntact'
  <2> SUFFICES ASSUME NEW a \in Ext, a \notin torn \/ a = idx
               PROVE  Holds(stored[a], devAddr[a])'
    BY DEF AddsIntact
  <2>1. CASE a = idx
    BY <1>t, <1>1, <2>1 DEF Holds
  <2>2. CASE a # idx
    <3>1. stored'[a] = stored[a] /\ Holds(stored[a], devAddr[a])
      BY <1>0, <1>t, <2>2 DEF AddsIntact
    <3> QED BY <3>1 DEF Holds
  <2> QED BY <2>1, <2>2
<1>3. InOrder' /\ \A a \in Ext : SizeAt(devAddr[a])' # 0
  BY <1>0 DEF InOrder, SizeAt
<1> QED
  BY <1>1, <1>2, <1>3 DEF Settled

\* When the last page of the table is written, the relocated ADDs are found
\* where they stand: the new one, those read complete, and what was left of
\* the others.
LEMMA SettledRelocated ==
  ASSUME TypeOK, PlacedInOrder, StoringInv, pc = "acb", ~overfull,
         off = LastAcbPage, devAddr' = AcbWritten, eeprom' = eeprom,
         stored' = [stored EXCEPT ![idx] = data], torn' = torn \ {idx}
  PROVE  Settled' /\ devAddr' = hostAddr /\ Holds(data, hostAddr[idx])
<1>t. /\ idx \in Ext /\ stored \in [Ext -> Adds] /\ hostAddr \in [Ext -> Addresses]
      /\ \A a \in Ext : add_size[a] \in Nat /\ hostAddr[a] \in Nat
  BY Arguments, Numbers DEF TypeOK
<1>1. devAddr' = hostAddr
  <2>1. \A a \in Ext : AcbPage[a] = off \/ devAddr[a] = hostAddr[a]
    <3>1. \A a \in Ext : AcbPage[a] \in 0..LastAcbPage
      BY DEF Apps
    <3>2. \A a \in Ext : AcbPage[a] < off => devAddr[a] = hostAddr[a]
      BY DEF StoringInv, Table
    <3> QED BY <3>1, <3>2
  <2>2. \A a \in Ext : devAddr'[a] = hostAddr[a]
    BY <2>1 DEF AcbWritten
  <2>3. devAddr' = [a \in Ext |-> devAddr'[a]]
    BY DEF AcbWritten
  <2> QED BY <1>t, <2>2, <2>3
<1>2. \A a \in Ext : \A k \in 0..(add_size[a] - 1) : eeprom[hostAddr[a] + k] = ram[a][k]
  BY DEF StoringInv, Moved
<1>3. \A a \in Ext :
         /\ add_size[a] # 0 /\ ram[a][0].add.size = add_size[a]
         /\ a = idx \/ a \notin torn => /\ add_size[a] = Wanted(a).size
                                        /\ ram[a] = Bytes(Wanted(a))
  <2>1. covered = NUM_APPS
    BY DEF covered
  <2> QED BY <2>1, IndexType DEF StoringInv, Copied
<1>4. \A a \in Ext : SizeAt(hostAddr[a]) = add_size[a]
  <2> SUFFICES ASSUME NEW a \in Ext PROVE SizeAt(hostAddr[a]) = add_size[a]
    OBVIOUS
  <2>1. 0 \in 0..(add_size[a] - 1)
    BY <1>t, <1>3
  <2>2. eeprom[hostAddr[a] + 0] = ram[a][0]
    BY <1>2, <2>1
  <2>3. eeprom[hostAddr[a]] = ram[a][0]
    BY <1>t, <2>2
  <2> QED BY <1>3, <2>3 DEF SizeAt
<1>5. \A a \in Ext : a = idx \/ a \notin torn => Holds(Wanted(a), hostAddr[a])
  <2> SUFFICES ASSUME NEW a \in Ext, a = idx \/ a \notin torn,
                      NEW k \in 0..(Wanted(a).size - 1)
               PROVE  eeprom[hostAddr[a] + k] = [add |-> Wanted(a), off |-> k]
    BY DEF Holds
  <2>1. add_size[a] = Wanted(a).size /\ ram[a] = Bytes(Wanted(a))
    BY <1>3
  <2>2. eeprom[hostAddr[a] + k] = Bytes(Wanted(a))[k]
    BY <1>2, <2>1
  <2> QED BY <2>2, BytesOf
<1>6. \A a \in Ext : stored'[a] = Wanted(a)
  BY <1>t DEF Wanted
<1>7. AddsIntact'
  <2> SUFFICES ASSUME NEW a \in Ext, a \notin torn \/ a = idx
               PROVE  Holds(stored[a], devAddr[a])'
    BY DEF AddsIntact
  <2>1. Holds(stored'[a], hostAddr[a])
    BY <1>5, <1>6
  <2> QED BY <1>1, <2>1 DEF Holds
<1>8. InOrder' /\ \A a \in Ext : SizeAt(devAddr[a])' # 0
  <2>1. \A a \in Ext : devAddr'[a] = hostAddr[a] /\ SizeAt(devAddr[a])' = add_size[a]
    BY <1>1, <1>4 DEF SizeAt
  <2>2. \A a \in Ext : SizeAt(devAddr[a])' # 0
    BY <1>3, <2>1
  <2>3. InOrder'
    BY <2>1 DEF PlacedInOrder, InOrder
  <2> QED BY <2>2, <2>3
<1>9. Holds(data, hostAddr[idx])
  BY <1>t, <1>5 DEF Wanted
<1> QED
  BY <1>1, <1>7, <1>8, <1>9 DEF Settled

\* Nothing is said of the ADDs once a relocation was cut short or had no room.
LEMMA SettledLost == ~Sound' => Settled'
  BY DEF Settled, AddsIntact, InOrder

\* Every step keeps the ADDs that were stored.
LEMMA SettledStep ==
  ASSUME TypeOK, PlacedInOrder, Settled, StoringInv, [Next]_vars
  PROVE  Settled'
<1>1. CASE \/ StartSession \/ Load \/ Start \/ Skip \/ Collect \/ Refuse
           \/ Distribute \/ Place \/ NextPhase \/ UNCHANGED vars
  <2>1. UNCHANGED <<eeprom, devAddr, stored, torn, lost>>
        /\ (Distribute \/ overfull' = overfull)
    BY <1>1 DEF StartSession, Load, Start, Skip, SkipTo, Collect, Refuse, Distribute,
       Place, NextPhase, Return, vars, watch, history
  <2>2. Distribute => Sound
    BY DEF Distribute, StoringInv, Known
  <2>3. Sound' => Sound
    BY <2>1, <2>2 DEF Sound
  <2> QED BY <2>1, <2>3, SettledQuiet
<1>2. CASE WritePage
  <2>1. /\ Writing /\ off < SizeOf(target) /\ eeprom' = PageWritten
        /\ Unsettle /\ UNCHANGED <<devAddr, stored>>
    BY <1>2 DEF WritePage
  <2>2. CASE pc = "inplace"
    <3>1. SizeOf(target) = alloc_size /\ torn' = torn \cup {idx}
      BY <2>1, <2>2 DEF SizeOf, Unsettle
    <3> QED BY <2>1, <2>2, <3>1, SettledWrite
  <2>3. CASE pc = "move"
    <3>1. ~Sound'
      BY <2>1, <2>3 DEF Unsettle, Sound
    <3> QED BY <3>1, SettledLost
  <2> QED BY <2>1, <2>2, <2>3 DEF Writing
<1>3. CASE Written
  <2>1. /\ off = SizeOf(target) /\ UNCHANGED <<eeprom, devAddr, overfull>>
        /\ \/ pc = "inplace" /\ Succeed
           \/ UNCHANGED <<stored, torn, lost>>
    BY <1>3 DEF Written, watch
  <2>2. CASE pc = "inplace" /\ Succeed
    <3>1. SizeOf(target) = alloc_size
      BY <2>2 DEF SizeOf
    <3> QED BY <2>1, <2>2, <3>1, SettledInPlace DEF Succeed
  <2>3. CASE UNCHANGED <<stored, torn, lost>>
    BY <2>1, <2>3, SettledQuiet DEF Sound
  <2> QED BY <2>1, <2>2, <2>3
<1>4. CASE UpdateAcb
  <2>1. /\ pc = "acb" /\ devAddr' = AcbWritten /\ UNCHANGED <<eeprom, overfull>>
        /\ \/ lost' = lost
           \/ off = LastAcbPage /\ Succeed
    BY <1>4 DEF UpdateAcb
  <2>2. lost
    BY <2>1 DEF StoringInv, Moved
  <2>3. CASE lost' = lost \/ overfull
    BY <2>1, <2>2, <2>3, SettledLost DEF Sound
  <2>4. CASE ~overfull /\ off = LastAcbPage /\ Succeed
    BY <2>1, <2>4, SettledRelocated DEF Succeed
  <2> QED BY <2>1, <2>3, <2>4
<1>5. CASE CommandFails
  <2>1. UNCHANGED <<stored, overfull>>
    BY <1>5 DEF CommandFails
  <2>2. CASE UNCHANGED <<watch, torn, lost>>
    BY <2>1, <2>2, SettledQuiet DEF Sound, watch
  <2>3. CASE /\ Writing /\ target \in Ext /\ off < SizeOf(target)
             /\ eeprom' \in {eeprom, PageWritten}
             /\ Unsettle
             /\ UNCHANGED devAddr
    <3>1. CASE pc = "inplace"
      <4>1. SizeOf(target) = alloc_size /\ torn' = torn \cup {idx}
        BY <2>3, <3>1 DEF SizeOf, Unsettle
      <4> QED BY <2>1, <2>3, <3>1, <4>1, SettledWrite
    <3>2. CASE pc = "move"
      <4>1. ~Sound'
        BY <2>3, <3>2 DEF Unsettle, Sound
      <4> QED BY <4>1, SettledLost
    <3> QED BY <2>3, <3>1, <3>2 DEF Writing
  <2>4. CASE pc = "acb" /\ UNCHANGED <<eeprom, torn, lost>>
    <3>1. lost
      BY <2>4 DEF StoringInv, Moved
    <3> QED BY <2>4, <3>1, SettledLost DEF Sound
  <2> QED BY <1>5, <2>2, <2>3, <2>4 DEF CommandFails
<1> QED
  BY <1>1, <1>2, <1>3, <1>4, <1>5 DEF Next, Run

-----------------------------------------------------------------------------
(* How far a load has come *)

\* The host's addresses, and what is settled when a call begins or ends.
LEMMA KnownStep ==
  ASSUME TypeOK, PlacedInOrder, Settled, StoringInv, [Next]_vars
  PROVE  Known'
<1>0. Known
  BY DEF StoringInv
<1>s. Sound' => \A a \in Ext : SizeAt(devAddr[a])' # 0
  BY SettledStep DEF Settled
<1>1. CASE StartSession
  BY <1>0, <1>1, <1>s DEF StartSession, Known, locals, history, args, watch
<1>2. CASE Load
  <2>1. PICK a \in Ext, s \in Sizes : data' = [app |-> a, ver |-> loads + 1, size |-> s]
    BY <1>2 DEF Load
  <2>2. data'.ver = loads'
    BY <1>2, <2>1 DEF Load
  <2>3. /\ pc' = "start" /\ Sound' /\ hostAddr' = devAddr' /\ off' = 0
    BY <1>0, <1>2 DEF Load, Known, Sound, watch
  <2> QED BY <1>s, <2>2, <2>3 DEF Known
<1>3. CASE Start
  BY <1>0, <1>3, <1>s DEF Start, Known, Sound, watch, locals, args, history
<1>4. CASE Skip
  BY <1>0, <1>4, <1>s DEF Skip, SkipTo, Known, Sound, watch, args, history
<1>5. CASE Collect
  BY <1>0, <1>5, <1>s DEF Collect, Known, Sound, watch, args, history
<1>6. CASE Refuse
  BY <1>6, <1>s DEF Refuse, Return, Known
<1>7. CASE Distribute
  BY <1>0, <1>7, <1>s DEF Distribute, Known, args
<1>8. CASE Place
  BY <1>0, <1>8, <1>s DEF Place, Known, args, history
<1>9. CASE WritePage
  <2>1. pc = "inplace" => lost' = lost
    BY <1>9 DEF WritePage, Unsettle, TypeOK
  <2> QED BY <1>0, <1>9, <2>1, <1>s DEF WritePage, Writing, Known, Sound, args
<1>10. CASE Written
  <2>1. CASE pc = "inplace" /\ Succeed
    BY <1>0, <1>10, <2>1, <1>s DEF Written, Succeed, Return, Known, Sound, watch
  <2>2. CASE pc = "move" /\ UNCHANGED <<pc, args>>
    BY <1>0, <1>10, <2>2, <1>s DEF Written, Known, args
  <2> QED BY <1>10, <2>1, <2>2 DEF Written
<1>11. CASE NextPhase
  BY <1>0, <1>11, <1>s DEF NextPhase, Known, args, history
<1>12. CASE UpdateAcb
  <2>1. CASE off = LastAcbPage /\ Succeed
    <3>1. Sound' => devAddr' = hostAddr
      <4>1. Sound' => ~overfull
        BY <1>12 DEF UpdateAcb, Sound
      <4> QED BY <1>12, <2>1, <4>1, SettledRelocated DEF UpdateAcb, Succeed
    <3> QED BY <1>12, <2>1, <3>1, <1>s DEF UpdateAcb, Succeed, Return, Known
  <2>2. CASE UNCHANGED <<pc, args>>
    BY <1>0, <1>12, <2>2, <1>s DEF UpdateAcb, Known, args
  <2> QED BY <1>12, <2>1, <2>2 DEF UpdateAcb
<1>13. CASE CommandFails
  BY <1>13, <1>s DEF CommandFails, Return, Known
<1>14. CASE UNCHANGED vars
  BY <1>0, <1>14, <1>s
     DEF vars, Known, Sound, watch, locals, args, history
<1> QED
  BY <1>1, <1>2, <1>3, <1>4, <1>5, <1>6, <1>7, <1>8, <1>9, <1>10, <1>11,
     <1>12, <1>13, <1>14 DEF Next, Run

\* A write in place begins with the room it needs and keeps count of its bytes.
LEMMA InPlaceStep ==
  ASSUME TypeOK, Settled, StoringInv, [Next]_vars
  PROVE  InPlace'
<1> SUFFICES ASSUME pc' = "inplace" PROVE InPlace'
  BY DEF InPlace
<1>0. Known /\ InPlace
  BY DEF StoringInv
<1>1. CASE Start
  <2>1. /\ pc = "start" /\ FitsInPlace
        /\ UNCHANGED <<eeprom, devAddr, hostAddr, idx, data, off, torn>>
    BY <1>1 DEF Start, watch, locals, args, history
  <2>2. /\ Sound /\ hostAddr = devAddr /\ off = 0
    BY <1>0, <2>1 DEF Known
  <2>3. /\ idx \in Ext /\ alloc_size \in Nat \ {0} /\ CODE_START + alloc_size < Word
        /\ devAddr[idx] \in Nat
    BY <2>1, Arguments, Numbers
  <2>4. InOrder
    BY DEF Settled
  <2>5. alloc_end = devAddr[idx] + alloc_size
    <3>1. devAddr[idx] <= CODE_START
      <4>1. devAddr[idx] + SizeAt(devAddr[idx]) <= code_start
        BY <2>2, <2>3, <2>4 DEF InOrder
      <4>2. SizeAt(devAddr[idx]) \in Nat
        BY <2>3, Numbers
      <4> QED BY <2>3, <4>1, <4>2, CodeStart, CodeAssumption
    <3>2. devAddr[idx] + alloc_size \in Addresses
      BY <2>3, <3>1, CodeStart, CodeAssumption DEF Addresses
    <3> QED BY <2>2, <3>2, U16Exact DEF alloc_end
  <2>6. /\ devAddr[idx] + alloc_size <= code_start
        /\ \A b \in ExtAfter(idx) : devAddr[idx] + alloc_size <= devAddr[b]
    <3>1. CASE ExtAfter(idx) = {}
      BY <2>1, <2>5, <3>1 DEF FitsInPlace
    <3>2. CASE ExtAfter(idx) # {}
      <4>1. /\ next_idx \in ExtAfter(idx)
            /\ \A b \in ExtAfter(idx) : next_idx <= b
        BY <3>2, LeastIndex DEF next_idx
      <4>2. /\ next_idx \in Ext
            /\ devAddr[idx] + alloc_size < devAddr[next_idx]
        BY <2>1, <2>2, <2>5, <3>2, <4>1 DEF FitsInPlace, ExtAfter
      <4>3. /\ devAddr[next_idx] \in Nat /\ SizeAt(devAddr[next_idx]) \in Nat
            /\ code_start \in Nat
            /\ devAddr[next_idx] + SizeAt(devAddr[next_idx]) <= code_start
            /\ \A b \in Ext : next_idx < b =>
                  devAddr[next_idx] + SizeAt(devAddr[next_idx]) <= devAddr[b]
        BY <2>2, <2>4, <4>2, Numbers, CodeStart DEF InOrder
      <4>4. devAddr[idx] + alloc_size <= code_start
        BY <2>3, <4>2, <4>3
      <4>5. ASSUME NEW b \in ExtAfter(idx)
            PROVE  devAddr[idx] + alloc_size <= devAddr[b]
        <5>1. b \in Ext /\ b \in Nat /\ next_idx \in Nat /\ next_idx <= b
              /\ devAddr[b] \in Nat
          BY <4>1, <4>2, IndexType, Numbers DEF ExtAfter
        <5>2. CASE b = next_idx
          BY <2>3, <4>2, <4>3, <5>2
        <5>3. CASE next_idx < b
          <6>1. devAddr[next_idx] + SizeAt(devAddr[next_idx]) <= devAddr[b]
            BY <4>3, <5>1, <5>3
          <6> QED BY <2>3, <4>2, <4>3, <5>1, <6>1
        <5> QED BY <5>1, <5>2, <5>3
      <4> QED BY <4>4, <4>5
    <3> QED BY <3>1, <3>2
  <2>7. alloc_size' = alloc_size /\ ~(off' > 0) /\ ExtAfter(idx') = ExtAfter(idx)
        /\ \A k \in 0..(alloc_size - 1) : ~(k < off')
    BY <2>1, <2>2 DEF alloc_size
  <2> QED BY <2>1, <2>6, <2>7 DEF InPlace
<1>2. CASE WritePage
  <2>1. /\ pc = "inplace" /\ off < SizeOf(target) /\ eeprom' = PageWritten
        /\ off' = off + Chunk /\ Unsettle /\ UNCHANGED <<devAddr, idx, data>>
    BY <1>2 DEF WritePage, args
  <2>2. SizeOf(target) = alloc_size /\ torn' = torn \cup {idx}
    BY <2>1 DEF SizeOf, Unsettle
  <2>3. Settled /\ InOrder /\ AddsIntact
    BY DEF Settled
  <2>4. \A k \in 0..(alloc_size - 1) : k < off + Chunk =>
           PageWritten[devAddr[idx] + k] = [add |-> data, off |-> k]
    BY <2>1, <2>2, <2>3, InPlaceWrite
  <2>5. alloc_size' = alloc_size /\ ExtAfter(idx') = ExtAfter(idx)
    BY <2>1 DEF alloc_size
  <2> QED BY <1>0, <2>1, <2>2, <2>4, <2>5 DEF InPlace
<1>3. CASE UNCHANGED vars
  BY <1>0, <1>3 DEF vars, watch, locals, args, history, InPlace, alloc_size
<1>4. CASE StartSession \/ Load \/ Refuse \/ Distribute \/ Place \/ Collect \/ Skip
           \/ NextPhase \/ CommandFails
  BY <1>4 DEF StartSession, Load, Refuse, Distribute, Place, Collect, Skip, SkipTo,
     NextPhase, CommandFails, Return
<1>5. CASE Written \/ UpdateAcb
  BY <1>5 DEF Written, UpdateAcb, Succeed, Return
<1> QED
  BY <1>1, <1>2, <1>3, <1>4, <1>5 DEF Next, Run

\* Steps that leave the host's copies, and what they are copies of, alone.
LEMMA CopiedKept ==
  ASSUME Copied, pc \in {"read", "place", "move", "acb"},
         \A a \in Ext : a < covered' => a < covered,
         UNCHANGED <<add_size, ram, idx, data, stored, torn>>
  PROVE  Copied'
  BY DEF Copied, Wanted

\* Each turn of the first loop adds one ADD to the host's memory.
LEMMA CopiedCollect ==
  ASSUME TypeOK, Settled, StoringInv, Collect
  PROVE  Copied'
<1>0. Known /\ Copied /\ AddsIntact /\ InOrder
  BY DEF StoringInv, Settled
<1>1. /\ pc = "read" /\ i \in Ext /\ pc' = "read" /\ i' = i + 1
      /\ UNCHANGED <<idx, data, stored, torn>>
  BY DEF Collect, args, history
<1>2. /\ Sound /\ hostAddr = devAddr /\ SizeAt(devAddr[i]) # 0
  BY <1>0, <1>1 DEF Known
<1>3. /\ idx \in Ext /\ alloc_size \in Nat \ {0} /\ alloc_size = data.size
      /\ devAddr[i] \in Nat /\ SizeAt(devAddr[i]) \in Nat /\ i \in Nat
      /\ devAddr[i] + SizeAt(devAddr[i]) <= code_start
      /\ add_size \in [Ext -> Sizes \cup {0}] /\ DOMAIN ram = Ext
  BY <1>0, <1>1, <1>2, Arguments, Numbers DEF InOrder, TypeOK
<1> DEFINE size == IF i = idx THEN alloc_size ELSE SizeAt(hostAddr[i])
           bytes == IF i = idx THEN Bytes(data)
                    ELSE [k \in 0..(size - 1) |-> eeprom[U16(hostAddr[i] + k)]]
<1>4. add_size' = [add_size EXCEPT ![i] = size] /\ ram' = [ram EXCEPT ![i] = bytes]
  BY DEF Collect
<1>5. /\ size # 0 /\ bytes[0].add.size = size
      /\ i = idx \/ i \notin torn => size = Wanted(i).size /\ bytes = Bytes(Wanted(i))
  <2>1. CASE i = idx
    <3>1. size = data.size /\ bytes = Bytes(data) /\ Wanted(i) = data
      BY <1>3, <2>1 DEF Wanted
    <3>2. 0 \in 0..(data.size - 1)
      BY <1>3
    <3>3. Bytes(data)[0] = [add |-> data, off |-> 0]
      BY <3>2, BytesOf
    <3>4. bytes[0].add.size = data.size /\ data.size # 0
      BY <1>3, <3>1, <3>3
    <3> HIDE DEF size, bytes
    <3> QED BY <2>1, <3>1, <3>4
  <2>2. CASE i # idx
    <3> DEFINE s == SizeAt(devAddr[i])
    <3>1. size = s /\ Wanted(i) = stored[i]
      BY <1>2, <2>2 DEF Wanted
    <3>2. \A k \in 0..(s - 1) : U16(hostAddr[i] + k) = devAddr[i] + k
      <4>1. \A k \in 0..(s - 1) : devAddr[i] + k \in Addresses
        BY <1>3, CodeStart DEF Addresses
      <4> QED BY <1>2, <4>1, U16Exact
    <3>3. bytes = [k \in 0..(s - 1) |-> eeprom[devAddr[i] + k]]
      BY <2>2, <3>1, <3>2
    <3>4. bytes[0].add.size = s
      <4>1. 0 \in 0..(s - 1) /\ devAddr[i] + 0 = devAddr[i]
        BY <1>2, <1>3
      <4>2. bytes[0] = eeprom[devAddr[i]]
        BY <3>3, <4>1
      <4> QED BY <4>2 DEF SizeAt
    <3>5. ASSUME i \notin torn PROVE s = stored[i].size /\ bytes = Bytes(stored[i])
      <4>1. s = stored[i].size
        BY <1>0, <1>1, <1>2, <3>5, SizeStored
      <4>2. \A k \in 0..(s - 1) : eeprom[devAddr[i] + k] = [add |-> stored[i], off |-> k]
        BY <1>0, <1>1, <1>2, <3>5, <4>1 DEF AddsIntact, Holds
      <4> QED BY <3>3, <4>1, <4>2 DEF Bytes
    <3>6. size # 0
      BY <1>2, <3>1
    <3> HIDE DEF s, size, bytes
    <3> QED BY <2>2, <3>1, <3>4, <3>5, <3>6
  <2> QED BY <2>1, <2>2
<1> HIDE DEF size, bytes
<1>6. covered = i /\ covered' = i + 1
  BY <1>1 DEF covered
<1>7. ASSUME NEW a \in Ext, a < i + 1
      PROVE  /\ add_size'[a] # 0 /\ ram'[a][0].add.size = add_size'[a]
             /\ a = idx \/ a \notin torn => /\ add_size'[a] = Wanted(a).size
                                            /\ ram'[a] = Bytes(Wanted(a))
  <2>1. CASE a = i
    <3>1. add_size'[a] = size /\ ram'[a] = bytes
      BY <1>3, <1>4, <2>1
    <3> QED BY <1>5, <2>1, <3>1
  <2>2. CASE a # i
    <3>1. a < i
      BY <1>3, <1>7, <2>2, IndexType
    <3>2. add_size'[a] = add_size[a] /\ ram'[a] = ram[a]
      BY <1>3, <1>4, <2>2
    <3> QED BY <1>0, <1>1, <1>6, <3>1, <3>2 DEF Copied
  <2> QED BY <2>1, <2>2
<1>8. \A a \in Ext : Wanted(a)' = Wanted(a)
  BY <1>1 DEF Wanted
<1> QED
  BY <1>1, <1>6, <1>7, <1>8 DEF Copied

\* What the host has read stays in its memory until the load returns.
LEMMA CopiedStep ==
  ASSUME TypeOK, AtRest, Settled, StoringInv, [Next]_vars
  PROVE  Copied'
<1> SUFFICES ASSUME pc' \in {"read", "place", "move", "acb"} PROVE Copied'
  BY DEF Copied
<1>0. Copied
  BY DEF StoringInv
<1>1. CASE Start
  <2>1. i' = 0 /\ pc' = "read"
    BY <1>1 DEF Start, AtRest, locals
  <2>2. \A a \in Ext : ~(a < covered')
    BY <2>1, NoneBelowZero DEF covered
  <2> QED BY <2>2 DEF Copied
<1>2. CASE Skip
  <2>1. /\ pc \in {"read", "place", "move"} /\ pc' = pc /\ i' = i + 1 /\ i \notin Ext
        /\ UNCHANGED <<add_size, ram, idx, data, stored, torn>>
    BY <1>2 DEF Skip, SkipTo, args, history
  <2>2. \A a \in Ext : a < i + 1 => a < i
    BY <2>1, IndexType, Numbers
  <2>3. \A a \in Ext : a < covered' => a < covered
    BY <2>1, <2>2 DEF covered
  <2> QED BY <1>0, <2>1, <2>3, CopiedKept
<1>3. CASE Collect
  BY <1>3, CopiedCollect
<1>4. CASE Distribute
  <2>1. /\ pc = "read" /\ i = NUM_APPS /\ pc' = "place"
        /\ UNCHANGED <<add_size, ram, idx, data, stored, torn>>
    BY <1>4 DEF Distribute, reads, args
  <2>2. covered = NUM_APPS /\ covered' = NUM_APPS
    BY <2>1 DEF covered
  <2> QED BY <1>0, <2>1, <2>2, CopiedKept
<1>5. CASE WritePage \/ Place \/ NextPhase
  <2>1. /\ pc \in {"place", "move"} /\ pc' \in {"place", "move", "acb"}
        /\ UNCHANGED <<add_size, ram, idx, data, stored>>
    BY <1>5 DEF WritePage, Writing, Place, NextPhase, reads, args, history
  <2>2. torn' = torn
    BY <1>5, <2>1 DEF WritePage, Unsettle, Place, NextPhase, history
  <2>3. covered = NUM_APPS /\ covered' = NUM_APPS
    BY <2>1 DEF covered
  <2> QED BY <1>0, <2>1, <2>2, <2>3, CopiedKept
<1>6. CASE Written \/ UpdateAcb
  <2>1. /\ pc \in {"move", "acb"} /\ pc' = pc
        /\ UNCHANGED <<add_size, ram, idx, data, stored, torn>>
    BY <1>6 DEF Written, UpdateAcb, Succeed, Return, reads, args, history
  <2>2. covered = NUM_APPS /\ covered' = NUM_APPS
    BY <2>1 DEF covered
  <2> QED BY <1>0, <2>1, <2>2, CopiedKept
<1>7. CASE UNCHANGED vars
  <2>1. pc' = pc /\ i' = i /\ UNCHANGED <<add_size, ram, idx, data, stored, torn>>
    BY <1>7 DEF vars, locals, reads, args, history
  <2>2. covered' = covered
    BY <2>1 DEF covered
  <2> QED BY <1>0, <2>1, <2>2, CopiedKept
<1>8. CASE StartSession \/ Load \/ Refuse \/ CommandFails
  BY <1>8 DEF StartSession, Load, Refuse, CommandFails, Return
<1> QED
  BY <1>1, <1>2, <1>3, <1>4, <1>5, <1>6, <1>7, <1>8 DEF Next, Run

\* The relocation accounts for every byte it has written.
LEMMA MovedStep ==
  ASSUME TypeOK, PlacedInOrder, StoringInv, [Next]_vars
  PROVE  Moved'
<1> SUFFICES ASSUME pc' \in {"move", "acb"} PROVE Moved'
  BY DEF Moved
<1>0. Moved /\ Copied /\ Known
  BY DEF StoringInv
<1>i. \A a \in Ext : a \in Nat /\ a < NUM_APPS
  BY IndexType
<1>t. /\ i \in Nat /\ off \in Nat
      /\ \A a \in Ext : a \in Nat /\ a < NUM_APPS /\ add_size[a] \in Nat
  BY <1>i, Numbers
<1>x. pc \notin {"idle", "ended"} => idx \in Ext /\ idx \in Nat /\ idx < NUM_APPS
  BY <1>t, Arguments
<1>1. CASE Skip
  <2>1. /\ pc = "move" /\ pc' = "move" /\ i' = i + 1 /\ i \notin Ext
        /\ UNCHANGED <<eeprom, hostAddr, add_size, ram, off, lost, overfull, idx>>
    BY <1>1 DEF Skip, SkipTo, watch, args, history
  <2>2. off = 0 /\ (i > idx => lost)
    BY <1>0, <2>1 DEF Moved
  <2>3. i + 1 > idx => i > idx
    BY <1>t, <1>x, <2>1
  <2>4. ASSUME NEW a \in Ext, a < i + 1 PROVE a < i
    <3>1. a # i
      BY <2>1
    <3> QED BY <1>t, <2>4, <3>1
  <2>5. ~overfull => \A a \in Ext : \A k \in 0..(add_size[a] - 1) :
           a < i => eeprom[hostAddr[a] + k] = ram[a][k]
    BY <1>0, <2>1 DEF Moved
  <2>6. \A k \in Nat : ~(k < off)
    BY <2>2
  <2>7. \A a \in Ext : \A k \in 0..(add_size[a] - 1) : k \in Nat
    BY <1>t
  <2> QED BY <2>1, <2>2, <2>3, <2>4, <2>5, <2>6, <2>7 DEF Moved
<1>2. CASE WritePage
  <2>1. /\ pc = "move" /\ pc' = "move" /\ target = i /\ i \in Ext
        /\ SizeOf(target) = add_size[i] /\ off < add_size[i]
        /\ eeprom' = PageWritten /\ off' = off + Chunk /\ lost'
        /\ UNCHANGED <<hostAddr, add_size, ram, overfull, idx, i>>
    BY <1>2 DEF WritePage, Writing, Unsettle, target, SizeOf, reads, args
  <2>2. ~overfull => \A a \in Ext : \A k \in 0..(add_size[a] - 1) :
           a < i \/ (a = i /\ k < off + Chunk) => PageWritten[hostAddr[a] + k] = ram[a][k]
    BY <2>1, MoveWrite
  <2> QED BY <2>1, <2>2 DEF Moved
<1>3. CASE Written
  <2>1. /\ pc = "move" /\ pc' = "move" /\ i \in Ext /\ off = add_size[i]
        /\ i' = i + 1 /\ off' = 0
        /\ UNCHANGED <<eeprom, hostAddr, add_size, ram, lost, overfull, idx>>
    BY <1>3 DEF Written, Writing, Succeed, Return, target, SizeOf, watch, reads, args
  <2>2. add_size[i] # 0
    BY <1>0, <1>t, <2>1 DEF Copied, covered
  <2>3. lost
    BY <1>0, <1>t, <2>1, <2>2 DEF Moved
  <2>4. ASSUME ~overfull, NEW a \in Ext, NEW k \in 0..(add_size[a] - 1), a < i + 1
        PROVE  eeprom[hostAddr[a] + k] = ram[a][k]
    <3>1. a < i \/ (a = i /\ k < off)
      BY <1>t, <2>1, <2>4
    <3> QED BY <1>0, <2>1, <2>4, <3>1 DEF Moved
  <2>5. \A a \in Ext : \A k \in 0..(add_size[a] - 1) : ~(k < 0)
    BY <1>t
  <2> QED BY <2>1, <2>3, <2>4, <2>5 DEF Moved
<1>4. CASE NextPhase
  <2>1. /\ i = NUM_APPS /\ i' = 0
        /\ UNCHANGED <<eeprom, hostAddr, add_size, ram, lost, overfull, idx, off>>
    BY <1>4 DEF NextPhase, watch, reads, args, history
  <2>2. CASE pc = "place"
    <3>1. pc' = "move" /\ off = 0
      BY <1>0, <1>4, <2>2 DEF NextPhase, Known
    <3>2. ~(0 > idx) /\ \A a \in Ext : ~(a < 0)
      BY <1>x, <2>2, NoneBelowZero
    <3>3. \A a \in Ext : \A k \in 0..(add_size[a] - 1) : ~(k < 0)
      BY <1>t
    <3> QED BY <2>1, <3>1, <3>2, <3>3 DEF Moved
  <2>3. CASE pc = "move"
    <3>1. pc' = "acb" /\ i > idx /\ \A a \in Ext : a < i
      BY <1>4, <1>t, <1>x, <2>1, <2>3 DEF NextPhase
    <3> QED BY <1>0, <2>1, <2>3, <3>1 DEF Moved
  <2> QED BY <1>4, <2>2, <2>3 DEF NextPhase
<1>5. CASE UpdateAcb
  <2>1. /\ pc = "acb" /\ pc' = "acb"
        /\ UNCHANGED <<eeprom, hostAddr, add_size, ram, lost, overfull, idx, i>>
    BY <1>5 DEF UpdateAcb, Succeed, Return, reads, args
  <2> QED BY <1>0, <2>1 DEF Moved
<1>6. CASE UNCHANGED vars
  BY <1>0, <1>6 DEF vars, watch, locals, reads, args, history, Moved
<1>7. CASE StartSession \/ Load \/ Start \/ Collect \/ Refuse \/ Distribute \/ Place
           \/ CommandFails
  BY <1>7 DEF StartSession, Load, Start, Collect, Refuse, Distribute, Place, CommandFails,
     Return
<1> QED
  BY <1>1, <1>2, <1>3, <1>4, <1>5, <1>6, <1>7 DEF Next, Run

\* Where a page of the table stands among those written.
LEMMA AcbPages ==
  ASSUME NEW a \in Ext, NEW p \in Nat
  PROVE  /\ AcbPage[a] \in Nat
         /\ ~(AcbPage[a] < 0)
         /\ AcbPage[a] < p + 1 => AcbPage[a] = p \/ AcbPage[a] < p
<1>1. AcbPage[a] \in 0..LastAcbPage
  OBVIOUS
<1>2. AcbPage[a] \in Nat
  BY <1>1
<1> QED
  BY <1>2

\* The table is written page by page from the first one on.
LEMMA TableStep ==
  ASSUME TypeOK, StoringInv, [Next]_vars
  PROVE  Table'
<1> SUFFICES ASSUME pc' = "acb" PROVE Table'
  BY DEF Table
<1>0. Moved /\ Table
  BY DEF StoringInv
<1>p. off \in Nat
  BY DEF TypeOK
<1>1. CASE NextPhase
  <2>1. pc = "move" /\ i = NUM_APPS /\ off' = off
    BY <1>1 DEF NextPhase
  <2>2. off = 0
    BY <1>0, <2>1, IndexType DEF Moved
  <2>3. \A a \in Ext : ~(AcbPage[a] < 0)
    BY <1>p, AcbPages
  <2> QED BY <2>1, <2>2, <2>3 DEF Table
<1>2. CASE UpdateAcb
  <2>1. /\ pc = "acb" /\ off < LastAcbPage /\ off' = off + 1
        /\ devAddr' = AcbWritten /\ hostAddr' = hostAddr
    BY <1>2 DEF UpdateAcb, Succeed, Return
  <2>2. \A a \in Ext : AcbPage[a] < off + 1 => AcbPage[a] = off \/ AcbPage[a] < off
    BY <1>p, AcbPages
  <2>3. \A a \in Ext : AcbPage[a] < off + 1 => devAddr'[a] = hostAddr[a]
    BY <1>0, <2>1, <2>2 DEF AcbWritten, Table
  <2>4. off + 1 <= LastAcbPage
    BY <2>1, Numbers
  <2> QED BY <2>1, <2>3, <2>4 DEF Table
<1>3. CASE UNCHANGED vars
  BY <1>0, <1>3 DEF vars, watch, locals, Table
<1>4. CASE \/ StartSession \/ Load \/ Start \/ Skip \/ Collect \/ Refuse \/ Distribute
           \/ Place \/ WritePage \/ CommandFails
  BY <1>4 DEF StartSession, Load, Start, Skip, SkipTo, Collect, Refuse, Distribute, Place,
     WritePage, Writing, CommandFails, Return
<1>5. CASE Written
  BY <1>5 DEF Written, Writing, Succeed, Return
<1> QED
  BY <1>1, <1>2, <1>3, <1>4, <1>5 DEF Next, Run

-----------------------------------------------------------------------------
(* Where a program starts *)

\* Each byte of the databases the watch has laid out is in its place.
LEMMA InitHolds ==
  ASSUME Init
  PROVE  /\ \A a \in Ext : Holds(stored[a], devAddr[a])
         /\ InitialLayout(devAddr, stored)
<1>1. PICK first \in {f \in [Ext -> [app : Ext, ver : {0}, size : InitSizes]] :
                          \A a \in Ext : f[a].app = a},
           addr \in [Ext -> DB_START..code_start] :
         /\ InitialLayout(addr, first)
         /\ devAddr = addr
         /\ stored = first
         /\ eeprom = [x \in Addresses |->
               IF \E a \in Ext : x - addr[a] \in 0..(first[a].size - 1)
               THEN LET a == CHOOSE a \in Ext :
                                x - addr[a] \in 0..(first[a].size - 1)
                    IN [add |-> first[a], off |-> x - addr[a]]
               ELSE BlankCell]
  BY DEF Init
<1>2. \A a \in Ext : /\ addr[a] \in Nat /\ first[a].size \in Nat
                     /\ addr[a] + first[a].size <= code_start
                     /\ \A b \in Ext : a < b => addr[a] + first[a].size <= addr[b]
  <2>1. \A a \in Ext : addr[a] \in Nat
    BY <1>1, TypeInit, Numbers
  <2>2. \A a \in Ext : first[a].size \in Nat
    BY <1>1, TypeInit, Numbers
  <2> QED BY <1>1, <2>1, <2>2 DEF InitialLayout
<1>3. ASSUME NEW a \in Ext, NEW k \in 0..(first[a].size - 1)
      PROVE  eeprom[addr[a] + k] = [add |-> first[a], off |-> k]
  <2> DEFINE x == addr[a] + k
             P(c) == x - addr[c] \in 0..(first[c].size - 1)
             b == CHOOSE c \in Ext : P(c)
  <2>1. x \in Addresses /\ x \in Nat /\ x - addr[a] = k /\ k \in Nat
    BY <1>2, CodeStart DEF Addresses
  <2>2. P(a)
    BY <2>1
  <2>3. b \in Ext /\ P(b)
    BY <2>2
  <2>4. b = a
    <3> HIDE DEF b
    <3>1. a \in Nat /\ b \in Nat
      BY <2>3, IndexType
    <3>2. addr[b] <= x /\ x < addr[b] + first[b].size
      BY <1>2, <2>1, <2>3
    <3>3. addr[a] <= x /\ x < addr[a] + first[a].size
      BY <1>2, <2>1, <2>2
    <3>4. ~(a < b) /\ ~(b < a)
      BY <1>2, <2>1, <2>3, <3>2, <3>3
    <3> QED BY <3>1, <3>4
  <2>5. eeprom[x] = [add |-> first[b], off |-> x - addr[b]]
    BY <1>1, <2>1, <2>2
  <2> QED BY <2>1, <2>4, <2>5
<1>4. \A a \in Ext : Holds(stored[a], devAddr[a])
  BY <1>1, <1>3 DEF Holds
<1> QED
  BY <1>1, <1>4

LEMMA SettledInit == Init => Settled
<1> SUFFICES ASSUME Init PROVE Settled
  OBVIOUS
<1>1. /\ \A a \in Ext : Holds(stored[a], devAddr[a])
      /\ InitialLayout(devAddr, stored)
  BY InitHolds
<1>2. AddsIntact
  BY <1>1 DEF AddsIntact
<1>3. Sound /\ torn = {}
  BY DEF Init, Sound
<1>4. TypeOK
  BY TypeInit
<1>5. \A a \in Ext : SizeAt(devAddr[a]) = stored[a].size
  BY <1>2, <1>3, <1>4, SizeStored
<1>6. InOrder
  BY <1>1, <1>5 DEF InOrder, InitialLayout
<1>7. \A a \in Ext : SizeAt(devAddr[a]) # 0
  BY <1>4, <1>5, Numbers
<1> QED
  BY <1>2, <1>6, <1>7 DEF Settled

LEMMA StoringInit == Init => StoringInv
  BY SettledInit
     DEF Init, Settled, StoringInv, Known, InPlace, Copied, Moved, Table

-----------------------------------------------------------------------------
(* What load_add promises *)

\* All that is needed of the states: it is inductive.
LoadInv == TypeOK /\ PlacingInv /\ Settled /\ StoringInv

LEMMA LoadInvStep == LoadInv /\ [Next]_vars => LoadInv'
<1> SUFFICES ASSUME LoadInv, [Next]_vars PROVE LoadInv'
  OBVIOUS
<1>1. TypeOK /\ PlacingInv /\ Settled /\ StoringInv /\ PlacedInOrder /\ AtRest
  BY PlacingMeansInOrder DEF LoadInv, PlacingInv
<1>2. TypeOK' /\ PlacingInv'
  BY <1>1, TypeStep, PlacingStep
<1>3. Settled'
  BY <1>1, SettledStep
<1>4. Known' /\ InPlace' /\ Copied' /\ Moved' /\ Table'
  BY <1>1, KnownStep, InPlaceStep, CopiedStep, MovedStep, TableStep
<1> QED
  BY <1>2, <1>3, <1>4 DEF LoadInv, StoringInv

LEMMA LoadInvHolds == Spec => []LoadInv
<1>1. Init => LoadInv
  BY TypeInit, PlacingInit, SettledInit, StoringInit DEF LoadInv
<1> QED
  BY <1>1, LoadInvStep, PTL DEF Spec

\* All through load_add, sums, shares and addresses are what the ADDs need, and
\* host, memory and table agree on how far the load has come.
THEOREM LoadingHolds == Spec => []LoadingInv
<1>1. LoadInv => LoadingInv
  BY DEF LoadInv, LoadingInv
<1> QED
  BY <1>1, LoadInvHolds, PTL

\* Whatever load_add does to one application, failures of any command
\* included, every other ADD that was stored with success stays where the
\* watch's table says and complete, until a relocation is cut short or has no
\* room.
THEOREM LeavesAddsIntact == Spec => []AddsIntact
<1>1. LoadInv => AddsIntact
  BY DEF LoadInv, Settled
<1> QED
  BY <1>1, LoadInvHolds, PTL

\* As long as no relocation was cut short or had no room, the ADDs in the
\* watch are disjoint, in the order of the indices and below the code, which
\* is what the comparison with the next ADD alone (load_add, cases 2.2 and
\* 3.2) relies on.
THEOREM StaysInOrder == Spec => []InOrder
<1>1. LoadInv => InOrder
  BY DEF LoadInv, Settled
<1> QED
  BY <1>1, LoadInvHolds, PTL

\* A load that ends with 0 stored what it was given.
LEMMA SuccessStep ==
  ASSUME LoadInv, SuccessStores, [Next]_vars
  PROVE  SuccessStores'
<1> SUFFICES ASSUME pc' = "idle", result' = 0, Sound'
             PROVE  /\ hostAddr' = devAddr'
                    /\ \E a \in Ext : stored'[a].ver = loads' /\ Holds(stored[a], devAddr[a])'
  BY DEF SuccessStores
<1>0. TypeOK /\ PlacedInOrder /\ Settled /\ StoringInv /\ Known
  BY PlacingMeansInOrder DEF LoadInv, StoringInv
<1>1. hostAddr' = devAddr'
  BY <1>0, KnownStep DEF Known
\* the new ADD is one of those stored, and it is the last
<1>a. ASSUME Succeed, pc \in {"inplace", "acb"}, UNCHANGED <<eeprom, loads>>,
             Holds(data, devAddr'[idx])
      PROVE  \E a \in Ext : stored'[a].ver = loads' /\ Holds(stored[a], devAddr[a])'
  <2>1. idx \in Ext /\ data.ver = loads /\ stored \in [Ext -> Adds]
    BY <1>0, <1>a, Arguments DEF Known, TypeOK
  <2>2. stored'[idx] = data
    BY <1>a, <2>1 DEF Succeed
  <2> QED BY <1>a, <2>1, <2>2 DEF Holds
<1>2. CASE Written
  <2>1. /\ pc = "inplace" /\ Succeed /\ off = SizeOf(target)
        /\ UNCHANGED <<eeprom, devAddr, loads>>
    BY <1>2 DEF Written, watch
  <2>2. Holds(data, devAddr[idx])
    BY <1>0, <2>1, SettledInPlace DEF SizeOf, Succeed
  <2> QED BY <1>1, <1>a, <2>1, <2>2
<1>3. CASE UpdateAcb
  <2>1. /\ pc = "acb" /\ Succeed /\ off = LastAcbPage /\ devAddr' = AcbWritten
        /\ UNCHANGED <<eeprom, loads>> /\ ~overfull
    BY <1>3 DEF UpdateAcb, Sound
  <2>2. devAddr' = hostAddr /\ Holds(data, hostAddr[idx])
    BY <1>0, <2>1, SettledRelocated DEF Succeed
  <2> QED BY <1>1, <1>a, <2>1, <2>2
<1>4. CASE StartSession
  BY <1>0, <1>4 DEF StartSession, Known
<1>5. CASE UNCHANGED vars
  BY <1>5 DEF vars, watch, history, SuccessStores, Sound, Holds
<1>6. CASE \/ Load \/ Start \/ Skip \/ Collect \/ Refuse \/ Distribute \/ Place
           \/ WritePage \/ NextPhase \/ CommandFails
  BY <1>6 DEF Load, Start, Skip, SkipTo, Collect, Refuse, Distribute, Place, WritePage,
     Writing, NextPhase, CommandFails, Return
<1> QED
  BY <1>2, <1>3, <1>4, <1>5, <1>6 DEF Next, Run

\* A load that returns 0 has stored the ADD it was given, all of it, where both
\* the watch and the host believe it to be.
THEOREM SuccessIsStored == Spec => []SuccessStores
<1>1. Init => SuccessStores
  BY DEF Init, SuccessStores
<1>2. LoadInv /\ SuccessStores /\ [Next]_vars => SuccessStores'
  BY SuccessStep
<1> QED
  BY <1>1, <1>2, LoadInvHolds, PTL DEF Spec

\* No command writes to the code area or below the databases, unless there was
\* no room for all ADDs.
LEMMA OutsideStep ==
  ASSUME LoadInv, [Next]_vars, ~overfull,
         NEW x \in Addresses, x < DB_START \/ x >= code_start
  PROVE  eeprom'[x] = eeprom[x]
<1>0. /\ TypeOK /\ PlacedInOrder /\ StoringInv /\ InOrder /\ AddsIntact
  BY PlacingMeansInOrder DEF LoadInv, Settled
<1>1. CASE eeprom' = eeprom
  BY <1>1
<1>2. CASE Writing /\ target \in Ext /\ off < SizeOf(target) /\ eeprom' = PageWritten
  <2>1. CASE pc = "inplace"
    <3>1. off < alloc_size
      BY <1>2, <2>1 DEF SizeOf
    <3> QED BY <1>0, <1>2, <2>1, <3>1, InPlaceWrite
  <2>2. CASE pc = "move"
    <3>1. i \in Ext /\ off < add_size[i]
      BY <1>2, <2>2 DEF SizeOf, target
    <3> QED BY <1>0, <1>2, <2>2, <3>1, MoveWrite
  <2> QED BY <1>2, <2>1, <2>2 DEF Writing
<1>3. CASE WritePage \/ CommandFails
  BY <1>1, <1>2, <1>3 DEF WritePage, CommandFails, watch
<1>4. CASE ~(WritePage \/ CommandFails)
  <2>1. eeprom' = eeprom
    BY <1>4 DEF Next, Run, StartSession, Load, Start, Skip, SkipTo, Collect, Refuse, Distribute,
       Place, Written, NextPhase, UpdateAcb, vars, watch
  <2> QED BY <2>1
<1> QED
  BY <1>3, <1>4

\* WristApp code and what is below DB_START is never written, whatever is
\* loaded and whatever fails, unless there was no room for all ADDs.
THEOREM WritesInsideOnly == Spec => OutsideUntouched
<1>1. LoadInv /\ [Next]_vars =>
         [~overfull => \A x \in Addresses :
             x < DB_START \/ x >= code_start => eeprom'[x] = eeprom[x]]_vars
  BY OutsideStep
<1> QED
  BY <1>1, LoadInvHolds, PTL DEF Spec, OutsideUntouched

=============================================================================
