------------------------ MODULE SQLExecFilesProofs ------------------------
(***************************************************************************)
(* How SQLExec uses its files, whether or not writes fail and however few  *)
(* the handles are.  Less is known then than in SQLExecProofs: a new block *)
(* may not be there, a table may have no handle, or hold one that is       *)
(* another table's.  The object of _tables is opened first and keeps its   *)
(* handle to itself, and a block of _tables that could not be stored ends  *)
(* the statement: what SHOW TABLES reads stays what is stored.             *)
(*                                                                         *)
(* The second half is that SQLExec keeps the discipline BTFile expects of  *)
(* its callers: each of its steps is one call, of an open object and a     *)
(* block it counts, on files of which a block is seen as a number of rows. *)
(***************************************************************************)
EXTENDS SQLExecProofs

-----------------------------------------------------------------------------
(***************************************************************************)
(* The inductive invariant.                                                *)
(***************************************************************************)

\* SQLExec::tables has been opened.
Up == has_tables /\ at.pc # "open_tables"

\* The databases and the handles.  The blocks of _tables have no gap.
DataOK ==
  /\ DOMAIN dbs \subseteq Name
  /\ \A n \in DOMAIN dbs :
       /\ IsFiniteSet(DOMAIN dbs[n]) /\ DOMAIN dbs[n] \subseteq Nat \ {0}
       /\ \A b \in DOMAIN dbs[n] : dbs[n][b] \in Pages /\ Len(dbs[n][b]) <= PAGE_ROWS + 1
  /\ TABLES \in DOMAIN dbs => \E k \in Nat : DOMAIN dbs[TABLES] = 1 .. k
  /\ slot \in [Files!Dbi -> Name \union {Free}]
  /\ \A h \in Files!Dbi : slot[h] # Free => slot[h] \in DOMAIN dbs
  /\ \A h, i \in Files!Dbi : slot[h] = slot[i] /\ slot[h] # Free => h = i

FileType == [name : Name, last : Nat, closed : BOOLEAN, dbi : 0 .. MAX_DBS]
FilesOK == file \in [Name -> FileType] /\ \A n \in Name : file[n].name = n

\* Which objects are open.
ObjectsOK ==
  /\ has_tables \in BOOLEAN
  /\ at.pc \in Booting \union {"down", "boot_end"} => ~has_tables
  /\ at.pc \in Writing \union {"open_tables", "insert_table", "wild"} => has_tables
  /\ at.pc = "down" => \A n \in Name : New(n)
  /\ ~Up => \A n \in User : New(n)
  /\ ~Up => \A n \in Name : file[n].closed \/ (at.pc \in Booting /\ n = at.table)
  /\ (\/ at.pc \in Booting /\ at.table = TABLES
      \/ at.pc = "open_tables"
      \/ at.pc = "ready" /\ ~has_tables) => New(COLUMNS)
  /\ at.pc \in {"boot_open", "boot_create"} => New(at.table)
  /\ at.pc = "open_tables" => New(TABLES)
  /\ at.pc \in {"boot_get_new", "boot_put", "boot_close", "get_new", "put", "seed"} =>
       ~file[at.table].closed
  /\ Up => ~file[TABLES].closed /\ \A n \in Name : file[n].closed => New(n)

\* Which handles are taken.  The one of _tables is no other object's.
NoneOpen ==
  \/ at.pc \in {"down", "boot_open", "boot_create", "boot_end", "open_tables"}
  \/ at.pc = "ready" /\ ~has_tables

SlotsOK ==
  /\ NoneOpen => \A h \in Files!Dbi : slot[h] = Free
  /\ at.pc \in {"boot_get_new", "boot_put", "boot_close"} =>
       \A h \in Files!Dbi : slot[h] # Free => slot[h] = at.table /\ h = file[at.table].dbi
  /\ Up => /\ \A h \in Files!Dbi : slot[h] = TABLES => h = file[TABLES].dbi
           /\ file[TABLES].dbi # 0 =>
                /\ slot[file[TABLES].dbi] = TABLES
                /\ \A n \in Name \ {TABLES} : file[n].dbi # file[TABLES].dbi

\* The object of _tables counts the blocks that are stored, but for one that
\* could not be, in which case nothing is appended to it.
Late ==
  /\ at.table = TABLES
  /\ \/ at.pc \in {"boot_put", "boot_close", "put"}
     \/ at.pc = "seed" /\ at.i = 1

TablesCounted ==
  at.pc # "wild" /\ Attached(TABLES) =>
    IF slot[file[TABLES].dbi] = TABLES
    THEN \/ DOMAIN dbs[TABLES] = 1 .. file[TABLES].last
         \/ /\ Late /\ file[TABLES].last > 0
            /\ DOMAIN dbs[TABLES] = 1 .. file[TABLES].last - 1
    ELSE TABLES \notin DOMAIN dbs

CountOK ==
  /\ at.pc = "boot_create" => at.table \notin DOMAIN dbs
  /\ at.pc = "boot_get_new" /\ file[at.table].dbi # 0 => file[at.table].last = 0
  /\ at.pc = "boot_put" /\ file[at.table].dbi # 0 => file[at.table].last = 1
  /\ at.pc = "put" => file[at.table].last > 0
  /\ TablesCounted

\* The handle of the statement's row leads to it, if it was stored.
HandleRow ==
  at.pc \in {"column", "rollback"} /\ at.handle \in StoredRows(TABLES) =>
    RowOf(TABLES, at.handle) = <<at.table>>

ProgramOK == AtOK /\ CacheOK /\ HistoryOK /\ HandleRow

FilesInv == DataOK /\ FilesOK /\ ObjectsOK /\ SlotsOK /\ CountOK /\ ProgramOK

LEMMA BasicFacts ==
  /\ Files!Dbi = 1 .. MAX_DBS /\ MAX_DBS \in Nat /\ PAGE_ROWS \in Nat /\ Free \notin Name
  /\ \A n \in Name : Files!NewFile(n) \in FileType /\ Files!NewFile(n).name = n
  /\ \A n \in Name : New(n) => file[n].closed /\ file[n].dbi = 0 /\ file[n].last = 0
  /\ <<>> \in Pages /\ Len(<<>>) <= PAGE_ROWS + 1 /\ DOMAIN <<>> = {}
<1>1. MAX_DBS \in Nat /\ PAGE_ROWS \in Nat /\ Free \notin Name /\ Files!Dbi = 1 .. MAX_DBS
  BY CatalogAssumption DEF CatalogAssumption, Files!Dbi
<1> QED
  BY <1>1 DEF FileType, Files!NewFile, Files!NoDbi, New, Pages

-----------------------------------------------------------------------------
(***************************************************************************)
(* The calls of BTFile.                                                    *)
(***************************************************************************)
LEMMA EntriesAre ==
  ASSUME DataOK, NEW n \in Name
  PROVE  /\ Files!Entries(n) \in Nat
         /\ n \notin DOMAIN dbs => Files!Entries(n) = 0
         /\ TABLES \in DOMAIN dbs => DOMAIN dbs[TABLES] = 1 .. Files!Entries(TABLES)
<1>1. \A S : Files!Cardinality(S) = Cardinality(S)
  BY DEF Files!Cardinality, Cardinality
<1>2. \A m \in DOMAIN dbs : Cardinality(DOMAIN dbs[m]) \in Nat
  BY FS_CardinalityType DEF DataOK
<1>3. \A k \in Nat : Cardinality(1 .. k) = k
  BY FS_Interval
<1>4. TABLES \in DOMAIN dbs => DOMAIN dbs[TABLES] = 1 .. Cardinality(DOMAIN dbs[TABLES])
  BY <1>3 DEF DataOK
<1> QED
  BY <1>1, <1>2, <1>4 DEF Files!Entries

\* What db_open(flags) leaves: a handle, none because there is none left or no
\* room for the new database, or one that is not valid because the commit failed.
OpenHas(n) ==
  \E h \in Files!Dbi :
    /\ slot[h] \in {n, Free} /\ slot' = [slot EXCEPT ![h] = n]
    /\ file'[n].dbi = h /\ file'[n].last = Files!Entries(n)
    /\ n \in DOMAIN dbs'
OpenFull(n) ==
  /\ ~FindsHandle(n) \/ (n \notin DOMAIN dbs /\ WRITES_FAIL)
  /\ slot' = slot /\ dbs' = dbs
  /\ file'[n].dbi = file[n].dbi /\ file'[n].last \in Garbage
OpenFailed(n) ==
  /\ n \notin DOMAIN dbs
  /\ slot' = slot /\ dbs' = dbs
  /\ \E h \in Files!Dbi : slot[h] = Free /\ file'[n].dbi = h
  /\ file'[n].last = 0

\* An object whose members are set.
LEMMA MembersAre ==
  ASSUME NEW D, NEW f \in [name : Name, last : Nat, closed : BOOLEAN, dbi : D],
         NEW last \in Nat, NEW dbi \in D
  PROVE  /\ [f EXCEPT !.last = last, !.closed = FALSE, !.dbi = dbi] =
              [name |-> f.name, last |-> last, closed |-> FALSE, dbi |-> dbi]
         /\ [f EXCEPT !.last = last, !.closed = FALSE] =
              [name |-> f.name, last |-> last, closed |-> FALSE, dbi |-> f.dbi]
         /\ [f EXCEPT !.last = last] =
              [name |-> f.name, last |-> last, closed |-> f.closed, dbi |-> f.dbi]
         /\ [f EXCEPT !.closed = TRUE] =
              [name |-> f.name, last |-> f.last, closed |-> TRUE, dbi |-> f.dbi]
<1>1. ASSUME NEW g, g = [f EXCEPT !.last = last, !.closed = FALSE, !.dbi = dbi]
      PROVE  g = [name |-> f.name, last |-> last, closed |-> FALSE, dbi |-> dbi]
  BY <1>1
<1>2. ASSUME NEW g, g = [f EXCEPT !.last = last, !.closed = FALSE]
      PROVE  g = [name |-> f.name, last |-> last, closed |-> FALSE, dbi |-> f.dbi]
  BY <1>2
<1>3. ASSUME NEW g, g = [f EXCEPT !.last = last]
      PROVE  g = [name |-> f.name, last |-> last, closed |-> f.closed, dbi |-> f.dbi]
  BY <1>3
<1>4. ASSUME NEW g, g = [f EXCEPT !.closed = TRUE]
      PROVE  g = [name |-> f.name, last |-> f.last, closed |-> TRUE, dbi |-> f.dbi]
  BY <1>4
<1> QED
  BY <1>1, <1>2, <1>3, <1>4

LEMMA ObjectSet ==
  ASSUME file \in [Name -> FileType], NEW n \in Name, NEW f,
         file' = [file EXCEPT ![n] = f], NEW last \in Nat, NEW closed \in BOOLEAN,
         NEW dbi \in 0 .. MAX_DBS,
         f = [name |-> file[n].name, last |-> last, closed |-> closed, dbi |-> dbi]
  PROVE  /\ file' \in [Name -> FileType] /\ file'[n].name = file[n].name
         /\ file'[n].last = last /\ file'[n].closed = closed /\ file'[n].dbi = dbi
         /\ \A m \in Name \ {n} : file'[m] = file[m]
<1>1. f \in FileType /\ f.name = file[n].name /\ f.last = last /\ f.closed = closed /\ f.dbi = dbi
  BY DEF FileType
<1> QED
  BY <1>1

LEMMA OpenEffect ==
  ASSUME DataOK, FilesOK, NEW n \in Name, NEW create \in BOOLEAN, Files!DbOpen(n, create)
  PROVE  /\ DataOK' /\ FilesOK' /\ ~file'[n].closed
         /\ \A m \in Name \ {n} : file'[m] = file[m]
         /\ \A m \in DOMAIN dbs : m \in DOMAIN dbs' /\ dbs'[m] = dbs[m]
         /\ \A m \in DOMAIN dbs' \ DOMAIN dbs : m = n /\ dbs'[m] = <<>>
         /\ OpenHas(n) \/ OpenFull(n) \/ (OpenFailed(n) /\ create)
<1> DEFINE h == Files!OpenHandle(n)
           status == Files!OpenStatus(n, create)
<1>1. /\ file \in [Name -> FileType] /\ file[n].name = n
      /\ slot \in [Files!Dbi -> Name \union {Free}]
  BY DEF DataOK, FilesOK
<1>2. status = "SUCCESS" => FindsHandle(n)
  BY DEF FindsHandle, Files!OpenStatus
<1>3. status = "SUCCESS" =>
        /\ h \in Files!Dbi
        /\ IF Files!HandlesOf(n) # {} THEN slot[h] = n ELSE slot[h] = Free
  <2>1. FindsHandle(n) =>
          h \in (IF Files!HandlesOf(n) # {} THEN Files!HandlesOf(n) ELSE Files!FreeHandles)
    BY HandlesBridge, StoreAssumptions, Store!OpenHandleIs DEF FindsHandle
  <2> QED
    BY <1>2, <2>1 DEF Files!HandlesOf, Files!FreeHandles
<1>4. status = "DBS_FULL" => ~FindsHandle(n)
  BY DEF FindsHandle, Files!OpenStatus
<1>5. n \notin DOMAIN dbs => Files!HandlesOf(n) = {}
  BY BasicFacts DEF DataOK, Files!HandlesOf
<1>6. status = "SUCCESS" /\ n \notin DOMAIN dbs => create
  BY <1>5 DEF Files!OpenStatus
<1>7. Files!Entries(n) \in Nat
  BY EntriesAre
<1> HIDE DEF h, status
<1>8. CASE /\ status = "SUCCESS"
           /\ Files!OpenDb(n)
           /\ file' = [file EXCEPT ![n] = [@ EXCEPT !.last = Files!Entries(n),
                                                    !.closed = FALSE, !.dbi = h]]
  <2>1. /\ slot' = [slot EXCEPT ![h] = n]
        /\ dbs' = [m \in DOMAIN dbs \union {n} |-> IF m \in DOMAIN dbs THEN dbs[m] ELSE <<>>]
    BY <1>8 DEF Files!OpenDb, h
  <2>2. h \in 0 .. MAX_DBS
    BY <1>3, <1>8, BasicFacts
  <2>3. /\ file' \in [Name -> FileType] /\ ~file'[n].closed /\ file'[n].name = n
        /\ \A m \in Name \ {n} : file'[m] = file[m]
        /\ file'[n].dbi = h /\ file'[n].last = Files!Entries(n)
    <3>1. file[n] \in FileType
      BY <1>1
    <3>2. PICK last \in Nat : last = Files!Entries(n)
      BY <1>7
    <3>3. PICK f : f = [file[n] EXCEPT !.last = last, !.closed = FALSE, !.dbi = h]
      OBVIOUS
    <3>4. f = [name |-> file[n].name, last |-> last, closed |-> FALSE, dbi |-> h]
      BY <2>2, <3>1, <3>3, MembersAre DEF FileType
    <3>5. file' = [file EXCEPT ![n] = f]
      BY <1>8, <3>2, <3>3
    <3> QED
      BY <1>1, <2>2, <3>2, <3>4, <3>5, ObjectSet
  <2>4. /\ DOMAIN dbs' = DOMAIN dbs \union {n}
        /\ \A m \in DOMAIN dbs : dbs'[m] = dbs[m]
        /\ n \notin DOMAIN dbs => dbs'[n] = <<>>
    BY <2>1
  <2>5. /\ slot' \in [Files!Dbi -> Name \union {Free}]
        /\ \A i \in Files!Dbi : slot'[i] # Free => slot'[i] \in DOMAIN dbs'
    BY <1>1, <1>3, <1>8, <2>1, <2>4 DEF DataOK
  <2>6. \A i, j \in Files!Dbi : slot'[i] = slot'[j] /\ slot'[i] # Free => i = j
    <3>1. \A i \in Files!Dbi : i # h => slot[i] # n
      BY <1>3, <1>8, BasicFacts DEF DataOK, Files!HandlesOf
    <3> QED
      BY <1>1, <1>3, <1>8, <2>1, <3>1 DEF DataOK
  <2>7. \A m \in DOMAIN dbs' :
          /\ IsFiniteSet(DOMAIN dbs'[m]) /\ DOMAIN dbs'[m] \subseteq Nat \ {0}
          /\ \A b \in DOMAIN dbs'[m] : dbs'[m][b] \in Pages /\ Len(dbs'[m][b]) <= PAGE_ROWS + 1
    BY <2>4, BasicFacts, FS_EmptySet DEF DataOK
  <2>8. TABLES \in DOMAIN dbs' => \E k \in Nat : DOMAIN dbs'[TABLES] = 1 .. k
    <3>1. CASE TABLES \in DOMAIN dbs
      BY <2>4, <3>1 DEF DataOK
    <3>2. CASE TABLES \notin DOMAIN dbs /\ TABLES \in DOMAIN dbs'
      <4>1. DOMAIN dbs'[TABLES] = 1 .. 0
        BY <2>4, <3>2, BasicFacts
      <4> QED
        BY <4>1
    <3> QED
      BY <3>1, <3>2
  <2>9. DataOK'
    <3>1. DOMAIN dbs' \subseteq Name
      BY <2>4 DEF DataOK
    <3> QED
      BY <2>5, <2>6, <2>7, <2>8, <3>1 DEF DataOK, Files!Dbi
  <2>10. FilesOK'
    BY <2>3 DEF FilesOK
  <2>11. OpenHas(n)
    BY <1>3, <1>8, <2>1, <2>3, <2>4 DEF OpenHas
  <2> QED
    BY <2>3, <2>4, <2>9, <2>10, <2>11
<1>9. CASE /\ status = "DBS_FULL" \/ Files!MayFailToCreate(n, status)
           /\ \E last \in Garbage :
                file' = [file EXCEPT ![n] = [@ EXCEPT !.last = last, !.closed = FALSE]]
           /\ UNCHANGED <<dbs, slot>>
  <2>1. PICK last \in Garbage :
          file' = [file EXCEPT ![n] = [@ EXCEPT !.last = last, !.closed = FALSE]]
    BY <1>9
  <2>2. last \in Nat
    BY CatalogAssumption DEF CatalogAssumption
  <2>3. /\ file' \in [Name -> FileType] /\ ~file'[n].closed /\ file'[n].name = n
        /\ \A m \in Name \ {n} : file'[m] = file[m]
        /\ file'[n].dbi = file[n].dbi /\ file'[n].last = last
    <3>1. file[n] \in FileType /\ file[n].dbi \in 0 .. MAX_DBS
      BY <1>1 DEF FileType
    <3>2. PICK f : f = [file[n] EXCEPT !.last = last, !.closed = FALSE]
      OBVIOUS
    <3>3. f = [name |-> file[n].name, last |-> last, closed |-> FALSE, dbi |-> file[n].dbi]
      BY <2>2, <3>1, <3>2, MembersAre DEF FileType
    <3>4. file' = [file EXCEPT ![n] = f]
      BY <2>1, <3>2
    <3> QED
      BY <1>1, <2>2, <3>1, <3>3, <3>4, ObjectSet
  <2>4. FilesOK' /\ DataOK'
    BY <1>9, <2>3 DEF FilesOK, DataOK, Files!Dbi
  <2>5. OpenFull(n)
    BY <1>4, <1>9, <2>3 DEF OpenFull, Files!MayFailToCreate
  <2> QED
    BY <1>9, <2>3, <2>4, <2>5
<1>10. CASE /\ status = "SUCCESS" /\ n \notin DOMAIN dbs /\ WRITES_FAIL
            /\ file' = [file EXCEPT ![n] = [@ EXCEPT !.last = 0, !.closed = FALSE, !.dbi = h]]
            /\ UNCHANGED <<dbs, slot>>
  <2>1. h \in 0 .. MAX_DBS
    BY <1>3, <1>10, BasicFacts
  <2>2. /\ file' \in [Name -> FileType] /\ ~file'[n].closed /\ file'[n].name = n
        /\ \A m \in Name \ {n} : file'[m] = file[m]
        /\ file'[n].dbi = h /\ file'[n].last = 0
    <3>1. file[n] \in FileType
      BY <1>1
    <3>2. PICK f : f = [file[n] EXCEPT !.last = 0, !.closed = FALSE, !.dbi = h]
      OBVIOUS
    <3>3. f = [name |-> file[n].name, last |-> 0, closed |-> FALSE, dbi |-> h]
      BY <2>1, <3>1, <3>2, MembersAre DEF FileType
    <3>4. file' = [file EXCEPT ![n] = f]
      BY <1>10, <3>2
    <3> QED
      BY <1>1, <2>1, <3>3, <3>4, ObjectSet
  <2>3. FilesOK' /\ DataOK'
    BY <1>10, <2>2 DEF FilesOK, DataOK, Files!Dbi
  <2>4. OpenFailed(n) /\ create
    BY <1>3, <1>5, <1>6, <1>10, <2>2 DEF OpenFailed
  <2> QED
    BY <1>10, <2>2, <2>3, <2>4
<1> QED
  BY <1>1, <1>8, <1>9, <1>10 DEF Files!DbOpen, Files!MayFailToCreate, h, status

\* What a write leaves: the block, or everything as it was.
Written(h, key, page) ==
  /\ DOMAIN dbs' = DOMAIN dbs
  /\ \A m \in DOMAIN dbs :
       \/ dbs'[m] = dbs[m]
       \/ /\ Files!Valid(h) /\ m = slot[h]
          /\ DOMAIN dbs'[m] = DOMAIN dbs[m] \union {key}
          /\ dbs'[m][key] = page
          /\ \A b \in DOMAIN dbs[m] : b # key => dbs'[m][b] = dbs[m][b]

LEMMA WriteEffect ==
  ASSUME DataOK, NEW h, NEW key \in Nat \ {0}, NEW page \in Pages, Len(page) <= PAGE_ROWS + 1,
         Files!PutEntry(h, key, page), slot' = slot,
         Files!Valid(h) /\ slot[h] = TABLES =>
           \E k \in Nat : DOMAIN dbs[TABLES] = 1 .. k /\ key \in 1 .. k + 1
  PROVE  DataOK' /\ Written(h, key, page)
<1>1. CASE dbs' = dbs
  BY <1>1 DEF DataOK, Written, Files!Dbi
<1>2. CASE /\ Files!Valid(h)
           /\ dbs' = [dbs EXCEPT ![slot[h]] =
                       [k \in DOMAIN @ \union {key} |-> IF k = key THEN page ELSE @[k]]]
  <2>1. PICK n \in DOMAIN dbs : n = slot[h]
    BY <1>2 DEF DataOK, Files!Valid
  <2>2. /\ DOMAIN dbs' = DOMAIN dbs
        /\ \A m \in DOMAIN dbs : m # n => dbs'[m] = dbs[m]
        /\ DOMAIN dbs'[n] = DOMAIN dbs[n] \union {key}
        /\ dbs'[n][key] = page
        /\ \A b \in DOMAIN dbs[n] : b # key => dbs'[n][b] = dbs[n][b]
    BY <1>2, <2>1
  <2>3. Written(h, key, page)
    BY <1>2, <2>1, <2>2 DEF Written
  <2>4. IsFiniteSet(DOMAIN dbs'[n]) /\ DOMAIN dbs'[n] \subseteq Nat \ {0}
    <3>1. IsFiniteSet(DOMAIN dbs[n]) /\ DOMAIN dbs[n] \subseteq Nat \ {0}
      BY <2>1 DEF DataOK
    <3>2. IsFiniteSet(DOMAIN dbs[n] \union {key})
      BY <3>1, FS_AddElement
    <3> QED
      BY <2>2, <3>1, <3>2
  <2>5. \A b \in DOMAIN dbs'[n] : dbs'[n][b] \in Pages /\ Len(dbs'[n][b]) <= PAGE_ROWS + 1
    BY <2>2 DEF DataOK
  <2>6. TABLES \in DOMAIN dbs => \E k \in Nat : DOMAIN dbs'[TABLES] = 1 .. k
    <3>1. CASE n = TABLES
      <4>1. PICK k \in Nat : DOMAIN dbs[TABLES] = 1 .. k /\ key \in 1 .. k + 1
        BY <1>2, <2>1, <3>1
      <4>2. DOMAIN dbs'[TABLES] = 1 .. k \/ DOMAIN dbs'[TABLES] = 1 .. k + 1
        <5>1. CASE key = k + 1
          <6>1. (1 .. k) \union {k + 1} = 1 .. k + 1
            OBVIOUS
          <6> QED
            BY <2>2, <3>1, <4>1, <5>1, <6>1
        <5>2. CASE key \in 1 .. k
          BY <2>2, <3>1, <4>1, <5>2
        <5> QED
          BY <4>1, <5>1, <5>2
      <4> QED
        BY <4>2
    <3>2. CASE n # TABLES
      BY <2>2, <3>2 DEF DataOK
    <3> QED
      BY <3>1, <3>2
  <2>7. DataOK'
    BY <2>2, <2>4, <2>5, <2>6 DEF DataOK, Files!Dbi
  <2> QED
    BY <2>3, <2>7
<1> QED
  BY <1>1, <1>2 DEF Files!PutEntry

-----------------------------------------------------------------------------
(***************************************************************************)
(* While tables is open.                                                   *)
(***************************************************************************)
LEMMA UpFacts ==
  ASSUME FilesInv, Up
  PROVE  /\ DataOK /\ FilesOK /\ at \in AtType /\ has_tables = TRUE
         /\ at.pc \in Writing \union {"insert_table", "ready", "wild"}
         /\ ~file[TABLES].closed /\ \A n \in Name : file[n].closed => New(n)
         /\ at.pc \in Writing \union {"insert_table"} => at.table \in Name /\ at.columns # <<>>
         /\ \A h \in Files!Dbi : slot[h] = TABLES => h = file[TABLES].dbi
         /\ file[TABLES].dbi # 0 =>
              /\ slot[file[TABLES].dbi] = TABLES
              /\ \A n \in Name \ {TABLES} : file[n].dbi # file[TABLES].dbi
         /\ TablesCounted /\ HandleRow /\ HistoryOK /\ CacheOK
<1>1. /\ DataOK /\ FilesOK /\ at \in AtType /\ has_tables = TRUE
      /\ ~file[TABLES].closed /\ \A n \in Name : file[n].closed => New(n)
      /\ TablesCounted /\ HandleRow /\ HistoryOK /\ CacheOK
      /\ at.pc \notin Booting \union {"down", "boot_end", "open_tables"}
  BY DEF FilesInv, ObjectsOK, CountOK, ProgramOK, AtOK, Up
<1>2. at.pc \in Writing \union {"insert_table", "ready", "wild"}
  BY <1>1 DEF AtType, Places
<1>3. at.pc \in Writing \union {"insert_table"} => at.table \in Name /\ at.columns # <<>>
  BY NamesAre DEF FilesInv, ProgramOK, AtOK
<1>4. /\ \A h \in Files!Dbi : slot[h] = TABLES => h = file[TABLES].dbi
      /\ file[TABLES].dbi # 0 =>
           /\ slot[file[TABLES].dbi] = TABLES
           /\ \A n \in Name \ {TABLES} : file[n].dbi # file[TABLES].dbi
  BY DEF FilesInv, SlotsOK
<1> QED
  BY <1>1, <1>2, <1>3, <1>4

\* No other object's handle leads to _tables.
LEMMA OthersElsewhere ==
  ASSUME FilesInv, Up, NEW n \in Name, n # TABLES, Files!Valid(file[n].dbi)
  PROVE  slot[file[n].dbi] # TABLES
<1>1. file[n].dbi \in Files!Dbi /\ file[n].dbi # 0
  BY BasicFacts DEF Files!Valid
<1> QED
  BY <1>1, UpFacts

LEMMA CountStays ==
  ASSUME DataOK, FilesOK, TablesCounted, at.pc # "wild" \/ at'.pc = "wild", slot' = slot,
         file'[TABLES] = file[TABLES], DOMAIN dbs' = DOMAIN dbs,
         TABLES \in DOMAIN dbs => DOMAIN dbs'[TABLES] = DOMAIN dbs[TABLES],
         at'.pc = "wild" \/ (Late => Late'),
         at'.pc \notin {"boot_create", "boot_get_new", "boot_put", "put"}
  PROVE  CountOK'
<1>1. TablesCounted'
  <2>1. SUFFICES ASSUME at'.pc # "wild", Attached(TABLES)'
                 PROVE  IF slot[file[TABLES].dbi] = TABLES
                        THEN \/ DOMAIN dbs'[TABLES] = 1 .. file[TABLES].last
                             \/ /\ Late' /\ file[TABLES].last > 0
                                /\ DOMAIN dbs'[TABLES] = 1 .. file[TABLES].last - 1
                        ELSE TABLES \notin DOMAIN dbs'
    BY DEF TablesCounted
  <2>2. at.pc # "wild" /\ Attached(TABLES)
    BY <2>1 DEF Attached, Files!Attached
  <2>3. slot[file[TABLES].dbi] = TABLES => TABLES \in DOMAIN dbs
    <3>1. file[TABLES].dbi \in 0 .. MAX_DBS /\ file[TABLES].dbi # 0
      BY <2>2, NamesAre DEF FilesOK, FileType, Attached, Files!Attached, Files!NoDbi
    <3> QED
      BY <3>1, BasicFacts, NamesAre DEF DataOK
  <2>4. CASE slot[file[TABLES].dbi] = TABLES
    BY <2>1, <2>2, <2>3, <2>4 DEF TablesCounted
  <2>5. CASE slot[file[TABLES].dbi] # TABLES
    BY <2>2, <2>5 DEF TablesCounted
  <2> QED
    BY <2>4, <2>5
<1> QED
  BY <1>1 DEF CountOK

LEMMA UpChanges ==
  ASSUME DataOK', FilesOK', has_tables' = TRUE, AtOK', CacheOK', HistoryOK', HandleRow', CountOK',
         at'.pc \in Writing \union {"insert_table", "ready", "wild"},
         ~file'[TABLES].closed, \A n \in Name : file'[n].closed => New(n)',
         at'.pc \in {"get_new", "put", "seed"} => ~file'[at'.table].closed,
         \A h \in Files!Dbi : slot'[h] = TABLES => h = file'[TABLES].dbi,
         file'[TABLES].dbi # 0 =>
           /\ slot'[file'[TABLES].dbi] = TABLES
           /\ \A n \in Name \ {TABLES} : file'[n].dbi # file'[TABLES].dbi
  PROVE  FilesInv'
<1>1. ObjectsOK'
  BY DEF ObjectsOK, Up, Writing, Booting
<1>2. SlotsOK'
  BY DEF SlotsOK, NoneOpen, Up, Writing, Files!Dbi
<1> QED
  BY <1>1, <1>2 DEF FilesInv, ProgramOK

LEMMA UpStay ==
  ASSUME FilesInv, Up, DataOK', slot' = slot, file' = file, has_tables' = has_tables,
         AtOK', CacheOK', HistoryOK', HandleRow', CountOK',
         at'.pc \in Writing \union {"insert_table", "ready", "wild"},
         at'.pc \in {"get_new", "put", "seed"} => ~file[at'.table].closed
  PROVE  FilesInv'
<1>1. FilesOK' /\ \A n \in Name : file'[n].closed => New(n)'
  BY UpFacts DEF FilesOK, New
<1> QED
  BY <1>1, UpFacts, UpChanges

\* What get_new() and put(block) do to the count of the blocks of _tables.
LEMMA CountPuts ==
  ASSUME DataOK, FilesOK, TablesCounted, at.pc # "wild", slot' = slot,
         file'[TABLES].closed = file[TABLES].closed, file'[TABLES].dbi = file[TABLES].dbi,
         NEW key, key = file'[TABLES].last, key > 0,
         NEW page, Written(file[TABLES].dbi, key, page), Late',
         \/ ~Late /\ file'[TABLES].last = file[TABLES].last + 1
         \/ Late /\ file'[TABLES].last = file[TABLES].last
  PROVE  TablesCounted'
<1>1. SUFFICES ASSUME Attached(TABLES)'
               PROVE  IF slot[file[TABLES].dbi] = TABLES
                      THEN \/ DOMAIN dbs'[TABLES] = 1 .. file'[TABLES].last
                           \/ /\ file'[TABLES].last > 0
                              /\ DOMAIN dbs'[TABLES] = 1 .. file'[TABLES].last - 1
                      ELSE TABLES \notin DOMAIN dbs'
  BY DEF TablesCounted
<1>2. Attached(TABLES)
  BY <1>1 DEF Attached, Files!Attached
<1>3. CASE slot[file[TABLES].dbi] = TABLES
  <2>1. /\ file[TABLES].dbi \in 0 .. MAX_DBS /\ file[TABLES].dbi # 0 /\ file[TABLES].last \in Nat
        /\ key \in Nat \ {0}
    BY <1>2, NamesAre DEF FilesOK, FileType, Attached, Files!Attached, Files!NoDbi
  <2>2. TABLES \in DOMAIN dbs
    BY <1>3, <2>1, BasicFacts, NamesAre DEF DataOK
  <2>3. DOMAIN dbs[TABLES] = 1 .. key \/ DOMAIN dbs[TABLES] = 1 .. key - 1
    BY <1>2, <1>3, <2>1 DEF TablesCounted
  <2>4. DOMAIN dbs'[TABLES] = DOMAIN dbs[TABLES] \/ DOMAIN dbs'[TABLES] = DOMAIN dbs[TABLES] \union {key}
    BY <2>2 DEF Written
  <2>5. (1 .. key - 1) \union {key} = 1 .. key /\ (1 .. key) \union {key} = 1 .. key
    BY <2>1
  <2> QED
    BY <1>3, <2>3, <2>4, <2>5
<1>4. CASE slot[file[TABLES].dbi] # TABLES
  <2>1. TABLES \notin DOMAIN dbs
    BY <1>2, <1>4 DEF TablesCounted
  <2> QED
    BY <1>4, <2>1 DEF Written
<1> QED
  BY <1>3, <1>4

\* get_new()
LEMMA AllocateEffect ==
  ASSUME FilesOK, NEW n \in Name, Files!AllocateBlock(n)
  PROVE  /\ FilesOK' /\ slot' = slot
         /\ Files!PutEntry(file[n].dbi, file[n].last + 1, <<>>)
         /\ file'[n].last = file[n].last + 1 /\ file'[n].closed = file[n].closed
         /\ file'[n].dbi = file[n].dbi
         /\ \A m \in Name \ {n} : file'[m] = file[m]
         /\ file[n].last \in Nat /\ file[n].last + 1 \in Nat \ {0}
<1>1. /\ file \in [Name -> FileType] /\ file[n] \in FileType /\ file[n].name = n
      /\ file[n].last \in Nat /\ file[n].closed \in BOOLEAN /\ file[n].dbi \in 0 .. MAX_DBS
  BY DEF FilesOK, FileType
<1>2. PICK last \in Nat : last = file[n].last + 1
  BY <1>1
<1>3. PICK f : f = [file[n] EXCEPT !.last = last]
  OBVIOUS
<1>4. f = [name |-> file[n].name, last |-> last, closed |-> file[n].closed, dbi |-> file[n].dbi]
  BY <1>1, <1>3, MembersAre DEF FileType
<1>5. file' = [file EXCEPT ![n] = f]
  BY <1>1, <1>2, <1>3 DEF Files!AllocateBlock
<1>6. /\ file' \in [Name -> FileType] /\ file'[n].name = n
      /\ file'[n].last = last /\ file'[n].closed = file[n].closed
      /\ file'[n].dbi = file[n].dbi
      /\ \A m \in Name \ {n} : file'[m] = file[m]
  <2>1. PICK closed \in BOOLEAN, dbi \in 0 .. MAX_DBS : closed = file[n].closed /\ dbi = file[n].dbi
    BY <1>1
  <2>2. f = [name |-> file[n].name, last |-> last, closed |-> closed, dbi |-> dbi]
    BY <1>4, <2>1
  <2>3. /\ file' \in [Name -> FileType] /\ file'[n].name = file[n].name
        /\ file'[n].last = last /\ file'[n].closed = closed /\ file'[n].dbi = dbi
        /\ \A m \in Name \ {n} : file'[m] = file[m]
    <3>1. file \in [Name -> FileType]
      BY <1>1
    <3> QED
      BY <1>5, <2>2, <3>1, ObjectSet
  <2> QED
    BY <1>1, <2>1, <2>3
<1>7. FilesOK'
  BY <1>6 DEF FilesOK
<1> QED
  BY <1>1, <1>2, <1>6, <1>7 DEF Files!AllocateBlock

\* The rows of _tables that are stored stay where and what they are.
LEMMA TablesRowsStay ==
  ASSUME DOMAIN dbs' = DOMAIN dbs, TABLES \in DOMAIN dbs => dbs'[TABLES] = dbs[TABLES]
  PROVE  /\ StoredRows(TABLES)' = StoredRows(TABLES)
         /\ \A h \in StoredRows(TABLES) : RowOf(TABLES, h)' = RowOf(TABLES, h)
<1>1. CASE TABLES \in DOMAIN dbs
  BY <1>1 DEF StoredRows, RowOf
<1>2. CASE TABLES \notin DOMAIN dbs
  BY <1>2 DEF StoredRows
<1> QED
  BY <1>1, <1>2

-----------------------------------------------------------------------------
(***************************************************************************)
(* The start of the program, and its end.                                  *)
(***************************************************************************)

\* A program that is not running.
LEMMA DownStay ==
  ASSUME DataOK', file' = [n \in Name |-> Files!NewFile(n)], slot' = Files!NoHandles,
         has_tables' = FALSE, table_cache' \subseteq Name, at' = Nowhere, HistoryOK'
  PROVE  FilesInv'
<1>1. at' \in AtType /\ at'.pc = "down"
  BY PlacesAre
<1>2. FilesOK' /\ \A n \in Name : New(n)' /\ file'[n].closed
  <2>1. \A n \in Name : file'[n] = Files!NewFile(n)
    OBVIOUS
  <2> QED
    BY <2>1, BasicFacts DEF FilesOK, New, Files!NewFile
<1>3. ObjectsOK'
  BY <1>1, <1>2, NamesAre DEF ObjectsOK, Up, Booting, Writing
<1>4. SlotsOK'
  BY <1>1 DEF SlotsOK, Up, Files!NoHandles, Files!Dbi
<1>5. CountOK'
  BY <1>1, <1>2, NamesAre DEF CountOK, TablesCounted, Attached, Files!Attached
<1>6. AtOK' /\ CacheOK' /\ HandleRow'
  BY <1>1 DEF AtOK, CacheOK, HandleRow, Booting, Writing
<1> QED
  BY <1>2, <1>3, <1>4, <1>5, <1>6 DEF FilesInv, ProgramOK

LEMMA InitFiles ==
  Init => FilesInv
<1> SUFFICES ASSUME Init
             PROVE  FilesInv
  OBVIOUS
<1>1. /\ dbs = [n \in {} |-> <<>>] /\ slot = Files!NoHandles
      /\ file = [n \in Name |-> Files!NewFile(n)]
      /\ has_tables = FALSE /\ table_cache = {} /\ at = Nowhere
  BY DEF Init
<1>2. at \in AtType /\ at.pc = "down"
  BY <1>1, PlacesAre
<1>3. FilesOK /\ \A n \in Name : New(n) /\ file[n].closed
  <2>1. \A n \in Name : file[n] = Files!NewFile(n)
    BY <1>1
  <2> QED
    BY <1>1, <2>1, BasicFacts DEF FilesOK, New, Files!NewFile
<1>4. DataOK
  BY <1>1, BasicFacts DEF DataOK, Files!NoHandles
<1>5. ObjectsOK
  BY <1>1, <1>2, <1>3, NamesAre DEF ObjectsOK, Up, Booting, Writing
<1>6. SlotsOK
  BY <1>1, <1>2 DEF SlotsOK, Up, Files!NoHandles, Files!Dbi
<1>7. CountOK
  BY <1>2, <1>3, NamesAre DEF CountOK, TablesCounted, Attached, Files!Attached
<1>8. AtOK /\ CacheOK /\ HandleRow
  BY <1>1, <1>2 DEF AtOK, CacheOK, HandleRow, Booting, Writing
<1>9. HistoryOK
  BY CatalogAssumption DEF HistoryOK, Init, CatalogAssumption
<1> QED
  BY <1>3, <1>4, <1>5, <1>6, <1>7, <1>8, <1>9 DEF FilesInv, ProgramOK

LEMMA StopFiles ==
  ASSUME FilesInv, Stop
  PROVE  FilesInv'
<1>1. /\ file' = [n \in Name |-> Files!NewFile(n)] /\ slot' = Files!NoHandles /\ dbs' = dbs
      /\ has_tables' = FALSE /\ table_cache' = {} /\ at' = Nowhere
      /\ statements' = statements /\ acked' = acked /\ acked_columns' = acked_columns
      /\ cut' = IF Pending THEN [cut EXCEPT ![at.table] = cut[at.table] + 1] ELSE cut
  BY DEF Stop
<1>2. DataOK'
  BY <1>1, BasicFacts DEF FilesInv, DataOK, Files!NoHandles, Files!Dbi
<1>3. HistoryOK'
  <2>1. Pending => at.table \in Name
    BY DEF FilesInv, ProgramOK, AtOK, Pending, Writing
  <2> QED
    BY <1>1, <2>1 DEF FilesInv, ProgramOK, HistoryOK
<1> QED
  BY <1>1, <1>2, <1>3, DownStay

LEMMA StartFiles ==
  ASSUME FilesInv, Start
  PROVE  FilesInv'
<1>1. /\ DataOK /\ FilesOK /\ at.pc = "down" /\ has_tables = FALSE
      /\ \A n \in Name : New(n) /\ file[n].closed
      /\ \A h \in Files!Dbi : slot[h] = Free
      /\ dbs' = dbs /\ slot' = slot /\ file' = file /\ has_tables' = has_tables
      /\ table_cache' = SchemaTables /\ HistoryOK /\ statements' = statements /\ UNCHANGED history
  BY BasicFacts DEF FilesInv, ObjectsOK, SlotsOK, NoneOpen, ProgramOK, Start, disk
<1>2. at' \in AtType /\ at'.pc = "boot_open" /\ at'.table = TABLES
  <2>1. at' = [Nowhere EXCEPT !.pc = "boot_open", !.table = TABLES]
    BY DEF Start
  <2> QED
    BY <2>1, PlacesAre, NamesAre DEF AtType, Places, Booting
<1>3. DataOK' /\ FilesOK' /\ HistoryOK' /\ \A n \in Name : New(n)' /\ file'[n].closed
  BY <1>1 DEF DataOK, FilesOK, HistoryOK, history, New, Files!Dbi
<1>4. ObjectsOK'
  BY <1>1, <1>2, <1>3, NamesAre DEF ObjectsOK, Up, Booting, Writing
<1>5. SlotsOK'
  BY <1>1, <1>2 DEF SlotsOK, Up, Files!Dbi
<1>6. CountOK'
  BY <1>2, <1>3, NamesAre DEF CountOK, TablesCounted, Attached, Files!Attached
<1>7. AtOK' /\ CacheOK' /\ HandleRow'
  BY <1>1, <1>2, NamesAre DEF AtOK, CacheOK, HandleRow, Booting, Writing
<1> QED
  BY <1>3, <1>4, <1>5, <1>6, <1>7 DEF FilesInv, ProgramOK

\* What is known while the schema tables are opened or created.
LEMMA StartFacts ==
  ASSUME FilesInv, at.pc \in Booting
  PROVE  /\ DataOK /\ FilesOK /\ at \in AtType /\ has_tables = FALSE
         /\ at.table \in SchemaTables /\ at.table \in Name
         /\ table_cache = SchemaTables /\ HistoryOK /\ TablesCounted
         /\ \A n \in User : New(n)
         /\ \A n \in Name : file[n].closed \/ n = at.table
         /\ at.table = TABLES => New(COLUMNS)
         /\ at.pc \in {"boot_open", "boot_create"} =>
              New(at.table) /\ \A h \in Files!Dbi : slot[h] = Free
         /\ at.pc \in {"boot_get_new", "boot_put", "boot_close"} =>
              /\ ~file[at.table].closed
              /\ \A h \in Files!Dbi : slot[h] # Free => slot[h] = at.table /\ h = file[at.table].dbi
<1>1. at.table \in SchemaTables /\ has_tables = FALSE
  BY DEF FilesInv, ProgramOK, AtOK, ObjectsOK
<1> QED
  BY <1>1, NamesAre
  DEF FilesInv, ProgramOK, AtOK, CacheOK, ObjectsOK, SlotsOK, CountOK, NoneOpen, Up, Booting

\* What is to be shown of a step of the start.
LEMMA StartStay ==
  ASSUME FilesInv, at.pc \in Booting, UNCHANGED memory, DataOK', FilesOK',
         NEW pc \in Booting, GoTo(pc),
         \A n \in Name \ {at.table} : file'[n] = file[n],
         pc \in {"boot_open", "boot_create"} =>
           New(at.table)' /\ \A h \in Files!Dbi : slot'[h] = Free,
         pc \in {"boot_get_new", "boot_put", "boot_close"} =>
           /\ ~file'[at.table].closed
           /\ \A h \in Files!Dbi : slot'[h] # Free => slot'[h] = at.table /\ h = file'[at.table].dbi,
         CountOK'
  PROVE  FilesInv'
<1>1. /\ has_tables' = FALSE /\ table_cache' = SchemaTables /\ HistoryOK'
      /\ at' \in AtType /\ at'.pc = pc /\ at'.table = at.table
  <2>1. pc \in Places
    BY DEF Places
  <2> QED
    BY <2>1, StartFacts, GoToIs DEF memory, history, HistoryOK
<1>2. AtOK' /\ CacheOK' /\ HandleRow'
  BY <1>1, StartFacts, NamesAre DEF AtOK, CacheOK, HandleRow, Booting, Writing
<1>3. /\ \A n \in User : New(n)'
      /\ \A n \in Name : file'[n].closed \/ n = at.table
      /\ at.table = TABLES => New(COLUMNS)'
  BY StartFacts, NamesAre DEF New
<1>4. ObjectsOK'
  BY <1>1, <1>3, NamesAre DEF ObjectsOK, Up, Booting, Writing
<1>5. SlotsOK'
  BY <1>1 DEF SlotsOK, NoneOpen, Up, Booting, Files!Dbi
<1> QED
  BY <1>1, <1>2, <1>4, <1>5 DEF FilesInv, ProgramOK

\* _tables opened first.
LEMMA CountOpened ==
  ASSUME DataOK, FilesOK, New(TABLES), \A h \in Files!Dbi : slot[h] = Free,
         OpenHas(TABLES) \/ OpenFull(TABLES) \/ OpenFailed(TABLES),
         \A m \in DOMAIN dbs : m \in DOMAIN dbs' /\ dbs'[m] = dbs[m],
         \A m \in DOMAIN dbs' \ DOMAIN dbs : dbs'[m] = <<>>
  PROVE  TablesCounted'
<1>1. SUFFICES ASSUME Attached(TABLES)'
               PROVE  IF slot'[file'[TABLES].dbi] = TABLES
                      THEN DOMAIN dbs'[TABLES] = 1 .. file'[TABLES].last
                      ELSE TABLES \notin DOMAIN dbs'
  BY DEF TablesCounted
<1>2. file'[TABLES].dbi # 0
  BY <1>1 DEF Attached, Files!Attached, Files!NoDbi
<1>3. ~OpenFull(TABLES)
  BY <1>2, BasicFacts, NamesAre DEF OpenFull
<1>4. CASE OpenHas(TABLES)
  <2>1. /\ slot'[file'[TABLES].dbi] = TABLES /\ file'[TABLES].last = Files!Entries(TABLES)
        /\ TABLES \in DOMAIN dbs'
    BY <1>4 DEF OpenHas, DataOK
  <2>2. CASE TABLES \in DOMAIN dbs
    BY <2>1, <2>2, NamesAre, EntriesAre
  <2>3. CASE TABLES \notin DOMAIN dbs
    <3>1. Files!Entries(TABLES) = 0 /\ dbs'[TABLES] = <<>>
      BY <2>1, <2>3, NamesAre, EntriesAre
    <3>2. DOMAIN dbs'[TABLES] = 1 .. 0
      BY <3>1
    <3> QED
      BY <2>1, <3>1, <3>2
  <2> QED
    BY <2>2, <2>3
<1>5. CASE OpenFailed(TABLES)
  BY <1>5, BasicFacts, NamesAre DEF OpenFailed
<1> QED
  BY <1>3, <1>4, <1>5

\* Opening a schema table, the only object that is open then.
LEMMA StartOpens ==
  ASSUME FilesInv, at.pc \in {"boot_open", "boot_create"}, NEW n \in Name, n = at.table,
         NEW create \in BOOLEAN, Files!DbOpen(n, create), UNCHANGED memory,
         NEW pc \in {"boot_get_new", "boot_close"}, GoTo(pc),
         pc = "boot_get_new" => n \notin DOMAIN dbs
  PROVE  FilesInv'
<1>1. /\ at.pc \in Booting /\ pc \in Booting /\ pc \in Places
  BY DEF Booting, Places
<1>2. /\ DataOK /\ FilesOK /\ at \in AtType /\ New(n) /\ n \in SchemaTables
      /\ \A h \in Files!Dbi : slot[h] = Free
      /\ \A m \in Name : file[m].closed \/ m = n
  BY <1>1, StartFacts
<1>3. /\ DataOK' /\ FilesOK' /\ ~file'[n].closed
      /\ \A m \in Name \ {n} : file'[m] = file[m]
      /\ \A m \in DOMAIN dbs : m \in DOMAIN dbs' /\ dbs'[m] = dbs[m]
      /\ \A m \in DOMAIN dbs' \ DOMAIN dbs : m = n /\ dbs'[m] = <<>>
      /\ OpenHas(n) \/ OpenFull(n) \/ OpenFailed(n)
  BY <1>2, OpenEffect
<1>4. at'.pc = pc /\ at'.table = n
  BY <1>1, <1>2, GoToIs
<1>5. \A h \in Files!Dbi : slot'[h] # Free => slot'[h] = n /\ h = file'[n].dbi
  <2>1. CASE OpenHas(n)
    <3>1. PICK g \in Files!Dbi : slot' = [slot EXCEPT ![g] = n] /\ file'[n].dbi = g
      BY <2>1 DEF OpenHas
    <3> QED
      BY <1>2, <3>1 DEF DataOK
  <2>2. CASE OpenFull(n) \/ OpenFailed(n)
    BY <1>2, <2>2 DEF OpenFull, OpenFailed
  <2> QED
    BY <1>3, <2>1, <2>2
<1>6. CountOK'
  <2>1. pc = "boot_get_new" /\ file'[n].dbi # 0 => file'[n].last = 0
    BY <1>2, <1>3, BasicFacts, EntriesAre DEF OpenHas, OpenFull, OpenFailed
  <2>2. TablesCounted'
    <3>1. CASE n = TABLES
      BY <1>2, <1>3, <3>1, CountOpened
    <3>2. CASE n # TABLES
      BY <1>2, <1>3, <3>2, NamesAre DEF TablesCounted, Attached, Files!Attached
    <3> QED
      BY <3>1, <3>2
  <2> QED
    BY <1>4, <2>1, <2>2 DEF CountOK
<1> QED
  BY <1>1, <1>3, <1>5, <1>6, StartStay

LEMMA BootOpenFiles ==
  ASSUME FilesInv, BootOpen
  PROVE  FilesInv'
<1>1. at.pc = "boot_open" /\ at.pc \in Booting /\ UNCHANGED memory
  BY DEF BootOpen, Booting
<1>2. PICK n \in Name : n = at.table
  BY <1>1, StartFacts
<1>3. CASE Files!OpenStatus(n, FALSE) = "NOTFOUND"
  <2>1. GoTo("boot_create") /\ dbs' = dbs /\ slot' = slot /\ file' = file
    BY <1>2, <1>3 DEF BootOpen, disk
  <2>2. n \notin DOMAIN dbs
    BY <1>3 DEF Files!OpenStatus
  <2>3. /\ DataOK /\ FilesOK /\ at \in AtType /\ New(n) /\ TablesCounted
        /\ \A h \in Files!Dbi : slot[h] = Free
        /\ \A m \in Name : file[m].closed \/ m = n
    BY <1>1, <1>2, StartFacts
  <2>4. DataOK' /\ FilesOK' /\ New(n)' /\ file'[n].closed
    BY <2>1, <2>3, BasicFacts DEF DataOK, FilesOK, New, Files!Dbi
  <2>5. "boot_create" \in Booting /\ "boot_create" \in Places
    BY DEF Booting, Places
  <2>6. at'.pc = "boot_create" /\ at'.table = n
    BY <1>2, <2>1, <2>3, <2>5, GoToIs
  <2>7. CountOK'
    BY <2>1, <2>2, <2>3, <2>4, <2>6, NamesAre
    DEF CountOK, TablesCounted, Attached, Files!Attached
  <2>8. \A h \in Files!Dbi : slot'[h] = Free
    BY <2>1, <2>3
  <2>9. \A m \in Name \ {at.table} : file'[m] = file[m]
    BY <2>1
  <2>10. PICK pc \in {"boot_create"} : TRUE
    OBVIOUS
  <2>11. pc \in Booting /\ pc = "boot_create" /\ GoTo(pc) /\ New(at.table)'
    BY <2>1, <2>4, <2>5, <2>6, <2>10 DEF New
  <2> QED
    BY <1>1, <2>4, <2>7, <2>8, <2>9, <2>11, StartStay
<1>4. CASE Files!OpenStatus(n, FALSE) # "NOTFOUND"
  <2>1. GoTo("boot_close") /\ Files!DbOpen(n, FALSE)
    BY <1>2, <1>4 DEF BootOpen
  <2> QED
    BY <1>1, <1>2, <2>1, StartOpens
<1> QED
  BY <1>3, <1>4

LEMMA BootCreateFiles ==
  ASSUME FilesInv, BootCreate
  PROVE  FilesInv'
<1>1. at.pc = "boot_create" /\ at.pc \in Booting /\ UNCHANGED memory /\ GoTo("boot_get_new")
  BY DEF BootCreate, Booting
<1>2. PICK n \in Name : n = at.table
  BY <1>1, StartFacts
<1>3. n \notin DOMAIN dbs /\ Files!DbOpen(n, TRUE)
  BY <1>1, <1>2 DEF FilesInv, CountOK, BootCreate
<1> QED
  BY <1>1, <1>2, <1>3, StartOpens

LEMMA BootGetNewFiles ==
  ASSUME FilesInv, BootGetNew
  PROVE  FilesInv'
<1>1. /\ at.pc = "boot_get_new" /\ at.pc \in Booting /\ UNCHANGED memory /\ GoTo("boot_put")
      /\ "boot_put" \in Booting /\ "boot_put" \in Places
  BY DEF BootGetNew, Booting, Places
<1>2. PICK n \in Name : n = at.table
  BY <1>1, StartFacts
<1>3. /\ DataOK /\ FilesOK /\ at \in AtType /\ TablesCounted /\ n \in SchemaTables
      /\ ~file[n].closed /\ \A m \in Name : file[m].closed \/ m = n
      /\ \A h \in Files!Dbi : slot[h] # Free => slot[h] = n /\ h = file[n].dbi
  BY <1>1, <1>2, StartFacts
<1>4. Files!AllocateBlock(n)
  BY <1>2 DEF BootGetNew
<1>5. /\ FilesOK' /\ slot' = slot
      /\ Files!PutEntry(file[n].dbi, file[n].last + 1, <<>>)
      /\ file'[n].last = file[n].last + 1 /\ file'[n].closed = file[n].closed
      /\ file'[n].dbi = file[n].dbi
      /\ \A m \in Name \ {n} : file'[m] = file[m]
      /\ file[n].last \in Nat /\ file[n].last + 1 \in Nat \ {0}
  BY <1>3, <1>4, AllocateEffect
<1>6. at'.pc = "boot_put" /\ at'.table = n
  BY <1>1, <1>2, <1>3, GoToIs
<1>7. PICK h \in 0 .. MAX_DBS, key \in Nat \ {0} : h = file[n].dbi /\ key = file[n].last + 1
  BY <1>3, <1>5 DEF FilesOK, FileType
<1>8. ~Late /\ (n = TABLES => Late')
  BY <1>1, <1>6 DEF Late
<1>9. n = TABLES /\ Files!Valid(h) =>
        /\ slot[h] = TABLES
        /\ DOMAIN dbs[TABLES] = 1 .. file[n].last
  <2>1. Files!Valid(h) => h \in Files!Dbi /\ h # 0 /\ slot[h] # Free
    BY BasicFacts DEF Files!Valid
  <2> QED
    BY <1>1, <1>3, <1>7, <1>8, <2>1
    DEF TablesCounted, Attached, Files!Attached, Files!NoDbi
<1>10. DataOK' /\ Written(h, key, <<>>)
  <2>1. Files!Valid(h) /\ slot[h] = TABLES =>
           \E k \in Nat : DOMAIN dbs[TABLES] = 1 .. k /\ key \in 1 .. k + 1
    <3>1. Files!Valid(h) /\ slot[h] = TABLES => n = TABLES
      BY <1>3, BasicFacts DEF Files!Valid
    <3>2. key \in 1 .. file[n].last + 1
      BY <1>5, <1>7
    <3> QED
      BY <1>5, <1>9, <3>1, <3>2
  <2> QED
    BY <1>3, <1>5, <1>7, <2>1, BasicFacts, WriteEffect
<1>11. CountOK'
  <2>1. file'[n].dbi # 0 => file'[n].last = 1
    BY <1>1, <1>2, <1>5 DEF FilesInv, CountOK
  <2>2. CASE n = TABLES
    <3>1. TablesCounted'
      BY <1>1, <1>3, <1>5, <1>7, <1>8, <1>10, <2>2, CountPuts
    <3> QED
      BY <1>6, <2>1, <3>1 DEF CountOK
  <2>3. CASE n # TABLES
    <3>1. file'[TABLES].closed
      BY <1>3, <1>5, <2>3, NamesAre
    <3> QED
      BY <1>6, <2>1, <3>1 DEF CountOK, TablesCounted, Attached, Files!Attached
  <2> QED
    BY <2>2, <2>3
<1> QED
  BY <1>1, <1>2, <1>3, <1>5, <1>10, <1>11, StartStay DEF Files!Dbi

LEMMA BootPutFiles ==
  ASSUME FilesInv, BootPut
  PROVE  FilesInv'
<1>1. /\ at.pc = "boot_put" /\ at.pc \in Booting /\ UNCHANGED memory /\ GoTo("boot_close")
      /\ "boot_close" \in Booting /\ "boot_close" \in Places
  BY DEF BootPut, Booting, Places
<1>2. PICK n \in Name : n = at.table
  BY <1>1, StartFacts
<1>3. /\ DataOK /\ FilesOK /\ at \in AtType /\ TablesCounted /\ n \in SchemaTables
      /\ ~file[n].closed /\ \A m \in Name : file[m].closed \/ m = n
      /\ \A h \in Files!Dbi : slot[h] # Free => slot[h] = n /\ h = file[n].dbi
  BY <1>1, <1>2, StartFacts
<1>4. Files!PutEntry(file[n].dbi, file[n].last, <<>>) /\ slot' = slot /\ file' = file
  BY <1>2 DEF BootPut, Files!PutBlock
<1>5. at'.pc = "boot_close" /\ at'.table = n
  BY <1>1, <1>2, <1>3, GoToIs
<1>6. PICK h \in 0 .. MAX_DBS, key \in Nat : h = file[n].dbi /\ key = file[n].last
  BY <1>3 DEF FilesOK, FileType
<1>7. h # 0 => key = 1
  BY <1>1, <1>2, <1>6 DEF FilesInv, CountOK
<1>8. n = TABLES => Late /\ Late'
  BY <1>1, <1>2, <1>5 DEF Late
<1>9. FilesOK'
  BY <1>3, <1>4 DEF FilesOK
<1>10. DataOK' /\ CountOK'
  <2>1. CASE h = 0
    <3>1. dbs' = dbs
      BY <1>4, <1>6, <2>1, BasicFacts DEF Files!PutEntry, Files!Valid
    <3>2. DataOK'
      BY <1>3, <1>4, <3>1 DEF DataOK, Files!Dbi
    <3>3. ~Attached(TABLES)'
      BY <1>3, <1>4, <1>6, <2>1, NamesAre DEF Attached, Files!Attached, Files!NoDbi
    <3>4. CountOK'
      BY <1>5, <3>3 DEF CountOK, TablesCounted
    <3> QED
      BY <3>2, <3>4
  <2>2. CASE h # 0
    <3>1. Files!Valid(h) /\ slot[h] = TABLES =>
            \E k \in Nat : DOMAIN dbs[TABLES] = 1 .. k /\ key \in 1 .. k + 1
      <4>1. SUFFICES ASSUME Files!Valid(h), slot[h] = TABLES
                     PROVE  \E k \in Nat : DOMAIN dbs[TABLES] = 1 .. k /\ key \in 1 .. k + 1
        OBVIOUS
      <4>2. n = TABLES
        BY <1>3, <4>1, BasicFacts DEF Files!Valid
      <4>3. DOMAIN dbs[TABLES] = 1 .. 1 \/ DOMAIN dbs[TABLES] = 1 .. 0
        BY <1>1, <1>3, <1>6, <1>7, <2>2, <4>1, <4>2
        DEF TablesCounted, Attached, Files!Attached, Files!NoDbi
      <4>4. key = 1 /\ key \in 1 .. 1 + 1 /\ key \in 1 .. 0 + 1
        BY <1>7, <2>2
      <4> QED
        BY <4>3, <4>4
    <3>2. DataOK' /\ Written(h, key, <<>>)
      <4>1. key \in Nat \ {0} /\ Files!PutEntry(h, key, <<>>)
        BY <1>4, <1>6, <1>7, <2>2
      <4> QED
        BY <1>3, <1>4, <3>1, <4>1, BasicFacts, WriteEffect
    <3>3. CASE n = TABLES
      <4>1. TablesCounted'
        BY <1>1, <1>3, <1>4, <1>6, <1>7, <1>8, <2>2, <3>2, <3>3, CountPuts
      <4> QED
        BY <1>5, <3>2, <4>1 DEF CountOK
    <3>4. CASE n # TABLES
      <4>1. file'[TABLES].closed
        BY <1>3, <1>4, <3>4, NamesAre
      <4> QED
        BY <1>5, <3>2, <4>1 DEF CountOK, TablesCounted, Attached, Files!Attached
    <3> QED
      BY <3>3, <3>4
  <2> QED
    BY <2>1, <2>2
<1> QED
  BY <1>1, <1>2, <1>3, <1>4, <1>9, <1>10, StartStay DEF Files!Dbi

\* close() of the one open object leaves no handle taken.
LEMMA BootCloseFiles ==
  ASSUME FilesInv, BootClose
  PROVE  FilesInv'
<1>1. at.pc = "boot_close" /\ at.pc \in Booting /\ UNCHANGED memory
  BY DEF BootClose, Booting
<1>2. PICK n \in Name : n = at.table
  BY <1>1, StartFacts
<1>3. /\ DataOK /\ FilesOK /\ at \in AtType /\ n \in SchemaTables
      /\ has_tables = FALSE /\ table_cache = SchemaTables /\ HistoryOK
      /\ \A m \in User : New(m)
      /\ \A m \in Name : file[m].closed \/ m = n
      /\ n = TABLES => New(COLUMNS)
      /\ \A h \in Files!Dbi : slot[h] # Free => slot[h] = n /\ h = file[n].dbi
  BY <1>1, <1>2, StartFacts
<1>4. /\ dbs' = dbs
      /\ slot' = IF file[n].dbi \in Files!Dbi THEN [slot EXCEPT ![file[n].dbi] = Free] ELSE slot
      /\ file' = [file EXCEPT ![n].closed = TRUE]
  BY <1>2 DEF BootClose, Files!CloseFile, Files!CloseDbi
<1>5. \A h \in Files!Dbi : slot'[h] = Free
  BY <1>3, <1>4 DEF DataOK
<1>6. DataOK'
  <2>1. slot' \in [Files!Dbi -> Name \union {Free}]
    BY <1>3, <1>4 DEF DataOK
  <2> QED
    BY <1>3, <1>4, <1>5, <2>1 DEF DataOK, Files!Dbi
<1>7. /\ FilesOK' /\ file'[n].closed
      /\ \A m \in Name \ {n} : file'[m] = file[m]
  <2>1. /\ file \in [Name -> FileType] /\ file[n] \in FileType /\ file[n].name = n
        /\ file[n].last \in Nat /\ file[n].dbi \in 0 .. MAX_DBS
    BY <1>3 DEF FilesOK, FileType
  <2>2. PICK last \in Nat, dbi \in 0 .. MAX_DBS : last = file[n].last /\ dbi = file[n].dbi
    BY <2>1
  <2>3. PICK f : f = [file[n] EXCEPT !.closed = TRUE]
    OBVIOUS
  <2>4. f = [name |-> file[n].name, last |-> last, closed |-> TRUE, dbi |-> dbi]
    BY <2>1, <2>2, <2>3, MembersAre DEF FileType
  <2>5. file' = [file EXCEPT ![n] = f]
    BY <1>4, <2>3
  <2>6. /\ file' \in [Name -> FileType] /\ file'[n].name = n /\ file'[n].closed = TRUE
        /\ \A m \in Name \ {n} : file'[m] = file[m]
    BY <2>1, <2>4, <2>5, ObjectSet
  <2> QED
    BY <1>3, <2>6 DEF FilesOK
<1>8. /\ has_tables' = FALSE /\ table_cache' = SchemaTables /\ HistoryOK'
  BY <1>1, <1>3 DEF memory, history, HistoryOK
<1>9. \A m \in Name : file'[m].closed
  BY <1>3, <1>7
<1>10. /\ \A m \in User : New(m)'
       /\ n = TABLES => New(COLUMNS)'
  BY <1>3, <1>7, NamesAre DEF New
<1>11. /\ at' \in AtType
       /\ IF n = TABLES THEN at'.pc = "boot_open" /\ at'.table = COLUMNS
                        ELSE at'.pc = "boot_end" /\ at'.table = NoObject
  <2>1. at' = IF n = TABLES THEN [at EXCEPT !.pc = "boot_open", !.table = COLUMNS]
                            ELSE [at EXCEPT !.pc = "boot_end", !.table = NoObject]
    BY <1>2 DEF BootClose
  <2> QED
    BY <1>3, <2>1, NamesAre DEF AtType, Places, Booting
<1>12. AtOK' /\ CacheOK' /\ HandleRow'
  BY <1>8, <1>11, NamesAre DEF AtOK, CacheOK, HandleRow, Booting, Writing
<1>13. ObjectsOK'
  BY <1>8, <1>9, <1>10, <1>11, NamesAre DEF ObjectsOK, Up, Booting, Writing
<1>14. SlotsOK'
  BY <1>5, <1>8, <1>11 DEF SlotsOK, NoneOpen, Up, Files!Dbi
<1>15. CountOK'
  BY <1>9, <1>11, NamesAre DEF CountOK, TablesCounted, Attached, Files!Attached
<1> QED
  BY <1>6, <1>7, <1>8, <1>12, <1>13, <1>14, <1>15 DEF FilesInv, ProgramOK

LEMMA BootEndFiles ==
  ASSUME FilesInv, BootEnd
  PROVE  FilesInv'
<1>1. /\ DataOK /\ FilesOK /\ has_tables = FALSE
      /\ \A n \in User : New(n)
      /\ \A n \in Name : file[n].closed
      /\ \A h \in Files!Dbi : slot[h] = Free
      /\ table_cache = SchemaTables /\ HistoryOK
  BY DEF FilesInv, ObjectsOK, SlotsOK, NoneOpen, Up, ProgramOK, CacheOK, BootEnd, Booting
<1>2. /\ dbs' = dbs /\ slot' = slot /\ has_tables' = FALSE /\ table_cache' = SchemaTables
      /\ file' = [file EXCEPT ![COLUMNS] = Files!NewFile(COLUMNS)] /\ HistoryOK'
      /\ at' = Ready
  BY <1>1 DEF BootEnd, memory, history, HistoryOK
<1>3. /\ FilesOK' /\ DataOK'
      /\ New(COLUMNS)' /\ \A n \in User : New(n)'
  BY <1>1, <1>2, NamesAre, BasicFacts DEF FilesOK, DataOK, New, Files!Dbi
<1>4. \A n \in Name : file'[n].closed
  BY <1>1, <1>2, <1>3, NamesAre, BasicFacts DEF Files!NewFile
<1>5. at' \in AtType /\ at'.pc = "ready"
  BY <1>2, PlacesAre
<1>6. AtOK' /\ CacheOK' /\ HandleRow'
  BY <1>2, <1>5, NamesAre DEF AtOK, CacheOK, HandleRow, Booting, Writing
<1>7. ObjectsOK'
  BY <1>2, <1>3, <1>4, <1>5 DEF ObjectsOK, Up, Booting, Writing
<1>8. SlotsOK'
  BY <1>1, <1>2, <1>5 DEF SlotsOK, Up, Files!Dbi
<1>9. CountOK'
  BY <1>4, <1>5, NamesAre DEF CountOK, TablesCounted, Attached, Files!Attached
<1> QED
  BY <1>2, <1>3, <1>6, <1>7, <1>8, <1>9 DEF FilesInv, ProgramOK

-----------------------------------------------------------------------------
(***************************************************************************)
(* A statement begins.                                                     *)
(***************************************************************************)

\* SQLExec::tables is constructed.
LEMMA ConstructFiles ==
  ASSUME FilesInv, at.pc = "ready", has_tables = FALSE, dbs' = dbs, slot' = slot,
         file' = [file EXCEPT ![TABLES] = Files!NewFile(TABLES)], has_tables' = TRUE,
         table_cache' = table_cache, HistoryOK', at' \in AtType, at'.pc = "open_tables",
         at'.i = 1, at'.table # NoObject => at'.columns # <<>>
  PROVE  FilesInv'
<1>1. /\ DataOK /\ FilesOK
      /\ \A n \in User : New(n)
      /\ \A n \in Name : file[n].closed
      /\ \A h \in Files!Dbi : slot[h] = Free
      /\ New(COLUMNS) /\ CacheOK
  BY DEF FilesInv, ObjectsOK, SlotsOK, NoneOpen, Up, ProgramOK, Booting
<1>2. /\ FilesOK' /\ DataOK'
      /\ New(TABLES)' /\ New(COLUMNS)' /\ \A n \in User : New(n)'
  BY <1>1, NamesAre, BasicFacts DEF FilesOK, DataOK, New, Files!Dbi
<1>3. \A n \in Name : file'[n].closed
  BY <1>1, <1>2, NamesAre, BasicFacts DEF Files!NewFile
<1>4. AtOK' /\ CacheOK' /\ HandleRow'
  BY <1>1 DEF AtOK, CacheOK, HandleRow, Booting, Writing
<1>5. ObjectsOK'
  BY <1>2, <1>3 DEF ObjectsOK, Up, Booting, Writing
<1>6. SlotsOK'
  BY <1>1 DEF SlotsOK, Up, Files!Dbi
<1>7. CountOK'
  BY <1>3, NamesAre DEF CountOK, TablesCounted, Attached, Files!Attached
<1> QED
  BY <1>2, <1>4, <1>5, <1>6, <1>7 DEF FilesInv, ProgramOK

LEMMA ExecuteCreateFiles ==
  ASSUME FilesInv, NEW t \in Named, NEW columns \in ColumnLists, ExecuteCreate(t, columns)
  PROVE  FilesInv'
<1>1. /\ at.pc = "ready" /\ statements < MAX_STATEMENTS /\ statements' = statements + 1
      /\ at' = [pc |-> IF has_tables THEN "insert_table" ELSE "open_tables",
                table |-> t, columns |-> columns, i |-> 1, handle |-> <<0, 0>>]
      /\ IF has_tables THEN file' = file
                       ELSE file' = [file EXCEPT ![TABLES] = Files!NewFile(TABLES)]
      /\ has_tables' = TRUE /\ dbs' = dbs /\ slot' = slot /\ table_cache' = table_cache
      /\ UNCHANGED history
  BY DEF ExecuteCreate
<1>2. /\ t \in Name /\ columns \in Seq([name : STRING, ok : BOOLEAN]) /\ columns # <<>>
      /\ MAX_STATEMENTS \in Nat
  BY CatalogAssumption DEF CatalogAssumption
<1>3. /\ at' \in AtType /\ at'.i = 1 /\ at'.columns # <<>> /\ at'.table = t
      /\ at'.pc = IF has_tables THEN "insert_table" ELSE "open_tables"
  <2>1. "insert_table" \in Places /\ "open_tables" \in Places /\ <<0, 0>> \in Nat \X Nat
    BY DEF Places
  <2> QED
    BY <1>1, <1>2, <2>1 DEF AtType
<1>4. HistoryOK'
  BY <1>1, <1>2 DEF FilesInv, ProgramOK, HistoryOK, history
<1>5. CASE has_tables
  <2>1. Up
    BY <1>1, <1>5 DEF Up
  <2>2. /\ DataOK /\ FilesOK /\ has_tables = TRUE /\ TablesCounted /\ CacheOK
    BY <2>1, UpFacts
  <2>3. DataOK'
    BY <1>1, <2>2 DEF DataOK, Files!Dbi
  <2>4. AtOK' /\ CacheOK' /\ HandleRow'
    BY <1>1, <1>2, <1>3, <1>5, <2>2 DEF AtOK, CacheOK, HandleRow, Booting, Writing
  <2>5. CountOK'
    <3>1. ~Late
      BY <1>1 DEF Late
    <3> QED
      BY <1>1, <1>3, <1>5, <2>2, <3>1, CountStays
  <2> QED
    BY <1>1, <1>3, <1>4, <1>5, <2>1, <2>2, <2>3, <2>4, <2>5, UpStay
<1>6. CASE ~has_tables
  <2>1. has_tables = FALSE
    BY <1>6 DEF FilesInv, ObjectsOK
  <2> QED
    BY <1>1, <1>3, <1>4, <2>1, ConstructFiles
<1> QED
  BY <1>5, <1>6

LEMMA ExecuteOtherFiles ==
  ASSUME FilesInv, ExecuteOther
  PROVE  FilesInv'
<1>1. /\ at.pc = "ready" /\ ~has_tables /\ at' = [Nowhere EXCEPT !.pc = "open_tables"]
      /\ file' = [file EXCEPT ![TABLES] = Files!NewFile(TABLES)]
      /\ has_tables' = TRUE /\ dbs' = dbs /\ slot' = slot /\ table_cache' = table_cache
      /\ statements' = statements /\ UNCHANGED history
  BY DEF ExecuteOther
<1>2. at' \in AtType /\ at'.pc = "open_tables" /\ at'.table = NoObject /\ at'.i = 1
  <2>1. "open_tables" \in Places
    BY DEF Places
  <2> QED
    BY <1>1, <2>1, PlacesAre DEF AtType
<1>3. HistoryOK'
  BY <1>1 DEF FilesInv, ProgramOK, HistoryOK, history
<1>4. has_tables = FALSE
  BY <1>1 DEF FilesInv, ObjectsOK
<1> QED
  BY <1>1, <1>2, <1>3, <1>4, ConstructFiles

\* A step that only moves on.
LEMMA MoveFiles ==
  ASSUME FilesInv, Up, UNCHANGED <<dbs, slot, file, has_tables, table_cache>>, HistoryOK',
         at' \in AtType, at'.pc \in Writing \union {"ready", "wild"},
         at.pc = "wild" \/ Late => at'.pc = "wild", at'.pc # "put",
         at'.pc \in Writing =>
           at.pc \in Writing /\ at'.table = at.table /\ at'.columns = at.columns,
         at'.pc \in {"column", "rollback"} =>
           at.pc \in {"column", "rollback"} /\ at'.handle = at.handle,
         at'.pc \in {"get_new", "seed"} => ~file[at.table].closed
  PROVE  FilesInv'
<1>1. /\ DataOK /\ FilesOK /\ has_tables = TRUE /\ TablesCounted /\ CacheOK /\ HandleRow
      /\ at.pc \in Writing \union {"insert_table", "ready", "wild"}
      /\ at.pc \in Writing => at.table \in Name /\ at.columns # <<>>
  BY UpFacts
<1>2. DataOK'
  BY <1>1 DEF DataOK, Files!Dbi
<1>3. AtOK' /\ CacheOK'
  BY <1>1 DEF AtOK, CacheOK, Booting, Writing
<1>4. HandleRow'
  BY <1>1 DEF HandleRow, StoredRows, RowOf, Writing
<1>5. CountOK'
  <2>1. at'.pc \notin {"boot_create", "boot_get_new", "boot_put", "put"}
    BY DEF Writing
  <2> QED
    BY <1>1, <2>1, CountStays
<1>6. at'.pc \in {"get_new", "put", "seed"} => ~file[at'.table].closed
  BY DEF Writing
<1> QED
  BY <1>1, <1>2, <1>3, <1>4, <1>5, <1>6, UpStay

LEMMA GoWildFiles ==
  ASSUME FilesInv, Up, GoWild
  PROVE  FilesInv'
<1>1. /\ at \in AtType /\ HistoryOK /\ "wild" \in Places
  BY UpFacts DEF Places
<1>2. at' \in AtType /\ at'.pc = "wild"
  BY <1>1, GoToIs DEF GoWild
<1>3. HistoryOK' /\ UNCHANGED <<dbs, slot, file, has_tables, table_cache>>
  BY <1>1 DEF GoWild, HistoryOK, history, disk
<1> QED
  BY <1>2, <1>3, MoveFiles DEF Writing

LEMMA ShowDamagedFiles ==
  ASSUME FilesInv, ShowDamaged
  PROVE  FilesInv'
<1>1. Up /\ GoWild
  BY DEF ShowDamaged, Up
<1> QED
  BY <1>1, GoWildFiles

LEMMA RejectColumnFiles ==
  ASSUME FilesInv, RejectColumn
  PROVE  FilesInv'
<1>1. /\ at.pc = "column" /\ GoTo("rollback") /\ UNCHANGED <<disk, memory>>
      /\ "rollback" \in Places /\ "rollback" \in Writing
  BY DEF RejectColumn, MoreColumns, Places, Writing
<1>2. Up /\ ~Late
  BY <1>1 DEF FilesInv, ObjectsOK, Up, Writing, Late
<1>3. /\ at' \in AtType /\ at'.pc = "rollback"
      /\ at'.table = at.table /\ at'.columns = at.columns /\ at'.handle = at.handle
  BY <1>1, <1>2, UpFacts, GoToIs
<1>4. HistoryOK' /\ UNCHANGED <<dbs, slot, file, has_tables, table_cache>>
  BY <1>1, <1>2, UpFacts DEF HistoryOK, history, disk, memory
<1> QED
  BY <1>1, <1>2, <1>3, <1>4, MoveFiles DEF Writing

LEMMA AnswerFiles ==
  ASSUME FilesInv, Answer
  PROVE  FilesInv'
<1>1. /\ at.pc = "seed" /\ at.i > Len(Seeds(at.table)) /\ at' = Ready
      /\ acked' = [acked EXCEPT ![at.table] = acked[at.table] + 1]
      /\ acked_columns' = acked_columns \union
           {<<at.table, at.columns[i].name>> : i \in DOMAIN at.columns}
      /\ UNCHANGED <<dbs, slot, file, has_tables, table_cache>>
      /\ statements' = statements /\ cut' = cut
  BY DEF Answer, disk
<1>2. Up
  BY <1>1 DEF FilesInv, ObjectsOK, Up, Writing
<1>3. at \in AtType /\ at.table \in Name /\ HistoryOK
  BY <1>1, <1>2, UpFacts DEF Writing
<1>4. ~Late
  <2>1. at.table = TABLES => Seeds(at.table) = <<<<TABLES>>, <<COLUMNS>>>>
    BY NamesAre DEF Seeds
  <2> QED
    BY <1>1, <2>1 DEF Late
<1>5. at' \in AtType /\ at'.pc = "ready"
  BY <1>1, PlacesAre
<1>6. HistoryOK'
  <2>1. \A i \in DOMAIN at.columns : at.columns[i].name \in STRING
    <3>1. at.columns \in Seq([name : STRING, ok : BOOLEAN])
      BY <1>3 DEF AtType
    <3>2. DOMAIN at.columns = 1 .. Len(at.columns)
      BY <3>1
    <3>3. \A i \in DOMAIN at.columns : at.columns[i] \in [name : STRING, ok : BOOLEAN]
      BY <3>1, <3>2, ElementIs
    <3> QED
      BY <3>3
  <2> QED
    BY <1>1, <1>3, <2>1 DEF HistoryOK
<1> QED
  BY <1>1, <1>2, <1>4, <1>5, <1>6, MoveFiles DEF Writing

-----------------------------------------------------------------------------
(***************************************************************************)
(* Objects are opened and constructed.                                     *)
(***************************************************************************)
LEMMA OpenTablesFiles ==
  ASSUME FilesInv, OpenTables
  PROVE  FilesInv'
<1>1. CASE Stop
  BY <1>1, StopFiles
<1>2. CASE ~Stop
  <2>1. /\ at.pc = "open_tables" /\ Files!DbOpen(TABLES, FALSE)
        /\ IF at.table = NoObject THEN at' = Ready ELSE GoTo("insert_table")
        /\ UNCHANGED memory
    BY <1>2 DEF OpenTables
  <2>2. /\ DataOK /\ FilesOK /\ at \in AtType /\ has_tables = TRUE
        /\ New(TABLES) /\ New(COLUMNS) /\ \A n \in User : New(n)
        /\ \A h \in Files!Dbi : slot[h] = Free
        /\ CacheOK /\ HistoryOK /\ AtOK
        /\ at.i = 1 /\ (at.table # NoObject => at.columns # <<>>)
    BY <2>1 DEF FilesInv, ObjectsOK, SlotsOK, NoneOpen, Up, ProgramOK, AtOK
  <2>3. /\ DataOK' /\ FilesOK' /\ ~file'[TABLES].closed
        /\ \A m \in Name \ {TABLES} : file'[m] = file[m]
        /\ \A m \in DOMAIN dbs : m \in DOMAIN dbs' /\ dbs'[m] = dbs[m]
        /\ \A m \in DOMAIN dbs' \ DOMAIN dbs : m = TABLES /\ dbs'[m] = <<>>
        /\ OpenHas(TABLES) \/ OpenFull(TABLES)
    <3>1. PICK create \in BOOLEAN : create = FALSE
      OBVIOUS
    <3>2. Files!DbOpen(TABLES, create)
      BY <2>1, <3>1
    <3> QED
      BY <2>2, <3>1, <3>2, NamesAre, OpenEffect
  <2>4. /\ has_tables' = TRUE /\ table_cache' = table_cache /\ HistoryOK'
    BY <2>1, <2>2 DEF memory, history, HistoryOK
  <2>5. /\ at' \in AtType /\ at'.pc \in {"insert_table", "ready"}
        /\ at'.pc = "insert_table" =>
             at'.table \in Name /\ at'.i = 1 /\ at'.columns # <<>>
    <3>1. CASE at.table = NoObject
      BY <2>1, <3>1, PlacesAre
    <3>2. CASE at.table # NoObject
      <4>1. "insert_table" \in Places /\ GoTo("insert_table")
        BY <2>1, <3>2 DEF Places
      <4>2. at.table \in Name
        BY <2>2, <3>2 DEF AtType
      <4> QED
        BY <2>2, <3>2, <4>1, <4>2, GoToIs
    <3> QED
      BY <3>1, <3>2
  <2>6. AtOK' /\ CacheOK' /\ HandleRow'
    <3>1. TABLES \in table_cache
      BY <2>1, <2>2 DEF CacheOK
    <3> QED
      BY <2>2, <2>4, <2>5, <3>1 DEF AtOK, CacheOK, HandleRow, Booting, Writing
  <2>7. CountOK'
    <3>1. TablesCounted'
      BY <2>2, <2>3, CountOpened
    <3> QED
      BY <2>5, <3>1 DEF CountOK
  <2>8. \A n \in Name \ {TABLES} : New(n)' /\ file'[n].dbi = 0
    <3>1. \A n \in Name \ {TABLES} : New(n)
      BY <2>2 DEF Name, SchemaTables
    <3> QED
      BY <2>3, <3>1, BasicFacts DEF New
  <2>9. \A h \in Files!Dbi : slot'[h] = TABLES => h = file'[TABLES].dbi
    <3>1. TABLES # Free
      BY BasicFacts, NamesAre
    <3>2. CASE OpenHas(TABLES)
      BY <2>2, <3>1, <3>2 DEF OpenHas, DataOK
    <3>3. CASE OpenFull(TABLES)
      BY <2>2, <3>1, <3>3 DEF OpenFull
    <3> QED
      BY <2>3, <3>2, <3>3
  <2>10. file'[TABLES].dbi # 0 => slot'[file'[TABLES].dbi] = TABLES
    <3>1. CASE OpenHas(TABLES)
      BY <2>2, <3>1 DEF OpenHas, DataOK
    <3>2. CASE OpenFull(TABLES)
      BY <2>2, <3>2, NamesAre, BasicFacts DEF OpenFull
    <3> QED
      BY <2>3, <3>1, <3>2
  <2> QED
    BY <2>3, <2>4, <2>5, <2>6, <2>7, <2>8, <2>9, <2>10, UpChanges
<1> QED
  BY <1>1, <1>2

\* A further object is opened: it takes a handle of its own, or none.
LEMMA UpOpens ==
  ASSUME FilesInv, Up, NEW n \in Name, file[n].closed, NEW create \in BOOLEAN,
         Files!DbOpen(n, create), UNCHANGED memory, at.pc \in {"column", "create"},
         at' \in AtType, at'.pc \in {"column", "get_new"}, at'.table = at.table,
         at'.columns = at.columns, at'.handle = at.handle,
         at.pc = "create" => at'.pc = "get_new",
         at'.pc = "get_new" => n = at.table
  PROVE  FilesInv'
<1>1. /\ DataOK /\ FilesOK /\ has_tables = TRUE /\ TablesCounted /\ CacheOK /\ HistoryOK
      /\ HandleRow /\ New(n) /\ ~file[TABLES].closed /\ n # TABLES
      /\ at.table \in Name /\ at.columns # <<>>
      /\ \A m \in Name : file[m].closed => New(m)
      /\ \A h \in Files!Dbi : slot[h] = TABLES => h = file[TABLES].dbi
      /\ file[TABLES].dbi # 0 =>
           /\ slot[file[TABLES].dbi] = TABLES
           /\ \A m \in Name \ {TABLES} : file[m].dbi # file[TABLES].dbi
  BY UpFacts DEF Writing
<1>2. /\ DataOK' /\ FilesOK' /\ ~file'[n].closed
      /\ \A m \in Name \ {n} : file'[m] = file[m]
      /\ \A m \in DOMAIN dbs : m \in DOMAIN dbs' /\ dbs'[m] = dbs[m]
      /\ \A m \in DOMAIN dbs' \ DOMAIN dbs : m = n
      /\ OpenHas(n) \/ OpenFull(n) \/ OpenFailed(n)
  BY <1>1, OpenEffect
<1>3. /\ has_tables' = TRUE /\ table_cache' = table_cache /\ HistoryOK'
  BY <1>1 DEF memory, history, HistoryOK
<1>4. file'[TABLES] = file[TABLES]
  BY <1>1, <1>2, NamesAre
<1>5. /\ TABLES \in DOMAIN dbs' <=> TABLES \in DOMAIN dbs
      /\ TABLES \in DOMAIN dbs => dbs'[TABLES] = dbs[TABLES]
  BY <1>1, <1>2
<1>6. HandleRow'
  <2>1. PICK h : h = at.handle
    OBVIOUS
  <2>2. at'.handle = h
    BY <2>1
  <2>3. CASE TABLES \in DOMAIN dbs
    <3>1. StoredRows(TABLES)' = StoredRows(TABLES) /\ RowOf(TABLES, h)' = RowOf(TABLES, h)
      BY <1>5, <2>3 DEF StoredRows, RowOf
    <3> QED
      BY <1>1, <2>1, <2>2, <3>1 DEF HandleRow, RowOf
  <2>4. CASE TABLES \notin DOMAIN dbs
    BY <1>5, <2>4 DEF HandleRow, StoredRows
  <2> QED
    BY <2>3, <2>4
<1>7. AtOK' /\ CacheOK'
  BY <1>1, <1>3 DEF AtOK, CacheOK, Booting, Writing
<1>8. \A m \in Name : file'[m].closed => New(m)'
  BY <1>1, <1>2 DEF New
<1>9. /\ \A h \in Files!Dbi : slot'[h] = TABLES => slot[h] = TABLES
      /\ \A h \in Files!Dbi : slot[h] = TABLES => slot'[h] = TABLES /\ file'[n].dbi # h
  <2>1. TABLES # Free
    BY BasicFacts, NamesAre
  <2>2. CASE OpenHas(n)
    <3>1. PICK h \in Files!Dbi :
            slot[h] \in {n, Free} /\ slot' = [slot EXCEPT ![h] = n] /\ file'[n].dbi = h
      BY <2>2 DEF OpenHas
    <3> QED
      BY <1>1, <2>1, <3>1 DEF DataOK
  <2>3. CASE OpenFull(n)
    BY <1>1, <2>3, BasicFacts DEF OpenFull
  <2>4. CASE OpenFailed(n)
    BY <1>1, <2>1, <2>4 DEF OpenFailed
  <2> QED
    BY <1>2, <2>2, <2>3, <2>4
<1>10. \A h \in Files!Dbi : slot'[h] = TABLES => h = file'[TABLES].dbi
  BY <1>1, <1>4, <1>9
<1>11. file'[TABLES].dbi # 0 =>
         /\ slot'[file'[TABLES].dbi] = TABLES
         /\ \A m \in Name \ {TABLES} : file'[m].dbi # file'[TABLES].dbi
  <2>1. file[TABLES].dbi # 0 => file[TABLES].dbi \in Files!Dbi
    BY <1>1, BasicFacts, NamesAre DEF FilesOK, FileType
  <2> QED
    BY <1>1, <1>2, <1>4, <1>9, <2>1
<1>12. CountOK'
  <2>1. SUFFICES ASSUME Attached(TABLES)'
                 PROVE  DOMAIN dbs'[TABLES] = 1 .. file'[TABLES].last
    BY <1>11 DEF CountOK, TablesCounted, Attached, Files!Attached, Files!NoDbi
  <2>2. /\ file[TABLES].dbi # 0 /\ Attached(TABLES)
    BY <1>4, <2>1 DEF Attached, Files!Attached, Files!NoDbi
  <2>3. TABLES \in DOMAIN dbs
    <3>1. file[TABLES].dbi \in Files!Dbi /\ TABLES # Free
      BY <1>1, <2>2, BasicFacts, NamesAre DEF FilesOK, FileType
    <3> QED
      BY <1>1, <2>2, <3>1 DEF DataOK
  <2>4. DOMAIN dbs[TABLES] = 1 .. file[TABLES].last
    BY <1>1, <2>2 DEF TablesCounted, Late
  <2> QED
    BY <1>4, <1>5, <2>3, <2>4
<1> QED
  <2>1. at'.pc \in {"get_new", "put", "seed"} => ~file'[at'.table].closed
    BY <1>2
  <2>2. at'.pc \in Writing
    BY DEF Writing
  <2> QED
    BY <1>1, <1>2, <1>3, <1>4, <1>6, <1>7, <1>8, <1>10, <1>11, <1>12, <2>1, <2>2, UpChanges

LEMMA OpenColumnsFiles ==
  ASSUME FilesInv, OpenColumns
  PROVE  FilesInv'
<1>1. CASE Stop
  BY <1>1, StopFiles
<1>2. CASE ~Stop
  <2>1. /\ at.pc = "column" /\ file[COLUMNS].closed /\ Files!DbOpen(COLUMNS, FALSE)
        /\ at' = at /\ UNCHANGED memory
    BY <1>2 DEF OpenColumns, MoreColumns
  <2>2. Up
    BY <2>1 DEF FilesInv, ObjectsOK, Up, Writing
  <2>3. at \in AtType
    BY <2>2, UpFacts
  <2> QED
    BY <2>1, <2>2, <2>3, NamesAre, UpOpens
<1> QED
  BY <1>1, <1>2

LEMMA CreateFileFiles ==
  ASSUME FilesInv, CreateFile
  PROVE  FilesInv'
<1>1. /\ at.pc = "create" /\ GoTo("get_new") /\ UNCHANGED memory
      /\ "get_new" \in Places /\ "get_new" \in Writing
  BY DEF CreateFile, Places, Writing
<1>2. Up /\ ~Late
  BY <1>1 DEF FilesInv, ObjectsOK, Up, Writing, Late
<1>3. at \in AtType /\ at.table \in Name /\ HistoryOK
  BY <1>1, <1>2, UpFacts DEF Writing
<1>4. /\ at' \in AtType /\ at'.pc = "get_new"
      /\ at'.table = at.table /\ at'.columns = at.columns /\ at'.handle = at.handle
  BY <1>1, <1>3, GoToIs
<1>5. PICK n \in Name : n = at.table
  BY <1>3
<1>6. CASE file[n].closed
  <2>1. Files!DbOpen(n, TRUE)
    BY <1>5, <1>6 DEF CreateFile
  <2> QED
    BY <1>1, <1>2, <1>4, <1>5, <1>6, <2>1, UpOpens
<1>7. CASE ~file[n].closed
  <2>1. UNCHANGED <<dbs, slot, file, has_tables, table_cache>> /\ HistoryOK'
    BY <1>1, <1>3, <1>5, <1>7 DEF CreateFile, disk, memory, history, HistoryOK
  <2>2. at.pc \in Writing
    BY <1>1 DEF Writing
  <2> QED
    BY <1>1, <1>2, <1>4, <1>5, <1>7, <2>1, <2>2, MoveFiles
<1> QED
  BY <1>6, <1>7

\* get_table constructs no object of _tables: that one is in the cache.
LEMMA GetTableFiles ==
  ASSUME FilesInv, GetTable
  PROVE  FilesInv'
<1>1. /\ at.pc = "column" /\ GoTo("create") /\ dbs' = dbs /\ slot' = slot
      /\ has_tables' = has_tables /\ statements' = statements /\ UNCHANGED history
      /\ "create" \in Places /\ "create" \in Writing /\ at.pc \in Writing
  BY DEF GetTable, Places, Writing
<1>2. Up /\ ~Late
  BY <1>1 DEF FilesInv, ObjectsOK, Up, Writing, Late
<1>3. /\ DataOK /\ FilesOK /\ at \in AtType /\ at.table \in Name /\ HistoryOK /\ CacheOK
      /\ has_tables = TRUE /\ TablesCounted /\ at.columns # <<>>
      /\ ~file[TABLES].closed /\ \A n \in Name : file[n].closed => New(n)
      /\ \A h \in Files!Dbi : slot[h] = TABLES => h = file[TABLES].dbi
      /\ file[TABLES].dbi # 0 =>
           /\ slot[file[TABLES].dbi] = TABLES
           /\ \A n \in Name \ {TABLES} : file[n].dbi # file[TABLES].dbi
  BY <1>1, <1>2, UpFacts
<1>4. /\ at' \in AtType /\ at'.pc = "create"
      /\ at'.table = at.table /\ at'.columns = at.columns /\ at'.handle = at.handle
  BY <1>1, <1>3, GoToIs
<1>5. HistoryOK'
  BY <1>1, <1>3 DEF HistoryOK, history
<1>6. PICK n \in Name : n = at.table
  BY <1>3
<1>7. CASE n \in table_cache
  <2>1. UNCHANGED <<dbs, slot, file, has_tables, table_cache>>
    BY <1>1, <1>6, <1>7 DEF GetTable
  <2> QED
    BY <1>1, <1>2, <1>4, <1>5, <2>1, MoveFiles
<1>8. CASE n \notin table_cache
  <2>1. /\ file' = [file EXCEPT ![n] = Files!NewFile(n)]
        /\ table_cache' = table_cache \union {n}
    BY <1>6, <1>8 DEF GetTable
  <2>2. n # TABLES
    BY <1>1, <1>3, <1>8 DEF CacheOK, Writing
  <2>3. /\ FilesOK' /\ file'[TABLES] = file[TABLES] /\ file'[n].dbi = 0
        /\ \A m \in Name \ {n} : file'[m] = file[m]
        /\ New(n)'
    BY <1>3, <2>1, <2>2, NamesAre, BasicFacts DEF FilesOK, New, Files!NewFile, Files!NoDbi
  <2>4. DataOK'
    BY <1>1, <1>3 DEF DataOK, Files!Dbi
  <2>5. AtOK' /\ CacheOK' /\ HandleRow'
    BY <1>1, <1>3, <1>4, <2>1 DEF AtOK, CacheOK, HandleRow, Booting, Writing
  <2>6. CountOK'
    BY <1>1, <1>2, <1>3, <1>4, <2>3, CountStays
  <2>7. /\ \A m \in Name : file'[m].closed => New(m)'
        /\ file'[TABLES].dbi # 0 =>
             /\ slot'[file'[TABLES].dbi] = TABLES
             /\ \A m \in Name \ {TABLES} : file'[m].dbi # file'[TABLES].dbi
    BY <1>1, <1>3, <2>3 DEF New
  <2> QED
    BY <1>1, <1>3, <1>4, <1>5, <2>3, <2>4, <2>5, <2>6, <2>7, UpChanges
<1> QED
  BY <1>7, <1>8

-----------------------------------------------------------------------------
(***************************************************************************)
(* Rows are appended and deleted.                                          *)
(***************************************************************************)

\* A block that an object reads, of its own table or of another.
LEMMA BlockIs ==
  ASSUME DataOK, NEW n \in Name, NEW b, HasBlock(n, b)
  PROVE  /\ Files!Valid(file[n].dbi) /\ slot[file[n].dbi] \in DOMAIN dbs
         /\ b \in DOMAIN dbs[slot[file[n].dbi]] /\ b \in Nat \ {0}
         /\ Page(n, b) = dbs[slot[file[n].dbi]][b]
         /\ Page(n, b) \in Pages /\ Len(Page(n, b)) <= PAGE_ROWS + 1
BY DEF DataOK, HasBlock, Files!HasEntry, Files!Valid, Page

\* A block is written that is there.
LEMMA RewriteEffect ==
  ASSUME FilesInv, Up, NEW n \in Name, NEW b, HasBlock(n, b), NEW page \in Pages,
         Len(page) <= PAGE_ROWS + 1, Files!PutBlock(n, b, page)
  PROVE  /\ DataOK' /\ file' = file /\ slot' = slot
         /\ Written(file[n].dbi, b, page)
         /\ n # TABLES => DOMAIN dbs' = DOMAIN dbs /\ (TABLES \in DOMAIN dbs => dbs'[TABLES] = dbs[TABLES])
<1>1. /\ DataOK /\ Files!Valid(file[n].dbi) /\ slot[file[n].dbi] \in DOMAIN dbs
      /\ b \in DOMAIN dbs[slot[file[n].dbi]] /\ b \in Nat \ {0}
  BY UpFacts, BlockIs
<1>2. PICK key \in Nat \ {0} : key = b
  BY <1>1
<1> DEFINE h == file[n].dbi
<1>3. Files!PutEntry(h, key, page) /\ file' = file /\ slot' = slot
  BY <1>2 DEF Files!PutBlock
<1>4. Files!Valid(h) /\ slot[h] = TABLES =>
        \E k \in Nat : DOMAIN dbs[TABLES] = 1 .. k /\ key \in 1 .. k + 1
  <2>1. SUFFICES ASSUME slot[h] = TABLES
                 PROVE  \E k \in Nat : DOMAIN dbs[TABLES] = 1 .. k /\ key \in 1 .. k + 1
    OBVIOUS
  <2>2. PICK k \in Nat : DOMAIN dbs[TABLES] = 1 .. k
    BY <1>1, <1>2, <2>1 DEF DataOK
  <2>3. key \in 1 .. k
    BY <1>1, <1>2, <2>1, <2>2
  <2>4. key \in 1 .. k + 1
    BY <2>2, <2>3
  <2> QED
    BY <2>2, <2>4
<1>5. DataOK' /\ Written(h, key, page)
  BY <1>1, <1>3, <1>4, WriteEffect
<1>6. n # TABLES => slot[file[n].dbi] # TABLES
  BY <1>1, OthersElsewhere
<1>7. n # TABLES => DOMAIN dbs' = DOMAIN dbs /\ (TABLES \in DOMAIN dbs => dbs'[TABLES] = dbs[TABLES])
  BY <1>2, <1>5, <1>6 DEF Written
<1> QED
  BY <1>2, <1>3, <1>5, <1>7

\* A step that writes a block that is there.
LEMMA RewriteFiles ==
  ASSUME FilesInv, Up, NEW n \in Name, NEW b, HasBlock(n, b), NEW page \in Pages,
         Len(page) <= PAGE_ROWS + 1, Files!PutBlock(n, b, page), has_tables' = has_tables,
         at.pc # "wild", Late => n = TABLES /\ b = file[TABLES].last,
         AtOK', CacheOK', HistoryOK', HandleRow',
         at'.pc \in Writing \union {"ready", "wild"}, at'.pc # "put",
         at'.pc \in {"get_new", "seed"} => ~file[at'.table].closed
  PROVE  FilesInv'
<1>1. /\ DataOK /\ FilesOK /\ TablesCounted
      /\ file[TABLES].dbi # 0 => slot[file[TABLES].dbi] = TABLES
  BY UpFacts
<1>2. DataOK' /\ file' = file /\ slot' = slot /\ Written(file[n].dbi, b, page)
  BY RewriteEffect
<1>3. /\ Files!Valid(file[n].dbi) /\ slot[file[n].dbi] \in DOMAIN dbs
      /\ b \in DOMAIN dbs[slot[file[n].dbi]]
  BY <1>1, BlockIs
<1>4. at'.pc \notin {"boot_create", "boot_get_new", "boot_put", "put"}
  BY DEF Writing
<1>5. TABLES \in DOMAIN dbs => DOMAIN dbs'[TABLES] = DOMAIN dbs[TABLES]
  BY <1>2, <1>3 DEF Written
<1>6. DOMAIN dbs' = DOMAIN dbs
  BY <1>2 DEF Written
<1>7. CountOK'
  <2>1. CASE ~Late
    BY <1>1, <1>2, <1>4, <1>5, <1>6, <2>1, CountStays
  <2>2. CASE Late
    <3>1. SUFFICES ASSUME Attached(TABLES)'
                   PROVE  /\ slot[file[TABLES].dbi] = TABLES
                          /\ DOMAIN dbs'[TABLES] = 1 .. file[TABLES].last
      BY <1>2, <1>4 DEF CountOK, TablesCounted
    <3>2. Attached(TABLES) /\ file[TABLES].dbi # 0
      BY <1>2, <3>1 DEF Attached, Files!Attached, Files!NoDbi
    <3>3. slot[file[TABLES].dbi] = TABLES /\ TABLES \in DOMAIN dbs
      BY <1>1, <1>3, <2>2, <3>2
    <3>4. file[TABLES].last \in DOMAIN dbs[TABLES] /\ file[TABLES].last \in Nat
      BY <1>1, <1>3, <2>2, <3>3, NamesAre DEF FilesOK, FileType
    <3>5. DOMAIN dbs[TABLES] = 1 .. file[TABLES].last
      BY <1>1, <3>2, <3>3, <3>4 DEF TablesCounted
    <3> QED
      BY <1>5, <3>3, <3>5
  <2> QED
    BY <2>1, <2>2
<1> QED
  BY <1>2, <1>4, <1>7, UpStay

\* A block that an append reads.
LEMMA NoOverrun ==
  ASSUME DataOK, FilesOK, NEW n \in Name, HasBlock(n, file[n].last), ~SeesOverrun(n)
  PROVE  Len(Page(n, file[n].last)) <= PAGE_ROWS
<1>1. /\ Page(n, file[n].last) \in Pages /\ file[n].last \in 1 .. file[n].last
      /\ PAGE_ROWS \in Nat
  BY BlockIs, BasicFacts
<1>2. ~(Len(Page(n, file[n].last)) > PAGE_ROWS)
  BY <1>1 DEF SeesOverrun, Overrun
<1> QED
  BY <1>1, <1>2 DEF Pages

\* append(row), whatever becomes of it.
LEMMA InsertFiles ==
  ASSUME FilesInv, at.pc \in Writing \union {"insert_table"}, NEW n \in Name,
         Late => n = TABLES, NEW row \in Cell, NEW next \in AtType, InsertRow(n, row, next),
         next.table = at.table, next.columns = at.columns,
         next.pc \in {"column", "seed", "wild"},
         next.pc = "seed" => at.pc = "seed" /\ ~file[at.table].closed,
         next.pc = "column" => COLUMNS \in table_cache,
         next.pc = "column" =>
           \/ n # TABLES /\ at.pc = "column" /\ next.handle = at.handle
           \/ /\ n = TABLES /\ row = <<at.table>>
              /\ next.handle = <<file[n].last, Len(Page(n, file[n].last)) + 1>>
  PROVE  FilesInv'
<1>1. Up
  BY DEF FilesInv, ObjectsOK, Up, Writing
<1>2. /\ DataOK /\ FilesOK /\ at \in AtType /\ HandleRow /\ HistoryOK /\ CacheOK
      /\ at.table \in Name /\ at.columns # <<>>
      /\ file[TABLES].dbi # 0 => slot[file[TABLES].dbi] = TABLES
  BY <1>1, UpFacts
<1>3. CASE GoWild
  BY <1>1, <1>3, GoWildFiles
<1>4. CASE Stop
  BY <1>4, StopFiles
<1>5. CASE /\ HasBlock(n, file[n].last) /\ ~SeesOverrun(n) /\ AppendRow(n, row)
           /\ at' = next /\ UNCHANGED <<has_tables, table_cache, statements, history>>
  <2>1. PICK last, old : last = file[n].last /\ old = Page(n, last)
    OBVIOUS
  <2>2. /\ Files!Valid(file[n].dbi) /\ slot[file[n].dbi] \in DOMAIN dbs
        /\ last \in DOMAIN dbs[slot[file[n].dbi]] /\ last \in Nat \ {0}
        /\ old = dbs[slot[file[n].dbi]][last]
        /\ old \in Pages /\ Len(old) <= PAGE_ROWS
    BY <1>2, <1>5, <2>1, BlockIs, NoOverrun
  <2>3. PICK page : page = Append(old, row)
    OBVIOUS
  <2>4. /\ page \in Pages /\ Len(page) = Len(old) + 1 /\ Len(old) \in Nat /\ PAGE_ROWS \in Nat
        /\ DOMAIN old = 1 .. Len(old) /\ page[Len(old) + 1] = row
    BY <2>2, <2>3, BasicFacts DEF Pages
  <2>5. Len(page) <= PAGE_ROWS + 1 /\ Files!PutBlock(n, last, page) /\ HasBlock(n, last)
    BY <1>5, <2>1, <2>2, <2>3, <2>4 DEF AppendRow
  <2>6. /\ Written(file[n].dbi, last, page)
        /\ n # TABLES => DOMAIN dbs' = DOMAIN dbs /\ (TABLES \in DOMAIN dbs => dbs'[TABLES] = dbs[TABLES])
    BY <1>1, <2>4, <2>5, RewriteEffect
  <2>7. AtOK' /\ CacheOK' /\ HistoryOK'
    <3>1. TABLES \in table_cache
      BY <1>2 DEF CacheOK, Writing
    <3>2. AtOK'
      BY <1>2, <1>5 DEF AtOK, Booting, Writing
    <3>3. CacheOK'
      BY <1>2, <1>5, <3>1 DEF CacheOK, Booting, Writing
    <3> QED
      BY <1>2, <1>5, <3>2, <3>3 DEF HistoryOK, history
  <2>8. HandleRow'
    <3>1. PICK h, t : h = at'.handle /\ t = at.table
      OBVIOUS
    <3>2. SUFFICES ASSUME next.pc = "column", h \in StoredRows(TABLES)'
                   PROVE  RowOf(TABLES, h)' = <<t>>
      BY <1>5, <3>1 DEF HandleRow, RowOf
    <3>3. CASE n # TABLES
      <4>1. at.pc = "column" /\ h = at.handle
        BY <1>5, <3>1, <3>2, <3>3
      <4>2. /\ StoredRows(TABLES)' = StoredRows(TABLES)
            /\ \A g \in StoredRows(TABLES) : RowOf(TABLES, g)' = RowOf(TABLES, g)
        BY <2>6, <3>3, TablesRowsStay
      <4>3. h \in StoredRows(TABLES)
        BY <3>2, <4>2
      <4>4. RowOf(TABLES, h) = <<t>>
        BY <1>2, <3>1, <4>1, <4>3 DEF HandleRow
      <4> QED
        BY <4>2, <4>3, <4>4
    <3>4. CASE n = TABLES
      <4>1. /\ h = <<last, Len(old) + 1>> /\ row = <<t>>
        BY <1>5, <2>1, <3>1, <3>2, <3>4
      <4>2. /\ slot[file[n].dbi] = TABLES /\ TABLES \in DOMAIN dbs /\ old = dbs[TABLES][last]
        BY <1>2, <2>2, <3>4, BasicFacts DEF Files!Valid
      <4>3. dbs'[TABLES] = dbs[TABLES] \/ dbs'[TABLES][last] = page
        BY <2>6, <4>2 DEF Written
      <4>4. \E b, r : h = <<b, r>> /\ r \in DOMAIN dbs'[TABLES][b]
        BY <3>2 DEF StoredRows
      <4>5. Len(old) + 1 \in DOMAIN dbs'[TABLES][last]
        BY <4>1, <4>4
      <4>6. Len(old) + 1 \notin DOMAIN old
        BY <2>4
      <4>7. dbs'[TABLES][last] = page
        BY <4>2, <4>3, <4>5, <4>6
      <4> QED
        BY <2>4, <4>1, <4>7 DEF RowOf
    <3> QED
      BY <3>3, <3>4
  <2>9. at'.pc \in {"get_new", "seed"} => ~file[at'.table].closed
    BY <1>5
  <2>10. at.pc # "wild" /\ (Late => n = TABLES /\ last = file[TABLES].last)
    BY <2>1 DEF Writing
  <2>11. at'.pc \in Writing \union {"ready", "wild"} /\ at'.pc # "put" /\ has_tables' = has_tables
    BY <1>5 DEF Writing
  <2> QED
    BY <1>1, <2>4, <2>5, <2>7, <2>8, <2>9, <2>10, <2>11, RewriteFiles
<1> QED
  BY <1>3, <1>4, <1>5 DEF InsertRow

LEMMA InsertTableFiles ==
  ASSUME FilesInv, InsertTable
  PROVE  FilesInv'
<1>1. at.pc = "insert_table" /\ at.pc \in Writing \union {"insert_table"}
  BY DEF InsertTable
<1>2. Up /\ ~Late
  BY <1>1 DEF FilesInv, ObjectsOK, Up, Booting, Late
<1>3. at \in AtType /\ at.table \in Name /\ DataOK /\ FilesOK
  BY <1>1, <1>2, UpFacts
<1>4. PICK n \in Name : n = at.table
  BY <1>3
<1>5. <<n>> \in Cell /\ 1 \in DOMAIN <<n>>
  BY CellsAre
<1>6. PICK row : row = <<n>>
  OBVIOUS
<1>7. SelectWhere(TABLES, Where(row)) = {}
  BY <1>5, <1>6, NamesAre, NothingMatches
<1>8. PICK handle : handle = <<file[TABLES].last, Len(Page(TABLES, file[TABLES].last)) + 1>>
  OBVIOUS
<1>9. handle \in Nat \X Nat
  <2>1. file[TABLES].last \in Nat
    BY <1>3, NamesAre DEF FilesOK, FileType
  <2>2. Page(TABLES, file[TABLES].last) \in Pages
    <3>1. CASE HasBlock(TABLES, file[TABLES].last)
      BY <1>3, <3>1, NamesAre, BlockIs
    <3>2. CASE ~HasBlock(TABLES, file[TABLES].last)
      BY <3>2, BasicFacts DEF Page
    <3> QED
      BY <3>1, <3>2
  <2>3. Len(Page(TABLES, file[TABLES].last)) \in Nat
    BY <2>2 DEF Pages
  <2> QED
    BY <1>8, <2>1, <2>3
<1>10. PICK next : next = [at EXCEPT !.pc = IF COLUMNS \in table_cache THEN "column" ELSE "wild",
                                    !.handle = handle]
  OBVIOUS
<1>11. /\ next \in AtType /\ next.table = at.table /\ next.columns = at.columns
       /\ next.handle = handle
       /\ next.pc = IF COLUMNS \in table_cache THEN "column" ELSE "wild"
  BY <1>3, <1>9, <1>10 DEF AtType, Places, Writing
<1>12. InsertRow(TABLES, row, next)
  BY <1>4, <1>6, <1>7, <1>8, <1>10 DEF InsertTable
<1> QED
  BY <1>1, <1>2, <1>4, <1>5, <1>6, <1>8, <1>11, <1>12, NamesAre, InsertFiles

LEMMA InsertColumnFiles ==
  ASSUME FilesInv, InsertColumn
  PROVE  FilesInv'
<1>1. /\ at.pc = "column" /\ at.i <= Len(at.columns)
      /\ InsertRow(COLUMNS, <<at.table, at.columns[at.i].name>>, [at EXCEPT !.i = at.i + 1])
      /\ at.pc \in Writing
  BY DEF InsertColumn, MoreColumns, NextColumn, Writing
<1>2. Up /\ ~Late
  BY <1>1 DEF FilesInv, ObjectsOK, Up, Writing, Late
<1>3. at \in AtType /\ at.table \in Name /\ COLUMNS \in table_cache
  BY <1>1, <1>2, UpFacts DEF CacheOK
<1>4. at.columns[at.i].name \in STRING
  <2>1. at.columns \in Seq([name : STRING, ok : BOOLEAN]) /\ at.i \in Nat \ {0}
    BY <1>3 DEF AtType
  <2>2. at.i \in 1 .. Len(at.columns)
    BY <1>1, <2>1
  <2>3. at.columns[at.i] \in [name : STRING, ok : BOOLEAN]
    BY <2>1, <2>2, ElementIs
  <2> QED
    BY <2>3
<1>5. PICK row \in Cell : row = <<at.table, at.columns[at.i].name>>
  BY <1>3, <1>4, CellsAre
<1>6. PICK next : next = [at EXCEPT !.i = at.i + 1]
  OBVIOUS
<1>7. /\ next \in AtType /\ next.table = at.table /\ next.columns = at.columns
      /\ next.handle = at.handle /\ next.pc = "column"
  BY <1>1, <1>3, <1>6 DEF AtType
<1>8. InsertRow(COLUMNS, row, next)
  BY <1>1, <1>5, <1>6
<1> QED
  BY <1>1, <1>2, <1>3, <1>7, <1>8, NamesAre, InsertFiles

LEMMA SeedFiles ==
  ASSUME FilesInv, Seed
  PROVE  FilesInv'
<1>1. at.pc = "seed" /\ at.i <= Len(Seeds(at.table)) /\ at.pc \in Writing
  BY DEF Seed, Writing
<1>2. Up /\ ~file[at.table].closed
  BY <1>1 DEF FilesInv, ObjectsOK, Up, Writing
<1>3. at \in AtType /\ at.table \in Name /\ at.i \in Nat \ {0} /\ COLUMNS \in table_cache
  BY <1>1, <1>2, UpFacts DEF CacheOK, AtType
<1>4. PICK n \in Name : n = at.table
  BY <1>3
<1>5. Len(Seeds(n)) \in Nat
  BY DEF Seeds
<1>6. PICK row : row = Seeds(n)[at.i]
  OBVIOUS
<1>7. row \in Cell /\ 1 \in DOMAIN row
  BY <1>1, <1>3, <1>4, <1>5, <1>6, SeedsAre
<1>8. PICK next : next = [at EXCEPT !.i = at.i + 1]
  OBVIOUS
<1>9. /\ next \in AtType /\ next.table = at.table /\ next.columns = at.columns
      /\ next.handle = at.handle /\ next.pc = "seed"
  BY <1>1, <1>3, <1>8 DEF AtType
<1>10. InsertRow(n, row, next)
  BY <1>4, <1>6, <1>7, <1>8, NothingMatches DEF Seed
<1>11. Late => n = TABLES
  BY <1>4 DEF Late
<1> QED
  BY <1>1, <1>2, <1>7, <1>9, <1>10, <1>11, InsertFiles

\* del(handle), of the row that the handle leads to.
LEMMA RollbackFiles ==
  ASSUME FilesInv, Rollback
  PROVE  FilesInv'
<1>1. at.pc = "rollback" /\ at.pc \in Writing
  BY DEF Rollback, Writing
<1>2. Up /\ ~Late
  BY <1>1 DEF FilesInv, ObjectsOK, Up, Writing, Late
<1>3. /\ DataOK /\ FilesOK /\ at \in AtType /\ at.table \in Name /\ HandleRow /\ HistoryOK
      /\ CacheOK /\ has_tables = TRUE
      /\ file[TABLES].dbi # 0 => slot[file[TABLES].dbi] = TABLES
  BY <1>1, <1>2, UpFacts
<1>4. CASE Stop
  BY <1>4, StopFiles
<1>6. CASE GoWild
  BY <1>2, <1>6, GoWildFiles
<1>5. CASE ~Stop /\ ~GoWild
  <2>0. at.handle \in Select(TABLES)
    BY <1>5 DEF Rollback
  <2>1. PICK h : h = at.handle
    OBVIOUS
  <2>2. PICK b \in 1 .. file[TABLES].last :
          \E r \in DOMAIN Page(TABLES, b) : Page(TABLES, b)[r] # Deleted /\ h = <<b, r>>
    BY <2>0, <2>1 DEF Select
  <2>3. PICK r \in DOMAIN Page(TABLES, b) : Page(TABLES, b)[r] # Deleted /\ h = <<b, r>>
    BY <2>2
  <2>4. HasBlock(TABLES, b)
    BY <2>3, BasicFacts DEF Page
  <2>5. PICK old : old = Page(TABLES, b)
    OBVIOUS
  <2>6. /\ slot[file[TABLES].dbi] = TABLES /\ TABLES \in DOMAIN dbs /\ b \in DOMAIN dbs[TABLES]
        /\ old = dbs[TABLES][b] /\ old \in Pages /\ Len(old) <= PAGE_ROWS + 1
    BY <1>3, <2>4, <2>5, NamesAre, BasicFacts, BlockIs DEF Files!Valid
  <2>7. RowOf(TABLES, h) = <<at.table>> /\ RowAt(TABLES, h)[1] = at.table
    <3>1. h \in StoredRows(TABLES)
      BY <2>3, <2>5, <2>6 DEF StoredRows
    <3>2. RowOf(TABLES, h) = <<at.table>>
      BY <1>1, <1>3, <2>1, <3>1 DEF HandleRow
    <3>3. RowAt(TABLES, h) = RowOf(TABLES, h)
      BY <2>3, <2>5, <2>6 DEF RowAt, RowOf
    <3> QED
      BY <3>2, <3>3
  <2>8. PICK page : page = [old EXCEPT ![r] = Deleted]
    OBVIOUS
  <2>9. page \in Pages /\ Len(page) <= PAGE_ROWS + 1
    BY <2>3, <2>5, <2>6, <2>8 DEF Pages, Cell
  <2>10. RowAt(TABLES, h) = RowAt(TABLES, at.handle) /\ h[1] = b /\ h[2] = r
    BY <2>1, <2>3
  <2>11. DeleteRow(TABLES, h) => Files!PutBlock(TABLES, b, page)
    BY <2>5, <2>8, <2>10 DEF DeleteRow
  <2>12. /\ table_cache' = table_cache \ {at.table}
         /\ Files!PutBlock(TABLES, b, page)
         /\ at' = IF at.table = TABLES THEN [at EXCEPT !.pc = "wild"] ELSE Ready
         /\ has_tables' = has_tables
         /\ statements' = statements /\ acked' = acked /\ cut' = cut /\ acked_columns' = acked_columns
    BY <1>5, <2>1, <2>7, <2>11 DEF Rollback, history
  <2>13. at' \in AtType /\ IF at.table = TABLES THEN at'.pc = "wild" ELSE at'.pc = "ready"
    <3>1. CASE at.table = TABLES
      BY <1>3, <2>12, <3>1 DEF AtType, Places
    <3>2. CASE at.table # TABLES
      BY <2>12, <3>2, PlacesAre
    <3> QED
      BY <3>1, <3>2
  <2>14. AtOK' /\ CacheOK' /\ HandleRow' /\ HistoryOK'
    <3>1. TABLES \in table_cache
      BY <1>1, <1>3 DEF CacheOK
    <3>2. AtOK' /\ HandleRow'
      BY <2>13 DEF AtOK, HandleRow, Booting, Writing
    <3>3. CacheOK'
      BY <1>3, <2>12, <2>13, <3>1 DEF CacheOK, Booting, Writing
    <3>4. HistoryOK'
      BY <1>3, <2>12 DEF HistoryOK
    <3> QED
      BY <3>2, <3>3, <3>4
  <2>15. /\ at'.pc \in Writing \union {"ready", "wild"} /\ at'.pc \notin {"put", "get_new", "seed"}
         /\ at.pc # "wild"
    BY <1>1, <2>13
  <2> QED
    BY <1>2, <2>4, <2>9, <2>12, <2>14, <2>15, NamesAre, RewriteFiles
<1> QED
  BY <1>4, <1>5, <1>6

-----------------------------------------------------------------------------
(***************************************************************************)
(* The blocks that create() makes.                                         *)
(***************************************************************************)

\* What is to be shown of get_new() and put(block) of a new block.
LEMMA BlockFiles ==
  ASSUME FilesInv, Up, at.pc \in {"get_new", "put"}, NEW n \in Name, n = at.table,
         FilesOK', slot' = slot, UNCHANGED memory,
         file'[n].closed = file[n].closed, file'[n].dbi = file[n].dbi,
         \A m \in Name \ {n} : file'[m] = file[m],
         NEW key \in Nat \ {0}, key = file'[n].last, Files!PutEntry(file[n].dbi, key, <<>>),
         at' \in AtType, at'.table = at.table, at'.columns = at.columns,
         IF at.pc = "get_new"
         THEN at'.pc = "put" /\ key = file[n].last + 1
         ELSE at'.pc = "seed" /\ at'.i = 1 /\ key = file[n].last
  PROVE  FilesInv'
<1>1. /\ DataOK /\ FilesOK /\ TablesCounted /\ HistoryOK /\ CacheOK /\ has_tables = TRUE
      /\ at.table \in Name /\ at.columns # <<>>
      /\ ~file[TABLES].closed /\ \A m \in Name : file[m].closed => New(m)
      /\ \A h \in Files!Dbi : slot[h] = TABLES => h = file[TABLES].dbi
      /\ file[TABLES].dbi # 0 =>
           /\ slot[file[TABLES].dbi] = TABLES
           /\ \A m \in Name \ {TABLES} : file[m].dbi # file[TABLES].dbi
      /\ ~file[n].closed /\ at.pc \in Writing /\ at'.pc \in Writing
  <2>1. at.pc \in Writing /\ at'.pc \in Writing
    BY DEF Writing
  <2>2. ~file[n].closed
    BY DEF FilesInv, ObjectsOK
  <2> QED
    BY <2>1, <2>2, UpFacts
<1>2. /\ has_tables' = TRUE /\ table_cache' = table_cache /\ HistoryOK'
  BY <1>1 DEF memory, history, HistoryOK
<1>3. PICK h \in 0 .. MAX_DBS : h = file[n].dbi
  BY <1>1 DEF FilesOK, FileType
<1>4. Late' <=> n = TABLES
  BY DEF Late
<1>5. Late <=> at.pc = "put" /\ n = TABLES
  BY DEF Late
<1>6. DataOK' /\ Written(h, key, <<>>)
  <2>1. Files!Valid(h) /\ slot[h] = TABLES =>
           \E k \in Nat : DOMAIN dbs[TABLES] = 1 .. k /\ key \in 1 .. k + 1
    <3>1. SUFFICES ASSUME Files!Valid(h), slot[h] = TABLES
                   PROVE  \E k \in Nat : DOMAIN dbs[TABLES] = 1 .. k /\ key \in 1 .. k + 1
      OBVIOUS
    <3>2. n = TABLES
      BY <1>3, <3>1, OthersElsewhere
    <3>3. Attached(TABLES)
      BY <1>1, <1>3, <3>1, <3>2, BasicFacts DEF Files!Valid, Attached, Files!Attached, Files!NoDbi
    <3>4. DOMAIN dbs[TABLES] = 1 .. key \/ DOMAIN dbs[TABLES] = 1 .. key - 1
      <4>1. CASE at.pc = "get_new"
        <5>1. DOMAIN dbs[TABLES] = 1 .. file[TABLES].last
          BY <1>1, <1>3, <1>5, <3>1, <3>2, <3>3, <4>1 DEF TablesCounted
        <5>2. file[TABLES].last \in Nat
          BY <1>1, NamesAre DEF FilesOK, FileType
        <5> QED
          BY <3>2, <4>1, <5>1, <5>2
      <4>2. CASE at.pc = "put"
        BY <1>1, <1>3, <3>1, <3>2, <3>3, <4>2 DEF TablesCounted
      <4> QED
        BY <4>1, <4>2
    <3>5. key \in 1 .. key + 1 /\ key \in 1 .. (key - 1) + 1 /\ key - 1 \in Nat
      OBVIOUS
    <3> QED
      BY <3>4, <3>5
  <2> QED
    BY <1>1, <1>3, <2>1, BasicFacts, WriteEffect
<1>7. TablesCounted'
  <2>1. CASE n = TABLES
    <3>1. \/ ~Late /\ file'[TABLES].last = file[TABLES].last + 1
          \/ Late /\ file'[TABLES].last = file[TABLES].last
      BY <1>5, <2>1
    <3>2. at.pc # "wild" /\ key > 0
      OBVIOUS
    <3> QED
      BY <1>1, <1>3, <1>4, <1>6, <2>1, <3>1, <3>2, CountPuts
  <2>2. CASE n # TABLES
    <3>1. file'[TABLES] = file[TABLES]
      BY <2>2, NamesAre
    <3>2. TABLES \in DOMAIN dbs => DOMAIN dbs'[TABLES] = DOMAIN dbs[TABLES]
      BY <1>3, <1>6, <2>2, OthersElsewhere DEF Written
    <3>3. DOMAIN dbs' = DOMAIN dbs /\ ~Late
      BY <1>5, <1>6, <2>2 DEF Written
    <3>4. SUFFICES ASSUME Attached(TABLES)'
                   PROVE  IF slot[file[TABLES].dbi] = TABLES
                          THEN DOMAIN dbs'[TABLES] = 1 .. file[TABLES].last
                          ELSE TABLES \notin DOMAIN dbs'
      BY <3>1 DEF TablesCounted
    <3>5. Attached(TABLES) /\ file[TABLES].dbi # 0 /\ at.pc # "wild"
      BY <3>1, <3>4 DEF Attached, Files!Attached, Files!NoDbi
    <3>6. TABLES \in DOMAIN dbs
      <4>1. file[TABLES].dbi \in Files!Dbi /\ TABLES # Free
        BY <1>1, <3>5, BasicFacts, NamesAre DEF FilesOK, FileType
      <4> QED
        BY <1>1, <3>5, <4>1 DEF DataOK
    <3> QED
      BY <1>1, <3>2, <3>3, <3>5, <3>6 DEF TablesCounted
  <2> QED
    BY <2>1, <2>2
<1>8. CountOK'
  BY <1>7 DEF CountOK
<1>9. AtOK' /\ CacheOK' /\ HandleRow'
  BY <1>1, <1>2 DEF AtOK, CacheOK, HandleRow, Booting, Writing
<1>10. /\ ~file'[TABLES].closed /\ file'[TABLES].dbi = file[TABLES].dbi
       /\ \A m \in Name : file'[m].dbi = file[m].dbi
       /\ \A m \in Name : file'[m].closed => New(m)'
       /\ ~file'[at'.table].closed
  BY <1>1, NamesAre DEF New
<1> QED
  BY <1>1, <1>2, <1>6, <1>8, <1>9, <1>10, UpChanges

LEMMA GetNewFiles ==
  ASSUME FilesInv, GetNew
  PROVE  FilesInv'
<1>1. /\ at.pc = "get_new" /\ GoTo("put") /\ UNCHANGED memory /\ at.pc \in Writing
      /\ "put" \in Places
  BY DEF GetNew, Writing, Places
<1>2. Up
  BY <1>1 DEF FilesInv, ObjectsOK, Up, Writing
<1>3. at \in AtType /\ at.table \in Name /\ FilesOK
  BY <1>1, <1>2, UpFacts
<1>4. PICK n \in Name : n = at.table
  BY <1>3
<1>5. Files!AllocateBlock(n)
  BY <1>4 DEF GetNew
<1>6. /\ FilesOK' /\ slot' = slot
      /\ Files!PutEntry(file[n].dbi, file[n].last + 1, <<>>)
      /\ file'[n].last = file[n].last + 1 /\ file'[n].closed = file[n].closed
      /\ file'[n].dbi = file[n].dbi
      /\ \A m \in Name \ {n} : file'[m] = file[m]
      /\ file[n].last \in Nat /\ file[n].last + 1 \in Nat \ {0}
  BY <1>3, <1>5, AllocateEffect
<1>7. PICK key \in Nat \ {0} : key = file[n].last + 1
  BY <1>6
<1>8. at' \in AtType /\ at'.pc = "put" /\ at'.table = at.table /\ at'.columns = at.columns
  BY <1>1, <1>3, GoToIs
<1> QED
  BY <1>1, <1>2, <1>4, <1>6, <1>7, <1>8, BlockFiles

LEMMA PutFiles ==
  ASSUME FilesInv, Put
  PROVE  FilesInv'
<1>1. /\ at.pc = "put" /\ UNCHANGED memory /\ at.pc \in Writing
      /\ at' = [at EXCEPT !.pc = "seed", !.i = 1]
  BY DEF Put, Writing
<1>2. Up
  BY <1>1 DEF FilesInv, ObjectsOK, Up, Writing
<1>3. at \in AtType /\ at.table \in Name /\ FilesOK
  BY <1>1, <1>2, UpFacts
<1>4. PICK n \in Name : n = at.table
  BY <1>3
<1>5. slot' = slot /\ file' = file /\ Files!PutEntry(file[n].dbi, file[n].last, <<>>)
  BY <1>4 DEF Put, Files!PutBlock
<1>6. PICK key \in Nat \ {0} : key = file[n].last
  <2>1. file[n].last \in Nat
    BY <1>3 DEF FilesOK, FileType
  <2>2. file[n].last > 0
    BY <1>1, <1>4 DEF FilesInv, CountOK
  <2> QED
    BY <2>1, <2>2
<1>7. /\ at' \in AtType /\ at'.pc = "seed" /\ at'.i = 1
      /\ at'.table = at.table /\ at'.columns = at.columns
  <2>1. 1 \in Nat \ {0} /\ "seed" \in Places
    BY DEF Places, Writing
  <2> QED
    BY <1>1, <1>3, <2>1 DEF AtType
<1>8. FilesOK'
  BY <1>3, <1>5 DEF FilesOK
<1> QED
  BY <1>1, <1>2, <1>4, <1>5, <1>6, <1>7, <1>8, BlockFiles

-----------------------------------------------------------------------------
LEMMA QuietFiles ==
  ASSUME FilesInv, UNCHANGED vars
  PROVE  FilesInv'
<1>1. /\ dbs' = dbs /\ slot' = slot /\ file' = file /\ has_tables' = has_tables
      /\ table_cache' = table_cache /\ at' = at /\ statements' = statements
      /\ acked' = acked /\ cut' = cut /\ acked_columns' = acked_columns
  BY DEF vars, disk, history
<1>2. DataOK' /\ FilesOK'
  BY <1>1 DEF FilesInv, DataOK, FilesOK, Files!Dbi
<1>3. ObjectsOK'
  BY <1>1 DEF FilesInv, ObjectsOK, Up, New
<1>4. SlotsOK'
  BY <1>1 DEF FilesInv, SlotsOK, NoneOpen, Up, Files!Dbi
<1>5. CountOK'
  BY <1>1 DEF FilesInv, CountOK, TablesCounted, Late, Attached, Files!Attached
<1>6. ProgramOK'
  BY <1>1 DEF FilesInv, ProgramOK, AtOK, CacheOK, HistoryOK, HandleRow, StoredRows, RowOf
<1> QED
  BY <1>2, <1>3, <1>4, <1>5, <1>6 DEF FilesInv

LEMMA FilesStep ==
  ASSUME FilesInv, [Next]_vars
  PROVE  FilesInv'
<1>1. CASE Step
  BY <1>1, BootOpenFiles, BootCreateFiles, BootGetNewFiles, BootPutFiles, BootCloseFiles,
     BootEndFiles, OpenTablesFiles, InsertTableFiles, RejectColumnFiles, OpenColumnsFiles,
     InsertColumnFiles, RollbackFiles, GetTableFiles, CreateFileFiles, GetNewFiles, PutFiles,
     SeedFiles, AnswerFiles DEF Step
<1>2. ASSUME NEW t \in Named, NEW columns \in ColumnLists, ExecuteCreate(t, columns)
      PROVE  FilesInv'
  BY <1>2, ExecuteCreateFiles
<1> QED
  BY <1>1, <1>2, StartFiles, ExecuteOtherFiles, ShowDamagedFiles, StopFiles, QuietFiles
  DEF Next, Crash

LEMMA FilesType ==
  FilesInv => TypeOK
<1> SUFFICES ASSUME FilesInv
             PROVE  TypeOK
  OBVIOUS
<1>1. \A n \in Name : /\ file[n].name = n /\ file[n].last \in Nat
                      /\ file[n].closed \in BOOLEAN /\ file[n].dbi \in 0 .. MAX_DBS
  BY DEF FilesInv, FilesOK, FileType
<1>2. at.table \in Name \union {NoObject}
  BY DEF FilesInv, ProgramOK, AtOK, AtType
<1> QED
  BY <1>1, <1>2 DEF FilesInv, DataOK, ObjectsOK, ProgramOK, CacheOK, HistoryOK, TypeOK

LEMMA ShowsStored ==
  FilesInv => ShowsAllTables
<1> SUFFICES ASSUME FilesInv, Attached(TABLES), at.pc # "wild"
             PROVE  ShownTables = {h \in StoredRows(TABLES) :
                                     dbs[TABLES][h[1]][h[2]][1] \notin SchemaTables}
  BY DEF ShowsAllTables, Attached
<1>1. /\ DataOK /\ FilesOK /\ TablesCounted
      /\ ~file[TABLES].closed /\ file[TABLES].dbi # 0 /\ file[TABLES].dbi \in Files!Dbi
      /\ file[TABLES].last \in Nat
  BY BasicFacts, NamesAre
  DEF FilesInv, CountOK, FilesOK, FileType, Attached, Files!Attached, Files!NoDbi
<1>2. CASE slot[file[TABLES].dbi] = TABLES
  <2>1. Files!Valid(file[TABLES].dbi) /\ TABLES \in DOMAIN dbs
    BY <1>1, <1>2, BasicFacts, NamesAre DEF DataOK, Files!Valid
  <2>2. \A b : HasBlock(TABLES, b) <=> b \in DOMAIN dbs[TABLES]
    BY <1>2, <2>1 DEF HasBlock, Files!HasEntry
  <2>3. \A b \in DOMAIN dbs[TABLES] : Page(TABLES, b) = dbs[TABLES][b]
    BY <1>2, <2>2 DEF Page
  <2>4. \A b : b \notin DOMAIN dbs[TABLES] => DOMAIN Page(TABLES, b) = {}
    BY <2>2, BasicFacts DEF Page
  <2>5. DOMAIN dbs[TABLES] \subseteq 1 .. file[TABLES].last
    <3>1. DOMAIN dbs[TABLES] = 1 .. file[TABLES].last \/ DOMAIN dbs[TABLES] = 1 .. file[TABLES].last - 1
      BY <1>1, <1>2 DEF TablesCounted
    <3> QED
      BY <1>1, <3>1
  <2>6. Select(TABLES) = StoredRows(TABLES)
    <3>1. ASSUME NEW h \in Select(TABLES)
          PROVE  h \in StoredRows(TABLES)
      <4>1. PICK b \in 1 .. file[TABLES].last :
              \E r \in DOMAIN Page(TABLES, b) : Page(TABLES, b)[r] # Deleted /\ h = <<b, r>>
        BY <3>1 DEF Select
      <4>2. b \in DOMAIN dbs[TABLES]
        BY <2>4, <4>1
      <4> QED
        BY <2>1, <2>3, <4>1, <4>2 DEF StoredRows
    <3>2. ASSUME NEW h \in StoredRows(TABLES)
          PROVE  h \in Select(TABLES)
      <4>1. PICK b \in DOMAIN dbs[TABLES] :
              \E r \in DOMAIN dbs[TABLES][b] : dbs[TABLES][b][r] # Deleted /\ h = <<b, r>>
        BY <3>2 DEF StoredRows
      <4> QED
        BY <2>3, <2>5, <4>1 DEF Select
    <3> QED
      BY <3>1, <3>2
  <2>7. ASSUME NEW h \in StoredRows(TABLES)
        PROVE  RowAt(TABLES, h) = dbs[TABLES][h[1]][h[2]]
    <3>1. h[1] \in DOMAIN dbs[TABLES]
      BY <2>1, <2>7 DEF StoredRows
    <3> QED
      BY <2>3, <3>1 DEF RowAt
  <2> QED
    BY <2>6, <2>7 DEF ShownTables
<1>3. CASE slot[file[TABLES].dbi] # TABLES
  <2>1. TABLES \notin DOMAIN dbs
    BY <1>1, <1>3 DEF TablesCounted
  <2>2. slot[file[TABLES].dbi] = Free
    <3>1. ~Up /\ at.pc \in Booting /\ at.table = TABLES
      BY <1>1, <1>3, NamesAre, BasicFacts DEF FilesInv, SlotsOK, ObjectsOK
    <3>2. at.pc \notin {"boot_open", "boot_create"}
      BY <1>1, <3>1, StartFacts, BasicFacts, NamesAre
    <3>3. at.pc \in {"boot_get_new", "boot_put", "boot_close"}
      BY <3>1, <3>2 DEF Booting
    <3> QED
      BY <1>1, <1>3, <3>1, <3>3, StartFacts
  <2>3. \A b : DOMAIN Page(TABLES, b) = {}
    BY <2>2, BasicFacts DEF Page, HasBlock, Files!HasEntry, Files!Valid
  <2>4. Select(TABLES) = {} /\ StoredRows(TABLES) = {}
    BY <2>1, <2>3 DEF Select, StoredRows
  <2> QED
    BY <2>4 DEF ShownTables
<1> QED
  BY <1>2, <1>3

-----------------------------------------------------------------------------
(***************************************************************************)
(* Theorems about every number of handles, and writes that may fail.       *)
(***************************************************************************)

\* The inductive invariant holds in every reachable state.
THEOREM FilesInvariant ==
  Spec => []FilesInv
<1>1. Init => FilesInv
  BY InitFiles
<1>2. FilesInv /\ [Next]_vars => FilesInv'
  BY FilesStep
<1> QED
  BY <1>1, <1>2, PTL DEF Spec

\* Every variable keeps its type.
THEOREM TypeCorrect ==
  Spec => []TypeOK
BY FilesInvariant, FilesType, PTL

\* SHOW TABLES shows every row of _tables that is on disk, and no other: also
\* while writes fail, while a table has no handle, and while one has a handle
\* that is another table's.
THEOREM ShowIsAccurate ==
  Spec => []ShowsAllTables
BY FilesInvariant, ShowsStored, PTL

-----------------------------------------------------------------------------
(***************************************************************************)
(* SQLExec as a user of BTFile: of a block only the number of its rows     *)
(* counts.  Here, the calls of BTFile on such blocks.                      *)
(***************************************************************************)
LEMMA SizesAre ==
  /\ DOMAIN PagesBySize = DOMAIN dbs
  /\ \A n \in DOMAIN dbs : /\ DOMAIN PagesBySize[n] = DOMAIN dbs[n]
                           /\ \A b \in DOMAIN dbs[n] : PagesBySize[n][b] = Len(dbs[n][b])
BY DEF PagesBySize

LEMMA SizesBridge ==
  /\ FilesOfPages!Dbi = Files!Dbi
  /\ \A n \in Name : FilesOfPages!HandlesOf(n) = Files!HandlesOf(n)
  /\ FilesOfPages!FreeHandles = Files!FreeHandles
  /\ \A n \in Name : FilesOfPages!OpenHandle(n) = Files!OpenHandle(n)
  /\ \A n \in Name, create \in BOOLEAN : FilesOfPages!OpenStatus(n, create) = Files!OpenStatus(n, create)
  /\ \A n \in Name : FilesOfPages!Entries(n) = Files!Entries(n)
  /\ \A n : FilesOfPages!NewFile(n) = Files!NewFile(n)
  /\ FilesOfPages!NoHandles = Files!NoHandles
  /\ \A h : FilesOfPages!Valid(h) <=> Files!Valid(h)
<1>1. FilesOfPages!Dbi = Files!Dbi
  BY DEF FilesOfPages!Dbi, Files!Dbi
<1>2. /\ \A n \in Name : FilesOfPages!HandlesOf(n) = Files!HandlesOf(n)
      /\ FilesOfPages!FreeHandles = Files!FreeHandles
  BY <1>1 DEF FilesOfPages!HandlesOf, Files!HandlesOf, FilesOfPages!FreeHandles, Files!FreeHandles
<1>3. \A n \in Name : FilesOfPages!OpenHandle(n) = Files!OpenHandle(n)
  BY <1>2 DEF FilesOfPages!OpenHandle, Files!OpenHandle
<1>4. \A n \in Name, create \in BOOLEAN :
        FilesOfPages!OpenStatus(n, create) = Files!OpenStatus(n, create)
  BY <1>2, SizesAre DEF FilesOfPages!OpenStatus, Files!OpenStatus
<1>5. \A n \in Name : FilesOfPages!Entries(n) = Files!Entries(n)
  <2>1. \A S : FilesOfPages!Cardinality(S) = Files!Cardinality(S)
    BY DEF FilesOfPages!Cardinality, Files!Cardinality
  <2> QED
    BY <2>1, SizesAre DEF FilesOfPages!Entries, Files!Entries
<1>6. /\ \A n : FilesOfPages!NewFile(n) = Files!NewFile(n)
      /\ FilesOfPages!NoHandles = Files!NoHandles
      /\ \A h : FilesOfPages!Valid(h) <=> Files!Valid(h)
  BY <1>1 DEF FilesOfPages!NewFile, Files!NewFile, FilesOfPages!NoDbi, Files!NoDbi,
              FilesOfPages!NoHandles, Files!NoHandles, FilesOfPages!Valid, Files!Valid
<1> QED
  BY <1>1, <1>2, <1>3, <1>4, <1>5, <1>6

\* Two families of sizes that agree everywhere are the same.
LEMMA SizesAgree ==
  ASSUME NEW f, DOMAIN f = DOMAIN dbs', f = [m \in DOMAIN f |-> f[m]],
         \A m \in DOMAIN f : f[m] = [b \in DOMAIN f[m] |-> f[m][b]],
         \A m \in DOMAIN f : DOMAIN f[m] = DOMAIN dbs'[m]
                             /\ \A b \in DOMAIN f[m] : f[m][b] = Len(dbs'[m][b])
  PROVE  PagesBySize' = f
<1>1. \A m \in DOMAIN f : f[m] = [b \in DOMAIN dbs'[m] |-> Len(dbs'[m][b])]
  OBVIOUS
<1>2. f = [m \in DOMAIN dbs' |-> [b \in DOMAIN dbs'[m] |-> Len(dbs'[m][b])]]
  BY <1>1
<1> QED
  BY <1>2 DEF PagesBySize

LEMMA SameSizes ==
  ASSUME UNCHANGED dbs
  PROVE  UNCHANGED PagesBySize
BY DEF PagesBySize

LEMMA OpenSizes ==
  ASSUME NEW n \in Name, file[n].name = n, NEW create \in BOOLEAN, Files!DbOpen(n, create)
  PROVE  FilesOfPages!DbOpen(n, create)
<1> DEFINE status == Files!OpenStatus(n, create)
<1>0. /\ file[n].name = n /\ FilesOfPages!OpenStatus(n, create) = status
      /\ FilesOfPages!OpenHandle(n) = Files!OpenHandle(n)
      /\ FilesOfPages!Entries(n) = Files!Entries(n)
  BY SizesBridge
<1> HIDE DEF status
<1>1. CASE /\ status = "SUCCESS"
           /\ Files!OpenDb(n)
           /\ file' = [file EXCEPT ![n] = [@ EXCEPT !.last = Files!Entries(n),
                                                    !.closed = FALSE,
                                                    !.dbi = Files!OpenHandle(n)]]
  <2>1. /\ slot' = [slot EXCEPT ![Files!OpenHandle(n)] = n]
        /\ dbs' = [m \in DOMAIN dbs \union {n} |-> IF m \in DOMAIN dbs THEN dbs[m] ELSE <<>>]
    BY <1>1 DEF Files!OpenDb
  <2> DEFINE f == [m \in DOMAIN PagesBySize \union {n} |->
                     IF m \in DOMAIN PagesBySize THEN PagesBySize[m] ELSE <<>>]
  <2>2. PagesBySize' = f
    <3>1. /\ DOMAIN f = DOMAIN dbs'
          /\ \A m \in DOMAIN f : f[m] = IF m \in DOMAIN dbs THEN PagesBySize[m] ELSE <<>>
          /\ \A m \in DOMAIN f : dbs'[m] = IF m \in DOMAIN dbs THEN dbs[m] ELSE <<>>
      BY <2>1, SizesAre
    <3>2. f = [m \in DOMAIN f |-> f[m]]
      OBVIOUS
    <3> HIDE DEF f
    <3>3. \A m \in DOMAIN f : DOMAIN f[m] = DOMAIN dbs'[m]
                              /\ \A b \in DOMAIN f[m] : f[m][b] = Len(dbs'[m][b])
      BY <3>1, SizesAre
    <3>4. \A m \in DOMAIN f : f[m] = [b \in DOMAIN f[m] |-> f[m][b]]
      <4>1. <<>> = [b \in DOMAIN <<>> |-> <<>>[b]]
        OBVIOUS
      <4>2. \A m \in DOMAIN dbs : PagesBySize[m] = [b \in DOMAIN PagesBySize[m] |-> PagesBySize[m][b]]
        BY DEF PagesBySize
      <4> QED
        BY <3>1, <4>1, <4>2
    <3> QED
      BY <3>1, <3>2, <3>3, <3>4, SizesAgree
  <2>3. FilesOfPages!OpenDb(n)
    BY <1>0, <2>1, <2>2 DEF FilesOfPages!OpenDb
  <2> QED
    BY <1>0, <1>1, <2>3 DEF FilesOfPages!DbOpen
<1>2. CASE /\ status = "DBS_FULL" \/ Files!MayFailToCreate(n, status)
           /\ \E last \in Garbage :
                file' = [file EXCEPT ![n] = [@ EXCEPT !.last = last, !.closed = FALSE]]
           /\ UNCHANGED <<dbs, slot>>
  BY <1>0, <1>2, SameSizes, SizesAre
  DEF FilesOfPages!DbOpen, Files!MayFailToCreate, FilesOfPages!MayFailToCreate
<1>3. CASE /\ status = "SUCCESS" /\ n \notin DOMAIN dbs /\ WRITES_FAIL
           /\ file' = [file EXCEPT ![n] = [@ EXCEPT !.last = 0,
                                                    !.closed = FALSE,
                                                    !.dbi = Files!OpenHandle(n)]]
           /\ UNCHANGED <<dbs, slot>>
  BY <1>0, <1>3, SameSizes, SizesAre DEF FilesOfPages!DbOpen, FilesOfPages!MayFailToCreate
<1> QED
  BY <1>0, <1>1, <1>2, <1>3 DEF Files!DbOpen, Files!MayFailToCreate, status

\* An entry is put, or cannot be.
LEMMA EntrySizes ==
  ASSUME DataOK, NEW h, NEW id, NEW page, Files!PutEntry(h, id, page)
  PROVE  FilesOfPages!PutEntry(h, id, Len(page))
<1>1. CASE /\ Files!Valid(h)
           /\ dbs' = [dbs EXCEPT ![slot[h]] =
                       [k \in DOMAIN @ \union {id} |-> IF k = id THEN page ELSE @[k]]]
  <2>1. PICK n \in DOMAIN dbs : n = slot[h]
    BY <1>1 DEF DataOK, Files!Valid
  <2> DEFINE block == [k \in DOMAIN dbs[n] \union {id} |-> IF k = id THEN page ELSE dbs[n][k]]
             sizes == [k \in DOMAIN PagesBySize[n] \union {id} |->
                         IF k = id THEN Len(page) ELSE PagesBySize[n][k]]
             f == [PagesBySize EXCEPT ![n] = sizes]
  <2>2. dbs' = [dbs EXCEPT ![n] = block]
    BY <1>1, <2>1
  <2>3. PagesBySize' = f
    <3>1. /\ DOMAIN block = DOMAIN dbs[n] \union {id}
          /\ \A k \in DOMAIN block : block[k] = IF k = id THEN page ELSE dbs[n][k]
          /\ DOMAIN sizes = DOMAIN dbs[n] \union {id}
          /\ \A k \in DOMAIN sizes : sizes[k] = IF k = id THEN Len(page) ELSE PagesBySize[n][k]
          /\ sizes = [b \in DOMAIN sizes |-> sizes[b]]
      BY SizesAre
    <3> HIDE DEF block, sizes
    <3>2. /\ DOMAIN f = DOMAIN dbs'
          /\ \A m \in DOMAIN f : f[m] = IF m = n THEN sizes ELSE PagesBySize[m]
          /\ \A m \in DOMAIN f : dbs'[m] = IF m = n THEN block ELSE dbs[m]
      BY <2>2, SizesAre
    <3>3. f = [m \in DOMAIN f |-> f[m]]
      BY DEF PagesBySize
    <3>4. DOMAIN f = DOMAIN dbs
      BY SizesAre
    <3> HIDE DEF f
    <3>5. \A k \in DOMAIN sizes : sizes[k] = Len(block[k])
      BY <3>1, SizesAre
    <3>6. \A m \in DOMAIN f : DOMAIN f[m] = DOMAIN dbs'[m]
                              /\ \A b \in DOMAIN f[m] : f[m][b] = Len(dbs'[m][b])
      BY <3>1, <3>2, <3>4, <3>5, SizesAre
    <3>7. \A m \in DOMAIN f : f[m] = [b \in DOMAIN f[m] |-> f[m][b]]
      <4>1. \A m \in DOMAIN dbs : PagesBySize[m] = [b \in DOMAIN PagesBySize[m] |-> PagesBySize[m][b]]
        BY DEF PagesBySize
      <4> QED
        BY <3>1, <3>2, <3>4, <4>1
    <3> QED
      BY <3>2, <3>3, <3>6, <3>7, SizesAgree
  <2> QED
    BY <1>1, <2>1, <2>3, SizesBridge DEF FilesOfPages!PutEntry
<1>2. CASE (~Files!Valid(h) \/ WRITES_FAIL) /\ UNCHANGED dbs
  BY <1>2, SameSizes, SizesBridge DEF FilesOfPages!PutEntry
<1> QED
  BY <1>1, <1>2 DEF Files!PutEntry

LEMMA PutSizes ==
  ASSUME DataOK, NEW n \in Name, NEW id, NEW page, Files!PutBlock(n, id, page)
  PROVE  FilesOfPages!PutBlock(n, id, Len(page))
BY EntrySizes DEF Files!PutBlock, FilesOfPages!PutBlock

LEMMA AllocateSizes ==
  ASSUME DataOK, NEW n \in Name, Files!AllocateBlock(n)
  PROVE  FilesOfPages!AllocateBlock(n)
<1>1. Len(<<>>) = 0
  OBVIOUS
<1>2. Files!PutEntry(file[n].dbi, file[n].last + 1, <<>>)
  BY DEF Files!AllocateBlock
<1>3. FilesOfPages!PutEntry(file[n].dbi, file[n].last + 1, Len(<<>>))
  BY <1>2, EntrySizes
<1> QED
  BY <1>1, <1>3 DEF Files!AllocateBlock, FilesOfPages!AllocateBlock

LEMMA CloseSizes ==
  ASSUME NEW n \in Name, Files!CloseFile(n)
  PROVE  FilesOfPages!CloseFile(n)
BY SizesBridge, SameSizes
DEF Files!CloseFile, FilesOfPages!CloseFile, Files!CloseDbi, FilesOfPages!CloseDbi

-----------------------------------------------------------------------------
(***************************************************************************)
(* How many blocks a file has.                                             *)
(***************************************************************************)

\* The bound that the instance of BTFile has on the blocks of a file is one on
\* last, too, which is garbage when the object found no handle or no room.
CountsBounded == (EnoughHandles /\ WritesSucceed) \/ Garbage \subseteq {0, 1}

\* A statement that has not made its block yet.  It makes one at most, and the
\* start of the program one for each schema table.
Early == {"open_tables", "insert_table", "column", "rollback", "create", "get_new"}
IsEarly == at.pc \in Early /\ at.table # NoObject
MostBlocks == IF IsEarly THEN statements ELSE statements + 1

BlocksOK ==
  /\ IsEarly => statements > 0
  /\ \A n \in DOMAIN dbs : \A b \in DOMAIN dbs[n] : b <= MostBlocks
  /\ Up => \A n \in Name : file[n].closed \/ file[n].last <= MostBlocks

\* A block that was there before.
Before(n, b) == n \in DOMAIN dbs /\ b \in DOMAIN dbs[n]
NoNewBlock == \A n \in DOMAIN dbs' : \A b \in DOMAIN dbs'[n] : Before(n, b)

LEMMA MostBlocksIs ==
  ASSUME FilesInv, BlocksOK
  PROVE  /\ MostBlocks \in Nat \ {0} /\ MostBlocks <= MAX_STATEMENTS + 1
         /\ statements \in Nat /\ MAX_STATEMENTS \in Nat /\ statements <= MAX_STATEMENTS
<1>1. statements \in 0 .. MAX_STATEMENTS /\ MAX_STATEMENTS \in Nat
  BY CatalogAssumption DEF FilesInv, ProgramOK, HistoryOK, CatalogAssumption
<1> QED
  BY <1>1 DEF BlocksOK, MostBlocks

\* What is to be shown of a step that is not the beginning of a statement.
LEMMA BlocksStay ==
  ASSUME FilesInv, BlocksOK, statements' = statements, IsEarly' => IsEarly,
         \A n \in DOMAIN dbs' : \A b \in DOMAIN dbs'[n] : Before(n, b) \/ b <= MostBlocks',
         Up' => \A n \in Name :
                  \/ file'[n].closed \/ file'[n].last <= MostBlocks'
                  \/ Up /\ file'[n] = file[n]
  PROVE  BlocksOK'
<1>1. /\ MostBlocks \in Nat /\ MostBlocks' \in Nat /\ MostBlocks <= MostBlocks'
  BY MostBlocksIs DEF MostBlocks
<1>2. \A n \in DOMAIN dbs' : \A b \in DOMAIN dbs'[n] : b <= MostBlocks'
  <2>1. SUFFICES ASSUME NEW n \in DOMAIN dbs', NEW b \in DOMAIN dbs'[n], Before(n, b)
                 PROVE  b <= MostBlocks'
    OBVIOUS
  <2>2. b <= MostBlocks /\ b \in Nat
    BY <2>1 DEF BlocksOK, Before, FilesInv, DataOK
  <2> QED
    BY <1>1, <2>2
<1>3. Up' => \A n \in Name : file'[n].closed \/ file'[n].last <= MostBlocks'
  <2>1. SUFFICES ASSUME Up', Up, NEW n \in Name, file'[n] = file[n], ~file[n].closed
                 PROVE  file[n].last <= MostBlocks'
    OBVIOUS
  <2>2. file[n].last <= MostBlocks /\ file[n].last \in Nat
    BY <2>1 DEF BlocksOK, FilesInv, FilesOK, FileType
  <2> QED
    BY <1>1, <2>2
<1> QED
  BY <1>2, <1>3 DEF BlocksOK

\* A file has at most as many entries as it may have blocks.
LEMMA EntriesFew ==
  ASSUME FilesInv, BlocksOK, NEW n \in Name
  PROVE  Files!Entries(n) \in Nat /\ Files!Entries(n) <= MostBlocks
<1>1. DataOK /\ MostBlocks \in Nat
  BY MostBlocksIs DEF FilesInv
<1>2. \A S : Files!Cardinality(S) = Cardinality(S)
  BY DEF Files!Cardinality, Cardinality
<1>3. n \in DOMAIN dbs => Cardinality(DOMAIN dbs[n]) <= MostBlocks
  <2>1. SUFFICES ASSUME n \in DOMAIN dbs
                 PROVE  Cardinality(DOMAIN dbs[n]) <= MostBlocks
    OBVIOUS
  <2>2. DOMAIN dbs[n] \subseteq 1 .. MostBlocks
    BY <1>1, <2>1 DEF DataOK, BlocksOK
  <2>3. IsFiniteSet(1 .. MostBlocks) /\ Cardinality(1 .. MostBlocks) = MostBlocks
    BY <1>1, FS_Interval
  <2> QED
    BY <2>2, <2>3, FS_Subset
<1> QED
  BY <1>1, <1>2, <1>3, EntriesAre DEF Files!Entries

LEMMA OpenCounts ==
  ASSUME FilesInv, BlocksOK, CountsBounded, NEW n \in Name, NEW create \in BOOLEAN,
         Files!DbOpen(n, create)
  PROVE  /\ NoNewBlock /\ file'[n].last <= MostBlocks
         /\ \A m \in Name \ {n} : file'[m] = file[m]
<1>1. /\ DataOK /\ FilesOK /\ MostBlocks \in Nat \ {0}
  BY MostBlocksIs DEF FilesInv
<1>2. /\ \A m \in Name \ {n} : file'[m] = file[m]
      /\ \A m \in DOMAIN dbs : m \in DOMAIN dbs' /\ dbs'[m] = dbs[m]
      /\ \A m \in DOMAIN dbs' \ DOMAIN dbs : m = n /\ dbs'[m] = <<>>
      /\ OpenHas(n) \/ OpenFull(n) \/ OpenFailed(n)
  BY <1>1, OpenEffect
<1>3. NoNewBlock
  BY <1>2, BasicFacts DEF NoNewBlock, Before
<1>4. file'[n].last <= MostBlocks
  <2>1. CASE OpenHas(n)
    BY <2>1, EntriesFew DEF OpenHas
  <2>2. CASE OpenFull(n)
    <3>1. ~(EnoughHandles /\ WritesSucceed)
      BY <1>1, <2>2, HandleLeft DEF OpenFull, DataOK, WritesSucceed
    <3> QED
      BY <1>1, <2>2, <3>1 DEF OpenFull, CountsBounded
  <2>3. CASE OpenFailed(n)
    BY <1>1, <2>3 DEF OpenFailed
  <2> QED
    BY <1>2, <2>1, <2>2, <2>3
<1> QED
  BY <1>2, <1>3, <1>4

LEMMA PutKeys ==
  ASSUME NEW h, NEW key, NEW page, Files!PutEntry(h, key, page)
  PROVE  \A n \in DOMAIN dbs' : \A b \in DOMAIN dbs'[n] :
           Before(n, b) \/ (Files!Valid(h) /\ n = slot[h] /\ b = key)
BY DEF Files!PutEntry, Before

-----------------------------------------------------------------------------
(***************************************************************************)
(* The kinds of steps, as steps of BTFile.                                 *)
(***************************************************************************)
CallStep == FilesOfPages!Next \/ UNCHANGED FilesOfPages!vars

CallsCreate == {"boot_get_new", "get_new", "boot_put", "put"}

LEMMA CreatingIs ==
  /\ at.pc \notin CallsCreate => Creating = FilesOfPages!NotCreating
  /\ at'.pc \notin CallsCreate => Creating' = FilesOfPages!NotCreating
  /\ at.pc \in {"boot_get_new", "get_new"} => Creating = [object |-> at.table, next |-> "get_new"]
  /\ at'.pc \in {"boot_get_new", "get_new"} => Creating' = [object |-> at'.table, next |-> "get_new"]
  /\ at.pc \in {"boot_put", "put"} => Creating = [object |-> at.table, next |-> "put"]
  /\ at'.pc \in {"boot_put", "put"} => Creating' = [object |-> at'.table, next |-> "put"]
BY DEF Creating, CallsCreate, FilesOfPages!NotCreating

\* No call of BTFile.
LEMMA NoCall ==
  ASSUME UNCHANGED disk, Creating' = Creating
  PROVE  CallStep
BY SameSizes DEF disk, FilesOfPages!vars, CallStep

LEMMA QuietCalls ==
  ASSUME FilesInv, BlocksOK, UNCHANGED disk, statements' = statements,
         at.pc \notin CallsCreate, at'.pc \notin CallsCreate,
         IsEarly' => IsEarly, Up' => Up
  PROVE  CallStep /\ BlocksOK'
<1>1. CallStep
  BY NoCall, CreatingIs
<1>2. BlocksOK'
  BY BlocksStay DEF disk, Before
<1> QED
  BY <1>1, <1>2

\* An object is constructed.
LEMMA ConstructCalls ==
  ASSUME NEW n \in Name, file' = [file EXCEPT ![n] = Files!NewFile(n)], UNCHANGED <<dbs, slot>>,
         at.pc \notin CallsCreate, at'.pc \notin CallsCreate
  PROVE  CallStep
<1>1. FilesOfPages!Construct(n, n)
  BY CreatingIs, SizesBridge, SameSizes DEF FilesOfPages!Construct, FilesOfPages!Idle
<1> QED
  BY <1>1 DEF FilesOfPages!Next, CallStep

\* The process ends.
LEMMA StopCalls ==
  ASSUME FilesInv, BlocksOK, Stop
  PROVE  CallStep /\ BlocksOK'
<1>1. /\ file' = [n \in Name |-> Files!NewFile(n)] /\ slot' = Files!NoHandles /\ dbs' = dbs
      /\ at'.pc = "down" /\ has_tables' = FALSE /\ statements' = statements
  BY PlacesAre DEF Stop
<1>2. file' = [n \in Name |-> FilesOfPages!NewFile(file[n].name)]
  BY <1>1, SizesBridge DEF FilesInv, FilesOK
<1>3. FilesOfPages!Crash
  BY <1>1, <1>2, CreatingIs, SizesBridge, SameSizes DEF FilesOfPages!Crash, CallsCreate
<1>4. BlocksOK'
  BY <1>1, BlocksStay DEF IsEarly, Early, Up, Before
<1> QED
  BY <1>3, <1>4 DEF FilesOfPages!Next, CallStep

\* Objects that were never opened may be opened: no two are of one file.
LEMMA MayBeOpened ==
  ASSUME FilesInv, NEW n \in Name, New(n) \/ ~file[n].closed
  PROVE  FilesOfPages!MayOpen(n)
BY BasicFacts DEF FilesOfPages!MayOpen, FilesOfPages!NoDbi, FilesInv, FilesOK

LEMMA OpenCalls ==
  ASSUME FilesInv, NEW n \in Name, New(n), Files!DbOpen(n, FALSE),
         at.pc \notin CallsCreate, at'.pc \notin CallsCreate
  PROVE  CallStep
<1>1. FilesOfPages!DbOpen(n, FALSE)
  <2>1. FALSE \in BOOLEAN /\ file[n].name = n
    BY DEF FilesInv, FilesOK
  <2>2. \A create \in BOOLEAN : Files!DbOpen(n, create) => FilesOfPages!DbOpen(n, create)
    BY <2>1, OpenSizes
  <2> QED
    BY <2>1, <2>2
<1>2. file[n].closed
  BY BasicFacts
<1>3. FilesOfPages!MayOpen(n)
  BY MayBeOpened
<1>4. FilesOfPages!Open(n)
  BY <1>1, <1>2, <1>3, CreatingIs DEF FilesOfPages!Open, FilesOfPages!Idle
<1> QED
  BY <1>4 DEF FilesOfPages!Next, CallStep

\* create() begins; the bound of BTFile's instance is never in its way.
LEMMA CreateCalls ==
  ASSUME FilesInv, BlocksOK, NEW n \in Name,
         \/ New(n) /\ Files!DbOpen(n, TRUE)
         \/ Up /\ ~file[n].closed /\ UNCHANGED disk,
         at.pc \notin CallsCreate, at'.pc \in {"boot_get_new", "get_new"}, at'.table = n
  PROVE  CallStep
<1>1. IF file[n].closed THEN FilesOfPages!DbOpen(n, TRUE)
                        ELSE UNCHANGED <<PagesBySize, slot, file>>
  <2>1. CASE New(n) /\ Files!DbOpen(n, TRUE)
    <3>1. TRUE \in BOOLEAN /\ file[n].name = n
      BY DEF FilesInv, FilesOK
    <3>2. \A create \in BOOLEAN : Files!DbOpen(n, create) => FilesOfPages!DbOpen(n, create)
      BY <3>1, OpenSizes
    <3>3. file[n].closed
      BY <2>1, BasicFacts
    <3> QED
      BY <2>1, <3>1, <3>2, <3>3
  <2>2. CASE ~file[n].closed /\ UNCHANGED disk
    BY <2>2, SameSizes DEF disk
  <2> QED
    BY <2>1, <2>2
<1>2. FilesOfPages!Bounded(n)
  <2>1. /\ file[n].name = n /\ file[n].last \in Nat /\ MostBlocks \in Nat
        /\ MAX_STATEMENTS \in Nat /\ MostBlocks < MAX_STATEMENTS + 2
    BY MostBlocksIs DEF FilesInv, FilesOK, FileType
  <2>2. file[n].last < MAX_STATEMENTS + 2
    <3>1. CASE New(n)
      BY <2>1, <3>1, BasicFacts
    <3>2. CASE Up /\ ~file[n].closed
      BY <2>1, <3>2 DEF BlocksOK
    <3> QED
      BY <3>1, <3>2
  <2>3. FilesOfPages!Entries(n) < MAX_STATEMENTS + 2
    BY <2>1, EntriesFew, SizesBridge
  <2> QED
    BY <2>1, <2>2, <2>3 DEF FilesOfPages!Bounded
<1>3. FilesOfPages!MayOpen(n)
  BY MayBeOpened
<1>4. FilesOfPages!Create(n)
  BY <1>1, <1>2, <1>3, CreatingIs DEF FilesOfPages!Create, FilesOfPages!Idle
<1> QED
  BY <1>4 DEF FilesOfPages!Next, CallStep

LEMMA AllocateCalls ==
  ASSUME DataOK, NEW n \in Name, n = at.table, Files!AllocateBlock(n),
         at.pc \in {"boot_get_new", "get_new"}, at'.pc \in {"boot_put", "put"}, at'.table = n
  PROVE  CallStep
<1>1. FilesOfPages!AllocateBlock(n)
  BY AllocateSizes
<1>2. /\ Creating = [object |-> n, next |-> "get_new"]
      /\ Creating' = [object |-> n, next |-> "put"]
  BY CreatingIs
<1>3. FilesOfPages!CreateGetNew
  BY <1>1, <1>2 DEF FilesOfPages!CreateGetNew
<1> QED
  BY <1>3 DEF FilesOfPages!Next, CallStep

LEMMA PutNewCalls ==
  ASSUME DataOK, NEW n \in Name, n = at.table, Files!PutBlock(n, file[n].last, <<>>),
         at.pc \in {"boot_put", "put"}, at'.pc \notin CallsCreate
  PROVE  CallStep
<1>1. FilesOfPages!PutBlock(n, file[n].last, 0)
  <2>1. FilesOfPages!PutBlock(n, file[n].last, Len(<<>>))
    BY PutSizes
  <2>2. Len(<<>>) = 0
    OBVIOUS
  <2> QED
    BY <2>1, <2>2
<1>2. /\ Creating = [object |-> n, next |-> "put"]
      /\ Creating' = FilesOfPages!NotCreating
  BY CreatingIs
<1>3. FilesOfPages!CreatePut
  BY <1>1, <1>2 DEF FilesOfPages!CreatePut
<1> QED
  BY <1>3 DEF FilesOfPages!Next, CallStep

\* A block that is there is put again, with a row more or a row deleted.
LEMMA RewriteCalls ==
  ASSUME FilesInv, BlocksOK, NEW n \in Name, ~file[n].closed, NEW b \in 1 .. file[n].last,
         HasBlock(n, b), NEW page \in Pages, Len(page) <= PAGE_ROWS + 1, Files!PutBlock(n, b, page),
         statements' = statements, IsEarly' => IsEarly, Up' => Up,
         at.pc \notin CallsCreate, at'.pc \notin CallsCreate
  PROVE  CallStep /\ BlocksOK'
<1>1. DataOK
  BY DEF FilesInv
<1>2. Len(page) \in 0 .. PAGE_ROWS + 1
  BY BasicFacts DEF Pages
<1>3. FilesOfPages!PutBlock(n, b, Len(page))
  BY <1>1, PutSizes
<1>4. FilesOfPages!Put(n, b, Len(page))
  BY <1>3, CreatingIs DEF FilesOfPages!Put, FilesOfPages!Idle
<1>5. CallStep
  BY <1>2, <1>4 DEF FilesOfPages!Next, CallStep
<1>6. file' = file /\ Files!PutEntry(file[n].dbi, b, page)
  BY DEF Files!PutBlock
<1>7. NoNewBlock
  <2>1. slot[file[n].dbi] \in DOMAIN dbs /\ b \in DOMAIN dbs[slot[file[n].dbi]]
    BY <1>1, BlockIs
  <2> QED
    BY <1>6, <2>1, PutKeys DEF NoNewBlock, Before
<1>8. BlocksOK'
  BY <1>6, <1>7, BlocksStay DEF NoNewBlock
<1> QED
  BY <1>5, <1>8

-----------------------------------------------------------------------------
(***************************************************************************)
(* The steps.                                                              *)
(***************************************************************************)

\* Where the start of the program is.
LEMMA BootPlace ==
  ASSUME FilesInv, at.pc \in Booting, UNCHANGED memory
  PROVE  /\ DataOK /\ FilesOK /\ at \in AtType /\ at.table \in Name
         /\ statements' = statements /\ ~Up'
         /\ \A pc \in Places : GoTo(pc) => at'.pc = pc /\ at'.table = at.table
<1>1. has_tables' = FALSE /\ statements' = statements
  BY StartFacts DEF memory
<1> QED
  BY <1>1, StartFacts, GoToIs DEF Up

LEMMA BootOpenCalls ==
  ASSUME FilesInv, BlocksOK, CountsBounded, BootOpen
  PROVE  CallStep /\ BlocksOK'
<1>1. at.pc = "boot_open" /\ at.pc \in Booting /\ at.pc \notin CallsCreate /\ UNCHANGED memory
  BY DEF BootOpen, Booting, CallsCreate
<1>2. PICK n \in Name : n = at.table
  BY <1>1, BootPlace
<1>3. New(n) /\ statements' = statements /\ ~Up'
  BY <1>1, <1>2, StartFacts, BootPlace
<1>4. CASE GoTo("boot_create") /\ UNCHANGED disk
  <2>1. at'.pc = "boot_create"
    BY <1>1, <1>4, BootPlace DEF Places, Booting
  <2> QED
    BY <1>1, <1>3, <1>4, <2>1, QuietCalls DEF CallsCreate, IsEarly, Early
<1>5. CASE GoTo("boot_close") /\ Files!DbOpen(n, FALSE)
  <2>1. at'.pc = "boot_close"
    BY <1>1, <1>5, BootPlace DEF Places, Booting
  <2>2. CallStep
    BY <1>1, <1>3, <1>5, <2>1, OpenCalls DEF CallsCreate
  <2>3. NoNewBlock
    BY <1>5, OpenCounts
  <2>4. BlocksOK'
    BY <1>3, <2>1, <2>3, BlocksStay DEF NoNewBlock, IsEarly, Early
  <2> QED
    BY <2>2, <2>4
<1> QED
  BY <1>2, <1>4, <1>5 DEF BootOpen

LEMMA BootCreateCalls ==
  ASSUME FilesInv, BlocksOK, CountsBounded, BootCreate
  PROVE  CallStep /\ BlocksOK'
<1>1. /\ at.pc = "boot_create" /\ at.pc \in Booting /\ at.pc \notin CallsCreate
      /\ UNCHANGED memory /\ GoTo("boot_get_new")
  BY DEF BootCreate, Booting, CallsCreate
<1>2. PICK n \in Name : n = at.table
  BY <1>1, BootPlace
<1>3. New(n) /\ statements' = statements /\ ~Up' /\ Files!DbOpen(n, TRUE)
  BY <1>1, <1>2, StartFacts, BootPlace DEF BootCreate
<1>4. at'.pc = "boot_get_new" /\ at'.table = n
  BY <1>1, <1>2, BootPlace DEF Places, Booting
<1>5. CallStep
  BY <1>1, <1>3, <1>4, CreateCalls
<1>6. NoNewBlock
  BY <1>3, OpenCounts
<1>7. BlocksOK'
  BY <1>3, <1>4, <1>6, BlocksStay DEF NoNewBlock, IsEarly, Early
<1> QED
  BY <1>5, <1>7

LEMMA BootBlockCalls ==
  ASSUME FilesInv, BlocksOK, BootGetNew \/ BootPut
  PROVE  CallStep /\ BlocksOK'
<1>1. /\ at.pc \in {"boot_get_new", "boot_put"} /\ at.pc \in Booting /\ UNCHANGED memory
      /\ IF at.pc = "boot_get_new" THEN GoTo("boot_put") ELSE GoTo("boot_close")
  BY DEF BootGetNew, BootPut, Booting
<1>2. PICK n \in Name : n = at.table
  BY <1>1, BootPlace
<1>3. /\ DataOK /\ FilesOK /\ statements' = statements /\ ~Up' /\ at'.table = n
      /\ at'.pc = IF at.pc = "boot_get_new" THEN "boot_put" ELSE "boot_close"
  BY <1>1, <1>2, BootPlace DEF Places, Booting
<1>4. PICK key : /\ Files!PutEntry(file[n].dbi, key, <<>>)
                 /\ Files!Valid(file[n].dbi) => key = 1
                 /\ IF at.pc = "boot_get_new" THEN Files!AllocateBlock(n)
                                              ELSE Files!PutBlock(n, key, <<>>) /\ key = file[n].last
  <2>1. Files!Valid(file[n].dbi) => file[n].dbi # 0
    BY BasicFacts DEF Files!Valid
  <2>2. CASE at.pc = "boot_get_new"
    <3>1. Files!AllocateBlock(n) /\ Files!PutEntry(file[n].dbi, file[n].last + 1, <<>>)
      BY <1>2, <2>2 DEF BootGetNew, BootPut, Files!AllocateBlock
    <3>2. Files!Valid(file[n].dbi) => file[n].last + 1 = 1
      BY <1>2, <2>1, <2>2 DEF FilesInv, CountOK
    <3> QED
      BY <2>2, <3>1, <3>2
  <2>3. CASE at.pc = "boot_put"
    <3>1. Files!PutBlock(n, file[n].last, <<>>) /\ Files!PutEntry(file[n].dbi, file[n].last, <<>>)
      BY <1>2, <2>3 DEF BootGetNew, BootPut, Files!PutBlock
    <3>2. Files!Valid(file[n].dbi) => file[n].last = 1
      BY <1>2, <2>1, <2>3 DEF FilesInv, CountOK
    <3> QED
      BY <2>3, <3>1, <3>2
  <2> QED
    BY <1>1, <2>2, <2>3
<1>5. CallStep
  <2>1. CASE at.pc = "boot_get_new"
    BY <1>2, <1>3, <1>4, <2>1, AllocateCalls
  <2>2. CASE at.pc = "boot_put"
    BY <1>2, <1>3, <1>4, <2>2, PutNewCalls DEF CallsCreate
  <2> QED
    BY <1>1, <2>1, <2>2
<1>6. BlocksOK'
  <2>1. \A m \in DOMAIN dbs' : \A b \in DOMAIN dbs'[m] : Before(m, b) \/ b = 1
    BY <1>4, PutKeys
  <2>2. ~IsEarly' /\ 1 <= MostBlocks'
    BY <1>1, <1>3, MostBlocksIs DEF IsEarly, Early, MostBlocks
  <2> QED
    BY <1>3, <2>1, <2>2, BlocksStay
<1> QED
  BY <1>5, <1>6

LEMMA BootCloseCalls ==
  ASSUME FilesInv, BlocksOK, BootClose
  PROVE  CallStep /\ BlocksOK'
<1>1. /\ at.pc = "boot_close" /\ at.pc \in Booting /\ UNCHANGED memory
      /\ at.pc \notin CallsCreate
  BY DEF BootClose, Booting, CallsCreate
<1>2. PICK n \in Name : n = at.table
  BY <1>1, BootPlace
<1>3. /\ at \in AtType /\ statements' = statements /\ ~Up' /\ ~file[n].closed
      /\ Files!CloseFile(n) /\ dbs' = dbs
  BY <1>1, <1>2, StartFacts, BootPlace DEF BootClose, Files!CloseFile
<1>4. at'.pc \in {"boot_open", "boot_end"}
  <2>1. CASE n = TABLES
    BY <1>2, <1>3, <2>1 DEF BootClose, AtType
  <2>2. CASE n # TABLES
    BY <1>2, <1>3, <2>2 DEF BootClose, AtType
  <2> QED
    BY <2>1, <2>2
<1>5. CallStep
  <2>1. Creating = FilesOfPages!NotCreating /\ Creating' = FilesOfPages!NotCreating
    BY <1>1, <1>4, CreatingIs DEF CallsCreate
  <2>2. FilesOfPages!Close(n)
    BY <1>3, <2>1, CloseSizes DEF FilesOfPages!Close, FilesOfPages!Idle
  <2> QED
    BY <2>2 DEF FilesOfPages!Next, CallStep
<1>6. BlocksOK'
  BY <1>3, <1>4, BlocksStay DEF IsEarly, Early, Before
<1> QED
  BY <1>5, <1>6

LEMMA BootEndCalls ==
  ASSUME FilesInv, BlocksOK, BootEnd
  PROVE  CallStep /\ BlocksOK'
<1>1. /\ at.pc = "boot_end" /\ at' = Ready /\ statements' = statements
      /\ file' = [file EXCEPT ![COLUMNS] = Files!NewFile(COLUMNS)]
      /\ dbs' = dbs /\ slot' = slot /\ has_tables' = has_tables
  BY DEF BootEnd, memory
<1>2. at'.pc = "ready" /\ ~has_tables
  BY <1>1, PlacesAre DEF FilesInv, ObjectsOK
<1>3. CallStep
  BY <1>1, <1>2, NamesAre, ConstructCalls DEF CallsCreate
<1>4. BlocksOK'
  BY <1>1, <1>2, BlocksStay DEF IsEarly, Early, Up, Before
<1> QED
  BY <1>3, <1>4

LEMMA StartCalls ==
  ASSUME FilesInv, BlocksOK, Start
  PROVE  CallStep /\ BlocksOK'
<1>1. /\ at.pc = "down" /\ UNCHANGED disk /\ statements' = statements /\ has_tables' = has_tables
      /\ at' = [Nowhere EXCEPT !.pc = "boot_open", !.table = TABLES]
  BY DEF Start
<1>2. at'.pc = "boot_open" /\ ~has_tables
  BY <1>1, PlacesAre DEF AtType, FilesInv, ObjectsOK
<1> QED
  BY <1>1, <1>2, QuietCalls DEF CallsCreate, IsEarly, Early, Up

LEMMA ExecuteCalls ==
  ASSUME FilesInv, BlocksOK,
         (\E t \in Named, columns \in ColumnLists : ExecuteCreate(t, columns)) \/ ExecuteOther
  PROVE  CallStep /\ BlocksOK'
<1>1. /\ at.pc = "ready" /\ dbs' = dbs /\ slot' = slot /\ has_tables' = TRUE
      /\ file' = IF has_tables THEN file ELSE [file EXCEPT ![TABLES] = Files!NewFile(TABLES)]
      /\ has_tables \in BOOLEAN
  BY DEF ExecuteCreate, ExecuteOther, FilesInv, ObjectsOK
<1>2. CASE \E t \in Named, columns \in ColumnLists : ExecuteCreate(t, columns)
  <2>1. /\ statements' = statements + 1
        /\ at'.pc = IF has_tables THEN "insert_table" ELSE "open_tables"
    BY <1>2 DEF ExecuteCreate
  <2>2. CallStep
    <3>1. CASE has_tables
      BY <1>1, <2>1, <3>1, CreatingIs, NoCall DEF CallsCreate, disk
    <3>2. CASE ~has_tables
      BY <1>1, <2>1, <3>2, NamesAre, ConstructCalls DEF CallsCreate
    <3> QED
      BY <3>1, <3>2
  <2>3. /\ MostBlocks = statements + 1 /\ statements \in Nat /\ ~IsEarly
    BY <1>1, MostBlocksIs DEF MostBlocks, IsEarly, Early
  <2>4. at'.table # NoObject
    BY <1>2, CatalogAssumption, NamesAre DEF ExecuteCreate, CatalogAssumption
  <2>5. IsEarly' /\ MostBlocks' = statements + 1
    BY <2>1, <2>4 DEF IsEarly, Early, MostBlocks
  <2>6. Up' => Up /\ file' = file
    BY <1>1, <2>1 DEF Up
  <2>7. BlocksOK'
    BY <1>1, <2>1, <2>3, <2>5, <2>6 DEF BlocksOK
  <2> QED
    BY <2>2, <2>7
<1>3. CASE ExecuteOther
  <2>1. /\ statements' = statements /\ ~has_tables
        /\ at'.pc = "open_tables" /\ at'.table = NoObject
    BY <1>3, PlacesAre DEF ExecuteOther, AtType
  <2>2. CallStep
    BY <1>1, <2>1, NamesAre, ConstructCalls DEF CallsCreate
  <2>3. BlocksOK'
    BY <1>1, <2>1, BlocksStay DEF IsEarly, Up, Before
  <2> QED
    BY <2>2, <2>3
<1> QED
  BY <1>2, <1>3

LEMMA OpenTablesCalls ==
  ASSUME FilesInv, BlocksOK, CountsBounded, OpenTables
  PROVE  CallStep /\ BlocksOK'
<1>1. CASE Stop
  BY <1>1, StopCalls
<1>2. CASE ~Stop
  <2>1. /\ at.pc = "open_tables" /\ Files!DbOpen(TABLES, FALSE) /\ statements' = statements
        /\ IF at.table = NoObject THEN at' = Ready ELSE GoTo("insert_table")
    BY <1>2 DEF OpenTables, memory
  <2>2. /\ at \in AtType /\ New(TABLES) /\ \A n \in Name \ {TABLES} : file[n].closed
    <3>1. ~Up /\ at.pc \notin Booting
      BY <2>1 DEF Up, Booting
    <3> QED
      BY <2>1, <3>1 DEF FilesInv, ObjectsOK, ProgramOK, AtOK
  <2>3. at'.pc = "ready" \/ (at'.pc = "insert_table" /\ at'.table = at.table)
    <3>1. CASE at.table = NoObject
      BY <2>1, <3>1, PlacesAre
    <3>2. CASE at.table # NoObject
      BY <2>1, <2>2, <3>2, GoToIs DEF Places
    <3> QED
      BY <3>1, <3>2
  <2>4. CallStep
    BY <2>1, <2>2, <2>3, NamesAre, OpenCalls DEF CallsCreate
  <2>5. NoNewBlock /\ file'[TABLES].last <= MostBlocks /\ \A n \in Name \ {TABLES} : file'[n] = file[n]
    <3>1. PICK create \in BOOLEAN : create = FALSE
      OBVIOUS
    <3>2. Files!DbOpen(TABLES, create)
      BY <2>1, <3>1
    <3> QED
      BY <3>2, NamesAre, OpenCounts
  <2>6. IsEarly' => IsEarly
    BY <2>1, <2>3 DEF IsEarly, Early
  <2>7. file'[TABLES].last <= MostBlocks'
    <3>1. file'[TABLES].last \in Nat
      BY NamesAre, OpenTablesFiles DEF FilesInv, FilesOK, FileType
    <3> QED
      BY <2>1, <2>5, <2>6, <3>1, MostBlocksIs DEF MostBlocks
  <2>8. BlocksOK'
    BY <2>1, <2>2, <2>5, <2>6, <2>7, BlocksStay DEF NoNewBlock
  <2> QED
    BY <2>4, <2>8
<1> QED
  BY <1>1, <1>2

\* What is known within a statement.
LEMMA WithinStatement ==
  ASSUME FilesInv, at.pc \in Writing \union {"insert_table"}
  PROVE  /\ Up /\ at \in AtType /\ at.table \in Name /\ DataOK /\ FilesOK
         /\ ~file[TABLES].closed /\ \A n \in Name : file[n].closed => New(n)
         /\ at.pc \in Early => IsEarly
<1>1. Up
  BY DEF FilesInv, ObjectsOK, Up, Writing
<1> QED
  BY <1>1, UpFacts, NamesAre DEF IsEarly

\* A row is inserted, or the last block has no room for it, or is not there.
LEMMA InsertCalls ==
  ASSUME FilesInv, BlocksOK, at.pc \in {"insert_table", "column", "seed"},
         NEW n \in Name, ~file[n].closed, NEW row \in Cell,
         NEW next, InsertRow(n, row, next), next.pc \in {"column", "seed", "wild"},
         next.pc = "column" => at.pc # "seed"
  PROVE  CallStep /\ BlocksOK'
<1>1. /\ Up /\ at \in AtType /\ at.table \in Name /\ DataOK /\ FilesOK
      /\ (at.pc \in Early => IsEarly) /\ at.pc \notin CallsCreate
  BY WithinStatement DEF Writing, CallsCreate
<1>2. CASE GoWild
  <2>1. /\ UNCHANGED disk /\ statements' = statements /\ at'.pc = "wild"
    BY <1>1, <1>2, GoToIs DEF GoWild, Places
  <2> QED
    BY <1>1, <2>1, QuietCalls DEF CallsCreate, IsEarly, Early
<1>3. CASE Stop
  BY <1>3, StopCalls
<1>4. CASE /\ HasBlock(n, file[n].last) /\ ~SeesOverrun(n) /\ AppendRow(n, row)
           /\ at' = next /\ UNCHANGED <<has_tables, table_cache, statements, history>>
  <2>1. PICK last, old : last = file[n].last /\ old = Page(n, last)
    OBVIOUS
  <2>2. last \in Nat \ {0} /\ old \in Pages /\ Len(old) <= PAGE_ROWS /\ HasBlock(n, last)
    BY <1>1, <1>4, <2>1, BlockIs, NoOverrun
  <2>3. PICK page : page = Append(old, row)
    OBVIOUS
  <2>4. page \in Pages /\ Len(page) = Len(old) + 1 /\ Len(old) \in Nat /\ PAGE_ROWS \in Nat
    BY <2>2, <2>3, BasicFacts DEF Pages
  <2>5. Len(page) <= PAGE_ROWS + 1 /\ Files!PutBlock(n, last, page) /\ last \in 1 .. file[n].last
    BY <1>4, <2>1, <2>2, <2>3, <2>4 DEF AppendRow
  <2>6. IsEarly' => IsEarly
    BY <1>1, <1>4 DEF IsEarly, Early
  <2>7. statements' = statements /\ at'.pc \notin CallsCreate
    BY <1>4 DEF CallsCreate
  <2> QED
    BY <1>1, <2>2, <2>4, <2>5, <2>6, <2>7, RewriteCalls
<1> QED
  BY <1>2, <1>3, <1>4 DEF InsertRow

LEMMA InsertTableCalls ==
  ASSUME FilesInv, BlocksOK, InsertTable
  PROVE  CallStep /\ BlocksOK'
<1>1. at.pc = "insert_table"
  BY DEF InsertTable
<1>2. at \in AtType /\ at.table \in Name /\ ~file[TABLES].closed
  BY <1>1, WithinStatement
<1>3. SelectWhere(TABLES, Where(<<at.table>>)) = {} /\ <<at.table>> \in Cell
  BY <1>2, CellsAre, NamesAre, NothingMatches
<1>4. PICK next : next = [at EXCEPT !.pc = IF COLUMNS \in table_cache THEN "column" ELSE "wild",
                                    !.handle = <<file[TABLES].last, Len(Page(TABLES, file[TABLES].last)) + 1>>]
  OBVIOUS
<1>5. next.pc \in {"column", "wild"}
  BY <1>2, <1>4 DEF AtType
<1>6. InsertRow(TABLES, <<at.table>>, next)
  BY <1>3, <1>4 DEF InsertTable
<1> QED
  BY <1>1, <1>2, <1>3, <1>5, <1>6, NamesAre, InsertCalls

LEMMA InsertColumnCalls ==
  ASSUME FilesInv, BlocksOK, InsertColumn
  PROVE  CallStep /\ BlocksOK'
<1>1. /\ at.pc = "column" /\ at.i <= Len(at.columns) /\ ~file[COLUMNS].closed
      /\ InsertRow(COLUMNS, <<at.table, at.columns[at.i].name>>, [at EXCEPT !.i = at.i + 1])
  BY DEF InsertColumn, MoreColumns, NextColumn
<1>2. at \in AtType /\ at.table \in Name
  BY <1>1, WithinStatement DEF Writing
<1>3. at.columns[at.i].name \in STRING
  <2>1. at.columns \in Seq([name : STRING, ok : BOOLEAN]) /\ at.i \in Nat \ {0}
    BY <1>2 DEF AtType
  <2>2. at.i \in 1 .. Len(at.columns)
    BY <1>1, <2>1
  <2>3. at.columns[at.i] \in [name : STRING, ok : BOOLEAN]
    BY <2>1, <2>2, ElementIs
  <2> QED
    BY <2>3
<1>4. PICK row \in Cell : row = <<at.table, at.columns[at.i].name>>
  BY <1>2, <1>3, CellsAre
<1>5. PICK next : next = [at EXCEPT !.i = at.i + 1]
  OBVIOUS
<1>6. next.pc = "column" /\ InsertRow(COLUMNS, row, next)
  BY <1>1, <1>2, <1>4, <1>5 DEF AtType
<1> QED
  BY <1>1, <1>6, NamesAre, InsertCalls

LEMMA SeedCalls ==
  ASSUME FilesInv, BlocksOK, Seed
  PROVE  CallStep /\ BlocksOK'
<1>1. at.pc = "seed" /\ at.i <= Len(Seeds(at.table)) /\ ~file[at.table].closed
  BY DEF Seed, FilesInv, ObjectsOK
<1>2. at \in AtType /\ at.table \in Name /\ at.i \in Nat \ {0}
  BY <1>1, WithinStatement DEF Writing, AtType
<1>3. PICK n \in Name : n = at.table
  BY <1>2
<1>4. Len(Seeds(n)) \in Nat
  BY DEF Seeds
<1>5. PICK row : row = Seeds(n)[at.i]
  OBVIOUS
<1>6. row \in Cell /\ 1 \in DOMAIN row
  BY <1>1, <1>2, <1>3, <1>4, <1>5, SeedsAre
<1>7. PICK next : next = [at EXCEPT !.i = at.i + 1]
  OBVIOUS
<1>8. next.pc = "seed"
  BY <1>1, <1>2, <1>7 DEF AtType
<1>9. InsertRow(n, row, next)
  BY <1>3, <1>5, <1>6, <1>7, NothingMatches DEF Seed
<1> QED
  BY <1>1, <1>3, <1>6, <1>8, <1>9, InsertCalls

LEMMA RejectColumnCalls ==
  ASSUME FilesInv, BlocksOK, RejectColumn
  PROVE  CallStep /\ BlocksOK'
<1>1. /\ at.pc = "column" /\ UNCHANGED disk /\ statements' = statements /\ GoTo("rollback")
  BY DEF RejectColumn, MoreColumns, memory
<1>2. Up /\ at \in AtType /\ (at.pc \in Early => IsEarly)
  BY <1>1, WithinStatement DEF Writing
<1>3. at'.pc = "rollback"
  BY <1>1, <1>2, GoToIs DEF Places, Writing
<1>4. IsEarly
  BY <1>1, <1>2 DEF Early
<1> QED
  BY <1>1, <1>2, <1>3, <1>4, QuietCalls DEF CallsCreate

LEMMA OpenColumnsCalls ==
  ASSUME FilesInv, BlocksOK, CountsBounded, OpenColumns
  PROVE  CallStep /\ BlocksOK'
<1>1. CASE Stop
  BY <1>1, StopCalls
<1>2. CASE ~Stop
  <2>1. /\ at.pc = "column" /\ file[COLUMNS].closed /\ Files!DbOpen(COLUMNS, FALSE)
        /\ at' = at /\ statements' = statements
    BY <1>2 DEF OpenColumns, MoreColumns, memory
  <2>2. New(COLUMNS) /\ Up
    BY <2>1, WithinStatement, NamesAre DEF Writing
  <2>3. CallStep
    BY <2>1, <2>2, NamesAre, OpenCalls DEF CallsCreate
  <2>4. NoNewBlock /\ file'[COLUMNS].last <= MostBlocks /\ \A n \in Name \ {COLUMNS} : file'[n] = file[n]
    <3>1. PICK create \in BOOLEAN : create = FALSE
      OBVIOUS
    <3>2. Files!DbOpen(COLUMNS, create)
      BY <2>1, <3>1
    <3> QED
      BY <3>2, NamesAre, OpenCounts
  <2>5. MostBlocks' = MostBlocks /\ (IsEarly' <=> IsEarly)
    BY <2>1 DEF MostBlocks, IsEarly
  <2>6. BlocksOK'
    BY <2>1, <2>2, <2>4, <2>5, BlocksStay DEF NoNewBlock
  <2> QED
    BY <2>3, <2>6
<1> QED
  BY <1>1, <1>2

LEMMA RollbackCalls ==
  ASSUME FilesInv, BlocksOK, Rollback
  PROVE  CallStep /\ BlocksOK'
<1>1. at.pc = "rollback"
  BY DEF Rollback
<1>2. /\ Up /\ at \in AtType /\ DataOK /\ ~file[TABLES].closed
  BY <1>1, WithinStatement DEF Writing
<1>3. CASE Stop
  BY <1>3, StopCalls
<1>5. CASE GoWild
  <2>1. /\ UNCHANGED disk /\ statements' = statements /\ at'.pc = "wild"
    BY <1>2, <1>5, GoToIs DEF GoWild, Places
  <2> QED
    BY <1>1, <1>2, <2>1, QuietCalls DEF CallsCreate, IsEarly, Early
<1>4. CASE ~Stop /\ ~GoWild
  <2>0. at.handle \in Select(TABLES)
    BY <1>4 DEF Rollback
  <2>1. PICK b \in 1 .. file[TABLES].last :
          \E r \in DOMAIN Page(TABLES, b) : at.handle = <<b, r>>
    BY <2>0 DEF Select
  <2>2. PICK r \in DOMAIN Page(TABLES, b) : at.handle = <<b, r>>
    BY <2>1
  <2>3. HasBlock(TABLES, b)
    BY <2>2, BasicFacts DEF Page
  <2>4. PICK old : old = Page(TABLES, b)
    OBVIOUS
  <2>5. old \in Pages /\ Len(old) <= PAGE_ROWS + 1
    BY <1>2, <2>3, <2>4, NamesAre, BlockIs
  <2>6. PICK page : page = [old EXCEPT ![r] = Deleted]
    OBVIOUS
  <2>7. page \in Pages /\ Len(page) <= PAGE_ROWS + 1
    BY <2>2, <2>4, <2>5, <2>6 DEF Pages, Cell
  <2>8. at.handle[1] = b /\ at.handle[2] = r
    BY <2>2
  <2>9. /\ Files!PutBlock(TABLES, b, page) /\ statements' = statements
        /\ at' = IF at.table = TABLES THEN [at EXCEPT !.pc = "wild"] ELSE Ready
    BY <1>4, <2>4, <2>6, <2>8 DEF Rollback, DeleteRow
  <2>10. at'.pc \in {"wild", "ready"}
    <3>1. CASE at.table = TABLES
      BY <1>2, <2>9, <3>1 DEF AtType
    <3>2. CASE at.table # TABLES
      BY <2>9, <3>2, PlacesAre
    <3> QED
      BY <3>1, <3>2
  <2>11. ~IsEarly' /\ at'.pc \notin CallsCreate /\ at.pc \notin CallsCreate
    BY <1>1, <2>10 DEF IsEarly, Early, CallsCreate
  <2> QED
    BY <1>2, <2>3, <2>7, <2>9, <2>11, NamesAre, RewriteCalls
<1> QED
  BY <1>3, <1>4, <1>5

LEMMA GetTableCalls ==
  ASSUME FilesInv, BlocksOK, GetTable
  PROVE  CallStep /\ BlocksOK'
<1>1. /\ at.pc = "column" /\ GoTo("create") /\ dbs' = dbs /\ slot' = slot
      /\ statements' = statements
  BY DEF GetTable
<1>2. /\ Up /\ at \in AtType /\ at.table \in Name /\ FilesOK /\ (at.pc \in Early => IsEarly)
  BY <1>1, WithinStatement DEF Writing
<1>3. PICK n \in Name : n = at.table
  BY <1>2
<1>4. at'.pc = "create" /\ IsEarly
  BY <1>1, <1>2, GoToIs DEF Places, Writing, Early
<1>5. CASE n \in table_cache
  <2>1. UNCHANGED disk
    BY <1>1, <1>3, <1>5 DEF GetTable, disk
  <2> QED
    BY <1>1, <1>2, <1>4, <2>1, QuietCalls DEF CallsCreate
<1>6. CASE n \notin table_cache
  <2>1. file' = [file EXCEPT ![n] = Files!NewFile(n)]
    BY <1>3, <1>6 DEF GetTable
  <2>2. CallStep
    BY <1>1, <1>4, <2>1, ConstructCalls DEF CallsCreate
  <2>3. \A m \in Name : file'[m].closed \/ file'[m] = file[m]
    BY <1>2, <2>1 DEF FilesOK, Files!NewFile
  <2>4. BlocksOK'
    BY <1>1, <1>2, <1>4, <2>3, BlocksStay DEF Before
  <2> QED
    BY <2>2, <2>4
<1> QED
  BY <1>5, <1>6

LEMMA CreateFileCalls ==
  ASSUME FilesInv, BlocksOK, CountsBounded, CreateFile
  PROVE  CallStep /\ BlocksOK'
<1>1. at.pc = "create" /\ GoTo("get_new") /\ statements' = statements
  BY DEF CreateFile, memory
<1>2. /\ Up /\ at \in AtType /\ at.table \in Name /\ (at.pc \in Early => IsEarly)
      /\ \A m \in Name : file[m].closed => New(m)
  BY <1>1, WithinStatement DEF Writing
<1>3. PICK n \in Name : n = at.table
  BY <1>2
<1>4. at'.pc = "get_new" /\ at'.table = n /\ IsEarly
  BY <1>1, <1>2, <1>3, GoToIs DEF Places, Writing, Early
<1>5. \/ New(n) /\ Files!DbOpen(n, TRUE)
      \/ Up /\ ~file[n].closed /\ UNCHANGED disk
  BY <1>2, <1>3 DEF CreateFile
<1>6. CallStep
  BY <1>1, <1>4, <1>5, CreateCalls DEF CallsCreate
<1>7. MostBlocks' = MostBlocks
  BY <1>1, <1>3, <1>4 DEF MostBlocks, IsEarly, Early
<1>8. BlocksOK'
  <2>1. CASE Files!DbOpen(n, TRUE)
    <3>1. PICK create \in BOOLEAN : create = TRUE
      OBVIOUS
    <3>2. NoNewBlock /\ file'[n].last <= MostBlocks /\ \A m \in Name \ {n} : file'[m] = file[m]
      BY <2>1, <3>1, OpenCounts
    <3> QED
      BY <1>1, <1>2, <1>4, <1>7, <3>2, BlocksStay DEF NoNewBlock
  <2>2. CASE UNCHANGED disk
    BY <1>1, <1>2, <1>4, <2>2, BlocksStay DEF disk, Before
  <2> QED
    BY <1>5, <2>1, <2>2
<1> QED
  BY <1>6, <1>8

LEMMA GetNewCalls ==
  ASSUME FilesInv, BlocksOK, GetNew
  PROVE  CallStep /\ BlocksOK'
<1>1. at.pc = "get_new" /\ GoTo("put") /\ statements' = statements
  BY DEF GetNew, memory
<1>2. /\ Up /\ at \in AtType /\ at.table \in Name /\ DataOK /\ FilesOK
      /\ (at.pc \in Early => IsEarly)
  BY <1>1, WithinStatement DEF Writing
<1>3. PICK n \in Name : n = at.table
  BY <1>2
<1>4. Files!AllocateBlock(n) /\ ~file[n].closed
  BY <1>1, <1>3 DEF GetNew, FilesInv, ObjectsOK
<1>5. at'.pc = "put" /\ at'.table = n /\ IsEarly /\ ~IsEarly'
  BY <1>1, <1>2, <1>3, GoToIs DEF Places, Writing, Early, IsEarly
<1>6. CallStep
  BY <1>1, <1>2, <1>3, <1>4, <1>5, AllocateCalls
<1>7. /\ Files!PutEntry(file[n].dbi, file[n].last + 1, <<>>)
      /\ file'[n].last = file[n].last + 1
      /\ \A m \in Name \ {n} : file'[m] = file[m]
      /\ file[n].last \in Nat
  BY <1>2, <1>4, AllocateEffect
<1>8. /\ statements \in Nat /\ file[n].last <= statements /\ MostBlocks' = statements + 1
  BY <1>1, <1>2, <1>4, <1>5, MostBlocksIs DEF BlocksOK, MostBlocks
<1>9. file[n].last + 1 <= MostBlocks'
  BY <1>7, <1>8
<1>10. \A m \in DOMAIN dbs' : \A b \in DOMAIN dbs'[m] : Before(m, b) \/ b = file[n].last + 1
  BY <1>7, PutKeys
<1>11. BlocksOK'
  BY <1>1, <1>2, <1>5, <1>7, <1>9, <1>10, BlocksStay
<1> QED
  BY <1>6, <1>11

LEMMA PutNewBlockCalls ==
  ASSUME FilesInv, BlocksOK, Put
  PROVE  CallStep /\ BlocksOK'
<1>1. /\ at.pc = "put" /\ statements' = statements /\ at' = [at EXCEPT !.pc = "seed", !.i = 1]
  BY DEF Put, memory
<1>2. /\ Up /\ at \in AtType /\ at.table \in Name /\ DataOK
  BY <1>1, WithinStatement DEF Writing
<1>3. PICK n \in Name : n = at.table
  BY <1>2
<1>4. /\ Files!PutBlock(n, file[n].last, <<>>) /\ Files!PutEntry(file[n].dbi, file[n].last, <<>>)
      /\ file' = file /\ ~file[n].closed
  BY <1>1, <1>3 DEF Put, Files!PutBlock, FilesInv, ObjectsOK
<1>5. at'.pc = "seed"
  BY <1>1, <1>2 DEF AtType
<1>6. ~IsEarly /\ ~IsEarly' /\ MostBlocks' = MostBlocks
  BY <1>1, <1>5 DEF IsEarly, Early, MostBlocks
<1>7. CallStep
  BY <1>1, <1>2, <1>3, <1>4, <1>5, PutNewCalls DEF CallsCreate
<1>8. \A m \in DOMAIN dbs' : \A b \in DOMAIN dbs'[m] : Before(m, b) \/ b = file[n].last
  BY <1>4, PutKeys
<1>9. file[n].last <= MostBlocks'
  BY <1>2, <1>4, <1>6 DEF BlocksOK
<1>10. BlocksOK'
  BY <1>1, <1>2, <1>4, <1>6, <1>8, <1>9, BlocksStay
<1> QED
  BY <1>7, <1>10

LEMMA OtherCalls ==
  ASSUME FilesInv, BlocksOK, ShowDamaged \/ Answer \/ UNCHANGED vars
  PROVE  CallStep /\ BlocksOK'
<1>1. CASE ShowDamaged
  <2>1. /\ at.pc = "ready" /\ GoTo("wild") /\ UNCHANGED disk /\ statements' = statements
        /\ has_tables /\ at \in AtType
    BY <1>1 DEF ShowDamaged, GoWild, FilesInv, ProgramOK, AtOK
  <2>2. at'.pc = "wild" /\ Up
    BY <2>1, GoToIs DEF Places, Up
  <2> QED
    BY <2>1, <2>2, QuietCalls DEF CallsCreate, IsEarly, Early
<1>2. CASE Answer
  <2>1. at.pc = "seed" /\ at' = Ready /\ UNCHANGED disk /\ statements' = statements
    BY <1>2 DEF Answer
  <2>2. at'.pc = "ready" /\ Up
    BY <2>1, PlacesAre, WithinStatement DEF Writing
  <2> QED
    BY <2>1, <2>2, QuietCalls DEF CallsCreate, IsEarly, Early
<1>3. CASE UNCHANGED vars
  <2>1. /\ UNCHANGED disk /\ dbs' = dbs /\ file' = file /\ at' = at
        /\ statements' = statements /\ has_tables' = has_tables
    BY <1>3 DEF vars, disk
  <2>2. CallStep
    BY <2>1, NoCall DEF Creating
  <2>3. BlocksOK'
    BY <2>1 DEF BlocksOK, IsEarly, MostBlocks, Up
  <2> QED
    BY <2>2, <2>3
<1> QED
  BY <1>1, <1>2, <1>3

LEMMA StepCalls ==
  ASSUME FilesInv, BlocksOK, CountsBounded, [Next]_vars
  PROVE  CallStep /\ BlocksOK'
<1>1. CASE Step
  <2>1. CASE BootOpen \/ BootCreate \/ BootGetNew \/ BootPut \/ BootClose \/ BootEnd
    BY <2>1, BootOpenCalls, BootCreateCalls, BootBlockCalls, BootCloseCalls, BootEndCalls
  <2>2. CASE OpenTables \/ InsertTable \/ RejectColumn \/ OpenColumns \/ InsertColumn \/ Rollback
    BY <2>2, OpenTablesCalls, InsertTableCalls, RejectColumnCalls, OpenColumnsCalls,
       InsertColumnCalls, RollbackCalls
  <2>3. CASE GetTable \/ CreateFile \/ GetNew \/ Put \/ Seed \/ Answer
    BY <2>3, GetTableCalls, CreateFileCalls, GetNewCalls, PutNewBlockCalls, SeedCalls, OtherCalls
  <2> QED
    BY <1>1, <2>1, <2>2, <2>3 DEF Step
<1> QED
  BY <1>1, StartCalls, ExecuteCalls, OtherCalls, StopCalls DEF Next, Crash

LEMMA InitCalls ==
  Init => FilesOfPages!Init /\ BlocksOK
<1> SUFFICES ASSUME Init
             PROVE  FilesOfPages!Init /\ BlocksOK
  OBVIOUS
<1>1. /\ dbs = [n \in {} |-> <<>>] /\ slot = Files!NoHandles /\ has_tables = FALSE
      /\ file = [n \in Name |-> Files!NewFile(n)] /\ at = Nowhere
  BY DEF Init
<1>2. at.pc = "down"
  BY <1>1, PlacesAre
<1>3. PagesBySize = [n \in {} |-> <<>>]
  BY <1>1 DEF PagesBySize
<1>4. file \in [Name -> {FilesOfPages!NewFile(n) : n \in Name}]
  BY <1>1, SizesBridge
<1>5. Creating = FilesOfPages!NotCreating
  BY <1>2, CreatingIs DEF CallsCreate
<1>6. FilesOfPages!Init
  BY <1>1, <1>3, <1>4, <1>5, SizesBridge DEF FilesOfPages!Init
<1>7. BlocksOK
  BY <1>1, <1>2 DEF BlocksOK, IsEarly, Early, Up
<1> QED
  BY <1>6, <1>7

\* Each step of the program is one call that BTFile allows, or none: no object
\* is opened twice, or while another of its file is open, no block is put that
\* the object does not count, and create() runs to its end or to the process's.
\* Also when writes fail and when a table finds no handle, as long as the last
\* it is left with is within the bound of the model.
THEOREM FilesUsedAsAllowed ==
  ASSUME CountsBounded
  PROVE  Spec => UsesFilesAsAllowed
<1>1. FilesInv /\ BlocksOK /\ [Next]_vars =>
        BlocksOK' /\ [FilesOfPages!Next]_FilesOfPages!vars
  BY StepCalls DEF CallStep
<1> QED
  BY <1>1, InitCalls, FilesInvariant, PTL DEF Spec, UsesFilesAsAllowed, FilesOfPages!Spec

=============================================================================
