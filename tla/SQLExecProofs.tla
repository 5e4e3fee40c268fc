---------------------------- MODULE SQLExecProofs ----------------------------
(***************************************************************************)
(* Theorems about SQLExec, for every set of tables and statements, every   *)
(* page size and every number of statements, as long as writes succeed and *)
(* there are handles for the two schema tables: the code has five for any  *)
(* number of tables.  Only that an answered table has its file needs a     *)
(* handle for every table.                                                 *)
(*                                                                         *)
(* The program's calls on BTFile objects are calls that BTFileProofs has   *)
(* lemmas about; here they carry over to files whose blocks are pages of   *)
(* rows.                                                                   *)
(***************************************************************************)
EXTENDS SQLExec, FiniteSetTheorems, TLAPS

WritesSucceed == WRITES_FAIL = FALSE
EnoughHandles == IsFiniteSet(Name) /\ Cardinality(Name) <= MAX_DBS
SchemaHandles == MAX_DBS >= 2

\* A row of _tables, a row of _columns, or one that was deleted.
Cell == {Deleted} \union {<<n>> : n \in Name} \union (Name \X STRING)
Pages == Seq(Cell)

Store == INSTANCE BTFileProofs WITH
  Object <- Name, Content <- Pages, NewBlock <- <<>>, MAX_BLOCKS <- 0,
  creating <- Creating

-----------------------------------------------------------------------------
(***************************************************************************)
(* The inductive invariant.                                                *)
(***************************************************************************)
Attached(n) == Files!Attached(n)
New(n) == file[n] = Files!NewFile(n)

\* An open object has a handle, or it is of a user's table and there was none
\* left for it.
WithoutHandle(n) == ~EnoughHandles /\ n \in User /\ ~file[n].closed /\ file[n].dbi = 0
InUse(n) == Attached(n) \/ WithoutHandle(n)

\* The schema tables find a handle, because they are opened before any other.
HandlesOK ==
  /\ ~has_tables => \A h \in Files!Dbi : slot[h] \in {Free, TABLES, COLUMNS}
  /\ file[COLUMNS].closed => \A h \in Files!Dbi : slot[h] \in {Free, TABLES}

\* Of the environment and the objects: what BTFile's invariant says; each
\* object is the one of its table; no two handles of one database.
StoreOK ==
  /\ Store!StoreInv
  /\ \A n \in Name : file[n].name = n
  /\ \A h, i \in Files!Dbi : slot[h] = slot[i] /\ slot[h] # Free => h = i
  /\ dbs = [n \in DOMAIN dbs |-> dbs[n]]
  /\ \A n \in DOMAIN dbs : dbs[n] = [b \in DOMAIN dbs[n] |-> dbs[n][b]]

Booting == {"boot_open", "boot_create", "boot_get_new", "boot_put", "boot_close"}
Writing == {"column", "rollback", "create", "get_new", "put", "seed"}
Places == Booting \union Writing \union
          {"down", "boot_end", "ready", "open_tables", "insert_table", "wild"}

AtType == [pc : Places, table : Name \union {NoObject},
           columns : Seq([name : STRING, ok : BOOLEAN]), i : Nat \ {0},
           handle : Nat \X Nat]

AtOK ==
  /\ at \in AtType
  /\ at.pc \in Booting => at.table \in SchemaTables
  /\ at.pc \in Writing \union {"insert_table"} => at.table \in Name
  /\ at.pc \in {"open_tables", "insert_table"} => at.i = 1
  /\ at.pc \in Writing \union {"open_tables", "insert_table"} /\ at.table # NoObject =>
       at.columns # <<>>

\* The cached names.
CacheOK ==
  /\ table_cache \subseteq Name
  /\ at.pc \in Booting \union {"boot_end"} => table_cache = SchemaTables
  /\ at.pc \notin {"down", "wild"} => TABLES \in table_cache
  /\ at.pc \in Writing => COLUMNS \in table_cache

\* Which objects are open.  A closed one was never opened, but for those of the
\* schema tables that the start of the program leaves behind.
OpenOK ==
  /\ has_tables \in BOOLEAN
  /\ at.pc \in Booting \union {"down", "boot_end"} => ~has_tables
  /\ at.pc \in Writing \union {"open_tables", "insert_table"} => has_tables
  /\ has_tables => IF at.pc = "open_tables" THEN New(TABLES) ELSE Attached(TABLES)
  /\ \A n \in Name : ~file[n].closed => InUse(n)
  /\ \A n \in Name : file[n].closed /\ ~New(n) =>
       \/ n = TABLES /\ ~has_tables
       \/ n = COLUMNS /\ at.pc = "boot_end"
  /\ at.pc \in {"boot_end", "open_tables"} \/ (at.pc = "ready" /\ ~has_tables) =>
       file[COLUMNS].closed
  /\ at.pc = "down" => \A n \in Name : New(n)
  /\ at.pc \in Booting /\ at.table = TABLES => New(COLUMNS)
  /\ at.pc \in {"boot_open", "boot_create"} => New(at.table)
  /\ at.pc \in {"boot_get_new", "boot_put", "boot_close", "get_new", "put", "seed"} =>
       InUse(at.table)
  /\ at.pc \in {"boot_put", "put", "seed"} => file[at.table].last > 0
  /\ at.pc \in {"boot_put", "put"} /\ Attached(at.table) =>
       dbs[at.table][file[at.table].last] = <<>>
  /\ at.pc = "column" /\ at.i > 1 => ~file[COLUMNS].closed
  /\ at.pc \in Writing \ {"column", "rollback"} => ~file[COLUMNS].closed
  /\ HandlesOK

\* A step leaves the object as it was.
AsBefore(n) ==
  (New(n)' <=> New(n)) /\ (Attached(n)' <=> Attached(n)) /\ (InUse(n)' <=> InUse(n))

\* A row that is stored.
RowOf(n, h) == dbs[n][h[1]][h[2]]
Stored(n, row) == \E h \in StoredRows(n) : RowOf(n, h) = row

\* What the statement under way has stored.
StatementOK ==
  /\ at.pc \in {"column", "rollback"} =>
       at.handle \in StoredRows(TABLES) /\ RowOf(TABLES, at.handle) = <<at.table>>
  /\ at.pc = "column" =>
       \A j \in DOMAIN at.columns : j < at.i => Stored(COLUMNS, <<at.table, at.columns[j].name>>)
  /\ at.pc \in Writing \ {"column", "rollback"} =>
       \A j \in DOMAIN at.columns : Stored(COLUMNS, <<at.table, at.columns[j].name>>)

HistoryOK ==
  /\ statements \in 0 .. MAX_STATEMENTS
  /\ acked \in [Name -> Nat] /\ cut \in [Name -> Nat]
  /\ acked_columns \subseteq Name \X STRING

\* A page that has_room accepted a row too many into still holds its rows here
\* (whoever reads them again runs wild), so that the invariant needs no exception
\* for it.  OneRowPerCreate and AnsweredHasColumns say nothing of such a page.
RowsCounted ==
  at.pc # "wild" => \A t \in User :
    Cardinality(RowsOf(t)) =
      acked[t] + cut[t] + (IF Pending /\ at.table = t THEN 1 ELSE 0)
ColumnsKept ==
  \A tc \in acked_columns :
    \E h \in StoredRows(COLUMNS) : dbs[COLUMNS][h[1]][h[2]] = tc

\* What was answered; a file, as long as there is a handle for it.
AnsweredOK == ColumnsKept /\ (EnoughHandles => AnsweredHasBlock)

RowsFinite == at.pc # "wild" => \A t \in User : IsFiniteSet(RowsOf(t))

IInv ==
  /\ StoreOK /\ AtOK /\ CacheOK /\ OpenOK
  /\ StatementOK /\ HistoryOK /\ RowsFinite
  /\ RowsCounted /\ AnsweredOK /\ DefinedUnlessDamaged

-----------------------------------------------------------------------------
(***************************************************************************)
(* The calls of BTFile, on pages of rows.                                  *)
(***************************************************************************)
LEMMA StoreAssumptions ==
  Store!LMDBAssumption /\ Store!BTFileAssumption
<1>1. <<>> \in Pages
  BY DEF Pages
<1> QED
  BY <1>1, CatalogAssumption DEF CatalogAssumption, Store!LMDBAssumption, Store!BTFileAssumption

LEMMA HandlesBridge ==
  /\ Files!Dbi = Store!Dbi
  /\ \A n \in Name : Files!HandlesOf(n) = Store!HandlesOf(n)
  /\ Files!FreeHandles = Store!FreeHandles
  /\ \A n \in Name : Files!OpenHandle(n) = Store!OpenHandle(n)
  /\ \A n \in Name, create \in BOOLEAN : Files!OpenStatus(n, create) = Store!OpenStatus(n, create)
BY DEF Files!Dbi, Store!Dbi, Files!HandlesOf, Store!HandlesOf, Files!FreeHandles,
       Store!FreeHandles, Files!OpenHandle, Store!OpenHandle, Files!OpenStatus,
       Store!OpenStatus

LEMMA CallsBridge ==
  ASSUME NEW n \in Name, NEW id, NEW page, \A m \in Name : file[m].name = m
  PROVE  /\ Files!PutBlock(n, id, page) => Store!PutBlock(n, id, page)
         /\ Files!AllocateBlock(n) => Store!AllocateBlock(n)
         /\ Files!CloseFile(n) => Store!CloseFile(n)
         /\ \A create \in BOOLEAN : Files!DbOpen(n, create) => Store!DbOpen(n, create)
<1>1. \A m \in Name : Files!Entries(m) = Store!Entries(m)
  BY DEF Files!Entries, Store!Entries, Files!Cardinality, Store!Cardinality
<1>2. Files!OpenDb(n) <=> Store!OpenDb(n)
  BY HandlesBridge DEF Files!OpenDb, Store!OpenDb
<1>3. \A create \in BOOLEAN : Files!DbOpen(n, create) => Store!DbOpen(n, create)
  BY <1>1, <1>2, HandlesBridge
  DEF Files!DbOpen, Store!DbOpen, Files!MayFailToCreate, Store!MayFailToCreate
<1>4. /\ Files!PutBlock(n, id, page) => Store!PutBlock(n, id, page)
      /\ Files!AllocateBlock(n) => Store!AllocateBlock(n)
      /\ Files!CloseFile(n) => Store!CloseFile(n)
  BY DEF Files!PutBlock, Store!PutBlock, Files!AllocateBlock, Store!AllocateBlock,
         Files!CloseFile, Store!CloseFile, Files!PutEntry, Store!PutEntry, Files!Valid,
         Store!Valid, Files!Dbi, Store!Dbi, Files!CloseDbi, Store!CloseDbi
<1> QED
  BY <1>3, <1>4

\* What is known of the objects and the handles.
LEMMA StoreFacts ==
  ASSUME StoreOK
  PROVE  /\ file \in [Name -> [name : Name, last : Nat, closed : BOOLEAN, dbi : 0 .. MAX_DBS]]
         /\ slot \in [Files!Dbi -> Name \union {Free}]
         /\ Files!Dbi = 1 .. MAX_DBS /\ MAX_DBS \in Nat /\ Free \notin Name
         /\ DOMAIN dbs \subseteq Name
         /\ \A n \in DOMAIN dbs : \A b \in DOMAIN dbs[n] : b \in Nat /\ dbs[n][b] \in Pages
         /\ \A n \in Name : New(n) => file[n].closed /\ file[n].dbi = 0 /\ file[n].last = 0
<1>1. Files!Dbi = 1 .. MAX_DBS /\ Store!Dbi = 1 .. MAX_DBS /\ MAX_DBS \in Nat /\ Free \notin Name
  BY CatalogAssumption DEF Files!Dbi, Store!Dbi, CatalogAssumption
<1>2. Store!Dbi \union {Store!NoDbi} = 0 .. MAX_DBS
  BY <1>1 DEF Store!NoDbi
<1> QED
  BY <1>1, <1>2 DEF StoreOK, Store!StoreInv, Store!StoreType, New, Files!NewFile, Files!NoDbi

\* An open file is its own table's, and its blocks are 1 to last.
LEMMA AttachedFacts ==
  ASSUME StoreOK, NEW n \in Name, Attached(n)
  PROVE  /\ ~file[n].closed /\ file[n].dbi \in Files!Dbi
         /\ Files!Valid(file[n].dbi) /\ slot[file[n].dbi] = n
         /\ n \in DOMAIN dbs /\ DOMAIN dbs[n] = 1 .. file[n].last /\ file[n].last \in Nat
<1>1. Store!Attached(n) /\ ~file[n].closed /\ file[n].dbi # 0
  BY DEF Attached, Files!Attached, Store!Attached, Files!NoDbi, Store!NoDbi
<1>2. file[n].name = n /\ Store!StoreInv
  BY DEF StoreOK
<1>3. /\ slot[file[n].dbi] = n
      /\ n \in DOMAIN dbs
      /\ DOMAIN dbs[n] = 1 .. file[n].last
  BY <1>1, <1>2, StoreAssumptions, Store!HandleFacts
<1>4. file[n].dbi \in Files!Dbi /\ file[n].last \in Nat /\ Free \notin Name
  BY <1>1, StoreFacts
<1> QED
  BY <1>1, <1>3, <1>4 DEF Files!Valid

\* put(block), of a block that the file has.
LEMMA PutCall ==
  ASSUME StoreOK, WritesSucceed, NEW n \in Name, Attached(n),
         NEW id \in 1 .. file[n].last, NEW page \in Pages, Files!PutBlock(n, id, page)
  PROVE  /\ StoreOK'
         /\ file' = file /\ slot' = slot
         /\ dbs' = [dbs EXCEPT ![n] = [dbs[n] EXCEPT ![id] = page]]
<1>1. /\ Files!Valid(file[n].dbi) /\ slot[file[n].dbi] = n
      /\ n \in DOMAIN dbs /\ DOMAIN dbs[n] = 1 .. file[n].last
  BY AttachedFacts
<1>2. file' = file /\ slot' = slot
  BY DEF Files!PutBlock
<1>3. dbs' = [dbs EXCEPT ![n] = [k \in DOMAIN dbs[n] \union {id} |-> IF k = id THEN page ELSE dbs[n][k]]]
  BY <1>1 DEF Files!PutBlock, Files!PutEntry, WritesSucceed
<1>4. [k \in DOMAIN dbs[n] \union {id} |-> IF k = id THEN page ELSE dbs[n][k]]
        = [dbs[n] EXCEPT ![id] = page]
  <2>1. DOMAIN dbs[n] \union {id} = DOMAIN dbs[n]
    BY <1>1
  <2> QED
    BY <2>1
<1>5. dbs' = [dbs EXCEPT ![n] = [dbs[n] EXCEPT ![id] = page]]
  BY <1>3, <1>4
<1>6. Store!StoreInv'
  <2>1. ~file[n].closed /\ Store!PutBlock(n, id, page)
    BY AttachedFacts, CallsBridge DEF StoreOK
  <2> QED
    BY <2>1, StoreAssumptions, Store!PutBlockStore DEF StoreOK, WritesSucceed, Store!WritesSucceed
<1>7. StoreOK'
  BY <1>2, <1>5, <1>6 DEF StoreOK, Files!Dbi
<1> QED
  BY <1>2, <1>5, <1>7

\* get_new()
LEMMA AllocateCall ==
  ASSUME StoreOK, WritesSucceed, NEW n \in Name, Attached(n), Files!AllocateBlock(n)
  PROVE  /\ StoreOK'
         /\ file' = [file EXCEPT ![n].last = file[n].last + 1] /\ slot' = slot
         /\ DOMAIN dbs' = DOMAIN dbs
         /\ \A m \in DOMAIN dbs : m # n => dbs'[m] = dbs[m]
         /\ DOMAIN dbs'[n] = 1 .. file[n].last + 1
         /\ \A b \in 1 .. file[n].last : dbs'[n][b] = dbs[n][b]
         /\ dbs'[n][file[n].last + 1] = <<>>
<1> DEFINE last == file[n].last
<1>1. /\ Files!Valid(file[n].dbi) /\ slot[file[n].dbi] = n
      /\ n \in DOMAIN dbs /\ DOMAIN dbs[n] = 1 .. last /\ last \in Nat
  BY AttachedFacts
<1>2. file' = [file EXCEPT ![n].last = last + 1] /\ slot' = slot
  BY DEF Files!AllocateBlock
<1>3. dbs' = [dbs EXCEPT ![n] =
        [k \in DOMAIN dbs[n] \union {last + 1} |-> IF k = last + 1 THEN <<>> ELSE dbs[n][k]]]
  BY <1>1 DEF Files!AllocateBlock, Files!PutEntry, WritesSucceed
<1>4. DOMAIN dbs[n] \union {last + 1} = 1 .. last + 1
  BY <1>1
<1>5. Store!StoreInv'
  <2>1. ~file[n].closed /\ Store!AllocateBlock(n)
    BY AttachedFacts, CallsBridge DEF StoreOK
  <2> QED
    BY <2>1, StoreAssumptions, Store!AllocateStore DEF StoreOK, WritesSucceed, Store!WritesSucceed
<1>6. file \in [Name -> [name : Name, last : Nat, closed : BOOLEAN, dbi : 0 .. MAX_DBS]]
  BY StoreFacts
<1> HIDE DEF last
<1>7. \A m \in Name : file'[m].name = m
  <2>1. \A m \in Name : file'[m].name = file[m].name
    BY <1>2, <1>6
  <2> QED
    BY <2>1 DEF StoreOK
<1>8. /\ dbs' = [m \in DOMAIN dbs' |-> dbs'[m]]
      /\ \A m \in DOMAIN dbs' : dbs'[m] = [b \in DOMAIN dbs'[m] |-> dbs'[m][b]]
  <2> DEFINE added == [k \in DOMAIN dbs[n] \union {last + 1} |-> IF k = last + 1 THEN <<>> ELSE dbs[n][k]]
  <2>1. added = [b \in DOMAIN added |-> added[b]]
    OBVIOUS
  <2>2. dbs' = [dbs EXCEPT ![n] = added]
    BY <1>3
  <2> HIDE DEF added
  <2> QED
    BY <1>1, <2>1, <2>2 DEF StoreOK
<1>9. StoreOK'
  BY <1>2, <1>5, <1>7, <1>8 DEF StoreOK, Files!Dbi
<1> QED
  BY <1>1, <1>2, <1>3, <1>4, <1>9 DEF last

\* get_new() and put(block), of an object that got no handle, store nothing.
LEMMA AllocateNothing ==
  ASSUME StoreOK, WritesSucceed, NEW n \in Name, WithoutHandle(n), Files!AllocateBlock(n)
  PROVE  /\ StoreOK' /\ dbs' = dbs /\ slot' = slot
         /\ file' = [file EXCEPT ![n].last = file[n].last + 1]
<1>1. ~Files!Valid(file[n].dbi)
  BY DEF WithoutHandle, Files!Valid, Files!Dbi
<1>2. /\ file' = [file EXCEPT ![n].last = file[n].last + 1] /\ slot' = slot
      /\ dbs' = dbs
  BY <1>1 DEF Files!AllocateBlock, Files!PutEntry
<1>3. Store!StoreInv'
  <2>1. ~file[n].closed /\ Store!AllocateBlock(n)
    BY CallsBridge DEF StoreOK, WithoutHandle
  <2> QED
    BY <2>1, StoreAssumptions, Store!AllocateStore DEF StoreOK, WritesSucceed, Store!WritesSucceed
<1>4. \A m \in Name : file'[m].name = m
  BY <1>2, StoreFacts DEF StoreOK
<1>5. StoreOK'
  BY <1>2, <1>3, <1>4 DEF StoreOK, Files!Dbi
<1> QED
  BY <1>2, <1>5

LEMMA PutNothing ==
  ASSUME NEW n \in Name, WithoutHandle(n), NEW id, NEW page, Files!PutBlock(n, id, page)
  PROVE  UNCHANGED disk
<1>1. ~Files!Valid(file[n].dbi)
  BY DEF WithoutHandle, Files!Valid, Files!Dbi
<1> QED
  BY <1>1 DEF Files!PutBlock, Files!PutEntry, disk

\* close()
LEMMA CloseCall ==
  ASSUME StoreOK, NEW n \in Name, Attached(n), Files!CloseFile(n)
  PROVE  /\ StoreOK'
         /\ file' = [file EXCEPT ![n].closed = TRUE]
         /\ dbs' = dbs /\ slot' = [slot EXCEPT ![file[n].dbi] = Free]
<1>1. /\ dbs' = dbs
      /\ file' = [file EXCEPT ![n].closed = TRUE]
      /\ slot' = [slot EXCEPT ![file[n].dbi] = Free]
  BY AttachedFacts DEF Files!CloseFile, Files!CloseDbi
<1>2. Store!StoreInv'
  <2>1. ~file[n].closed /\ Store!CloseFile(n)
    BY AttachedFacts, CallsBridge DEF StoreOK
  <2> QED
    BY <2>1, StoreAssumptions, Store!CloseStore DEF StoreOK
<1>3. file \in [Name -> [name : Name, last : Nat, closed : BOOLEAN, dbi : 0 .. MAX_DBS]]
      /\ slot \in [Files!Dbi -> Name \union {Free}]
  BY StoreFacts
<1>4. \A m \in Name : file'[m].name = m
  BY <1>1, <1>3 DEF StoreOK
<1>5. \A h, i \in Files!Dbi : slot'[h] = slot'[i] /\ slot'[h] # Free => h = i
  BY <1>1, <1>3 DEF StoreOK
<1>6. StoreOK'
  BY <1>1, <1>2, <1>4, <1>5 DEF StoreOK, Files!Dbi
<1> QED
  BY <1>1, <1>6

\* A new object in the place of an old one.
LEMMA NewCall ==
  ASSUME StoreOK, NEW n \in Name, file' = [file EXCEPT ![n] = Files!NewFile(n)],
         UNCHANGED <<dbs, slot>>
  PROVE  StoreOK'
<1>1. Files!NewFile(n) = Store!NewFile(n) /\ Files!NewFile(n).name = n
  BY DEF Files!NewFile, Store!NewFile, Files!NoDbi, Store!NoDbi
<1>2. Store!StoreInv'
  BY <1>1, StoreAssumptions, Store!ConstructStore DEF StoreOK
<1>3. \A m \in Name : file'[m].name = m
  BY <1>1, StoreFacts DEF StoreOK
<1> QED
  BY <1>2, <1>3 DEF StoreOK, Files!Dbi

\* The process ends.
LEMMA EndCall ==
  ASSUME StoreOK, file' = [n \in Name |-> Files!NewFile(n)], slot' = Files!NoHandles,
         UNCHANGED dbs
  PROVE  StoreOK'
<1>1. \A n \in Name : Files!NewFile(n) = Store!NewFile(n) /\ Files!NewFile(n).name = n
  BY DEF Files!NewFile, Store!NewFile, Files!NoDbi, Store!NoDbi
<1>2. /\ file' = [n \in Name |-> Store!NewFile(file[n].name)]
      /\ slot' = Store!NoHandles
  BY <1>1 DEF StoreOK, Files!NoHandles, Store!NoHandles, Files!Dbi, Store!Dbi
<1>3. Store!StoreInv'
  BY <1>2, StoreAssumptions, Store!EndStore DEF StoreOK
<1>4. \A m \in Name : file'[m].name = m
  BY <1>1
<1>5. \A h \in Files!Dbi : slot'[h] = Free
  BY DEF Files!NoHandles
<1> QED
  BY <1>3, <1>4, <1>5 DEF StoreOK, Files!Dbi

\* The file has a handle already, or there is a free one.
FindsHandle(n) == Files!HandlesOf(n) # {} \/ Files!FreeHandles # {}

\* With a handle for each file, a file finds one: the others hold at most one each.
LEMMA HandleLeft ==
  ASSUME slot \in [Files!Dbi -> Name \union {Free}],
         \A h, i \in Files!Dbi : slot[h] = slot[i] /\ slot[h] # Free => h = i,
         EnoughHandles, NEW n \in Name
  PROVE  FindsHandle(n)
<1> SUFFICES ASSUME Files!HandlesOf(n) = {}, Files!FreeHandles = {}
             PROVE  FALSE
  BY DEF FindsHandle
<1>1. /\ slot \in [Files!Dbi -> Name \union {Free}]
      /\ Files!Dbi = 1 .. MAX_DBS /\ MAX_DBS \in Nat /\ Free \notin Name
  BY CatalogAssumption DEF CatalogAssumption, Files!Dbi
<1>2. slot \in [1 .. MAX_DBS -> Name \ {n}]
  BY <1>1 DEF Files!HandlesOf, Files!FreeHandles
<1>3. IsFiniteSet(Name \ {n}) /\ Cardinality(Name \ {n}) = Cardinality(Name) - 1
  BY FS_RemoveElement DEF EnoughHandles
<1>4. IsFiniteSet(1 .. MAX_DBS) /\ Cardinality(1 .. MAX_DBS) = MAX_DBS
  BY <1>1, FS_Interval
<1>5. Cardinality(Name \ {n}) < Cardinality(1 .. MAX_DBS)
  <2>1. Cardinality(Name) \in Nat
    BY FS_CardinalityType DEF EnoughHandles
  <2> QED
    BY <1>1, <1>3, <1>4, <2>1 DEF EnoughHandles
<1>6. \E h, i \in 1 .. MAX_DBS : h # i /\ slot[h] = slot[i]
  <2> DEFINE handles == 1 .. MAX_DBS
             names == Name \ {n}
  <2>1. /\ IsFiniteSet(handles) /\ IsFiniteSet(names) /\ slot \in [handles -> names]
        /\ Cardinality(names) < Cardinality(handles)
    BY <1>2, <1>3, <1>4, <1>5
  <2> HIDE DEF handles, names
  <2>2. \E h, i \in handles : h # i /\ slot[h] = slot[i]
    BY <2>1, FS_PigeonHole
  <2> QED
    BY <2>2 DEF handles
<1> QED
  BY <1>1, <1>2, <1>6

\* A schema table finds one of two: at most the other schema table has taken one.
LEMMA SchemaHandleLeft ==
  ASSUME StoreOK, SchemaHandles, HandlesOK, file[COLUMNS].closed, NEW n \in SchemaTables
  PROVE  FindsHandle(n)
<1> SUFFICES ASSUME Files!FreeHandles = {}
             PROVE  FALSE
  BY DEF FindsHandle
<1>1. /\ Files!Dbi = 1 .. MAX_DBS /\ MAX_DBS \in Nat /\ Free \notin Name /\ TABLES \in Name
  BY StoreFacts DEF Name, SchemaTables
<1>2. 1 \in Files!Dbi /\ 2 \in Files!Dbi
  BY <1>1 DEF SchemaHandles
<1>3. \A h \in Files!Dbi : slot[h] = TABLES
  BY DEF HandlesOK, Files!FreeHandles, Files!HandlesOf
<1>4. slot[1] = slot[2] /\ slot[1] # Free
  BY <1>1, <1>2, <1>3
<1>5. 1 = 2
  BY <1>2, <1>4 DEF StoreOK
<1> QED
  BY <1>5

LEMMA SchemaInUse ==
  ASSUME NEW n \in SchemaTables, InUse(n)
  PROVE  Attached(n)
BY CatalogAssumption DEF CatalogAssumption, InUse, WithoutHandle

\* What steps do to the handles.
LEMMA HandlesStay ==
  ASSUME HandlesOK, slot' = slot, has_tables => has_tables',
         file'[COLUMNS].closed => file[COLUMNS].closed
  PROVE  HandlesOK'
BY DEF HandlesOK, Files!Dbi

LEMMA HandlesOpen ==
  ASSUME HandlesOK, NEW n, \A h \in Files!Dbi : slot'[h] \in {slot[h], n},
         n \in SchemaTables \/ has_tables', has_tables => has_tables',
         file'[COLUMNS].closed => file[COLUMNS].closed /\ n = TABLES
  PROVE  HandlesOK'
<1>1. ~has_tables' => \A h \in Files!Dbi : slot'[h] \in {Free, TABLES, COLUMNS}
  BY DEF HandlesOK, SchemaTables
<1>2. file'[COLUMNS].closed => \A h \in Files!Dbi : slot'[h] \in {Free, TABLES}
  BY DEF HandlesOK
<1> QED
  BY <1>1, <1>2 DEF HandlesOK, Files!Dbi

LEMMA HandlesNone ==
  ASSUME slot' = Files!NoHandles
  PROVE  HandlesOK'
<1>1. \A h \in Files!Dbi : slot'[h] = Free
  BY DEF Files!NoHandles
<1> QED
  BY <1>1 DEF HandlesOK, Files!Dbi

\* The database is there, with the blocks it had.
Opened(n) ==
  /\ DOMAIN dbs' = DOMAIN dbs \union {n}
  /\ \A m \in DOMAIN dbs : dbs'[m] = dbs[m]
  /\ n \notin DOMAIN dbs => dbs'[n] = <<>>

\* db_open(flags), of an object that was never opened.
LEMMA OpenCall ==
  ASSUME StoreOK, WritesSucceed, NEW n \in Name, New(n), FindsHandle(n),
         Files!DbOpen(n, FALSE) \/ Files!DbOpen(n, TRUE)
  PROVE  /\ StoreOK'
         /\ Attached(n)'
         /\ \A m \in Name \ {n} : file'[m] = file[m]
         /\ Opened(n)
         /\ \A h \in Files!Dbi : slot'[h] \in {slot[h], n}
<1>0. PICK create \in BOOLEAN : Files!DbOpen(n, create)
  <2>1. CASE Files!DbOpen(n, FALSE)
    <3> WITNESS FALSE \in BOOLEAN
    <3> QED
      BY <2>1
  <2>2. CASE Files!DbOpen(n, TRUE)
    <3> WITNESS TRUE \in BOOLEAN
    <3> QED
      BY <2>2
  <2> QED
    BY <2>1, <2>2
<1> DEFINE h == Files!OpenHandle(n)
<1>1. /\ file \in [Name -> [name : Name, last : Nat, closed : BOOLEAN, dbi : 0 .. MAX_DBS]]
      /\ slot \in [Files!Dbi -> Name \union {Free}]
      /\ Files!Dbi = 1 .. MAX_DBS /\ MAX_DBS \in Nat /\ Free \notin Name
      /\ file[n].closed /\ file[n].dbi = 0 /\ file[n].name = n
  BY StoreFacts DEF StoreOK
<1>2. Files!HandlesOf(n) # {} \/ Files!FreeHandles # {}
  BY DEF FindsHandle
<1>3. Files!OpenStatus(n, create) = "SUCCESS"
  <2>1. Files!OpenStatus(n, create) # "NOTFOUND"
    BY <1>0, <1>1 DEF Files!DbOpen, Files!MayFailToCreate
  <2> QED
    BY <1>2, <2>1 DEF Files!OpenStatus
<1>4. /\ slot' = [slot EXCEPT ![h] = n]
      /\ dbs' = [m \in DOMAIN dbs \union {n} |-> IF m \in DOMAIN dbs THEN dbs[m] ELSE <<>>]
      /\ file' = [file EXCEPT ![n] = [@ EXCEPT !.last = Files!Entries(n), !.closed = FALSE, !.dbi = h]]
  BY <1>0, <1>1, <1>3 DEF Files!DbOpen, Files!OpenDb, Files!MayFailToCreate, WritesSucceed
<1>5. /\ h \in Files!Dbi
      /\ IF Files!HandlesOf(n) # {} THEN slot[h] = n ELSE slot[h] = Free
  <2>1. h \in (IF Files!HandlesOf(n) # {} THEN Files!HandlesOf(n) ELSE Files!FreeHandles)
    BY <1>2, HandlesBridge, StoreAssumptions, Store!OpenHandleIs
  <2> QED
    BY <2>1 DEF Files!HandlesOf, Files!FreeHandles
<1>6. Store!StoreInv'
  <2>1. Store!MayOpen(n)
    BY <1>1 DEF Store!MayOpen, StoreOK, Store!NoDbi
  <2>2. Store!DbOpen(n, create)
    BY <1>0, CallsBridge DEF StoreOK
  <2> QED
    BY <1>1, <2>1, <2>2, StoreAssumptions, Store!DbOpenStore
    DEF StoreOK, WritesSucceed, Store!WritesSucceed
<1> HIDE DEF h
<1>7. /\ \A m \in Name \ {n} : file'[m] = file[m]
      /\ file'[n].name = n /\ file'[n].closed = FALSE /\ file'[n].dbi = h
  BY <1>1, <1>4
<1>8. Attached(n)'
  BY <1>1, <1>5, <1>7 DEF Attached, Files!Attached, Files!NoDbi
<1>9. \A i, j \in Files!Dbi : slot'[i] = slot'[j] /\ slot'[i] # Free => i = j
  <2>1. \A i \in Files!Dbi : i # h => slot[i] # n
    BY <1>1, <1>5 DEF StoreOK, Files!HandlesOf
  <2> QED
    BY <1>1, <1>4, <1>5, <2>1 DEF StoreOK
<1>10. \A m \in DOMAIN dbs' : dbs'[m] = [b \in DOMAIN dbs'[m] |-> dbs'[m][b]]
  <2>1. <<>> = [b \in DOMAIN <<>> |-> <<>>[b]]
    OBVIOUS
  <2>2. \A m \in DOMAIN dbs' : dbs'[m] = IF m \in DOMAIN dbs THEN dbs[m] ELSE <<>>
    BY <1>4
  <2>3. \A m \in DOMAIN dbs : dbs[m] = [b \in DOMAIN dbs[m] |-> dbs[m][b]]
    BY DEF StoreOK
  <2> QED
    BY <2>1, <2>2, <2>3
<1>11. StoreOK'
  <2>1. \A m \in Name : file'[m].name = m
    BY <1>7 DEF StoreOK
  <2>2. dbs' = [m \in DOMAIN dbs' |-> dbs'[m]]
    BY <1>4
  <2> QED
    BY <1>6, <1>9, <1>10, <2>1, <2>2 DEF StoreOK, Files!Dbi
<1>12. Opened(n)
  BY <1>4 DEF Opened
<1>13. \A i \in Files!Dbi : slot'[i] \in {slot[i], n}
  BY <1>1, <1>4, <1>5
<1> QED
  BY <1>7, <1>8, <1>11, <1>12, <1>13

\* db_open(flags) when there is no handle left: the object counts as open.
LEMMA FullCall ==
  ASSUME StoreOK, WritesSucceed, NEW n \in Name, New(n), ~FindsHandle(n), Files!DbOpen(n, TRUE)
  PROVE  /\ StoreOK' /\ dbs' = dbs /\ slot' = slot
         /\ ~file'[n].closed /\ file'[n].dbi = 0
         /\ \A m \in Name \ {n} : file'[m] = file[m]
<1>1. /\ file \in [Name -> [name : Name, last : Nat, closed : BOOLEAN, dbi : 0 .. MAX_DBS]]
      /\ file[n].closed /\ file[n].dbi = 0 /\ file[n].name = n
  BY StoreFacts DEF StoreOK
<1>2. Files!OpenStatus(n, TRUE) = "DBS_FULL"
  BY DEF FindsHandle, Files!OpenStatus
<1>3. PICK last \in Garbage :
        /\ file' = [file EXCEPT ![n] = [@ EXCEPT !.last = last, !.closed = FALSE]]
        /\ UNCHANGED <<dbs, slot>>
  BY <1>1, <1>2 DEF Files!DbOpen, Files!MayFailToCreate
<1>4. Store!StoreInv'
  <2>1. Store!MayOpen(n)
    BY <1>1 DEF Store!MayOpen, StoreOK, Store!NoDbi
  <2>2. Store!DbOpen(n, TRUE)
    BY CallsBridge DEF StoreOK
  <2> QED
    BY <1>1, <2>1, <2>2, StoreAssumptions, Store!DbOpenStore
    DEF StoreOK, WritesSucceed, Store!WritesSucceed
<1>5. /\ \A m \in Name \ {n} : file'[m] = file[m]
      /\ file'[n].name = n /\ ~file'[n].closed /\ file'[n].dbi = 0
  BY <1>1, <1>3
<1>6. StoreOK'
  <2>1. \A m \in Name : file'[m].name = m
    BY <1>5 DEF StoreOK
  <2> QED
    BY <1>3, <1>4, <2>1 DEF StoreOK, Files!Dbi
<1> QED
  BY <1>3, <1>5, <1>6

-----------------------------------------------------------------------------
(***************************************************************************)
(* Rows.                                                                   *)
(***************************************************************************)
\* The rows of a sequence of pages.
RowSet(pages) ==
  UNION {{<<b, r>> : r \in {i \in DOMAIN pages[b] : pages[b][i] # Deleted}} : b \in DOMAIN pages}

LEMMA RowSetIs ==
  ASSUME NEW pages, NEW h
  PROVE  h \in RowSet(pages) <=>
           \E b \in DOMAIN pages : \E r \in DOMAIN pages[b] :
             pages[b][r] # Deleted /\ h = <<b, r>>
BY DEF RowSet

\* A page without rows adds none.
LEMMA AllocateCells ==
  ASSUME NEW pages, NEW pages_1, NEW new,
         DOMAIN pages_1 = DOMAIN pages \union {new}, new \notin DOMAIN pages,
         \A b \in DOMAIN pages : pages_1[b] = pages[b], pages_1[new] = <<>>
  PROVE  /\ RowSet(pages_1) = RowSet(pages)
         /\ \A h \in RowSet(pages) : pages_1[h[1]][h[2]] = pages[h[1]][h[2]]
<1>1. DOMAIN pages_1[new] = {}
  OBVIOUS
<1>2. ASSUME NEW h
      PROVE  h \in RowSet(pages_1) <=> h \in RowSet(pages)
  BY <1>1, RowSetIs
<1>3. ASSUME NEW h \in RowSet(pages)
      PROVE  pages_1[h[1]][h[2]] = pages[h[1]][h[2]]
  BY RowSetIs
<1> QED
  BY <1>2, <1>3

\* A row appended to a page is one row more, and the others stay.
LEMMA AppendCells ==
  ASSUME NEW pages, NEW pages_1, DOMAIN pages_1 = DOMAIN pages,
         NEW b \in DOMAIN pages, \A c \in DOMAIN pages : c # b => pages_1[c] = pages[c],
         NEW size \in Nat, DOMAIN pages[b] = 1 .. size, DOMAIN pages_1[b] = 1 .. size + 1,
         \A r \in 1 .. size : pages_1[b][r] = pages[b][r],
         NEW row, row # Deleted, pages_1[b][size + 1] = row
  PROVE  /\ <<b, size + 1>> \notin RowSet(pages)
         /\ RowSet(pages_1) = RowSet(pages) \union {<<b, size + 1>>}
         /\ \A h \in RowSet(pages) : pages_1[h[1]][h[2]] = pages[h[1]][h[2]]
<1> DEFINE new == <<b, size + 1>>
<1>1. \A c \in DOMAIN pages : c = b \/ pages_1[c] = pages[c]
  OBVIOUS
<1>2. new \notin RowSet(pages)
  BY <1>1, RowSetIs
<1>3. ASSUME NEW h
      PROVE  h \in RowSet(pages_1) <=> h \in RowSet(pages) \/ h = new
  <2>1. ASSUME h \in RowSet(pages_1)
        PROVE  h \in RowSet(pages) \/ h = new
    <3>1. PICK c, r : /\ c \in DOMAIN pages /\ r \in DOMAIN pages_1[c]
                      /\ pages_1[c][r] # Deleted /\ h = <<c, r>>
      BY <1>1, <2>1, RowSetIs
    <3>2. CASE c # b
      BY <1>1, <3>1, <3>2, RowSetIs
    <3>3. CASE c = b /\ r = size + 1
      BY <3>1, <3>3
    <3>4. CASE c = b /\ r \in 1 .. size
      BY <1>1, <3>1, <3>4, RowSetIs
    <3> QED
      BY <1>1, <3>1, <3>2, <3>3, <3>4
  <2>2. ASSUME h \in RowSet(pages)
        PROVE  h \in RowSet(pages_1)
    <3>1. PICK c, r : /\ c \in DOMAIN pages /\ r \in DOMAIN pages[c]
                      /\ pages[c][r] # Deleted /\ h = <<c, r>>
      BY <2>2, RowSetIs
    <3>2. r \in DOMAIN pages_1[c] /\ pages_1[c][r] = pages[c][r]
      BY <1>1, <3>1
    <3> QED
      BY <1>1, <3>1, <3>2, RowSetIs
  <2>3. new \in RowSet(pages_1)
    BY <1>1, RowSetIs
  <2> QED
    BY <2>1, <2>2, <2>3
<1>4. ASSUME NEW h \in RowSet(pages)
      PROVE  pages_1[h[1]][h[2]] = pages[h[1]][h[2]]
  <2>1. PICK c, r : c \in DOMAIN pages /\ r \in DOMAIN pages[c] /\ h = <<c, r>>
    BY RowSetIs
  <2> QED
    BY <1>1, <2>1
<1> QED
  BY <1>1, <1>2, <1>3, <1>4

\* A row deleted is gone, and the others stay.
LEMMA DeleteCells ==
  ASSUME NEW pages, NEW h \in RowSet(pages), \A b \in DOMAIN pages : pages[b] \in Pages
  PROVE  LET pages_1 == [pages EXCEPT ![h[1]] = [pages[h[1]] EXCEPT ![h[2]] = Deleted]]
         IN  /\ RowSet(pages_1) = RowSet(pages) \ {h}
             /\ \A g \in RowSet(pages) \ {h} : pages_1[g[1]][g[2]] = pages[g[1]][g[2]]
<1>1. PICK b, r : b \in DOMAIN pages /\ r \in DOMAIN pages[b] /\ h = <<b, r>>
  BY RowSetIs
<1> DEFINE pages_1 == [pages EXCEPT ![b] = [pages[b] EXCEPT ![r] = Deleted]]
<1>2. /\ DOMAIN pages_1 = DOMAIN pages
      /\ \A c \in DOMAIN pages : DOMAIN pages_1[c] = DOMAIN pages[c]
      /\ \A c \in DOMAIN pages : \A q \in DOMAIN pages[c] :
           pages_1[c][q] = IF c = b /\ q = r THEN Deleted ELSE pages[c][q]
  OBVIOUS
<1> HIDE DEF pages_1
<1>3. ASSUME NEW g
      PROVE  g \in RowSet(pages_1) <=> g \in RowSet(pages) /\ g # h
  BY <1>1, <1>2, RowSetIs
<1>4. ASSUME NEW g \in RowSet(pages), g # h
      PROVE  pages_1[g[1]][g[2]] = pages[g[1]][g[2]]
  BY <1>1, <1>2, <1>4, RowSetIs
<1> QED
  BY <1>1, <1>3, <1>4 DEF pages_1

LEMMA RowsAre ==
  ASSUME NEW n
  PROVE  StoredRows(n) = IF n \in DOMAIN dbs THEN RowSet(dbs[n]) ELSE {}
BY DEF StoredRows, RowSet

\* The parts of a handle.
LEMMA HandleIs ==
  ASSUME StoreOK, NEW n \in Name, NEW h \in StoredRows(n)
  PROVE  /\ n \in DOMAIN dbs /\ h \in RowSet(dbs[n]) /\ h \in Nat \X Nat
         /\ h[1] \in DOMAIN dbs[n] /\ h[2] \in DOMAIN dbs[n][h[1]]
<1>1. n \in DOMAIN dbs /\ h \in RowSet(dbs[n])
  BY RowsAre
<1>2. \A b \in DOMAIN dbs[n] : b \in Nat /\ DOMAIN dbs[n][b] \subseteq Nat
  BY <1>1, StoreFacts DEF Pages
<1> QED
  BY <1>1, <1>2, RowSetIs

\* An open table's select() finds the rows that are stored.
LEMMA SelectIs ==
  ASSUME StoreOK, NEW n \in Name, Attached(n)
  PROVE  /\ Select(n) = StoredRows(n)
         /\ \A h \in StoredRows(n) : RowAt(n, h) = RowOf(n, h)
         /\ \A b \in 1 .. file[n].last : HasBlock(n, b) /\ Page(n, b) = dbs[n][b]
         /\ \A b \in Nat : HasBlock(n, b) => b \in 1 .. file[n].last
<1>1. /\ Files!Valid(file[n].dbi) /\ slot[file[n].dbi] = n
      /\ n \in DOMAIN dbs /\ DOMAIN dbs[n] = 1 .. file[n].last
  BY AttachedFacts
<1>2. \A b : HasBlock(n, b) <=> b \in 1 .. file[n].last
  BY <1>1 DEF HasBlock, Files!HasEntry
<1>3. \A b \in 1 .. file[n].last : Page(n, b) = dbs[n][b]
  BY <1>1, <1>2 DEF Page
<1>4. Select(n) = StoredRows(n)
  BY <1>1, <1>3 DEF Select, StoredRows
<1>5. \A h \in StoredRows(n) : RowAt(n, h) = RowOf(n, h)
  BY <1>1, <1>3, HandleIs DEF RowAt, RowOf
<1> QED
  BY <1>2, <1>3, <1>4, <1>5

\* No row has the values of a statement: their types differ.
LEMMA NothingMatches ==
  ASSUME NEW n \in Name, NEW row, 1 \in DOMAIN row
  PROVE  SelectWhere(n, Where(row)) = {}
BY DEF SelectWhere, Where, ValueEq, Unmarshalled, TextValue

\* What a step does to the rows of a table: nothing.
SameRows(n) ==
  /\ StoredRows(n)' = StoredRows(n)
  /\ \A h \in StoredRows(n) : RowOf(n, h)' = RowOf(n, h)

\* No database and no block goes away.
Kept ==
  \A n \in DOMAIN dbs : n \in DOMAIN dbs' /\ DOMAIN dbs[n] \subseteq DOMAIN dbs'[n]

LEMMA UnchangedRows ==
  ASSUME StoreOK, UNCHANGED dbs
  PROVE  Kept /\ \A n \in Name : SameRows(n)
BY DEF Kept, SameRows, StoredRows, RowOf

LEMMA OthersSame ==
  ASSUME NEW n, DOMAIN dbs' = DOMAIN dbs, \A m \in DOMAIN dbs : m # n => dbs'[m] = dbs[m]
  PROVE  \A m \in Name \ {n} : SameRows(m)
<1> SUFFICES ASSUME NEW m \in Name, m # n
             PROVE  SameRows(m)
  OBVIOUS
<1>1. CASE m \in DOMAIN dbs
  <2>1. m \in DOMAIN dbs' /\ dbs'[m] = dbs[m]
    BY <1>1
  <2> QED
    BY <1>1, <2>1 DEF SameRows, StoredRows, RowOf
<1>2. CASE m \notin DOMAIN dbs
  BY <1>2 DEF SameRows, StoredRows, RowOf
<1> QED
  BY <1>1, <1>2

LEMMA OpenRows ==
  ASSUME StoreOK, StoreOK', NEW n \in Name,
         Opened(n)
  PROVE  Kept /\ \A m \in Name : SameRows(m)
<1>1. \A m \in DOMAIN dbs : m \in DOMAIN dbs' /\ dbs'[m] = dbs[m]
  BY DEF Opened
<1>2. \A m \in DOMAIN dbs' \ DOMAIN dbs : DOMAIN dbs'[m] = {}
  BY DEF Opened
<1>3. ASSUME NEW m \in Name
      PROVE  SameRows(m)
  <2>1. CASE m \in DOMAIN dbs
    BY <1>1, <2>1 DEF SameRows, StoredRows, RowOf
  <2>2. CASE m \notin DOMAIN dbs
    BY <1>2, <2>2 DEF SameRows, StoredRows, RowOf
  <2> QED
    BY <2>1, <2>2
<1> QED
  BY <1>1, <1>3 DEF Kept

LEMMA AllocateRows ==
  ASSUME StoreOK, WritesSucceed, NEW n \in Name, Attached(n), Files!AllocateBlock(n)
  PROVE  Kept /\ \A m \in Name : SameRows(m)
<1> DEFINE last == file[n].last
<1>1. /\ n \in DOMAIN dbs /\ DOMAIN dbs[n] = 1 .. last /\ last \in Nat
      /\ DOMAIN dbs' = DOMAIN dbs
      /\ \A m \in DOMAIN dbs : m # n => dbs'[m] = dbs[m]
      /\ DOMAIN dbs'[n] = 1 .. last + 1
      /\ \A b \in 1 .. last : dbs'[n][b] = dbs[n][b]
      /\ dbs'[n][last + 1] = <<>>
      /\ StoreOK'
  BY AttachedFacts, AllocateCall
<1> HIDE DEF last
<1>2. \A m \in Name \ {n} : SameRows(m)
  BY <1>1, OthersSame
<1>3. SameRows(n)
  <2>1. DOMAIN dbs'[n] = DOMAIN dbs[n] \union {last + 1} /\ last + 1 \notin DOMAIN dbs[n]
    BY <1>1
  <2>2. /\ RowSet(dbs'[n]) = RowSet(dbs[n])
        /\ \A h \in RowSet(dbs[n]) : dbs'[n][h[1]][h[2]] = dbs[n][h[1]][h[2]]
    <3> DEFINE pages == dbs[n]
               pages_1 == dbs'[n]
               new == last + 1
    <3>1. /\ DOMAIN pages_1 = DOMAIN pages \union {new} /\ new \notin DOMAIN pages
          /\ \A b \in DOMAIN pages : pages_1[b] = pages[b]
          /\ pages_1[new] = <<>>
      BY <1>1, <2>1
    <3> HIDE DEF pages, pages_1, new
    <3>2. /\ RowSet(pages_1) = RowSet(pages)
          /\ \A h \in RowSet(pages) : pages_1[h[1]][h[2]] = pages[h[1]][h[2]]
      BY <3>1, AllocateCells
    <3> QED
      BY <3>2 DEF pages, pages_1
  <2>3. StoredRows(n) = RowSet(dbs[n]) /\ StoredRows(n)' = RowSet(dbs'[n])
    BY <1>1 DEF StoredRows, RowSet
  <2> QED
    BY <2>2, <2>3 DEF SameRows, RowOf
<1>4. Kept
  BY <1>1 DEF Kept
<1> QED
  BY <1>2, <1>3, <1>4

\* create() puts the page without rows that get_new() has stored.
LEMMA PutBlank ==
  ASSUME StoreOK, WritesSucceed, NEW n \in Name, Attached(n), file[n].last > 0,
         dbs[n][file[n].last] = <<>>, Files!PutBlock(n, file[n].last, <<>>)
  PROVE  StoreOK' /\ UNCHANGED disk
<1>1. file[n].last \in 1 .. file[n].last /\ <<>> \in Pages
  BY AttachedFacts DEF Pages
<1>2. /\ StoreOK'
      /\ file' = file /\ slot' = slot
      /\ dbs' = [dbs EXCEPT ![n] = [dbs[n] EXCEPT ![file[n].last] = <<>>]]
  BY <1>1, PutCall
<1>3. [dbs[n] EXCEPT ![file[n].last] = <<>>] = dbs[n]
  BY AttachedFacts DEF StoreOK
<1>4. dbs' = dbs
  BY <1>2, <1>3 DEF StoreOK
<1> QED
  BY <1>2, <1>4 DEF disk

\* append(row), to a file whose last block is there.
LEMMA AppendRowIs ==
  ASSUME StoreOK, WritesSucceed, NEW n \in Name, Attached(n), HasBlock(n, file[n].last),
         NEW row \in Cell, row # Deleted, AppendRow(n, row),
         NEW new, new = <<file[n].last, Len(Page(n, file[n].last)) + 1>>
  PROVE  /\ StoreOK' /\ file' = file /\ slot' = slot
         /\ Kept /\ \A m \in Name \ {n} : SameRows(m)
         /\ new \notin StoredRows(n) /\ StoredRows(n)' = StoredRows(n) \union {new}
         /\ RowOf(n, new)' = row
         /\ \A h \in StoredRows(n) : RowOf(n, h)' = RowOf(n, h)
<1> DEFINE pages == dbs[n]
           last == file[n].last
           page == Append(pages[last], row)
           pages_1 == [pages EXCEPT ![last] = page]
<1>1. /\ last \in 1 .. last /\ Page(n, last) = pages[last]
      /\ n \in DOMAIN dbs /\ last \in DOMAIN pages
  BY AttachedFacts, SelectIs
<1>2. pages[last] \in Pages
  BY <1>1, StoreFacts
<1>3. page \in Pages
  BY <1>2 DEF Pages
<1>4. /\ StoreOK' /\ file' = file /\ slot' = slot
      /\ dbs' = [dbs EXCEPT ![n] = pages_1]
  BY <1>1, <1>3, PutCall DEF AppendRow
<1>5. /\ new \notin RowSet(pages)
      /\ RowSet(pages_1) = RowSet(pages) \union {new}
      /\ pages_1[new[1]][new[2]] = row
      /\ \A h \in RowSet(pages) : pages_1[h[1]][h[2]] = pages[h[1]][h[2]]
  <2> DEFINE old == pages[last]
             size == Len(old)
  <2>1. new = <<last, size + 1>> /\ last \in DOMAIN pages
    BY <1>1
  <2>2. page = Append(old, row) /\ old \in Pages
    BY <1>2 DEF page
  <2>3. /\ DOMAIN pages_1 = DOMAIN pages /\ pages_1[last] = page
        /\ \A c \in DOMAIN pages : c # last => pages_1[c] = pages[c]
    BY <1>1
  <2> HIDE DEF pages, last, pages_1, page, old
  <2>4. /\ size \in Nat /\ DOMAIN old = 1 .. size /\ DOMAIN page = 1 .. size + 1
        /\ \A r \in 1 .. size : page[r] = old[r]
        /\ page[size + 1] = row
    BY <2>2 DEF Pages
  <2> HIDE DEF size
  <2>5. /\ DOMAIN pages[last] = 1 .. size /\ DOMAIN pages_1[last] = 1 .. size + 1
        /\ \A r \in 1 .. size : pages_1[last][r] = pages[last][r]
        /\ pages_1[last][size + 1] = row
    BY <2>3, <2>4 DEF old
  <2>6. /\ <<last, size + 1>> \notin RowSet(pages)
        /\ RowSet(pages_1) = RowSet(pages) \union {<<last, size + 1>>}
        /\ \A h \in RowSet(pages) : pages_1[h[1]][h[2]] = pages[h[1]][h[2]]
    BY <2>1, <2>3, <2>4, <2>5, AppendCells
  <2> QED
    BY <2>1, <2>5, <2>6
<1>6. DOMAIN pages_1 = DOMAIN pages
  OBVIOUS
<1> HIDE DEF pages_1, page
<1>7. /\ DOMAIN dbs' = DOMAIN dbs /\ n \in DOMAIN dbs' /\ dbs'[n] = pages_1
      /\ \A m \in DOMAIN dbs : m # n => dbs'[m] = dbs[m]
  BY <1>1, <1>4
<1>8. StoredRows(n) = RowSet(pages) /\ StoredRows(n)' = RowSet(pages_1)
  BY <1>1, <1>7 DEF StoredRows, RowSet
<1>9. \A m \in Name \ {n} : SameRows(m)
  BY <1>7, OthersSame
<1>10. Kept
  BY <1>1, <1>6, <1>7 DEF Kept
<1> QED
  BY <1>4, <1>5, <1>7, <1>8, <1>9, <1>10 DEF RowOf

\* del(handle), of a row that is stored.
LEMMA DeleteRowIs ==
  ASSUME StoreOK, WritesSucceed, NEW n \in Name, Attached(n), NEW h \in StoredRows(n),
         DeleteRow(n, h)
  PROVE  /\ StoreOK' /\ file' = file /\ slot' = slot
         /\ Kept /\ \A m \in Name \ {n} : SameRows(m)
         /\ StoredRows(n)' = StoredRows(n) \ {h}
         /\ \A g \in StoredRows(n) \ {h} : RowOf(n, g)' = RowOf(n, g)
<1> DEFINE pages == dbs[n]
           page == [pages[h[1]] EXCEPT ![h[2]] = Deleted]
           pages_1 == [pages EXCEPT ![h[1]] = page]
<1>1. /\ n \in DOMAIN dbs /\ h \in RowSet(pages)
      /\ h[1] \in 1 .. file[n].last /\ h[1] \in DOMAIN pages /\ h[2] \in DOMAIN pages[h[1]]
      /\ Page(n, h[1]) = pages[h[1]]
  BY AttachedFacts, SelectIs, HandleIs
<1>2. \A b \in DOMAIN pages : pages[b] \in Pages
  BY <1>1, StoreFacts
<1>3. page \in Pages
  BY <1>1, <1>2 DEF Pages, Cell
<1>4. /\ StoreOK' /\ file' = file /\ slot' = slot
      /\ dbs' = [dbs EXCEPT ![n] = pages_1]
  BY <1>1, <1>3, PutCall DEF DeleteRow
<1>5. /\ RowSet(pages_1) = RowSet(pages) \ {h}
      /\ \A g \in RowSet(pages) \ {h} : pages_1[g[1]][g[2]] = pages[g[1]][g[2]]
  BY <1>1, <1>2, DeleteCells
<1>6. DOMAIN pages_1 = DOMAIN pages
  OBVIOUS
<1> HIDE DEF pages_1, page
<1>7. /\ DOMAIN dbs' = DOMAIN dbs /\ n \in DOMAIN dbs' /\ dbs'[n] = pages_1
      /\ \A m \in DOMAIN dbs : m # n => dbs'[m] = dbs[m]
  BY <1>1, <1>4
<1>8. StoredRows(n) = RowSet(pages) /\ StoredRows(n)' = RowSet(pages_1)
  BY <1>1, <1>7 DEF StoredRows, RowSet
<1>9. \A m \in Name \ {n} : SameRows(m)
  BY <1>7, OthersSame
<1>10. Kept
  BY <1>1, <1>6, <1>7 DEF Kept
<1> QED
  BY <1>4, <1>5, <1>7, <1>8, <1>9, <1>10 DEF RowOf

-----------------------------------------------------------------------------
(***************************************************************************)
(* What was answered, and what the statement under way has stored, stays.  *)
(***************************************************************************)

\* The rows of _columns are only added to.
ColumnsStay ==
  /\ Kept
  /\ StoredRows(COLUMNS) \subseteq StoredRows(COLUMNS)'
  /\ \A h \in StoredRows(COLUMNS) : RowOf(COLUMNS, h)' = RowOf(COLUMNS, h)

LEMMA ColumnsStored ==
  ASSUME ColumnsStay, NEW row, Stored(COLUMNS, row)
  PROVE  Stored(COLUMNS, row)'
<1>1. PICK h \in StoredRows(COLUMNS) : RowOf(COLUMNS, h) = row
  BY DEF Stored
<1>2. h \in StoredRows(COLUMNS)' /\ RowOf(COLUMNS, h)' = row
  BY <1>1 DEF ColumnsStay
<1> QED
  BY <1>2 DEF Stored

LEMMA AnsweredStays ==
  ASSUME AnsweredOK, ColumnsStay, UNCHANGED <<acked, acked_columns>>
  PROVE  AnsweredOK'
<1>1. ASSUME NEW tc \in acked_columns
      PROVE  Stored(COLUMNS, tc)'
  <2>1. Stored(COLUMNS, tc)
    BY DEF AnsweredOK, ColumnsKept, Stored, RowOf
  <2> QED
    BY <2>1, ColumnsStored
<1>2. \A tc \in acked_columns' : \E h \in StoredRows(COLUMNS)' : dbs'[COLUMNS][h[1]][h[2]] = tc
  BY <1>1 DEF Stored, RowOf
<1>3. AnsweredHasBlock => AnsweredHasBlock'
  BY DEF AnsweredHasBlock, ColumnsStay, Kept
<1>4. ColumnsKept'
  BY <1>2 DEF ColumnsKept
<1> QED
  BY <1>3, <1>4 DEF AnsweredOK

\* The rows of a user's table in _tables.
LEMMA RowsStay ==
  ASSUME SameRows(TABLES), NEW t
  PROVE  RowsOf(t)' = RowsOf(t)
BY DEF SameRows, RowsOf, RowOf

-----------------------------------------------------------------------------
(***************************************************************************)
(* Steps that leave every row as it is.                                    *)
(***************************************************************************)
LEMMA SameStore ==
  ASSUME StoreOK, UNCHANGED disk
  PROVE  StoreOK' /\ Kept /\ \A n \in Name : SameRows(n)
<1>1. dbs' = dbs /\ slot' = slot /\ file' = file
  BY DEF disk
<1>2. StoreOK'
  BY <1>1 DEF StoreOK, Files!Dbi, Store!StoreInv, Store!StoreType, Store!HandleOwn,
              Store!LastAccurate, Store!OneOpen, Store!Contiguous, Store!Attached, Store!Entries
<1> QED
  BY <1>1, <1>2, UnchangedRows

\* The history, and what depends on rows alone.
RowsInv ==
  /\ HistoryOK /\ RowsFinite /\ RowsCounted /\ AnsweredOK
  /\ DefinedUnlessDamaged

LEMMA QuietStep ==
  ASSUME IInv, Kept, \A n \in Name : SameRows(n), UNCHANGED history,
         statements' \in 0 .. MAX_STATEMENTS,
         at.pc # "wild", at'.pc # "wild", at.pc \in Writing <=> at'.pc \in Writing,
         at.pc \in Writing => at'.table = at.table
  PROVE  /\ RowsInv'
         /\ \A row : Stored(COLUMNS, row) => Stored(COLUMNS, row)'
         /\ \A h \in StoredRows(TABLES) :
              h \in StoredRows(TABLES)' /\ RowOf(TABLES, h)' = RowOf(TABLES, h)
<1>1. /\ HistoryOK /\ RowsFinite /\ RowsCounted /\ AnsweredOK
      /\ TABLES \in Name /\ COLUMNS \in Name
      /\ acked' = acked /\ cut' = cut /\ acked_columns' = acked_columns
  BY DEF IInv, history, Name, SchemaTables
<1>2. SameRows(TABLES) /\ ColumnsStay
  BY <1>1 DEF SameRows, ColumnsStay
<1>3. \A t \in User : RowsOf(t)' = RowsOf(t)
  BY <1>2, RowsStay
<1>4. RowsFinite'
  BY <1>1, <1>3 DEF RowsFinite
<1>5. RowsCounted'
  BY <1>1, <1>3 DEF RowsCounted, Pending, Writing
<1>6. HistoryOK'
  BY <1>1 DEF HistoryOK
<1>7. AnsweredOK'
  BY <1>1, <1>2, AnsweredStays
<1>8. DefinedUnlessDamaged'
  BY DEF DefinedUnlessDamaged
<1>9. \A row : Stored(COLUMNS, row) => Stored(COLUMNS, row)'
  BY <1>2, ColumnsStored
<1>10. \A h \in StoredRows(TABLES) :
         h \in StoredRows(TABLES)' /\ RowOf(TABLES, h)' = RowOf(TABLES, h)
  BY <1>2 DEF SameRows
<1> QED
  BY <1>4, <1>5, <1>6, <1>7, <1>8, <1>9, <1>10 DEF RowsInv

LEMMA GoToIs ==
  ASSUME at \in AtType, NEW pc \in Places, GoTo(pc)
  PROVE  /\ at' \in AtType /\ at'.pc = pc
         /\ at'.table = at.table /\ at'.columns = at.columns /\ at'.i = at.i
         /\ at'.handle = at.handle
BY DEF AtType, GoTo

LEMMA PlacesAre ==
  /\ Nowhere \in AtType /\ Nowhere.pc = "down" /\ Nowhere.table = NoObject /\ Nowhere.i = 1
  /\ Ready \in AtType /\ Ready.pc = "ready" /\ Ready.table = NoObject
<1>1. <<>> \in Seq([name : STRING, ok : BOOLEAN]) /\ <<0, 0>> \in Nat \X Nat
  OBVIOUS
<1>2. "down" \in Places /\ "ready" \in Places
  BY DEF Places
<1>3. Nowhere \in AtType /\ Nowhere.pc = "down" /\ Nowhere.table = NoObject /\ Nowhere.i = 1
  BY <1>1, <1>2 DEF Nowhere, AtType
<1>4. Ready \in AtType /\ Ready.pc = "ready" /\ Ready.table = NoObject
  BY <1>2, <1>3 DEF Ready, AtType
<1> QED
  BY <1>3, <1>4

-----------------------------------------------------------------------------
(***************************************************************************)
(* The start of the program.                                               *)
(***************************************************************************)
LEMMA NamesAre ==
  /\ TABLES \in Name /\ COLUMNS \in Name /\ TABLES # COLUMNS
  /\ SchemaTables = {TABLES, COLUMNS} /\ SchemaTables \subseteq Name
  /\ User \subseteq Name /\ NoObject \notin Name
  /\ \A t \in User : t # TABLES /\ t # COLUMNS
BY CatalogAssumption DEF CatalogAssumption, SchemaTables, Name

LEMMA InitInv ==
  Init => IInv
<1> SUFFICES ASSUME Init
             PROVE  IInv
  OBVIOUS
<1>1. /\ file = [n \in Name |-> Files!NewFile(n)] /\ dbs = [n \in {} |-> <<>>]
      /\ slot = Files!NoHandles
  BY DEF Init
<1>2. StoreOK
  <2>1. \A n \in Name : Files!NewFile(n) = Store!NewFile(n) /\ Files!NewFile(n).name = n
    BY DEF Files!NewFile, Store!NewFile, Files!NoDbi, Store!NoDbi
  <2>2. slot = Store!NoHandles
    BY <1>1 DEF Files!NoHandles, Store!NoHandles, Files!Dbi, Store!Dbi
  <2>3. file \in [Name -> {Store!NewFile(n) : n \in Name}]
    BY <1>1, <2>1
  <2>4. Store!StoreInv
    BY <1>1, <2>2, <2>3, StoreAssumptions, Store!InitStore
  <2>5. \A h \in Files!Dbi : slot[h] = Free
    BY <1>1 DEF Files!NoHandles
  <2> QED
    BY <1>1, <2>1, <2>4, <2>5 DEF StoreOK
<1>3. \A n \in Name : New(n) /\ StoredRows(n) = {}
  BY <1>1 DEF New, StoredRows
<1>4. at = Nowhere /\ ~has_tables /\ table_cache = {}
  BY DEF Init
<1>5. AtOK /\ CacheOK /\ StatementOK /\ DefinedUnlessDamaged
  BY <1>4, PlacesAre DEF AtOK, CacheOK, StatementOK, DefinedUnlessDamaged, Booting, Writing
<1>6. OpenOK
  <2>1. \A h \in Files!Dbi : slot[h] = Free
    BY <1>1 DEF Files!NoHandles
  <2>2. HandlesOK
    BY <2>1 DEF HandlesOK
  <2> QED
    BY <1>3, <1>4, <1>2, <2>2, PlacesAre, StoreFacts DEF OpenOK, Booting, Writing, Init
<1>7. /\ acked = [t \in Name |-> 0] /\ cut = [t \in Name |-> 0] /\ acked_columns = {}
      /\ statements = 0
  BY DEF Init
<1>8. HistoryOK /\ AnsweredOK
  BY <1>7, CatalogAssumption
  DEF HistoryOK, AnsweredOK, ColumnsKept, AnsweredHasBlock, CatalogAssumption
<1>9. \A t : RowsOf(t) = {}
  BY <1>3, NamesAre DEF RowsOf
<1>10. RowsFinite /\ RowsCounted
  BY <1>4, <1>7, <1>9, PlacesAre, NamesAre, FS_EmptySet DEF RowsFinite, RowsCounted, Pending
<1> QED
  BY <1>2, <1>5, <1>6, <1>8, <1>10 DEF IInv

LEMMA StartStep ==
  ASSUME IInv, Start
  PROVE  IInv'
<1>1. /\ StoreOK /\ at \in AtType /\ at.pc = "down" /\ has_tables = FALSE
      /\ \A n \in Name : New(n)
      /\ UNCHANGED disk /\ has_tables' = has_tables /\ statements' = statements
      /\ table_cache' = SchemaTables
      /\ UNCHANGED history
      /\ statements \in 0 .. MAX_STATEMENTS
  BY DEF IInv, AtOK, OpenOK, HistoryOK, Start
<1>2. /\ at' \in AtType /\ at'.pc = "boot_open" /\ at'.table = TABLES
  <2>1. at' = [Nowhere EXCEPT !.pc = "boot_open", !.table = TABLES]
    BY DEF Start
  <2> QED
    BY <2>1, PlacesAre, NamesAre DEF AtType, Places, Booting
<1>3. StoreOK' /\ Kept /\ \A n \in Name : SameRows(n)
  BY <1>1, SameStore
<1>4. RowsInv'
  BY <1>1, <1>2, <1>3, QuietStep DEF Writing
<1>5. AtOK' /\ CacheOK' /\ StatementOK'
  BY <1>1, <1>2, NamesAre DEF AtOK, CacheOK, StatementOK, Booting, Writing
<1>6. \A n \in Name : New(n)' /\ file'[n].closed
  BY <1>1, StoreFacts DEF New, disk
<1>7. OpenOK'
  <2>1. HandlesOK'
    BY <1>1, HandlesStay DEF IInv, OpenOK, disk
  <2> QED
    BY <1>1, <1>2, <1>6, <2>1, NamesAre DEF OpenOK, Booting, Writing, New
<1> QED
  BY <1>3, <1>4, <1>5, <1>7 DEF IInv, RowsInv

\* What is known while the schema tables are opened or created.
LEMMA BootFacts ==
  ASSUME IInv, at.pc \in Booting
  PROVE  /\ StoreOK /\ at \in AtType /\ has_tables = FALSE
         /\ at.table \in SchemaTables /\ at.table \in Name
         /\ at.table = TABLES => New(COLUMNS)
         /\ table_cache = SchemaTables
         /\ statements \in 0 .. MAX_STATEMENTS
         /\ at.pc \notin Writing /\ at.pc # "wild"
         /\ \A n \in Name : ~file[n].closed => InUse(n)
         /\ \A n \in Name : file[n].closed /\ ~New(n) => n = TABLES
         /\ at.pc \in {"boot_get_new", "boot_put", "boot_close"} => Attached(at.table)
         /\ HandlesOK
<1>1. at.pc \in {"boot_get_new", "boot_put", "boot_close"} => InUse(at.table)
  BY DEF IInv, OpenOK
<1>2. at.table \in SchemaTables
  BY DEF IInv, AtOK
<1> QED
  BY <1>1, <1>2, NamesAre, SchemaInUse
  DEF IInv, AtOK, CacheOK, OpenOK, HistoryOK, Booting, Writing

\* What is to be shown of a step of the start.
LEMMA BootStep ==
  ASSUME IInv, at.pc \in Booting, UNCHANGED memory,
         StoreOK', Kept, \A n \in Name : SameRows(n),
         at' \in AtType, at'.pc \in Booting \union {"boot_end"},
         at'.pc \in Booting => at'.table \in SchemaTables,
         OpenOK'
  PROVE  IInv'
<1>1. /\ has_tables' = has_tables /\ table_cache' = table_cache /\ statements' = statements
      /\ UNCHANGED history
  BY DEF memory, history
<1>2. RowsInv'
  BY <1>1, BootFacts, QuietStep DEF Booting, Writing
<1>3. AtOK' /\ CacheOK' /\ StatementOK'
  BY <1>1, BootFacts, NamesAre DEF AtOK, CacheOK, StatementOK, Booting, Writing
<1> QED
  BY <1>2, <1>3 DEF IInv, RowsInv

\* A schema table that the start opens finds a handle.
LEMMA BootHandle ==
  ASSUME IInv, SchemaHandles, at.pc \in Booting, New(at.table)
  PROVE  FindsHandle(at.table) /\ file[COLUMNS].closed
<1>1. New(COLUMNS)
  BY BootFacts, NamesAre
<1> QED
  BY <1>1, BootFacts, StoreFacts, NamesAre, SchemaHandleLeft

LEMMA BootOpenStep ==
  ASSUME IInv, WritesSucceed, SchemaHandles, BootOpen
  PROVE  IInv'
<1>0. PICK n \in Name : n = at.table
  BY BootFacts DEF BootOpen, Booting
<1>1. at.pc = "boot_open" /\ New(n) /\ at.pc \in Booting
      /\ UNCHANGED memory /\ has_tables' = has_tables
  BY <1>0 DEF IInv, OpenOK, BootOpen, Booting, memory
<1>2. CASE GoTo("boot_create") /\ UNCHANGED disk
  <2>1. StoreOK' /\ Kept /\ \A m \in Name : SameRows(m)
    BY <1>0, <1>1, <1>2, BootFacts, SameStore
  <2>2. at' \in AtType /\ at'.pc = "boot_create" /\ at'.table = n
    BY <1>0, <1>1, <1>2, BootFacts, GoToIs DEF Places, Booting
  <2>3. \A m \in Name : AsBefore(m) /\ file'[m] = file[m]
    BY <1>2 DEF disk, AsBefore, New, InUse, WithoutHandle, Attached, Files!Attached
  <2>4. OpenOK'
    <3>1. HandlesOK'
      BY <1>1, <1>2, BootFacts, HandlesStay DEF disk
    <3> QED
      BY <1>0, <1>1, <2>2, <2>3, <3>1, BootFacts, NamesAre DEF OpenOK, AsBefore, Booting, Writing, New
  <2> QED
    BY <1>0, <1>1, <2>1, <2>2, <2>4, BootFacts, BootStep DEF Booting
<1>3. CASE GoTo("boot_close") /\ Files!DbOpen(n, FALSE)
  <2>1. /\ StoreOK' /\ Attached(n)'
        /\ \A m \in Name \ {n} : file'[m] = file[m]
        /\ Opened(n) /\ \A h \in Files!Dbi : slot'[h] \in {slot[h], n}
    BY <1>0, <1>1, <1>3, BootFacts, BootHandle, OpenCall
  <2>2. at' \in AtType /\ at'.pc = "boot_close" /\ at'.table = n
    BY <1>0, <1>1, <1>3, BootFacts, GoToIs DEF Places, Booting
  <2>3. Kept /\ \A m \in Name : SameRows(m)
    BY <1>0, <1>1, <2>1, BootFacts, OpenRows
  <2>4. \A m \in Name \ {n} :
          AsBefore(m) /\ file'[m] = file[m]
    BY <2>1 DEF AsBefore, New, InUse, WithoutHandle, Attached, Files!Attached
  <2>5. OpenOK'
    <3>1. Attached(n)' /\ InUse(n)' /\ ~file'[n].closed
      BY <2>1 DEF InUse, Attached, Files!Attached
    <3>2. HandlesOK'
      BY <1>0, <1>1, <2>1, <3>1, BootFacts, BootHandle, HandlesOpen, NamesAre
    <3> QED
      BY <1>0, <1>1, <2>1, <2>2, <2>4, <3>1, <3>2, BootFacts, NamesAre
      DEF OpenOK, AsBefore, Booting, Writing
  <2> QED
    BY <1>0, <1>1, <2>1, <2>2, <2>3, <2>5, BootFacts, BootStep DEF Booting
<1> QED
  BY <1>0, <1>2, <1>3 DEF BootOpen

LEMMA BootCreateStep ==
  ASSUME IInv, WritesSucceed, SchemaHandles, BootCreate
  PROVE  IInv'
<1>0. PICK n \in Name : n = at.table
  BY BootFacts DEF BootCreate, Booting
<1>1. at.pc = "boot_create" /\ New(n) /\ at.pc \in Booting /\ GoTo("boot_get_new")
      /\ UNCHANGED memory /\ has_tables' = has_tables
  BY <1>0 DEF IInv, OpenOK, BootCreate, Booting, memory
<1>2. /\ StoreOK' /\ Attached(n)'
      /\ \A m \in Name \ {n} : file'[m] = file[m]
      /\ Opened(n) /\ \A h \in Files!Dbi : slot'[h] \in {slot[h], n}
  BY <1>0, <1>1, BootFacts, BootHandle, OpenCall DEF BootCreate
<1>3. at' \in AtType /\ at'.pc = "boot_get_new" /\ at'.table = n
  BY <1>0, <1>1, BootFacts, GoToIs DEF Places, Booting
<1>4. Kept /\ \A m \in Name : SameRows(m)
  BY <1>0, <1>1, <1>2, BootFacts, OpenRows
<1>5. \A m \in Name \ {n} :
        AsBefore(m) /\ file'[m] = file[m]
  BY <1>2 DEF AsBefore, New, InUse, WithoutHandle, Attached, Files!Attached
<1>6. OpenOK'
  <2>1. Attached(n)' /\ InUse(n)' /\ ~file'[n].closed
    BY <1>2 DEF InUse, Attached, Files!Attached
  <2>2. HandlesOK'
    BY <1>0, <1>1, <1>2, <2>1, BootFacts, BootHandle, HandlesOpen, NamesAre
  <2> QED
    BY <1>0, <1>1, <1>2, <1>3, <1>5, <2>1, <2>2, BootFacts, NamesAre
    DEF OpenOK, AsBefore, Booting, Writing
<1> QED
  BY <1>0, <1>1, <1>2, <1>3, <1>4, <1>6, BootFacts, BootStep DEF Booting

LEMMA BootGetNewStep ==
  ASSUME IInv, WritesSucceed, BootGetNew
  PROVE  IInv'
<1>0. PICK n \in Name : n = at.table
  BY BootFacts DEF BootGetNew, Booting
<1>1. at.pc = "boot_get_new" /\ Attached(n) /\ at.pc \in Booting /\ GoTo("boot_put")
      /\ UNCHANGED memory /\ has_tables' = has_tables
  BY <1>0, BootFacts DEF BootGetNew, Booting, memory
<1>2. /\ StoreOK' /\ Kept /\ \A m \in Name : SameRows(m)
      /\ file' = [file EXCEPT ![n].last = file[n].last + 1] /\ slot' = slot
      /\ dbs'[n][file[n].last + 1] = <<>>
  BY <1>0, <1>1, BootFacts, AllocateCall, AllocateRows DEF BootGetNew
<1>3. at' \in AtType /\ at'.pc = "boot_put" /\ at'.table = n
  BY <1>0, <1>1, BootFacts, GoToIs DEF Places, Booting
<1>4. /\ file[n].last \in Nat
      /\ file'[n].closed = file[n].closed /\ file'[n].dbi = file[n].dbi
      /\ file'[n].last = file[n].last + 1
      /\ \A m \in Name \ {n} : file'[m] = file[m]
  BY <1>1, <1>2, BootFacts, StoreFacts
<1>5. \A m \in Name \ {n} : AsBefore(m)
  BY <1>4 DEF AsBefore, New, InUse, WithoutHandle, Attached, Files!Attached
<1>6. Attached(n)' /\ InUse(n)' /\ ~file'[n].closed
  BY <1>1, <1>4 DEF InUse, Attached, Files!Attached
<1>7. OpenOK'
  <2>1. HandlesOK'
    BY <1>0, <1>1, <1>2, <1>4, BootFacts, HandlesStay, NamesAre
  <2> QED
    BY <1>0, <1>1, <1>2, <1>3, <1>4, <1>5, <1>6, <2>1, BootFacts, NamesAre
    DEF OpenOK, AsBefore, Booting, Writing
<1> QED
  BY <1>0, <1>1, <1>2, <1>3, <1>7, BootFacts, BootStep DEF Booting

LEMMA BootPutStep ==
  ASSUME IInv, WritesSucceed, BootPut
  PROVE  IInv'
<1>0. PICK n \in Name : n = at.table
  BY BootFacts DEF BootPut, Booting
<1>1. /\ at.pc = "boot_put" /\ Attached(n) /\ at.pc \in Booting /\ GoTo("boot_close")
      /\ UNCHANGED memory /\ has_tables' = has_tables
      /\ file[n].last > 0 /\ dbs[n][file[n].last] = <<>>
  BY <1>0, BootFacts DEF IInv, OpenOK, BootPut, Booting, memory
<1>2. StoreOK' /\ UNCHANGED disk /\ file' = file
  BY <1>0, <1>1, BootFacts, PutBlank DEF BootPut, disk
<1>3. at' \in AtType /\ at'.pc = "boot_close" /\ at'.table = n
  BY <1>0, <1>1, BootFacts, GoToIs DEF Places, Booting
<1>4. Kept /\ \A m \in Name : SameRows(m)
  BY <1>2, BootFacts, <1>1, SameStore
<1>5. \A m \in Name : AsBefore(m) /\ file'[m] = file[m]
  BY <1>2 DEF AsBefore, New, InUse, WithoutHandle, Attached, Files!Attached
<1>6. OpenOK'
  <2>1. HandlesOK'
    BY <1>1, <1>2, BootFacts, HandlesStay DEF disk
  <2>2. InUse(n)'
    BY <1>1, <1>5 DEF AsBefore, InUse
  <2> QED
    BY <1>0, <1>1, <1>2, <1>3, <1>5, <2>1, <2>2, BootFacts, NamesAre
    DEF OpenOK, AsBefore, Booting, Writing
<1> QED
  BY <1>0, <1>1, <1>2, <1>3, <1>4, <1>6, BootFacts, BootStep DEF Booting

LEMMA BootCloseStep ==
  ASSUME IInv, BootClose
  PROVE  IInv'
<1>0. PICK n \in Name : n = at.table
  BY BootFacts DEF BootClose, Booting
<1>1. /\ at.pc = "boot_close" /\ Attached(n) /\ at.pc \in Booting
      /\ UNCHANGED memory /\ has_tables' = has_tables
      /\ n \in SchemaTables
  BY <1>0, BootFacts DEF BootClose, Booting, memory
<1>2. /\ StoreOK' /\ dbs' = dbs /\ slot' = [slot EXCEPT ![file[n].dbi] = Free]
      /\ file' = [file EXCEPT ![n].closed = TRUE]
  BY <1>0, <1>1, BootFacts, CloseCall DEF BootClose
<1>3. Kept /\ \A m \in Name : SameRows(m)
  BY <1>1, <1>2, BootFacts, UnchangedRows
<1>4. file'[n].closed /\ \A m \in Name \ {n} : file'[m] = file[m]
  BY <1>1, <1>2, BootFacts, StoreFacts
<1>5. \A m \in Name \ {n} : AsBefore(m)
  BY <1>4 DEF AsBefore, New, InUse, WithoutHandle, Attached, Files!Attached
<1>8. HandlesOK'
  <2>1. /\ file[n].dbi \in Files!Dbi /\ slot[file[n].dbi] = n
        /\ slot \in [Files!Dbi -> Name \union {Free}] /\ Free \notin Name
        /\ \A h, i \in Files!Dbi : slot[h] = slot[i] /\ slot[h] # Free => h = i
    BY <1>1, BootFacts, AttachedFacts, StoreFacts DEF StoreOK
  <2>2. \A h \in Files!Dbi : slot'[h] = IF slot[h] = n THEN Free ELSE slot[h]
    BY <1>2, <2>1
  <2>3. \A h \in Files!Dbi : slot[h] \in {Free, TABLES, COLUMNS}
    BY <1>1, BootFacts DEF HandlesOK
  <2>4. n = TABLES => \A h \in Files!Dbi : slot[h] \in {Free, TABLES}
    BY <1>0, <1>1, BootFacts, StoreFacts, NamesAre DEF HandlesOK
  <2>5. \A h \in Files!Dbi : slot'[h] \in {Free, TABLES}
    BY <1>1, <2>2, <2>3, <2>4, NamesAre
  <2> QED
    BY <2>5 DEF HandlesOK, Files!Dbi
<1>6. CASE n = TABLES
  <2>1. at' = [at EXCEPT !.pc = "boot_open", !.table = COLUMNS]
    BY <1>0, <1>6 DEF BootClose
  <2>2. at' \in AtType /\ at'.pc = "boot_open" /\ at'.table = COLUMNS
    BY <1>1, <2>1, BootFacts, NamesAre DEF AtType, Places, Booting
  <2>3. New(COLUMNS)'
    BY <1>0, <1>1, <1>5, <1>6, BootFacts, NamesAre DEF AsBefore
  <2>4. New(at.table)'
    BY <2>2, <2>3 DEF New
  <2>5. OpenOK'
    BY <1>0, <1>1, <1>4, <1>5, <1>6, <1>8, <2>2, <2>3, <2>4, BootFacts, NamesAre
    DEF OpenOK, AsBefore, Booting, Writing
  <2> QED
    BY <1>1, <1>2, <1>3, <2>2, <2>5, BootStep, NamesAre DEF Booting
<1>7. CASE n = COLUMNS
  <2>1. at' = [at EXCEPT !.pc = "boot_end", !.table = NoObject]
    BY <1>0, <1>7, NamesAre DEF BootClose
  <2>2. at' \in AtType /\ at'.pc = "boot_end" /\ at'.table = NoObject
    BY <1>1, <2>1, BootFacts DEF AtType, Places, Booting
  <2>3. OpenOK'
    BY <1>0, <1>1, <1>4, <1>5, <1>7, <1>8, <2>2, BootFacts, NamesAre
    DEF OpenOK, AsBefore, Booting, Writing
  <2> QED
    BY <1>1, <1>2, <1>3, <2>2, <2>3, BootStep DEF Booting
<1> QED
  BY <1>1, <1>6, <1>7, NamesAre

LEMMA BootEndStep ==
  ASSUME IInv, BootEnd
  PROVE  IInv'
<1>1. /\ StoreOK /\ at \in AtType /\ at.pc = "boot_end" /\ has_tables = FALSE
      /\ table_cache = SchemaTables /\ statements \in 0 .. MAX_STATEMENTS
      /\ \A n \in Name : ~file[n].closed => InUse(n)
      /\ \A n \in Name : file[n].closed /\ ~New(n) => n \in {TABLES, COLUMNS}
      /\ file' = [file EXCEPT ![COLUMNS] = Files!NewFile(COLUMNS)]
      /\ at' = Ready /\ dbs' = dbs /\ slot' = slot
      /\ has_tables' = has_tables /\ table_cache' = table_cache /\ statements' = statements
      /\ UNCHANGED history /\ HandlesOK /\ file[COLUMNS].closed
  BY DEF IInv, AtOK, CacheOK, OpenOK, HistoryOK, BootEnd, memory, history
<1>2. StoreOK'
  BY <1>1, NewCall, NamesAre
<1>3. Kept /\ \A m \in Name : SameRows(m)
  BY <1>1, UnchangedRows
<1>4. at' \in AtType /\ at'.pc = "ready" /\ at'.table = NoObject
  BY <1>1, PlacesAre
<1>5. RowsInv'
  BY <1>1, <1>3, <1>4, QuietStep DEF Writing
<1>6. AtOK' /\ CacheOK' /\ StatementOK'
  BY <1>1, <1>4, NamesAre DEF AtOK, CacheOK, StatementOK, Booting, Writing
<1>7. New(COLUMNS)' /\ file'[COLUMNS].closed /\ \A m \in Name \ {COLUMNS} : file'[m] = file[m]
  BY <1>1, NamesAre, StoreFacts DEF New, Files!NewFile
<1>8. \A m \in Name \ {COLUMNS} : AsBefore(m)
  BY <1>7 DEF AsBefore, New, InUse, WithoutHandle, Attached, Files!Attached
<1>9. OpenOK'
  <2>1. HandlesOK'
    BY <1>1, HandlesStay
  <2> QED
    BY <1>1, <1>4, <1>7, <1>8, <2>1, NamesAre DEF OpenOK, AsBefore, Booting, Writing
<1> QED
  BY <1>2, <1>5, <1>6, <1>9 DEF IInv, RowsInv

-----------------------------------------------------------------------------
(***************************************************************************)
(* The process ends, or does something undefined.                          *)
(***************************************************************************)
LEMMA StopStep ==
  ASSUME IInv, at.pc # "wild", Stop
  PROVE  IInv'
<1>1. /\ file' = [n \in Name |-> Files!NewFile(n)] /\ slot' = Files!NoHandles /\ dbs' = dbs
      /\ has_tables' = FALSE /\ table_cache' = {} /\ at' = Nowhere
      /\ statements' = statements /\ acked' = acked /\ acked_columns' = acked_columns
      /\ cut' = IF Pending THEN [cut EXCEPT ![at.table] = cut[at.table] + 1] ELSE cut
  BY DEF Stop
<1>2. /\ StoreOK /\ HistoryOK /\ RowsFinite /\ RowsCounted /\ AnsweredOK
      /\ Pending => at.table \in Name
  BY DEF IInv, AtOK, Pending, Writing
<1>3. StoreOK'
  BY <1>1, <1>2, EndCall
<1>4. Kept /\ \A m \in Name : SameRows(m)
  BY <1>1, <1>2, UnchangedRows
<1>5. \A n \in Name : New(n)' /\ file'[n].closed
  BY <1>1 DEF New, Files!NewFile
<1>6. at' \in AtType /\ at'.pc = "down"
  BY <1>1, PlacesAre
<1>7. AtOK' /\ CacheOK' /\ StatementOK' /\ DefinedUnlessDamaged' /\ OpenOK'
  <2>1. HandlesOK'
    BY <1>1, HandlesNone
  <2> QED
    BY <1>1, <1>5, <1>6, <2>1
    DEF AtOK, CacheOK, StatementOK, DefinedUnlessDamaged, OpenOK, Booting, Writing
<1>8. HistoryOK'
  BY <1>1, <1>2 DEF HistoryOK
<1>9. SameRows(TABLES) /\ ColumnsStay
  BY <1>4, NamesAre DEF SameRows, ColumnsStay
<1>10. \A t \in User : RowsOf(t)' = RowsOf(t)
  BY <1>9, RowsStay
<1>11. RowsFinite'
  BY <1>2, <1>10 DEF RowsFinite
<1>12. RowsCounted'
  <2>1. ASSUME NEW t \in User
        PROVE  Cardinality(RowsOf(t)) = acked[t] + cut'[t]
    <3>1. Cardinality(RowsOf(t)) = acked[t] + cut[t] + (IF Pending /\ at.table = t THEN 1 ELSE 0)
      BY <1>2 DEF RowsCounted
    <3>2. t \in Name /\ acked[t] \in Nat /\ cut[t] \in Nat /\ cut \in [Name -> Nat]
      BY <1>2, NamesAre DEF HistoryOK
    <3>3. CASE Pending /\ at.table = t
      BY <1>1, <1>2, <3>1, <3>2, <3>3
    <3>4. CASE Pending /\ at.table # t
      BY <1>1, <1>2, <3>1, <3>2, <3>4
    <3>5. CASE ~Pending
      BY <1>1, <3>1, <3>2, <3>5
    <3> QED
      BY <3>3, <3>4, <3>5
  <2>2. \A t \in User : acked'[t] + cut'[t] + 0 = acked[t] + cut'[t]
    BY <1>1, <1>8, NamesAre DEF HistoryOK
  <2> QED
    BY <1>6, <1>10, <2>1, <2>2 DEF RowsCounted, Pending
<1>13. AnsweredOK'
  BY <1>1, <1>2, <1>9, AnsweredStays
<1> QED
  BY <1>3, <1>7, <1>8, <1>11, <1>12, <1>13 DEF IInv

\* What is known while the program is in a statement, or between two.
Running == Writing \union {"insert_table"}

LEMMA RunFacts ==
  ASSUME IInv, at.pc \in Running \/ (at.pc = "ready" /\ has_tables)
  PROVE  /\ StoreOK /\ at \in AtType /\ has_tables = TRUE /\ statements \in 0 .. MAX_STATEMENTS
         /\ at.pc \in Running => at.table \in Name
         /\ at.pc = "insert_table" => at.i = 1
         /\ Attached(TABLES)
         /\ \A n \in Name : ~file[n].closed => InUse(n)
         /\ \A n \in Name : file[n].closed => New(n)
         /\ table_cache \subseteq Name /\ TABLES \in table_cache
         /\ at.pc \in Writing => COLUMNS \in table_cache
         /\ at.pc # "wild" /\ HandlesOK
         /\ at.pc \in Running => at.columns # <<>>
         /\ at.pc = "column" /\ at.i > 1 => ~file[COLUMNS].closed
         /\ at.pc \in Writing \ {"column", "rollback"} => ~file[COLUMNS].closed
  BY CatalogAssumption
  DEF IInv, AtOK, OpenOK, CacheOK, HistoryOK, Running, Booting, Writing, CatalogAssumption

LEMMA RunOpen ==
  ASSUME has_tables' = TRUE, at'.pc \in Running \union {"ready", "wild"}, Attached(TABLES)',
         \A n \in Name : ~file'[n].closed => InUse(n)',
         \A n \in Name : file'[n].closed => New(n)',
         at'.pc \in {"get_new", "put", "seed"} => InUse(at.table)',
         at'.pc \in {"put", "seed"} => file'[at'.table].last > 0,
         at'.pc = "put" /\ Attached(at.table)' => dbs'[at'.table][file'[at'.table].last] = <<>>,
         at'.pc = "column" /\ at'.i > 1 => ~file'[COLUMNS].closed,
         at'.pc \in Writing \ {"column", "rollback"} => ~file'[COLUMNS].closed,
         HandlesOK'
  PROVE  OpenOK'
  BY DEF OpenOK, Running, Booting, Writing

\* The objects, after a step that leaves them alone.
LEMMA SameObjects ==
  ASSUME file' = file
  PROVE  \A n \in Name : file'[n] = file[n] /\ AsBefore(n)
<1> SUFFICES ASSUME NEW n \in Name
             PROVE  file'[n] = file[n] /\ AsBefore(n)
  OBVIOUS
<1>1. file'[n] = file[n]
  OBVIOUS
<1> QED
  BY <1>1 DEF AsBefore, New, InUse, WithoutHandle, Attached, Files!Attached

\* A page with more rows than fit is one that is stored.
LEMMA PageOverrun ==
  ASSUME NEW n \in Name, NEW b, StoreOK, Attached(n) \/ New(n), Overrun(Page(n, b))
  PROVE  OverrunOnDisk(n)
<1>1. Page(n, b) # <<>>
  BY CatalogAssumption DEF Overrun, CatalogAssumption
<1>2. HasBlock(n, b) /\ Page(n, b) = dbs[slot[file[n].dbi]][b]
  BY <1>1 DEF Page
<1>3. Files!Valid(file[n].dbi) /\ b \in DOMAIN dbs[slot[file[n].dbi]]
  BY <1>2 DEF HasBlock, Files!HasEntry
<1>4. ~New(n)
  BY <1>3, StoreFacts DEF Files!Valid
<1>5. n \in DOMAIN dbs /\ slot[file[n].dbi] = n
  BY <1>4, AttachedFacts
<1> QED
  BY <1>2, <1>3, <1>5 DEF OverrunOnDisk

LEMMA GoWildStep ==
  ASSUME IInv, at.pc \in Running \/ (at.pc = "ready" /\ has_tables), GoWild,
         \/ \E n \in SchemaTables : n \in DOMAIN dbs /\ dbs[n] = <<>>
         \/ ~(SchemaTables \subseteq table_cache)
         \/ \E n \in SchemaTables : OverrunOnDisk(n)
  PROVE  IInv'
<1>1. /\ StoreOK /\ HistoryOK /\ AnsweredOK
      /\ GoTo("wild") /\ UNCHANGED disk /\ has_tables' = has_tables
      /\ table_cache' = table_cache /\ statements' = statements /\ UNCHANGED history
      /\ dbs' = dbs /\ file' = file
      /\ acked' = acked /\ cut' = cut /\ acked_columns' = acked_columns
  BY DEF IInv, GoWild, disk, history
<1>2. at' \in AtType /\ at'.pc = "wild"
  BY <1>1, RunFacts, GoToIs DEF Places
<1>3. StoreOK' /\ Kept /\ \A m \in Name : SameRows(m)
  BY <1>1, SameStore
<1>4. HistoryOK'
  BY <1>1 DEF HistoryOK
<1>5. AnsweredOK'
  <2>1. ColumnsStay
    BY <1>3, NamesAre DEF SameRows, ColumnsStay
  <2> QED
    BY <1>1, <2>1, AnsweredStays
<1>6. RowsFinite' /\ RowsCounted'
  BY <1>2 DEF RowsFinite, RowsCounted
<1>7. DefinedUnlessDamaged'
  BY <1>1 DEF DefinedUnlessDamaged, OverrunOnDisk
<1>8. AtOK' /\ CacheOK' /\ StatementOK'
  BY <1>1, <1>2, RunFacts DEF AtOK, CacheOK, StatementOK, Booting, Writing
<1>9. OpenOK'
  <2>1. Attached(TABLES)'
    BY <1>1, RunFacts, SameObjects, NamesAre DEF AsBefore
  <2>2. \A n \in Name : (~file'[n].closed => InUse(n)') /\ (file'[n].closed => New(n)')
    BY <1>1, RunFacts, SameObjects DEF AsBefore
  <2>3. HandlesOK'
    BY <1>1, RunFacts, HandlesStay DEF disk
  <2> QED
    BY <1>1, <1>2, <2>1, <2>2, <2>3, RunFacts, RunOpen DEF Writing
<1> QED
  BY <1>3, <1>4, <1>5, <1>6, <1>7, <1>8, <1>9 DEF IInv

-----------------------------------------------------------------------------
(***************************************************************************)
(* A statement begins, and SQLExec::tables is opened.                      *)
(***************************************************************************)

\* What is known before a statement, and while the tables are opened for it.
LEMMA ReadyFacts ==
  ASSUME IInv, at.pc \in {"ready", "open_tables"}
  PROVE  /\ StoreOK /\ at \in AtType /\ has_tables \in BOOLEAN
         /\ statements \in 0 .. MAX_STATEMENTS
         /\ at.pc = "open_tables" => has_tables /\ New(TABLES)
         /\ at.pc = "ready" /\ has_tables => Attached(TABLES)
         /\ \A n \in Name : ~file[n].closed => InUse(n)
         /\ \A n \in Name \ {TABLES} : file[n].closed => New(n)
         /\ table_cache \subseteq Name /\ TABLES \in table_cache
         /\ at.pc = "open_tables" => at.i = 1
         /\ at.pc = "open_tables" /\ at.table # NoObject => at.columns # <<>>
         /\ at.pc \notin Writing /\ at.pc # "wild" /\ HandlesOK
         /\ at.pc = "open_tables" \/ ~has_tables => file[COLUMNS].closed
BY NamesAre DEF IInv, AtOK, OpenOK, CacheOK, HistoryOK, Booting, Writing

\* SQLExec::tables is constructed unless it is there.
LEMMA ConstructStep ==
  ASSUME IInv, at.pc = "ready", UNCHANGED history, statements' \in 0 .. MAX_STATEMENTS,
         IF has_tables THEN file' = file
                       ELSE file' = [file EXCEPT ![TABLES] = Files!NewFile(TABLES)],
         has_tables' = TRUE, UNCHANGED <<dbs, slot, table_cache>>,
         at' \in AtType, at'.pc = IF has_tables THEN "insert_table" ELSE "open_tables",
         at'.pc = "insert_table" => at'.table \in Name, at'.i = 1,
         at'.table # NoObject => at'.columns # <<>>
  PROVE  IInv'
<1>1. Kept /\ \A m \in Name : SameRows(m)
  BY ReadyFacts, UnchangedRows
<1>2. RowsInv'
  BY <1>1, ReadyFacts, QuietStep DEF Writing
<1>3. AtOK' /\ CacheOK' /\ StatementOK'
  BY ReadyFacts DEF AtOK, CacheOK, StatementOK, Booting, Writing
<1>4. CASE has_tables
  <2>1. StoreOK'
    BY <1>4, ReadyFacts, SameStore DEF disk
  <2>2. \A n \in Name : file'[n] = file[n] /\ AsBefore(n)
    BY <1>4, SameObjects
  <2>4. HandlesOK'
    BY <1>4, ReadyFacts, HandlesStay
  <2>3. OpenOK'
    BY <1>4, <2>2, <2>4, ReadyFacts, NamesAre DEF OpenOK, AsBefore, Booting, Writing, IInv
  <2> QED
    BY <1>2, <1>3, <2>1, <2>3 DEF IInv, RowsInv
<1>5. CASE ~has_tables
  <2>1. StoreOK'
    BY <1>5, ReadyFacts, NewCall, NamesAre
  <2>2. New(TABLES)' /\ file'[TABLES].closed /\ \A m \in Name \ {TABLES} : file'[m] = file[m]
    BY <1>5, NamesAre, ReadyFacts, StoreFacts DEF New, Files!NewFile
  <2>3. \A m \in Name \ {TABLES} : AsBefore(m)
    BY <2>2 DEF AsBefore, New, InUse, WithoutHandle, Attached, Files!Attached
  <2>5. HandlesOK'
    BY <1>5, <2>2, ReadyFacts, HandlesStay, NamesAre
  <2>4. OpenOK'
    BY <1>5, <2>2, <2>3, <2>5, ReadyFacts, NamesAre DEF OpenOK, AsBefore, Booting, Writing
  <2> QED
    BY <1>2, <1>3, <2>1, <2>4 DEF IInv, RowsInv
<1> QED
  BY <1>4, <1>5

LEMMA ExecuteCreateStep ==
  ASSUME IInv, NEW t \in Named, NEW columns \in ColumnLists, ExecuteCreate(t, columns)
  PROVE  IInv'
<1>1. /\ at.pc = "ready" /\ statements' = statements + 1 /\ statements < MAX_STATEMENTS
      /\ at' = [pc |-> IF has_tables THEN "insert_table" ELSE "open_tables",
                table |-> t, columns |-> columns, i |-> 1, handle |-> <<0, 0>>]
  BY DEF ExecuteCreate
<1>2. /\ t \in Name /\ columns \in Seq([name : STRING, ok : BOOLEAN]) /\ columns # <<>>
      /\ MAX_STATEMENTS \in Nat
  BY CatalogAssumption DEF CatalogAssumption
<1>3. at' \in AtType
  <2>1. (IF has_tables THEN "insert_table" ELSE "open_tables") \in Places
    BY DEF Places
  <2>2. <<0, 0>> \in Nat \X Nat /\ 1 \in Nat \ {0}
    OBVIOUS
  <2> QED
    BY <1>1, <1>2, <2>1, <2>2 DEF AtType
<1>4. /\ at'.pc = (IF has_tables THEN "insert_table" ELSE "open_tables")
      /\ at'.table = t /\ at'.i = 1 /\ at'.columns = columns
  BY <1>1
<1>5. statements' \in 0 .. MAX_STATEMENTS
  BY <1>1, <1>2, ReadyFacts
<1>6. /\ IF has_tables THEN file' = file
                         ELSE file' = [file EXCEPT ![TABLES] = Files!NewFile(TABLES)]
      /\ has_tables' = TRUE /\ UNCHANGED <<dbs, slot, table_cache>> /\ UNCHANGED history
  BY DEF ExecuteCreate
<1> QED
  BY <1>1, <1>2, <1>3, <1>4, <1>5, <1>6, ConstructStep

LEMMA ExecuteOtherStep ==
  ASSUME IInv, ExecuteOther
  PROVE  IInv'
<1>1. /\ at.pc = "ready" /\ ~has_tables /\ statements' = statements
      /\ at' = [Nowhere EXCEPT !.pc = "open_tables"]
      /\ file' = [file EXCEPT ![TABLES] = Files!NewFile(TABLES)]
      /\ has_tables' = TRUE /\ UNCHANGED <<dbs, slot, table_cache>> /\ UNCHANGED history
  BY DEF ExecuteOther
<1>2. at' \in AtType /\ at'.pc = "open_tables" /\ at'.i = 1 /\ at'.table = NoObject
  BY <1>1, PlacesAre DEF AtType, Places
<1> QED
  BY <1>1, <1>2, ReadyFacts, ConstructStep

LEMMA ShowDamagedStep ==
  ASSUME IInv, ShowDamaged
  PROVE  IInv'
<1>1. at.pc = "ready" /\ has_tables /\ GoWild
  BY DEF ShowDamaged
<1>2. ASSUME NEW n \in SchemaTables, SeesOverrun(n)
      PROVE  \E m \in SchemaTables : OverrunOnDisk(m)
  <2>1. n \in Name /\ StoreOK /\ (Attached(n) \/ New(n))
    BY <1>1, ReadyFacts, SchemaInUse, NamesAre
  <2> QED
    BY <1>2, <2>1, PageOverrun DEF SeesOverrun
<1> QED
  BY <1>1, <1>2, NamesAre, GoWildStep DEF ShowDamaged

LEMMA OpenTablesStep ==
  ASSUME IInv, WritesSucceed, SchemaHandles, OpenTables
  PROVE  IInv'
<1>1. at.pc = "open_tables"
  BY DEF OpenTables
<1>2. CASE Stop
  BY <1>1, <1>2, StopStep
<1>3. CASE /\ Files!DbOpen(TABLES, FALSE)
           /\ IF at.table = NoObject THEN at' = Ready ELSE GoTo("insert_table")
           /\ UNCHANGED memory
  <2>0. FindsHandle(TABLES)
    BY <1>1, ReadyFacts, NamesAre, SchemaHandleLeft
  <2>1. /\ StoreOK' /\ Attached(TABLES)' /\ Opened(TABLES)
        /\ \A m \in Name \ {TABLES} : file'[m] = file[m]
        /\ \A h \in Files!Dbi : slot'[h] \in {slot[h], TABLES}
    BY <1>1, <1>3, <2>0, ReadyFacts, NamesAre, OpenCall
  <2>2. /\ at' \in AtType /\ at'.pc \in {"ready", "insert_table"}
        /\ at'.pc = "insert_table" => at'.table \in Name /\ at'.i = 1 /\ at'.columns # <<>>
    <3>1. CASE at.table = NoObject
      BY <1>3, <3>1, PlacesAre
    <3>2. CASE at.table # NoObject
      <4>1. at.table \in Name
        BY <1>1, <3>2, ReadyFacts DEF AtType
      <4> QED
        BY <1>1, <1>3, <3>2, <4>1, ReadyFacts, GoToIs DEF Places
    <3> QED
      BY <3>1, <3>2
  <2>3. Kept /\ \A m \in Name : SameRows(m)
    BY <1>1, <2>1, ReadyFacts, NamesAre, OpenRows
  <2>4. /\ has_tables' = has_tables /\ table_cache' = table_cache /\ statements' = statements
        /\ UNCHANGED history
    BY <1>3 DEF memory
  <2>5. RowsInv'
    BY <1>1, <2>2, <2>3, <2>4, ReadyFacts, QuietStep DEF Writing
  <2>6. AtOK' /\ CacheOK' /\ StatementOK'
    BY <1>1, <2>2, <2>4, ReadyFacts DEF AtOK, CacheOK, StatementOK, Booting, Writing
  <2>7. \A n \in Name \ {TABLES} : AsBefore(n)
    BY <2>1 DEF AsBefore, New, InUse, WithoutHandle, Attached, Files!Attached
  <2>8. ~file'[TABLES].closed /\ InUse(TABLES)'
    BY <2>1 DEF InUse, Attached, Files!Attached
  <2>9. HandlesOK'
    BY <1>1, <2>1, <2>4, ReadyFacts, HandlesOpen, NamesAre
  <2>10. OpenOK'
    BY <1>1, <2>1, <2>2, <2>4, <2>7, <2>8, <2>9, ReadyFacts, RunOpen
    DEF AsBefore, Running, Writing
  <2> QED
    BY <2>1, <2>5, <2>6, <2>10 DEF IInv, RowsInv
<1> QED
  BY <1>2, <1>3 DEF OpenTables

-----------------------------------------------------------------------------
(***************************************************************************)
(* A row is inserted.                                                      *)
(***************************************************************************)
LEMMA TuplesAreSeqs ==
  ASSUME NEW S, NEW a \in S, NEW b \in S
  PROVE  <<a>> \in Seq(S) /\ <<a, b>> \in Seq(S)
OBVIOUS

LEMMA ElementIs ==
  ASSUME NEW S, NEW s \in Seq(S), NEW i \in 1 .. Len(s)
  PROVE  s[i] \in S
OBVIOUS

LEMMA CellsAre ==
  ASSUME NEW n \in Name
  PROVE  /\ <<n>> \in Cell /\ <<n>> # Deleted /\ 1 \in DOMAIN <<n>>
         /\ \A s \in STRING : <<n, s>> \in Cell /\ <<n, s>> # Deleted /\ 1 \in DOMAIN <<n, s>>
<1> DEFINE S == Name \union STRING
<1>1. n \in S /\ Deleted \notin Seq(S) /\ \A s \in STRING : s \in S
  BY CatalogAssumption DEF CatalogAssumption
<1>2. <<n>> \in Cell /\ \A s \in STRING : <<n, s>> \in Cell
  BY DEF Cell
<1> HIDE DEF S
<1>3. <<n>> # Deleted /\ \A s \in STRING : <<n, s>> # Deleted
  BY <1>1, TuplesAreSeqs
<1>4. 1 \in DOMAIN <<n>> /\ \A s : 1 \in DOMAIN <<n, s>>
  OBVIOUS
<1> QED
  BY <1>2, <1>3, <1>4

\* The last block of an open file is missing only from a file without blocks.
LEMMA NoBlock ==
  ASSUME StoreOK, NEW n \in Name, Attached(n), ~HasBlock(n, file[n].last)
  PROVE  n \in DOMAIN dbs /\ dbs[n] = <<>>
<1>1. n \in DOMAIN dbs /\ DOMAIN dbs[n] = 1 .. file[n].last /\ file[n].last \in Nat
  BY AttachedFacts
<1>2. file[n].last = 0
  BY <1>1, SelectIs
<1>3. DOMAIN dbs[n] = {}
  BY <1>1, <1>2
<1> QED
  BY <1>1, <1>3 DEF StoreOK

\* A row appended to a schema table.
LEMMA AppendKeeps ==
  ASSUME StoreOK, WritesSucceed, NEW n \in SchemaTables, Attached(n),
         HasBlock(n, file[n].last), NEW row \in Cell, row # Deleted, AppendRow(n, row),
         NEW new, new = <<file[n].last, Len(Page(n, file[n].last)) + 1>>
  PROVE  /\ StoreOK' /\ file' = file /\ slot' = slot /\ ColumnsStay /\ Stored(n, row)'
         /\ \A t : RowsOf(t)' = IF n = TABLES /\ row = <<t>> THEN RowsOf(t) \union {new}
                                                           ELSE RowsOf(t)
         /\ \A h \in StoredRows(TABLES) :
              h \in StoredRows(TABLES)' /\ RowOf(TABLES, h)' = RowOf(TABLES, h)
         /\ n = TABLES => /\ new \notin StoredRows(TABLES) /\ new \in StoredRows(TABLES)'
                          /\ RowOf(TABLES, new)' = row
<1>1. n \in Name
  BY NamesAre
<1>2. /\ StoreOK' /\ file' = file /\ slot' = slot
      /\ Kept /\ \A m \in Name \ {n} : SameRows(m)
      /\ new \notin StoredRows(n) /\ StoredRows(n)' = StoredRows(n) \union {new}
      /\ RowOf(n, new)' = row
      /\ \A h \in StoredRows(n) : RowOf(n, h)' = RowOf(n, h)
  BY <1>1, AppendRowIs
<1>3. Stored(n, row)'
  BY <1>2 DEF Stored
<1>4. CASE n = COLUMNS
  <2>1. SameRows(TABLES)
    BY <1>2, <1>4, NamesAre
  <2>2. ColumnsStay
    BY <1>2, <1>4 DEF ColumnsStay
  <2>3. \A t : RowsOf(t)' = RowsOf(t)
    BY <2>1, RowsStay
  <2>4. \A h \in StoredRows(TABLES) :
          h \in StoredRows(TABLES)' /\ RowOf(TABLES, h)' = RowOf(TABLES, h)
    BY <2>1 DEF SameRows
  <2> QED
    BY <1>2, <1>3, <1>4, <2>2, <2>3, <2>4, NamesAre
<1>5. CASE n = TABLES
  <2>1. SameRows(COLUMNS)
    BY <1>2, <1>5, NamesAre
  <2>2. ColumnsStay
    BY <1>2, <2>1 DEF ColumnsStay, SameRows
  <2>3. \A h \in StoredRows(TABLES) :
          h \in StoredRows(TABLES)' /\ RowOf(TABLES, h)' = RowOf(TABLES, h)
    BY <1>2, <1>5
  <2>4. ASSUME NEW t
        PROVE  RowsOf(t)' = IF row = <<t>> THEN RowsOf(t) \union {new} ELSE RowsOf(t)
    <3>1. RowsOf(t) = {h \in StoredRows(TABLES) : RowOf(TABLES, h) = <<t>>}
      BY DEF RowsOf, RowOf
    <3>2. RowsOf(t)' = {h \in StoredRows(TABLES)' : RowOf(TABLES, h)' = <<t>>}
      BY DEF RowsOf, RowOf
    <3> QED
      BY <1>2, <1>5, <3>1, <3>2
  <2> QED
    BY <1>2, <1>3, <1>5, <2>2, <2>3, <2>4
<1> QED
  BY <1>4, <1>5, NamesAre

\* After a row was appended, and the history left alone.
LEMMA AfterAppend ==
  ASSUME IInv, at.pc \in Running, ColumnsStay, StoreOK', file' = file, slot' = slot,
         UNCHANGED <<has_tables, table_cache, statements, history>>,
         at' \in AtType, at'.table = at.table, at'.columns = at.columns,
         at'.pc \in Writing \union {"wild"},
         at'.pc \in {"put", "seed"} => file[at.table].last > 0 /\ InUse(at.table),
         at'.pc = "column" /\ at'.i > 1 => ~file[COLUMNS].closed,
         at'.pc \in Writing \ {"column", "rollback"} => ~file[COLUMNS].closed,
         at'.pc \notin {"get_new", "put"},
         at'.pc \in Writing => COLUMNS \in table_cache
  PROVE  AtOK' /\ CacheOK' /\ OpenOK' /\ HistoryOK' /\ AnsweredOK'
<1>1. /\ has_tables' = has_tables /\ table_cache' = table_cache /\ statements' = statements
      /\ acked' = acked /\ cut' = cut /\ acked_columns' = acked_columns
  BY DEF history
<1>0. /\ at.table \in Name /\ table_cache \subseteq Name /\ TABLES \in table_cache
      /\ has_tables = TRUE /\ Attached(TABLES) /\ at.columns # <<>> /\ HandlesOK
      /\ \A n \in Name : (~file[n].closed => InUse(n)) /\ (file[n].closed => New(n))
  BY RunFacts
<1>2. AtOK' /\ CacheOK'
  <2>1. at'.pc \notin Booting \union {"boot_end", "down", "open_tables", "insert_table"}
    BY DEF Booting, Writing
  <2>2. AtOK'
    BY <1>0, <2>1 DEF AtOK, Writing
  <2> QED
    BY <1>0, <1>1, <2>1, <2>2 DEF CacheOK
<1>3. HistoryOK'
  BY <1>1 DEF IInv, HistoryOK
<1>4. AnsweredOK'
  BY <1>1, AnsweredStays DEF IInv
<1>5. \A n \in Name : file'[n] = file[n] /\ AsBefore(n)
  BY SameObjects
<1>6. InUse(at.table)' <=> InUse(at.table)
  BY DEF InUse, WithoutHandle, Attached, Files!Attached
<1>7. OpenOK'
  <2>1. has_tables' = TRUE /\ at'.pc \in Running \union {"ready", "wild"}
    BY <1>0, <1>1 DEF Running
  <2>2. /\ Attached(TABLES)'
        /\ \A n \in Name : ~file'[n].closed => InUse(n)'
        /\ \A n \in Name : file'[n].closed => New(n)'
    BY <1>0, <1>5, NamesAre DEF AsBefore
  <2>3. /\ at'.pc \in {"get_new", "put", "seed"} => InUse(at.table)'
        /\ at'.pc \in {"put", "seed"} => file'[at'.table].last > 0
        /\ at'.pc # "put"
        /\ at'.pc = "column" /\ at'.i > 1 => ~file'[COLUMNS].closed
        /\ at'.pc \in Writing \ {"column", "rollback"} => ~file'[COLUMNS].closed
    BY <1>6
  <2>4. HandlesOK'
    BY <1>0, <1>1, HandlesStay
  <2> QED
    BY <2>1, <2>2, <2>3, <2>4, RunOpen
<1> QED
  BY <1>2, <1>3, <1>4, <1>7

LEMMA InsertTableStep ==
  ASSUME IInv, WritesSucceed, InsertTable
  PROVE  IInv'
<1>0. PICK t \in Name : t = at.table
  BY RunFacts DEF InsertTable, Running
<1>1. at.pc = "insert_table" /\ at.pc \in Running /\ at.pc \notin Writing
  BY DEF InsertTable, Running, Writing
<1> DEFINE row == <<t>>
<1>2. row \in Cell /\ row # Deleted /\ 1 \in DOMAIN row
  BY CellsAre
<1>3. SelectWhere(TABLES, Where(row)) = {}
  BY <1>2, NamesAre, NothingMatches
<1>4. PICK new : new = <<file[TABLES].last, Len(Page(TABLES, file[TABLES].last)) + 1>>
  OBVIOUS
<1>5. InsertRow(TABLES, row,
        [at EXCEPT !.pc = IF COLUMNS \in table_cache THEN "column" ELSE "wild", !.handle = new])
  BY <1>0, <1>3, <1>4 DEF InsertTable
<1> HIDE DEF row
<1>9. CASE SeesOverrun(TABLES) /\ GoWild
  <2>1. OverrunOnDisk(TABLES)
    BY <1>1, <1>9, RunFacts, NamesAre, PageOverrun DEF SeesOverrun
  <2> QED
    BY <1>1, <1>9, <2>1, NamesAre, GoWildStep
<1>6. CASE ~HasBlock(TABLES, file[TABLES].last) /\ GoWild
  BY <1>1, <1>6, RunFacts, NamesAre, NoBlock, GoWildStep
<1>7. CASE Stop
  BY <1>1, <1>7, RunFacts, StopStep
<1>8. CASE /\ HasBlock(TABLES, file[TABLES].last)
           /\ AppendRow(TABLES, row)
           /\ at' = [at EXCEPT !.pc = IF COLUMNS \in table_cache THEN "column" ELSE "wild", !.handle = new]
           /\ UNCHANGED <<has_tables, table_cache, statements, history>>
  <2>1. /\ StoreOK' /\ file' = file /\ slot' = slot /\ ColumnsStay
        /\ \A u : RowsOf(u)' = IF row = <<u>> THEN RowsOf(u) \union {new} ELSE RowsOf(u)
        /\ new \notin StoredRows(TABLES) /\ new \in StoredRows(TABLES)'
        /\ RowOf(TABLES, new)' = row
    BY <1>1, <1>2, <1>4, <1>8, RunFacts, NamesAre, AppendKeeps
  <2>2. new \in Nat \X Nat
    <3>1. /\ file[TABLES].last \in Nat /\ file[TABLES].last \in 1 .. file[TABLES].last
          /\ TABLES \in DOMAIN dbs /\ DOMAIN dbs[TABLES] = 1 .. file[TABLES].last
          /\ Page(TABLES, file[TABLES].last) = dbs[TABLES][file[TABLES].last]
      BY <1>1, <1>8, RunFacts, NamesAre, AttachedFacts, SelectIs
    <3>2. Page(TABLES, file[TABLES].last) \in Pages
      BY <1>1, <3>1, RunFacts, StoreFacts
    <3>3. Len(Page(TABLES, file[TABLES].last)) \in Nat
      BY <3>2 DEF Pages
    <3> QED
      BY <1>4, <3>1, <3>3
  <2>3. /\ at' \in AtType /\ at'.table = t /\ at'.handle = new /\ at'.i = 1
        /\ at'.columns = at.columns
        /\ at'.pc = IF COLUMNS \in table_cache THEN "column" ELSE "wild"
    BY <1>0, <1>1, <1>8, <2>2, RunFacts DEF AtType, Places, Writing
  <2>4. AtOK' /\ CacheOK' /\ OpenOK' /\ HistoryOK' /\ AnsweredOK'
    BY <1>0, <1>1, <1>8, <2>1, <2>3, AfterAppend DEF Writing
  <2>5. StatementOK'
    <3>1. \A j \in DOMAIN at'.columns : ~(j < at'.i)
      BY <2>3 DEF AtType
    <3>2. at'.handle \in StoredRows(TABLES)' /\ RowOf(TABLES, at.handle)' = <<at'.table>>
      BY <2>1, <2>3 DEF row, RowOf
    <3> QED
      BY <2>3, <3>1, <3>2 DEF StatementOK, Writing
  <2>6. /\ acked' = acked /\ cut' = cut /\ table_cache' = table_cache
    BY <1>8 DEF history
  <2>7. ASSUME NEW u \in User
        PROVE  /\ IsFiniteSet(RowsOf(u)')
               /\ Cardinality(RowsOf(u)') = acked[u] + cut[u] + (IF t = u THEN 1 ELSE 0)
    <3>1. IsFiniteSet(RowsOf(u)) /\ Cardinality(RowsOf(u)) = acked[u] + cut[u] + 0
      BY <1>1 DEF IInv, RowsFinite, RowsCounted, Pending
    <3>2. u \in Name /\ acked[u] \in Nat /\ cut[u] \in Nat
      BY NamesAre DEF IInv, HistoryOK
    <3>3. CASE t = u
      <4>1. RowsOf(u)' = RowsOf(u) \union {new}
        BY <2>1, <3>3 DEF row
      <4>2. new \notin RowsOf(u)
        BY <2>1 DEF RowsOf
      <4> QED
        BY <3>1, <3>2, <3>3, <4>1, <4>2, FS_AddElement
    <3>4. CASE t # u
      <4>1. RowsOf(u)' = RowsOf(u)
        BY <2>1, <3>4 DEF row
      <4> QED
        BY <3>1, <3>4, <4>1
    <3> QED
      BY <3>3, <3>4
  <2>8. RowsFinite' /\ RowsCounted'
    BY <2>3, <2>6, <2>7 DEF RowsFinite, RowsCounted, Pending
  <2>9. DefinedUnlessDamaged'
    BY <2>3, <2>6, NamesAre DEF DefinedUnlessDamaged
  <2> QED
    BY <2>1, <2>4, <2>5, <2>8, <2>9 DEF IInv
<1> QED
  BY <1>5, <1>6, <1>7, <1>8, <1>9 DEF InsertRow

\* A row inserted into a schema table by a statement that has its row in _tables:
\* a column's, or one of those that create() adds.
LEMMA InsertStep ==
  ASSUME IInv, WritesSucceed, at.pc \in {"column", "seed"},
         NEW n \in SchemaTables, Attached(n), NEW row \in Cell, row # Deleted,
         n = TABLES => \A u \in User : row # <<u>>,
         at.pc = "column" => n = COLUMNS /\ row = <<at.table, at.columns[at.i].name>>,
         InsertRow(n, row, [at EXCEPT !.i = at.i + 1])
  PROVE  IInv'
<1>1. at.pc \in Running /\ at.pc \in Writing /\ n \in Name
  BY NamesAre DEF Running, Writing
<1>5. CASE SeesOverrun(n) /\ GoWild
  <2>1. OverrunOnDisk(n)
    BY <1>1, <1>5, RunFacts, PageOverrun DEF SeesOverrun
  <2> QED
    BY <1>1, <1>5, <2>1, GoWildStep
<1>2. CASE ~HasBlock(n, file[n].last) /\ GoWild
  BY <1>1, <1>2, RunFacts, NoBlock, GoWildStep
<1>3. CASE Stop
  BY <1>1, <1>3, RunFacts, StopStep
<1>4. CASE /\ HasBlock(n, file[n].last)
           /\ AppendRow(n, row)
           /\ at' = [at EXCEPT !.i = at.i + 1]
           /\ UNCHANGED <<has_tables, table_cache, statements, history>>
  <2>1. PICK new : new = <<file[n].last, Len(Page(n, file[n].last)) + 1>>
    OBVIOUS
  <2>2. /\ StoreOK' /\ file' = file /\ slot' = slot /\ ColumnsStay /\ Stored(n, row)'
        /\ \A t : RowsOf(t)' = IF n = TABLES /\ row = <<t>> THEN RowsOf(t) \union {new}
                                                          ELSE RowsOf(t)
        /\ \A h \in StoredRows(TABLES) :
             h \in StoredRows(TABLES)' /\ RowOf(TABLES, h)' = RowOf(TABLES, h)
    <3>1. StoreOK
      BY <1>1, RunFacts
    <3> QED
      BY <1>4, <2>1, <3>1, AppendKeeps
  <2>3. /\ at' \in AtType /\ at'.pc = at.pc /\ at'.table = at.table
        /\ at'.columns = at.columns /\ at'.i = at.i + 1 /\ at'.handle = at.handle
        /\ at.i \in Nat
    <3>1. at \in AtType
      BY <1>1, RunFacts
    <3> QED
      BY <1>4, <3>1 DEF AtType
  <2>4. AtOK' /\ CacheOK' /\ OpenOK' /\ HistoryOK' /\ AnsweredOK'
    <3>1. at.pc = "seed" => file[at.table].last > 0 /\ InUse(at.table)
      BY DEF IInv, OpenOK
    <3>4. ~file[COLUMNS].closed
      <4>1. at.pc = "column" => ~file[COLUMNS].closed
        BY AttachedFacts, NamesAre DEF IInv
      <4>2. at.pc = "seed" => ~file[COLUMNS].closed
        BY <1>1, RunFacts
      <4> QED
        BY <4>1, <4>2
    <3>2. at.pc \in Writing => COLUMNS \in table_cache
      BY <1>1, RunFacts
    <3>3. /\ at'.pc \in Writing \union {"wild"} /\ at'.pc \notin {"get_new", "put"}
          /\ at'.pc \in {"put", "seed"} => file[at.table].last > 0 /\ InUse(at.table)
      BY <1>1, <2>3, <3>1
    <3> QED
      BY <1>1, <1>4, <2>2, <2>3, <3>2, <3>3, <3>4, AfterAppend
  <2>5. \A row_1 : Stored(COLUMNS, row_1) => Stored(COLUMNS, row_1)'
    BY <2>2, ColumnsStored
  <2>6. StatementOK'
    <3>1. CASE at.pc = "column"
      <4>1. /\ at.handle \in StoredRows(TABLES) /\ RowOf(TABLES, at.handle) = <<at.table>>
            /\ \A j \in DOMAIN at.columns :
                 j < at.i => Stored(COLUMNS, <<at.table, at.columns[j].name>>)
        BY <3>1 DEF IInv, StatementOK
      <4>2. at'.handle \in StoredRows(TABLES)' /\ RowOf(TABLES, at.handle)' = <<at'.table>>
        <5>1. PICK h : h = at.handle
          OBVIOUS
        <5>2. h \in StoredRows(TABLES)' /\ RowOf(TABLES, h)' = <<at.table>>
          BY <2>2, <4>1, <5>1
        <5> QED
          BY <2>3, <5>1, <5>2 DEF RowOf
      <4>0. at.columns \in Seq([name : STRING, ok : BOOLEAN]) /\ DOMAIN at.columns \subseteq Nat
        <5>1. at \in AtType
          BY <1>1, RunFacts
        <5>2. at.columns \in Seq([name : STRING, ok : BOOLEAN])
          BY <5>1 DEF AtType
        <5> QED
          BY <5>2
      <4>3. ASSUME NEW j \in DOMAIN at.columns, j < at.i + 1
            PROVE  Stored(COLUMNS, <<at.table, at.columns[j].name>>)'
        <5>1. j \in Nat
          BY <4>0
        <5>2. PICK row_1 : row_1 = <<at.table, at.columns[j].name>>
          OBVIOUS
        <5>3. Stored(COLUMNS, row_1)'
          <6>1. CASE j < at.i
            BY <2>5, <4>1, <5>2, <6>1
          <6>2. CASE j = at.i
            BY <2>2, <3>1, <5>2, <6>2
          <6> QED
            BY <2>3, <4>3, <5>1, <6>1, <6>2
        <5> QED
          BY <2>3, <5>2, <5>3 DEF Stored, RowOf
      <4> QED
        BY <2>3, <3>1, <4>2, <4>3 DEF StatementOK, Writing, Stored, RowOf
    <3>2. CASE at.pc = "seed"
      <4>1. \A j \in DOMAIN at.columns : Stored(COLUMNS, <<at.table, at.columns[j].name>>)
        BY <3>2 DEF IInv, StatementOK, Writing
      <4>2. \A j \in DOMAIN at'.columns : Stored(COLUMNS, <<at.table, at.columns[j].name>>)'
        BY <2>3, <2>5, <4>1 DEF Stored, RowOf
      <4> QED
        BY <2>3, <3>2, <4>2 DEF StatementOK
    <3> QED
      BY <3>1, <3>2
  <2>7. acked' = acked /\ cut' = cut
    BY <1>4 DEF history
  <2>8. \A u \in User : RowsOf(u)' = RowsOf(u)
    BY <2>2
  <2>9. RowsFinite' /\ RowsCounted'
    BY <1>1, <2>3, <2>7, <2>8 DEF IInv, RowsFinite, RowsCounted, Pending
  <2>10. DefinedUnlessDamaged'
    BY <2>3 DEF DefinedUnlessDamaged
  <2> QED
    BY <2>2, <2>4, <2>6, <2>9, <2>10 DEF IInv
<1> QED
  BY <1>2, <1>3, <1>4, <1>5 DEF InsertRow

\* The columns' table is open, when the statement has got to a column and no
\* exception has been thrown for it.
LEMMA InsertColumnStep ==
  ASSUME IInv, WritesSucceed, InsertColumn
  PROVE  IInv'
<1>1. /\ at.pc = "column" /\ at.pc \in Running /\ at.i <= Len(at.columns) /\ ~file[COLUMNS].closed
      /\ InsertRow(COLUMNS, <<at.table, at.columns[at.i].name>>, [at EXCEPT !.i = at.i + 1])
  BY DEF InsertColumn, MoreColumns, NextColumn, Running, Writing
<1>2. at.table \in Name /\ at \in AtType /\ Attached(COLUMNS)
  BY <1>1, RunFacts, NamesAre, SchemaInUse
<1>3. at.columns[at.i].name \in STRING
  <2>1. at.columns \in Seq([name : STRING, ok : BOOLEAN]) /\ at.i \in Nat \ {0}
    BY <1>2 DEF AtType
  <2>2. at.i \in 1 .. Len(at.columns)
    BY <1>1, <2>1
  <2>3. at.columns[at.i] \in [name : STRING, ok : BOOLEAN]
    BY <2>1, <2>2, ElementIs
  <2> QED
    BY <2>3
<1>4. /\ <<at.table, at.columns[at.i].name>> \in Cell
      /\ <<at.table, at.columns[at.i].name>> # Deleted
  BY <1>2, <1>3, CellsAre
<1> QED
  BY <1>1, <1>2, <1>4, NamesAre, InsertStep

\* The rows that create() adds are of schema tables.
LEMMA SeedsAre ==
  ASSUME NEW t \in Name, NEW i \in 1 .. Len(Seeds(t))
  PROVE  /\ t \in SchemaTables
         /\ Seeds(t)[i] \in Cell /\ Seeds(t)[i] # Deleted /\ 1 \in DOMAIN Seeds(t)[i]
         /\ t = TABLES => \A u \in User : Seeds(t)[i] # <<u>>
<1>1. CASE t = TABLES
  <2>1. Seeds(t) = <<<<TABLES>>, <<COLUMNS>>>>
    BY <1>1, NamesAre DEF Seeds
  <2>2. i \in {1, 2}
    BY <2>1
  <2>3. Seeds(t)[i] \in {<<TABLES>>, <<COLUMNS>>}
    BY <2>1, <2>2
  <2>4. \A u \in User : <<u>> # <<TABLES>> /\ <<u>> # <<COLUMNS>>
    BY NamesAre
  <2>5. /\ Seeds(t)[i] \in Cell /\ Seeds(t)[i] # Deleted /\ 1 \in DOMAIN Seeds(t)[i]
    BY <2>3, NamesAre, CellsAre
  <2>6. \A u \in User : Seeds(t)[i] # <<u>>
    BY <2>3, <2>4
  <2> QED
    BY <1>1, <2>5, <2>6, NamesAre
<1>2. CASE t = COLUMNS
  <2>1. Seeds(t) = <<<<TABLES, "table_name">>, <<COLUMNS, "table_name">>,
                     <<COLUMNS, "column_name">>, <<COLUMNS, "data_type">>>>
    BY <1>2, NamesAre DEF Seeds
  <2>2. i \in {1, 2, 3, 4}
    BY <2>1
  <2>3. Seeds(t)[i] \in {<<TABLES, "table_name">>, <<COLUMNS, "table_name">>,
                         <<COLUMNS, "column_name">>, <<COLUMNS, "data_type">>}
    BY <2>1, <2>2
  <2>4. /\ "table_name" \in STRING /\ "column_name" \in STRING /\ "data_type" \in STRING
    BY Literals
  <2> QED
    BY <1>2, <2>3, <2>4, NamesAre, CellsAre
<1>3. CASE t \notin SchemaTables
  <2>1. Seeds(t) = <<>>
    BY <1>3 DEF Seeds, SchemaTables
  <2> QED
    BY <2>1
<1> QED
  BY <1>1, <1>2, <1>3, NamesAre

LEMMA SeedStep ==
  ASSUME IInv, WritesSucceed, Seed
  PROVE  IInv'
<1>1. at.pc = "seed" /\ at.pc \in Running /\ at.i <= Len(Seeds(at.table))
  BY DEF Seed, Running, Writing
<1>2. at.table \in Name /\ at.i \in Nat \ {0}
  BY <1>1, RunFacts DEF AtType
<1>3. Len(Seeds(at.table)) \in Nat
  BY DEF Seeds
<1>4. PICK row : row = Seeds(at.table)[at.i]
  OBVIOUS
<1>5. /\ at.table \in SchemaTables
      /\ row \in Cell /\ row # Deleted /\ 1 \in DOMAIN row
      /\ at.table = TABLES => \A u \in User : row # <<u>>
  BY <1>1, <1>2, <1>3, <1>4, SeedsAre
<1>6. InsertRow(at.table, row, [at EXCEPT !.i = at.i + 1])
  BY <1>2, <1>4, <1>5, NothingMatches DEF Seed
<1>7. Attached(at.table)
  BY <1>1, <1>5, SchemaInUse DEF IInv, OpenOK
<1> QED
  BY <1>1, <1>5, <1>6, <1>7, InsertStep

-----------------------------------------------------------------------------
(***************************************************************************)
(* A statement goes on without storing or deleting a row.                  *)
(***************************************************************************)

\* What is to be shown of such a step.
LEMMA WritingStep ==
  ASSUME IInv, at.pc \in Writing, UNCHANGED <<has_tables, statements, history>>,
         table_cache \subseteq table_cache', table_cache' \subseteq Name,
         StoreOK', Kept, \A n \in Name : SameRows(n),
         at' \in AtType, at'.pc \in Writing, at'.table = at.table, at'.columns = at.columns,
         at'.pc \in {"column", "rollback"} =>
           at.pc = "column" /\ at'.i = at.i /\ at'.handle = at.handle,
         at'.pc \notin {"column", "rollback"} /\ at.pc \in {"column", "rollback"} =>
           at.pc = "column" /\ at.i > Len(at.columns),
         \A n \in Name : ~file'[n].closed => InUse(n)',
         \A n \in Name : file'[n].closed => New(n)',
         Attached(TABLES)', HandlesOK',
         at'.pc \in {"get_new", "put", "seed"} => InUse(at.table)',
         at'.pc \in {"put", "seed"} => file'[at'.table].last > 0,
         at'.pc = "put" /\ Attached(at.table)' => dbs'[at'.table][file'[at'.table].last] = <<>>,
         file'[COLUMNS].closed => file[COLUMNS].closed
  PROVE  IInv'
<1>0. /\ has_tables' = has_tables /\ statements' = statements /\ UNCHANGED history
      /\ at.pc \in Running /\ at'.pc \in Running
  BY DEF Running
<1>1. /\ has_tables = TRUE /\ statements \in 0 .. MAX_STATEMENTS /\ at.table \in Name
      /\ TABLES \in table_cache /\ COLUMNS \in table_cache /\ at.pc # "wild"
      /\ at \in AtType /\ at.columns # <<>>
  BY <1>0, RunFacts
<1>2. at'.pc \notin Booting \union {"boot_end", "down", "open_tables", "insert_table", "wild"}
  BY DEF Booting, Writing
<1>3. /\ RowsInv'
      /\ \A row : Stored(COLUMNS, row) => Stored(COLUMNS, row)'
      /\ \A h \in StoredRows(TABLES) :
           h \in StoredRows(TABLES)' /\ RowOf(TABLES, h)' = RowOf(TABLES, h)
  BY <1>0, <1>1, <1>2, QuietStep
<1>4. AtOK' /\ CacheOK'
  <2>1. AtOK'
    BY <1>1, <1>2 DEF AtOK, Writing
  <2> QED
    BY <1>1, <1>2, <2>1 DEF CacheOK
<1>6. /\ DOMAIN at.columns = 1 .. Len(at.columns) /\ at.i \in Nat /\ Len(at.columns) \in Nat
      /\ Len(at.columns) > 0
  <2>1. at.columns \in Seq([name : STRING, ok : BOOLEAN]) /\ at.i \in Nat
    BY <1>1 DEF AtType
  <2> QED
    BY <1>1, <2>1
<1>5. OpenOK'
  <2>1. at'.pc = "column" /\ at'.i > 1 => ~file'[COLUMNS].closed
    BY <1>0, RunFacts
  <2>2. ASSUME at'.pc \notin {"column", "rollback"}
        PROVE  ~file'[COLUMNS].closed
    <3>1. CASE at.pc \in {"column", "rollback"}
      <4>1. at.pc = "column" /\ at.i > Len(at.columns)
        BY <2>2, <3>1
      <4>2. at.i > 1
        BY <1>6, <4>1
      <4> QED
        BY <1>0, <4>1, <4>2, RunFacts
    <3>2. CASE at.pc \notin {"column", "rollback"}
      BY <1>0, <3>2, RunFacts
    <3> QED
      BY <3>1, <3>2
  <2> QED
    BY <1>0, <1>1, <2>1, <2>2, RunOpen
<1>7. ASSUME NEW j \in DOMAIN at.columns, Stored(COLUMNS, <<at.table, at.columns[j].name>>)
      PROVE  \E h \in StoredRows(COLUMNS)' : dbs'[COLUMNS][h[1]][h[2]] = <<at.table, at.columns[j].name>>
  <2>1. PICK row : row = <<at.table, at.columns[j].name>>
    OBVIOUS
  <2>2. Stored(COLUMNS, row)'
    BY <1>3, <1>7, <2>1
  <2> QED
    BY <2>1, <2>2 DEF Stored, RowOf
<1>8. StatementOK'
  <2>1. CASE at'.pc \in {"column", "rollback"}
    <3>1. /\ at.handle \in StoredRows(TABLES) /\ RowOf(TABLES, at.handle) = <<at.table>>
          /\ \A j \in DOMAIN at.columns : j < at.i => Stored(COLUMNS, <<at.table, at.columns[j].name>>)
      BY <2>1 DEF IInv, StatementOK
    <3>2. PICK h : h = at.handle
      OBVIOUS
    <3>3. h \in StoredRows(TABLES)' /\ dbs'[TABLES][h[1]][h[2]] = <<at.table>>
      BY <1>3, <3>1, <3>2 DEF RowOf
    <3> QED
      BY <1>7, <2>1, <3>1, <3>2, <3>3 DEF StatementOK, Stored, RowOf
  <2>2. CASE at'.pc \notin {"column", "rollback"}
    <3>1. \A j \in DOMAIN at.columns : Stored(COLUMNS, <<at.table, at.columns[j].name>>)
      <4>1. CASE at.pc \in {"column", "rollback"}
        <5>1. at.pc = "column" /\ at.i > Len(at.columns)
          BY <2>2, <4>1
        <5>2. \A j \in DOMAIN at.columns : j < at.i => Stored(COLUMNS, <<at.table, at.columns[j].name>>)
          BY <5>1 DEF IInv, StatementOK
        <5> QED
          BY <1>6, <5>1, <5>2
      <4>2. CASE at.pc \notin {"column", "rollback"}
        BY <4>2 DEF IInv, StatementOK
      <4> QED
        BY <4>1, <4>2
    <3> QED
      BY <1>7, <2>2, <3>1 DEF StatementOK, Stored, RowOf
  <2> QED
    BY <2>1, <2>2
<1> QED
  BY <1>3, <1>4, <1>5, <1>8 DEF IInv, RowsInv

\* The objects and their rows stay as they are.
LEMMA StillStep ==
  ASSUME IInv, at.pc \in Writing, UNCHANGED <<disk, memory>>, NEW pc \in Places, GoTo(pc),
         \/ pc \in {"column", "rollback"} /\ at.pc = "column"
         \/ pc = "get_new" /\ at.pc = "create" /\ InUse(at.table)
  PROVE  IInv'
<1>1. /\ UNCHANGED disk /\ dbs' = dbs /\ file' = file /\ has_tables' = has_tables
      /\ table_cache' = table_cache /\ statements' = statements /\ UNCHANGED history
  BY DEF disk, memory
<1>2. at.pc \in Running
  BY DEF Running
<1>3. /\ StoreOK /\ at \in AtType /\ table_cache \subseteq Name /\ Attached(TABLES)
      /\ \A n \in Name : (~file[n].closed => InUse(n)) /\ (file[n].closed => New(n))
      /\ at.table \in Name /\ HandlesOK
  BY <1>2, RunFacts
<1>4. StoreOK' /\ Kept /\ \A n \in Name : SameRows(n)
  BY <1>1, <1>3, SameStore
<1>5. \A n \in Name : file'[n] = file[n] /\ AsBefore(n)
  BY <1>1, SameObjects
<1>6. /\ at' \in AtType /\ at'.pc = pc
      /\ at'.table = at.table /\ at'.columns = at.columns /\ at'.i = at.i
      /\ at'.handle = at.handle
  BY <1>3, GoToIs
<1>7. pc \in Writing /\ pc \notin {"put", "seed"}
  BY DEF Writing
<1>8. at'.pc = "get_new" => InUse(at.table)'
  <2>1. pc = "get_new" => InUse(at.table)
    OBVIOUS
  <2> QED
    BY <1>1, <1>6, <2>1 DEF InUse, WithoutHandle, Attached, Files!Attached
<1>9. HandlesOK'
  BY <1>1, <1>3, HandlesStay DEF disk
<1>10. /\ \A n \in Name : ~file'[n].closed => InUse(n)'
       /\ \A n \in Name : file'[n].closed => New(n)'
       /\ Attached(TABLES)'
  BY <1>3, <1>5, NamesAre DEF AsBefore
<1> QED
  BY <1>1, <1>3, <1>4, <1>6, <1>7, <1>8, <1>9, <1>10, WritingStep

LEMMA RejectColumnStep ==
  ASSUME IInv, RejectColumn
  PROVE  IInv'
<1>1. /\ at.pc = "column" /\ at.pc \in Writing /\ "rollback" \in Places
      /\ UNCHANGED <<disk, memory>> /\ GoTo("rollback")
  BY DEF RejectColumn, MoreColumns, Writing, Places
<1> QED
  BY <1>1, StillStep

LEMMA OpenColumnsStep ==
  ASSUME IInv, WritesSucceed, SchemaHandles, OpenColumns
  PROVE  IInv'
<1>1. at.pc = "column" /\ at.pc \in Running /\ at.pc \in Writing /\ file[COLUMNS].closed
  BY DEF OpenColumns, MoreColumns, Running, Writing
<1>2. /\ StoreOK /\ at \in AtType /\ table_cache \subseteq Name /\ Attached(TABLES)
      /\ \A n \in Name : (~file[n].closed => InUse(n)) /\ (file[n].closed => New(n))
      /\ at.pc # "wild" /\ has_tables = TRUE /\ HandlesOK
  BY <1>1, RunFacts
<1>3. CASE Stop
  BY <1>2, <1>3, StopStep
<1>4. CASE Files!DbOpen(COLUMNS, FALSE) /\ UNCHANGED <<at, memory>>
  <2>1. New(COLUMNS)
    BY <1>1, <1>2, NamesAre
  <2>0. FindsHandle(COLUMNS)
    BY <1>1, <1>2, NamesAre, SchemaHandleLeft
  <2>2. /\ StoreOK' /\ Attached(COLUMNS)' /\ Opened(COLUMNS)
        /\ \A m \in Name \ {COLUMNS} : file'[m] = file[m]
        /\ \A h \in Files!Dbi : slot'[h] \in {slot[h], COLUMNS}
    BY <1>2, <1>4, <2>0, <2>1, NamesAre, OpenCall
  <2>3. Kept /\ \A m \in Name : SameRows(m)
    BY <1>2, <2>2, NamesAre, OpenRows
  <2>4. \A m \in Name \ {COLUMNS} :
          AsBefore(m) /\ file'[m] = file[m]
    BY <2>2 DEF AsBefore, New, InUse, WithoutHandle, Attached, Files!Attached
  <2>5. ~file'[COLUMNS].closed /\ InUse(COLUMNS)'
    BY <2>2 DEF InUse, Attached, Files!Attached
  <2>6. /\ \A n \in Name : ~file'[n].closed => InUse(n)'
        /\ \A n \in Name : file'[n].closed => New(n)'
        /\ Attached(TABLES)'
    BY <1>2, <2>2, <2>4, <2>5, NamesAre DEF AsBefore
  <2>7. /\ at' = at /\ has_tables' = has_tables /\ table_cache' = table_cache
        /\ statements' = statements /\ UNCHANGED history
    BY <1>4 DEF memory
  <2>8. HandlesOK'
    BY <1>2, <2>2, <2>5, <2>7, NamesAre, HandlesOpen
  <2>9. at'.pc \notin {"get_new", "put", "seed"}
    BY <1>1, <2>7
  <2> QED
    BY <1>1, <1>2, <2>2, <2>3, <2>5, <2>6, <2>7, <2>8, <2>9, WritingStep
<1> QED
  BY <1>3, <1>4 DEF OpenColumns

LEMMA GetTableStep ==
  ASSUME IInv, GetTable
  PROVE  IInv'
<1>1. /\ at.pc = "column" /\ at.pc \in Running /\ at.pc \in Writing /\ at.i > Len(at.columns)
      /\ GoTo("create") /\ "create" \in Places /\ "create" \in Writing
      /\ dbs' = dbs /\ slot' = slot
      /\ has_tables' = has_tables /\ statements' = statements /\ UNCHANGED history
  BY DEF GetTable, Running, Writing, Places
<1>2. /\ StoreOK /\ at \in AtType /\ table_cache \subseteq Name /\ Attached(TABLES)
      /\ \A n \in Name : (~file[n].closed => InUse(n)) /\ (file[n].closed => New(n))
      /\ at.table \in Name /\ TABLES \in table_cache
  BY <1>1, RunFacts
<1>8. HandlesOK /\ COLUMNS \in table_cache
  BY <1>1, RunFacts
<1>3. /\ at' \in AtType /\ at'.pc = "create" /\ at'.table = at.table /\ at'.columns = at.columns
  BY <1>1, <1>2, GoToIs
<1>4. PICK n \in Name : n = at.table
  BY <1>2
<1>5. Kept /\ \A m \in Name : SameRows(m)
  BY <1>1, <1>2, UnchangedRows
<1>6. CASE n \in table_cache
  <2>1. file' = file /\ table_cache' = table_cache
    BY <1>4, <1>6 DEF GetTable
  <2>2. StoreOK'
    BY <1>1, <1>2, <2>1, SameStore DEF disk
  <2>3. \A m \in Name : file'[m] = file[m] /\ AsBefore(m)
    BY <2>1, SameObjects
  <2>4. /\ \A m \in Name : ~file'[m].closed => InUse(m)'
        /\ \A m \in Name : file'[m].closed => New(m)'
        /\ Attached(TABLES)'
    BY <1>2, <2>3, NamesAre DEF AsBefore
  <2>5. HandlesOK'
    BY <1>1, <1>8, <2>1, HandlesStay
  <2> QED
    BY <1>1, <1>2, <1>3, <1>5, <2>1, <2>2, <2>4, <2>5, WritingStep
<1>7. CASE n \notin table_cache
  <2>1. /\ file' = [file EXCEPT ![n] = Files!NewFile(n)]
        /\ table_cache' = table_cache \union {n}
    BY <1>4, <1>7 DEF GetTable
  <2>2. StoreOK'
    BY <1>1, <1>2, <2>1, NewCall
  <2>3. New(n)' /\ file'[n].closed /\ \A m \in Name \ {n} : file'[m] = file[m]
    BY <1>2, <2>1, StoreFacts DEF New, Files!NewFile
  <2>4. \A m \in Name \ {n} : AsBefore(m)
    BY <2>3 DEF AsBefore, New, InUse, WithoutHandle, Attached, Files!Attached
  <2>5. n # TABLES
    BY <1>2, <1>7
  <2>6. /\ \A m \in Name : ~file'[m].closed => InUse(m)'
        /\ \A m \in Name : file'[m].closed => New(m)'
        /\ Attached(TABLES)'
    BY <1>2, <2>3, <2>4, <2>5, NamesAre DEF AsBefore
  <2>8. file'[COLUMNS] = file[COLUMNS]
    BY <1>7, <1>8, <2>3, NamesAre
  <2>9. HandlesOK'
    BY <1>1, <1>8, <2>8, HandlesStay
  <2>7. table_cache \subseteq table_cache' /\ table_cache' \subseteq Name
    BY <1>2, <2>1
  <2> QED
    BY <1>1, <1>2, <1>3, <1>5, <2>2, <2>6, <2>7, <2>8, <2>9, WritingStep
<1> QED
  BY <1>6, <1>7

LEMMA CreateFileStep ==
  ASSUME IInv, WritesSucceed, CreateFile
  PROVE  IInv'
<1>1. /\ at.pc = "create" /\ at.pc \in Running /\ at.pc \in Writing
      /\ GoTo("get_new") /\ UNCHANGED memory /\ "get_new" \in Places /\ "get_new" \in Writing
  BY DEF CreateFile, Running, Writing, Places
<1>2. /\ StoreOK /\ at \in AtType /\ table_cache \subseteq Name /\ Attached(TABLES)
      /\ \A m \in Name : (~file[m].closed => InUse(m)) /\ (file[m].closed => New(m))
      /\ at.table \in Name
  BY <1>1, RunFacts
<1>6. HandlesOK /\ has_tables = TRUE /\ ~file[COLUMNS].closed
  BY <1>1, RunFacts
<1>3. PICK n \in Name : n = at.table
  BY <1>2
<1>4. CASE ~file[n].closed
  <2>1. UNCHANGED disk
    BY <1>3, <1>4 DEF CreateFile
  <2>2. InUse(at.table) /\ UNCHANGED <<disk, memory>>
    BY <1>1, <1>2, <1>3, <1>4, <2>1
  <2> QED
    BY <1>1, <2>2, StillStep
<1>5. CASE file[n].closed
  <2>1. /\ StoreOK' /\ InUse(n)' /\ ~file'[n].closed
        /\ \A m \in Name \ {n} : file'[m] = file[m]
        /\ \A h \in Files!Dbi : slot'[h] \in {slot[h], n}
        /\ Kept /\ \A m \in Name : SameRows(m)
    <3>1. New(n) /\ Files!DbOpen(n, TRUE) /\ n # COLUMNS /\ n # TABLES
      BY <1>2, <1>3, <1>5, <1>6, NamesAre DEF CreateFile, Attached, Files!Attached
    <3>2. CASE FindsHandle(n)
      <4>1. /\ StoreOK' /\ Attached(n)' /\ Opened(n)
            /\ \A m \in Name \ {n} : file'[m] = file[m]
            /\ \A h \in Files!Dbi : slot'[h] \in {slot[h], n}
        BY <1>2, <3>1, <3>2, OpenCall
      <4>2. Kept /\ \A m \in Name : SameRows(m)
        BY <1>2, <4>1, OpenRows
      <4>3. InUse(n)' /\ ~file'[n].closed
        BY <4>1 DEF InUse, Attached, Files!Attached
      <4> QED
        BY <4>1, <4>2, <4>3
    <3>3. CASE ~FindsHandle(n)
      <4>1. /\ StoreOK' /\ dbs' = dbs /\ slot' = slot
            /\ ~file'[n].closed /\ file'[n].dbi = 0
            /\ \A m \in Name \ {n} : file'[m] = file[m]
        BY <1>2, <3>1, <3>3, FullCall
      <4>2. Kept /\ \A m \in Name : SameRows(m)
        BY <1>2, <4>1, UnchangedRows
      <4>3. n \in User /\ ~EnoughHandles
        <5>1. /\ slot \in [Files!Dbi -> Name \union {Free}]
              /\ \A h, i \in Files!Dbi : slot[h] = slot[i] /\ slot[h] # Free => h = i
          BY <1>2, StoreFacts DEF StoreOK
        <5> QED
          BY <1>2, <3>1, <3>3, <5>1, HandleLeft DEF Name, SchemaTables
      <4>4. InUse(n)'
        BY <4>1, <4>3 DEF InUse, WithoutHandle
      <4> QED
        BY <4>1, <4>2, <4>4
    <3> QED
      BY <3>2, <3>3
  <2>3. \A m \in Name \ {n} : AsBefore(m) /\ file'[m] = file[m]
    BY <2>1 DEF AsBefore, New, InUse, WithoutHandle, Attached, Files!Attached
  <2>4. n # TABLES /\ n # COLUMNS
    BY <1>2, <1>5, <1>6 DEF Attached, Files!Attached
  <2>5. /\ \A m \in Name : ~file'[m].closed => InUse(m)'
        /\ \A m \in Name : file'[m].closed => New(m)'
        /\ Attached(TABLES)' /\ file'[COLUMNS] = file[COLUMNS]
    BY <1>2, <2>1, <2>3, <2>4, NamesAre DEF AsBefore
  <2>6. /\ at' \in AtType /\ at'.pc = "get_new" /\ at'.table = n
        /\ at'.columns = at.columns
    BY <1>1, <1>2, <1>3, GoToIs
  <2>7. InUse(at.table)'
    BY <2>1, <2>6 DEF InUse, WithoutHandle, Attached, Files!Attached
  <2>8. /\ has_tables' = has_tables /\ table_cache' = table_cache
        /\ statements' = statements /\ UNCHANGED history
    BY <1>1 DEF memory
  <2>9. HandlesOK'
    BY <1>6, <2>1, <2>5, <2>8, HandlesOpen
  <2> QED
    BY <1>1, <1>2, <1>3, <2>1, <2>5, <2>6, <2>7, <2>8, <2>9, WritingStep
<1> QED
  BY <1>4, <1>5

LEMMA GetNewStep ==
  ASSUME IInv, WritesSucceed, GetNew
  PROVE  IInv'
<1>1. /\ at.pc = "get_new" /\ at.pc \in Running /\ at.pc \in Writing
      /\ GoTo("put") /\ UNCHANGED memory /\ "put" \in Places /\ "put" \in Writing
  BY DEF GetNew, Running, Writing, Places
<1>2. /\ StoreOK /\ at \in AtType /\ table_cache \subseteq Name /\ Attached(TABLES)
      /\ \A m \in Name : (~file[m].closed => InUse(m)) /\ (file[m].closed => New(m))
      /\ at.table \in Name
  BY <1>1, RunFacts
<1>3. PICK n \in Name : n = at.table
  BY <1>2
<1>4. InUse(n) /\ HandlesOK
  BY <1>1, <1>3, RunFacts DEF IInv, OpenOK
<1>5. /\ StoreOK' /\ Kept /\ \A m \in Name : SameRows(m)
      /\ file' = [file EXCEPT ![n].last = file[n].last + 1] /\ slot' = slot
      /\ Attached(n) => dbs'[n][file[n].last + 1] = <<>>
  <2>1. Files!AllocateBlock(n)
    BY <1>3 DEF GetNew
  <2>2. CASE Attached(n)
    BY <1>2, <2>1, <2>2, AllocateCall, AllocateRows
  <2>3. CASE WithoutHandle(n)
    <3>1. /\ StoreOK' /\ dbs' = dbs /\ slot' = slot
          /\ file' = [file EXCEPT ![n].last = file[n].last + 1]
      BY <1>2, <2>1, <2>3, AllocateNothing
    <3>2. ~Attached(n)
      BY <2>3 DEF WithoutHandle, Attached, Files!Attached, Files!NoDbi
    <3> QED
      BY <1>2, <3>1, <3>2, UnchangedRows
  <2> QED
    BY <1>4, <2>2, <2>3 DEF InUse
<1>6. /\ file[n].last \in Nat
      /\ file'[n].closed = file[n].closed /\ file'[n].dbi = file[n].dbi
      /\ file'[n].last = file[n].last + 1
      /\ \A m \in Name \ {n} : file'[m] = file[m]
  BY <1>2, <1>5, StoreFacts
<1>7. \A m \in Name \ {n} : AsBefore(m)
  BY <1>6 DEF AsBefore, New, InUse, WithoutHandle, Attached, Files!Attached
<1>8. InUse(n)' /\ ~file'[n].closed /\ (Attached(n)' <=> Attached(n))
  BY <1>4, <1>6 DEF InUse, WithoutHandle, Attached, Files!Attached
<1>9. /\ \A m \in Name : ~file'[m].closed => InUse(m)'
      /\ \A m \in Name : file'[m].closed => New(m)'
      /\ Attached(TABLES)' /\ (file'[COLUMNS].closed => file[COLUMNS].closed)
  BY <1>2, <1>6, <1>7, <1>8, NamesAre DEF AsBefore
<1>10. /\ at' \in AtType /\ at'.pc = "put" /\ at'.table = n
       /\ at'.columns = at.columns
  BY <1>1, <1>2, <1>3, GoToIs
<1>11. InUse(at.table)'
  BY <1>8, <1>10 DEF InUse, WithoutHandle, Attached, Files!Attached
<1>12. /\ file'[at'.table].last > 0
       /\ Attached(at.table)' => dbs'[at'.table][file'[at'.table].last] = <<>>
  <2>1. Attached(at.table)' => Attached(n)
    BY <1>8, <1>10 DEF Attached, Files!Attached
  <2> QED
    BY <1>5, <1>6, <1>10, <2>1
<1>13. /\ has_tables' = has_tables /\ table_cache' = table_cache
       /\ statements' = statements /\ UNCHANGED history
  BY <1>1 DEF memory
<1>14. HandlesOK'
  BY <1>4, <1>5, <1>9, <1>13, HandlesStay
<1> QED
  BY <1>1, <1>2, <1>3, <1>5, <1>9, <1>10, <1>11, <1>12, <1>13, <1>14, WritingStep

LEMMA PutStep ==
  ASSUME IInv, WritesSucceed, Put
  PROVE  IInv'
<1>1. /\ at.pc = "put" /\ at.pc \in Running /\ at.pc \in Writing
      /\ at' = [at EXCEPT !.pc = "seed", !.i = 1] /\ UNCHANGED memory
      /\ "seed" \in Places /\ "seed" \in Writing
  BY DEF Put, Running, Writing, Places
<1>2. /\ StoreOK /\ at \in AtType /\ table_cache \subseteq Name /\ Attached(TABLES)
      /\ \A m \in Name : (~file[m].closed => InUse(m)) /\ (file[m].closed => New(m))
      /\ at.table \in Name
  BY <1>1, RunFacts
<1>3. PICK n \in Name : n = at.table
  BY <1>2
<1>4. /\ InUse(n) /\ file[n].last > 0 /\ HandlesOK
      /\ Attached(n) => dbs[n][file[n].last] = <<>>
  BY <1>1, <1>3, RunFacts DEF IInv, OpenOK
<1>5. StoreOK' /\ UNCHANGED disk /\ file' = file /\ slot' = slot
  <2>1. Files!PutBlock(n, file[n].last, <<>>)
    BY <1>3 DEF Put
  <2>2. UNCHANGED disk
    BY <1>2, <1>4, <2>1, PutBlank, PutNothing DEF InUse
  <2> QED
    BY <1>2, <2>2, SameStore DEF disk
<1>6. Kept /\ \A m \in Name : SameRows(m)
  BY <1>2, <1>5, SameStore
<1>7. \A m \in Name : file'[m] = file[m] /\ AsBefore(m)
  BY <1>5, SameObjects
<1>8. /\ at' \in AtType /\ at'.pc = "seed" /\ at'.table = n /\ at'.columns = at.columns
  <2>1. 1 \in Nat \ {0}
    OBVIOUS
  <2> QED
    BY <1>1, <1>2, <1>3, <2>1 DEF AtType
<1>9. InUse(at.table)'
  BY <1>4, <1>7, <1>8 DEF InUse, WithoutHandle, Attached, Files!Attached
<1>10. /\ has_tables' = has_tables /\ table_cache' = table_cache
       /\ statements' = statements /\ UNCHANGED history
  BY <1>1 DEF memory
<1>11. /\ \A m \in Name : ~file'[m].closed => InUse(m)'
       /\ \A m \in Name : file'[m].closed => New(m)'
       /\ Attached(TABLES)'
  BY <1>2, <1>7, NamesAre DEF AsBefore
<1>12. file'[at'.table].last > 0
  BY <1>4, <1>5, <1>8
<1>13. HandlesOK'
  BY <1>4, <1>5, <1>10, HandlesStay
<1> QED
  BY <1>1, <1>2, <1>3, <1>5, <1>6, <1>8, <1>9, <1>10, <1>11, <1>12, <1>13, WritingStep

-----------------------------------------------------------------------------
(***************************************************************************)
(* A statement is taken back, or answered.                                 *)
(***************************************************************************)
LEMMA RollbackWildStep ==
  ASSUME IInv, at.pc = "rollback", Overrun(Page(TABLES, at.handle[1])), GoWild
  PROVE  IInv'
<1>1. at.pc \in Running
  BY DEF Running, Writing
<1>2. OverrunOnDisk(TABLES)
  BY <1>1, RunFacts, NamesAre, PageOverrun
<1> QED
  BY <1>1, <1>2, NamesAre, GoWildStep

LEMMA RollbackRowStep ==
  ASSUME IInv, WritesSucceed, Rollback, ~Overrun(Page(TABLES, at.handle[1]))
  PROVE  IInv'
<1>1. at.pc = "rollback" /\ at.pc \in Running /\ at.pc \in Writing
  BY DEF Rollback, Running, Writing
<1>2. /\ StoreOK /\ at \in AtType /\ Attached(TABLES) /\ has_tables = TRUE
      /\ table_cache \subseteq Name /\ TABLES \in table_cache
      /\ \A m \in Name : (~file[m].closed => InUse(m)) /\ (file[m].closed => New(m))
      /\ at.table \in Name /\ at.pc # "wild" /\ HandlesOK
  BY <1>1, RunFacts
<1>3. PICK t \in Name : t = at.table
  BY <1>2
<1>4. PICK h \in StoredRows(TABLES) : h = at.handle /\ RowOf(TABLES, h) = <<t>>
  BY <1>1, <1>3 DEF IInv, StatementOK
<1>5. h \in Select(TABLES) /\ RowAt(TABLES, h)[1] = t
  BY <1>2, <1>4, NamesAre, SelectIs
<1>6. /\ table_cache' = table_cache \ {t} /\ DeleteRow(TABLES, h)
      /\ at' = IF t = TABLES THEN [at EXCEPT !.pc = "wild"] ELSE Ready
      /\ has_tables' = has_tables /\ statements' = statements
      /\ acked' = acked /\ cut' = cut /\ acked_columns' = acked_columns
  BY <1>3, <1>4, <1>5 DEF Rollback, history
<1>7. /\ StoreOK' /\ file' = file /\ slot' = slot
      /\ Kept /\ \A m \in Name \ {TABLES} : SameRows(m)
      /\ StoredRows(TABLES)' = StoredRows(TABLES) \ {h}
      /\ \A g \in StoredRows(TABLES) \ {h} : RowOf(TABLES, g)' = RowOf(TABLES, g)
  BY <1>2, <1>4, <1>6, NamesAre, DeleteRowIs
<1>8. /\ at' \in AtType /\ at'.table \in Name \union {NoObject}
      /\ IF t = TABLES THEN at'.pc = "wild" ELSE at'.pc = "ready"
  <2>1. CASE t = TABLES
    BY <1>2, <1>6, <2>1 DEF AtType, Places
  <2>2. CASE t # TABLES
    BY <1>6, <2>2, PlacesAre
  <2> QED
    BY <2>1, <2>2
<1>9. AtOK' /\ CacheOK' /\ StatementOK'
  <2>1. at'.pc \notin Booting \union Writing \union {"boot_end", "down", "open_tables", "insert_table"}
    BY <1>8 DEF Booting, Writing
  <2>2. StatementOK'
    BY <1>8 DEF StatementOK, Writing
  <2>3. AtOK'
    BY <1>8, <2>1 DEF AtOK
  <2>4. CacheOK'
    BY <1>2, <1>6, <1>8, <2>1 DEF CacheOK
  <2> QED
    BY <2>2, <2>3, <2>4
<1>10. OpenOK'
  <2>1. \A m \in Name : file'[m] = file[m] /\ AsBefore(m)
    BY <1>7, SameObjects
  <2>2. /\ at'.pc \in {"ready", "wild"}
        /\ at'.pc \in Running \union {"ready", "wild"} /\ at'.pc \notin {"get_new", "put", "seed"}
    BY <1>8
  <2>3. HandlesOK'
    BY <1>2, <1>6, <1>7, HandlesStay
  <2> QED
    BY <1>2, <1>6, <2>1, <2>2, <2>3, NamesAre, RunOpen DEF AsBefore, Writing
<1>11. HistoryOK'
  BY <1>6 DEF IInv, HistoryOK
<1>12. AnsweredOK'
  <2>1. ColumnsStay
    BY <1>7, NamesAre DEF ColumnsStay, SameRows
  <2> QED
    BY <1>6, <2>1, AnsweredStays DEF IInv
<1>13. RowsFinite' /\ RowsCounted'
  <2>1. ASSUME NEW u \in User
        PROVE  /\ IsFiniteSet(RowsOf(u)')
               /\ Cardinality(RowsOf(u)') = acked[u] + cut[u]
    <3>1. RowsOf(u)' = RowsOf(u) \ {h}
      <4>1. RowsOf(u) = {g \in StoredRows(TABLES) : RowOf(TABLES, g) = <<u>>}
        BY DEF RowsOf, RowOf
      <4>2. RowsOf(u)' = {g \in StoredRows(TABLES)' : RowOf(TABLES, g)' = <<u>>}
        BY DEF RowsOf, RowOf
      <4> QED
        BY <1>7, <4>1, <4>2
    <3>2. h \in RowsOf(u) <=> t = u
      <4>1. <<t>> = <<u>> <=> t = u
        OBVIOUS
      <4> QED
        BY <1>4, <4>1 DEF RowsOf, RowOf
    <3>3. /\ IsFiniteSet(RowsOf(u))
          /\ Cardinality(RowsOf(u)) = acked[u] + cut[u] + (IF t = u THEN 1 ELSE 0)
      BY <1>1, <1>3 DEF IInv, RowsFinite, RowsCounted, Pending
    <3>4. u \in Name /\ acked[u] \in Nat /\ cut[u] \in Nat
      BY NamesAre DEF IInv, HistoryOK
    <3>5. CASE t = u
      <4>1. IsFiniteSet(RowsOf(u) \ {h}) /\ Cardinality(RowsOf(u) \ {h}) = Cardinality(RowsOf(u)) - 1
        BY <3>2, <3>3, <3>5, FS_RemoveElement
      <4> QED
        BY <3>1, <3>3, <3>4, <3>5, <4>1
    <3>6. CASE t # u
      <4>1. RowsOf(u)' = RowsOf(u)
        BY <3>1, <3>2, <3>6
      <4> QED
        BY <3>3, <3>4, <3>6, <4>1
    <3> QED
      BY <3>5, <3>6
  <2>2. RowsFinite'
    BY <2>1 DEF RowsFinite
  <2>3. \A u \in User : acked[u] + cut[u] + 0 = acked[u] + cut[u]
    BY NamesAre DEF IInv, HistoryOK
  <2>4. RowsCounted'
    BY <1>6, <1>8, <2>1, <2>3 DEF RowsCounted, Pending
  <2> QED
    BY <2>2, <2>4
<1>14. DefinedUnlessDamaged'
  <2>1. at'.pc = "wild" => TABLES \notin table_cache'
    BY <1>6, <1>8
  <2> QED
    BY <2>1, NamesAre DEF DefinedUnlessDamaged
<1> QED
  BY <1>7, <1>9, <1>10, <1>11, <1>12, <1>13, <1>14 DEF IInv

LEMMA RollbackStep ==
  ASSUME IInv, WritesSucceed, Rollback
  PROVE  IInv'
<1>1. at.pc = "rollback" /\ (Overrun(Page(TABLES, at.handle[1])) => GoWild)
  BY DEF Rollback
<1> QED
  BY <1>1, RollbackWildStep, RollbackRowStep

LEMMA AnswerStep ==
  ASSUME IInv, Answer
  PROVE  IInv'
<1>1. /\ at.pc = "seed" /\ at.pc \in Running /\ at.pc \in Writing /\ at' = Ready
      /\ UNCHANGED disk /\ dbs' = dbs /\ file' = file
      /\ has_tables' = has_tables /\ table_cache' = table_cache /\ statements' = statements
      /\ acked' = [acked EXCEPT ![at.table] = acked[at.table] + 1] /\ cut' = cut
      /\ acked_columns' = acked_columns \union
           {<<at.table, at.columns[i].name>> : i \in DOMAIN at.columns}
  BY DEF Answer, Running, Writing, disk
<1>2. /\ StoreOK /\ at \in AtType /\ table_cache \subseteq Name /\ Attached(TABLES)
      /\ \A m \in Name : (~file[m].closed => InUse(m)) /\ (file[m].closed => New(m))
      /\ at.table \in Name /\ has_tables = TRUE /\ TABLES \in table_cache /\ HandlesOK
  BY <1>1, RunFacts
<1>3. PICK t \in Name : t = at.table
  BY <1>2
<1>4. /\ InUse(t) /\ file[t].last > 0
      /\ \A j \in DOMAIN at.columns : Stored(COLUMNS, <<t, at.columns[j].name>>)
  BY <1>1, <1>3 DEF IInv, OpenOK, StatementOK, Writing
<1>5. StoreOK' /\ Kept /\ \A m \in Name : SameRows(m)
  BY <1>1, <1>2, SameStore
<1>6. at' \in AtType /\ at'.pc = "ready" /\ at'.table = NoObject
  BY <1>1, PlacesAre
<1>7. AtOK' /\ CacheOK' /\ StatementOK' /\ DefinedUnlessDamaged'
  <2>1. at'.pc \notin Booting \union Writing \union {"boot_end", "down", "open_tables", "insert_table"}
    BY <1>6 DEF Booting, Writing
  <2>2. AtOK' /\ DefinedUnlessDamaged'
    BY <1>6, <2>1 DEF AtOK, DefinedUnlessDamaged
  <2>3. CacheOK'
    BY <1>1, <1>2, <1>6, <2>1 DEF CacheOK
  <2>4. StatementOK'
    BY <1>6 DEF StatementOK, Writing
  <2> QED
    BY <2>2, <2>3, <2>4
<1>8. OpenOK'
  <2>1. \A m \in Name : file'[m] = file[m] /\ AsBefore(m)
    BY <1>1, SameObjects
  <2>2. /\ at'.pc = "ready"
        /\ at'.pc \in Running \union {"ready", "wild"} /\ at'.pc \notin {"get_new", "put", "seed"}
    BY <1>6
  <2>3. HandlesOK'
    BY <1>1, <1>2, HandlesStay DEF disk
  <2> QED
    BY <1>1, <1>2, <2>1, <2>2, <2>3, NamesAre, RunOpen DEF AsBefore, Writing
<1>9. HistoryOK'
  <2>1. /\ statements \in 0 .. MAX_STATEMENTS
        /\ acked \in [Name -> Nat] /\ cut \in [Name -> Nat] /\ acked_columns \subseteq Name \X STRING
    BY DEF IInv, HistoryOK
  <2>2. \A j \in DOMAIN at.columns : at.columns[j].name \in STRING
    <3>1. at.columns \in Seq([name : STRING, ok : BOOLEAN])
      BY <1>2 DEF AtType
    <3>2. \A j \in DOMAIN at.columns : at.columns[j] \in [name : STRING, ok : BOOLEAN]
      <4>1. DOMAIN at.columns = 1 .. Len(at.columns)
        BY <3>1
      <4> QED
        BY <3>1, <4>1, ElementIs
    <3> QED
      BY <3>2
  <2>3. acked_columns' \subseteq Name \X STRING
    BY <1>1, <1>2, <2>1, <2>2
  <2>4. acked' \in [Name -> Nat]
    BY <1>1, <1>2, <2>1
  <2> QED
    BY <1>1, <2>1, <2>3, <2>4 DEF HistoryOK
<1>10. AnsweredOK'
  <2>1. ASSUME NEW tc \in acked_columns'
        PROVE  Stored(COLUMNS, tc)
    <3>1. CASE tc \in acked_columns
      BY <3>1 DEF IInv, AnsweredOK, ColumnsKept, Stored, RowOf
    <3>2. CASE tc \in {<<at.table, at.columns[j].name>> : j \in DOMAIN at.columns}
      BY <1>3, <1>4, <3>2
    <3> QED
      BY <1>1, <2>1, <3>1, <3>2
  <2>2. \A tc \in acked_columns' : \E h \in StoredRows(COLUMNS)' : dbs'[COLUMNS][h[1]][h[2]] = tc
    BY <1>1, <2>1 DEF Stored, RowOf, StoredRows
  <2>3. ASSUME EnoughHandles, NEW u \in Name, acked'[u] > 0
        PROVE  u \in DOMAIN dbs' /\ DOMAIN dbs'[u] # {}
    <3>1. CASE u = t
      <4>1. Attached(t)
        BY <1>4, <2>3 DEF InUse, WithoutHandle
      <4>2. t \in DOMAIN dbs /\ DOMAIN dbs[t] = 1 .. file[t].last /\ file[t].last \in Nat
        BY <1>2, <4>1, AttachedFacts
      <4> QED
        BY <1>1, <1>4, <3>1, <4>2
    <3>2. CASE u # t
      <4>1. acked'[u] = acked[u]
        BY <1>1, <1>3, <3>2 DEF IInv, HistoryOK
      <4> QED
        BY <1>1, <2>3, <4>1 DEF IInv, AnsweredOK, AnsweredHasBlock
    <3> QED
      BY <3>1, <3>2
  <2>4. ColumnsKept'
    BY <2>2 DEF ColumnsKept
  <2>5. EnoughHandles => AnsweredHasBlock'
    BY <2>3 DEF AnsweredHasBlock
  <2> QED
    BY <2>4, <2>5 DEF AnsweredOK
<1>11. RowsFinite' /\ RowsCounted'
  <2>1. \A u \in User : RowsOf(u)' = RowsOf(u)
    BY <1>5, NamesAre, RowsStay
  <2>2. RowsFinite'
    BY <1>1, <2>1 DEF IInv, RowsFinite
  <2>3. ASSUME NEW u \in User
        PROVE  Cardinality(RowsOf(u)) = acked'[u] + cut'[u] + 0
    <3>1. Cardinality(RowsOf(u)) = acked[u] + cut[u] + (IF t = u THEN 1 ELSE 0)
      BY <1>1, <1>3 DEF IInv, RowsCounted, Pending
    <3>2. u \in Name /\ acked \in [Name -> Nat] /\ acked[u] \in Nat /\ cut[u] \in Nat
      BY NamesAre DEF IInv, HistoryOK
    <3>3. acked'[u] = IF t = u THEN acked[u] + 1 ELSE acked[u]
      BY <1>1, <1>3, <3>2
    <3> QED
      BY <1>1, <3>1, <3>2, <3>3
  <2>4. RowsCounted'
    BY <1>6, <2>1, <2>3 DEF RowsCounted, Pending
  <2> QED
    BY <2>2, <2>4
<1> QED
  BY <1>5, <1>7, <1>8, <1>9, <1>10, <1>11 DEF IInv

LEMMA CrashStep ==
  ASSUME IInv, Crash
  PROVE  IInv'
BY StopStep DEF Crash

LEMMA NoStep ==
  ASSUME IInv, UNCHANGED vars
  PROVE  IInv'
<1>1. /\ UNCHANGED disk /\ dbs' = dbs /\ slot' = slot /\ file' = file
      /\ has_tables' = has_tables /\ table_cache' = table_cache /\ at' = at
      /\ statements' = statements /\ acked' = acked /\ cut' = cut
      /\ acked_columns' = acked_columns
  BY DEF vars, disk, history
<1>2. StoreOK'
  BY <1>1, SameStore DEF IInv
<1>3. AtOK' /\ CacheOK' /\ HistoryOK' /\ DefinedUnlessDamaged'
  BY <1>1 DEF IInv, AtOK, CacheOK, HistoryOK, DefinedUnlessDamaged, OverrunOnDisk
<1>4. OpenOK'
  BY <1>1 DEF IInv, OpenOK, HandlesOK, New, InUse, WithoutHandle, Attached, Files!Attached
<1>5. \A n : StoredRows(n)' = StoredRows(n)
  BY <1>1 DEF StoredRows
<1>6. StatementOK' /\ AnsweredOK'
  BY <1>1, <1>5 DEF IInv, StatementOK, AnsweredOK, ColumnsKept, AnsweredHasBlock, Stored, RowOf
<1>7. \A t : RowsOf(t)' = RowsOf(t)
  BY <1>1, <1>5 DEF RowsOf
<1>8. RowsFinite' /\ RowsCounted'
  BY <1>1, <1>7 DEF IInv, RowsFinite, RowsCounted, Pending
<1> QED
  BY <1>2, <1>3, <1>4, <1>6, <1>8 DEF IInv

LEMMA StepInv ==
  ASSUME IInv, WritesSucceed, SchemaHandles, [Next]_vars
  PROVE  IInv'
<1>1. CASE Start
  BY <1>1, StartStep
<1>2. CASE \E t \in Named, columns \in ColumnLists : ExecuteCreate(t, columns)
  BY <1>2, ExecuteCreateStep
<1>3. CASE ExecuteOther
  BY <1>3, ExecuteOtherStep
<1>4. CASE ShowDamaged
  BY <1>4, ShowDamagedStep
<1>5. CASE Step
  <2>1. CASE BootOpen \/ BootCreate \/ BootGetNew \/ BootPut \/ BootClose \/ BootEnd
    BY <2>1, BootOpenStep, BootCreateStep, BootGetNewStep, BootPutStep, BootCloseStep, BootEndStep
  <2>2. CASE OpenTables \/ InsertTable \/ RejectColumn \/ OpenColumns \/ InsertColumn \/ Rollback
    BY <2>2, OpenTablesStep, InsertTableStep, RejectColumnStep, OpenColumnsStep,
       InsertColumnStep, RollbackStep
  <2>3. CASE GetTable \/ CreateFile \/ GetNew \/ Put \/ Seed \/ Answer
    BY <2>3, GetTableStep, CreateFileStep, GetNewStep, PutStep, SeedStep, AnswerStep
  <2> QED
    BY <1>5, <2>1, <2>2, <2>3 DEF Step
<1>6. CASE Crash
  BY <1>6, CrashStep
<1>7. CASE UNCHANGED vars
  BY <1>7, NoStep
<1> QED
  BY <1>1, <1>2, <1>3, <1>4, <1>5, <1>6, <1>7 DEF Next

-----------------------------------------------------------------------------
(***************************************************************************)
(* The theorems.                                                           *)
(***************************************************************************)

\* Whatever statements are executed and wherever the process ends: the objects,
\* the handles, the cache and the rows on disk fit together.
THEOREM InductiveInvariant ==
  ASSUME WritesSucceed, SchemaHandles
  PROVE  Spec => []IInv
<1>1. IInv /\ [Next]_vars => IInv'
  BY StepInv
<1> QED
  BY <1>1, InitInv, PTL DEF Spec

\* A statement adds one row to _tables, or none once it is rejected: the rows of
\* a table are those of its answered statements, of those that the end of the
\* process cut short, and of the one under way, as long as has_room has accepted
\* no row too many into a page of _tables.
THEOREM RowsMatchStatements ==
  ASSUME WritesSucceed, SchemaHandles
  PROVE  Spec => []OneRowPerCreate
<1>1. IInv => OneRowPerCreate
  BY DEF IInv, RowsCounted, OneRowPerCreate
<1> QED
  BY <1>1, InductiveInvariant, PTL

\* An answered CREATE TABLE keeps each of its columns in _columns until has_room
\* accepts a row too many into a page of _columns, with or without a handle for
\* its own file.
THEOREM AnsweredKeepsColumns ==
  ASSUME WritesSucceed, SchemaHandles
  PROVE  Spec => []AnsweredHasColumns
<1>1. IInv => AnsweredHasColumns
  BY DEF IInv, AnsweredOK, ColumnsKept, AnsweredHasColumns
<1> QED
  BY <1>1, InductiveInvariant, PTL

\* A handle for every table is one for each schema table.
LEMMA TwoHandles ==
  ASSUME EnoughHandles
  PROVE  SchemaHandles
<1>1. /\ IsFiniteSet(Name) /\ Cardinality(Name) <= MAX_DBS /\ MAX_DBS \in Nat
      /\ SchemaTables \subseteq Name
  BY CatalogAssumption DEF EnoughHandles, CatalogAssumption, Name
<1>2. Cardinality(SchemaTables) <= Cardinality(Name) /\ IsFiniteSet(SchemaTables)
  BY <1>1, FS_Subset
<1>3. Cardinality(SchemaTables) = 2
  <2>1. /\ IsFiniteSet({TABLES}) /\ Cardinality({TABLES}) = 1
        /\ COLUMNS \notin {TABLES} /\ SchemaTables = {TABLES} \union {COLUMNS}
    BY FS_Singleton, CatalogAssumption DEF CatalogAssumption, SchemaTables
  <2> QED
    BY <2>1, FS_AddElement
<1>4. Cardinality(Name) \in Nat
  BY <1>1, FS_CardinalityType
<1> QED
  BY <1>1, <1>2, <1>3, <1>4 DEF SchemaHandles

\* With a handle for every table, an answered CREATE TABLE has a block on disk
\* for good, and its columns until has_room accepts a row too many into a page of
\* _columns.
THEOREM AnsweredStaysComplete ==
  ASSUME WritesSucceed, EnoughHandles
  PROVE  Spec => []AnsweredIsComplete
<1>1. IInv => AnsweredIsComplete
  BY DEF IInv, AnsweredOK, ColumnsKept, AnsweredHasColumns, AnsweredIsComplete
<1>2. SchemaHandles
  BY TwoHandles
<1> QED
  BY <1>1, <1>2, InductiveInvariant, PTL

\* Undefined behaviour has one of three causes: the end of a process has left a
\* schema table without a block, a rejected statement has deleted the object of
\* a schema table, or has_room has accepted a row too many into a page of one.
THEOREM DefinedBehaviour ==
  ASSUME WritesSucceed, SchemaHandles
  PROVE  Spec => []DefinedUnlessDamaged
<1>1. IInv => DefinedUnlessDamaged
  BY DEF IInv
<1> QED
  BY <1>1, InductiveInvariant, PTL

=============================================================================
