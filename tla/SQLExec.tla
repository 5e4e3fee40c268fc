------------------------------- MODULE SQLExec -------------------------------
(***************************************************************************)
(* The shell's catalog: CREATE TABLE (class SQLExec, src/src/sql_exec.cpp) *)
(* over the schema tables _tables and _columns (src/src/schema_tables.cpp),*)
(* which are BTTables (src/src/heap_storage.cpp) in files of blocks        *)
(* (module BTFile).                                                        *)
(*                                                                         *)
(* A statement is a sequence of durable transactions: the row in _tables,  *)
(* one row in _columns per column, and the table's file.  A step here is   *)
(* one call on a BTFile.  The process may end before any step, by a crash  *)
(* or by an exception nobody catches, and start again.                     *)
(*                                                                         *)
(* A page is the sequence of its rows, and rows are tuples of strings.     *)
(* That a page returns the rows it was given is the subject of SlottedPage,*)
(* as long as it is not overrun.  A page with more rows than fit is one    *)
(* that is: its slots are overwritten, and what it holds is not known.     *)
(***************************************************************************)
EXTENDS Naturals, Sequences, FiniteSets

CONSTANTS
  TABLES, COLUMNS,  \* "_tables", "_columns"
  User,             \* names of tables other than these two
  Named,            \* the names that CREATE TABLE statements give
  ColumnLists,      \* column lists of statements: sequences of [name, ok]
  Deleted,          \* a row that was deleted
  MAX_DBS, WRITES_FAIL, Garbage, Free, NoObject,   \* see LMDB and BTFile
  PAGE_ROWS,        \* rows that fit in a page (set by their sizes in the code)
  MAX_STATEMENTS    \* bound of the model: statements executed

SchemaTables == {TABLES, COLUMNS}
Name == User \union SchemaTables

ASSUME CatalogAssumption ==
  /\ TABLES # COLUMNS
  /\ SchemaTables \intersect User = {}
  /\ Named \subseteq Name
  /\ ColumnLists \subseteq Seq([name : STRING, ok : BOOLEAN])
  /\ <<>> \notin ColumnLists   \* SQL's grammar asks for a column
  /\ Free \notin Name /\ NoObject \notin Name /\ Garbage \subseteq Nat
  /\ Deleted \notin Seq(Name \union STRING)
  /\ MAX_DBS \in Nat /\ WRITES_FAIL \in BOOLEAN /\ PAGE_ROWS \in Nat /\ MAX_STATEMENTS \in Nat

\* True of every string; the provers do not know it of a literal.
ASSUME Literals == {"table_name", "column_name", "data_type"} \subseteq STRING

VARIABLES
  dbs, slot,    \* the LMDB environment
  file,         \* file[n]: the BTFile object of table n
  has_tables,   \* SQLExec::tables has been constructed
  table_cache,  \* the names in Tables::table_cache
  at,           \* where the program is: its next call and its local variables
  statements,   \* statements executed so far
  acked,        \* acked[t]: CREATE TABLE t statements answered "created t" (history)
  cut,          \* cut[t]: those the end of the process left unfinished (history)
  acked_columns \* pairs <<t, c>> of the columns of answered statements (history)

disk == <<dbs, slot, file>>
history == <<acked, cut, acked_columns>>
vars == <<disk, has_tables, table_cache, at, statements, history>>

\* Of a statement: its table, its columns and the next of them, and the handle
\* of its row in _tables.
Nowhere == [pc |-> "down", table |-> NoObject, columns |-> <<>>, i |-> 1, handle |-> <<0, 0>>]
GoTo(pc) == at' = [at EXCEPT !.pc = pc]
Ready == [Nowhere EXCEPT !.pc = "ready"]

\* create() is in progress for the BTFile at.table.
Creating ==
  CASE at.pc \in {"boot_get_new", "get_new"} -> [object |-> at.table, next |-> "get_new"]
    [] at.pc \in {"boot_put", "put"} -> [object |-> at.table, next |-> "put"]
    [] OTHER -> [object |-> NoObject, next |-> "none"]

Files == INSTANCE BTFile WITH
  Object <- Name, Content <- {<<>>}, NewBlock <- <<>>, MAX_BLOCKS <- 0,
  creating <- Creating

-----------------------------------------------------------------------------
(***************************************************************************)
(* Rows (BTTable).                                                         *)
(***************************************************************************)

\* Value and its operator==.  marshal stores the text; unmarshal sets the text
\* of a default Value, whose data_type is INT.
TextValue(s) == [data_type |-> "TEXT", n |-> 0, s |-> s]
Unmarshalled(s) == [data_type |-> "INT", n |-> 0, s |-> s]
ValueEq(v, w) ==
  /\ v.data_type = w.data_type
  /\ IF v.data_type = "INT" THEN v.n = w.n ELSE v.s = w.s

\* BTFile::get of a block that is not there gives a zeroed page.
HasBlock(o, block_id) == Files!HasEntry(file[o].dbi, block_id)
Page(o, block_id) ==
  IF HasBlock(o, block_id) THEN dbs[slot[file[o].dbi]][block_id] ELSE <<>>

\* A page of the object whose slots were overwritten.
Overrun(page) == Len(page) > PAGE_ROWS
SeesOverrun(o) == \E b \in 1 .. file[o].last : Overrun(Page(o, b))

\* Mutant: the last block is left out.
Select_NotLast(o) ==
  UNION {{<<b, r>> : r \in {i \in DOMAIN Page(o, b) : Page(o, b)[i] # Deleted}} :
           b \in 1 .. file[o].last - 1}

\* select(): the handles of the rows in the blocks that the object knows of.
Select(o) ==
  UNION {{<<b, r>> : r \in {i \in DOMAIN Page(o, b) : Page(o, b)[i] # Deleted}} :
           b \in 1 .. file[o].last}
RowAt(o, handle) == Page(o, handle[1])[handle[2]]

\* select(where), where giving values for the first columns.
SelectWhere(o, where) ==
  {h \in Select(o) : \A i \in DOMAIN where : ValueEq(Unmarshalled(RowAt(o, h)[i]), where[i])}

\* append(row): into the last block only.
LastIsFull(o) == Len(Page(o, file[o].last)) >= PAGE_ROWS
AppendRow(o, row) ==
  Files!PutBlock(o, file[o].last, Append(Page(o, file[o].last), row))

\* del(handle)
DeleteRow(o, handle) ==
  Files!PutBlock(o, handle[1], [Page(o, handle[1]) EXCEPT ![handle[2]] = Deleted])

\* show_tables()
ShownTables == {h \in Select(TABLES) : RowAt(TABLES, h)[1] \notin SchemaTables}

\* A row as the values of a where.
Where(row) == [i \in DOMAIN row |-> TextValue(row[i])]

-----------------------------------------------------------------------------
(***************************************************************************)
(* The process ends: objects, handles and the cache are gone.              *)
(***************************************************************************)

\* The statement has a row in _tables and is neither answered nor undone.
Pending == at.pc \in {"column", "rollback", "create", "get_new", "put", "seed"}

Stop ==
  /\ file' = [n \in Name |-> Files!NewFile(n)]
  /\ slot' = Files!NoHandles
  /\ has_tables' = FALSE
  /\ table_cache' = {}
  /\ at' = Nowhere
  /\ cut' = IF Pending THEN [cut EXCEPT ![at.table] = @ + 1] ELSE cut
  /\ UNCHANGED <<dbs, statements, acked, acked_columns>>

Crash == at.pc \notin {"down", "wild"} /\ Stop

\* A row is appended to a zeroed page: its end_free of 0 wraps around and the
\* row is written far outside the page.  Or rows are read by the slots of an
\* overrun page.  Undefined from then on.
GoWild == GoTo("wild") /\ UNCHANGED <<disk, has_tables, table_cache, statements, history>>

\* Insert a row: read all rows for one like it (none is found), then append.
\* On a full page add throws a DbException, which is caught by no one.  But when
\* the free space is less than a slot, has_room wraps around: add accepts the
\* row, which overwrites slots (and, if it is long, memory in front of the page,
\* which may end the process).
InsertRow(o, row, next) ==
  IF ~HasBlock(o, file[o].last) \/ SeesOverrun(o) THEN GoWild
  ELSE \/ LastIsFull(o) /\ Stop
       \/ /\ AppendRow(o, row)
          /\ at' = next
          /\ UNCHANGED <<has_tables, table_cache, statements, history>>

-----------------------------------------------------------------------------
(***************************************************************************)
(* initialize_schema_tables(): for _tables, then for _columns, open the    *)
(* file or create it, and close it.                                        *)
(***************************************************************************)
memory == <<has_tables, table_cache, statements, history>>

Start ==
  /\ at.pc = "down"
  /\ at' = [Nowhere EXCEPT !.pc = "boot_open", !.table = TABLES]
  /\ table_cache' = SchemaTables
  /\ UNCHANGED <<disk, has_tables, statements, history>>

BootOpen ==
  /\ at.pc = "boot_open"
  /\ IF Files!OpenStatus(at.table, FALSE) = "NOTFOUND"
     THEN GoTo("boot_create") /\ UNCHANGED disk
     ELSE GoTo("boot_close") /\ Files!DbOpen(at.table, FALSE)
  /\ UNCHANGED memory

BootCreate ==
  /\ at.pc = "boot_create"
  /\ Files!DbOpen(at.table, TRUE)
  /\ GoTo("boot_get_new")
  /\ UNCHANGED memory

BootGetNew ==
  /\ at.pc = "boot_get_new"
  /\ Files!AllocateBlock(at.table)
  /\ GoTo("boot_put")
  /\ UNCHANGED memory

BootPut ==
  /\ at.pc = "boot_put"
  /\ Files!PutBlock(at.table, file[at.table].last, <<>>)
  /\ GoTo("boot_close")
  /\ UNCHANGED memory

BootClose ==
  /\ at.pc = "boot_close"
  /\ Files!CloseFile(at.table)
  /\ at' = IF at.table = TABLES
           THEN [at EXCEPT !.pc = "boot_open", !.table = COLUMNS]
           ELSE [at EXCEPT !.pc = "boot_end", !.table = NoObject]
  /\ UNCHANGED memory

\* Mutants: columns_table is the object that has just been closed; or it is
\* made for the other schema table.
BootEnd_Reuse ==
  /\ at.pc = "boot_end"
  /\ at' = Ready
  /\ UNCHANGED <<disk, memory>>

BootEnd_WrongName ==
  /\ at.pc = "boot_end"
  /\ file' = [file EXCEPT ![COLUMNS] = Files!NewFile(TABLES)]
  /\ at' = Ready
  /\ UNCHANGED <<dbs, slot, memory>>

\* From here on file[COLUMNS] is Tables::columns_table, not yet opened.
BootEnd ==
  /\ at.pc = "boot_end"
  /\ file' = [file EXCEPT ![COLUMNS] = Files!NewFile(COLUMNS)]
  /\ at' = Ready
  /\ UNCHANGED <<dbs, slot, memory>>

-----------------------------------------------------------------------------
(***************************************************************************)
(* SQLExec::execute and create.                                            *)
(***************************************************************************)
ExecuteCreate(t, columns) ==
  /\ at.pc = "ready"
  /\ statements < MAX_STATEMENTS
  /\ statements' = statements + 1
  /\ at' = [pc |-> IF has_tables THEN "insert_table" ELSE "open_tables",
            table |-> t, columns |-> columns, i |-> 1, handle |-> <<0, 0>>]
  /\ IF has_tables
     THEN UNCHANGED file
     ELSE file' = [file EXCEPT ![TABLES] = Files!NewFile(TABLES)]
  /\ has_tables' = TRUE
  /\ UNCHANGED <<dbs, slot, table_cache, history>>

\* SHOW and DROP construct and open SQLExec::tables too.  They change nothing
\* else: SHOW only reads, and DROP's select(where) finds no row (see ValueEq),
\* so that it always answers "Table does not exist".
ExecuteOther ==
  /\ at.pc = "ready"
  /\ ~has_tables
  /\ at' = [Nowhere EXCEPT !.pc = "open_tables"]
  /\ file' = [file EXCEPT ![TABLES] = Files!NewFile(TABLES)]
  /\ has_tables' = TRUE
  /\ UNCHANGED <<dbs, slot, table_cache, statements, history>>

\* get_columns uses Tables::columns_table, which Rollback may have deleted, and
\* SHOW reads all pages of a schema table.
ShowDamaged ==
  /\ at.pc = "ready"
  /\ has_tables
  /\ \/ COLUMNS \notin table_cache
     \/ \E n \in SchemaTables : SeesOverrun(n)
  /\ GoWild

\* A DbException of open() is caught by no one.
OpenTables ==
  /\ at.pc = "open_tables"
  /\ IF Files!OpenStatus(TABLES, FALSE) = "NOTFOUND" THEN Stop
     ELSE /\ Files!DbOpen(TABLES, FALSE)
          /\ IF at.table = NoObject THEN at' = Ready ELSE GoTo("insert_table")
          /\ UNCHANGED memory

\* Tables::insert: refuse a name already there, else append the row.  Then
\* get_table(_columns).
InsertTable ==
  /\ at.pc = "insert_table"
  /\ IF SelectWhere(TABLES, Where(<<at.table>>)) # {}
     THEN at' = Ready /\ UNCHANGED <<disk, memory>>
     ELSE InsertRow(TABLES, <<at.table>>,
            [at EXCEPT !.pc = IF COLUMNS \in table_cache THEN "column" ELSE "wild",
                       !.handle = <<file[TABLES].last, Len(Page(TABLES, file[TABLES].last)) + 1>>])

\* A column Columns::insert or create() itself rejects.
Rejected(column) ==
  \/ ~column.ok
  \/ SelectWhere(COLUMNS, Where(<<at.table, column.name>>)) # {}

MoreColumns == at.pc = "column" /\ at.i <= Len(at.columns)
NextColumn == at.columns[at.i]

\* Mutant: the exception is swallowed and the column tried again.
RejectColumn_Retry ==
  /\ MoreColumns
  /\ Rejected(NextColumn)
  /\ GoTo("column")
  /\ UNCHANGED <<disk, memory>>

RejectColumn ==
  /\ MoreColumns
  /\ Rejected(NextColumn)
  /\ GoTo("rollback")
  /\ UNCHANGED <<disk, memory>>

OpenColumns ==
  /\ MoreColumns
  /\ ~Rejected(NextColumn)
  /\ file[COLUMNS].closed
  /\ IF Files!OpenStatus(COLUMNS, FALSE) = "NOTFOUND" THEN Stop
     ELSE Files!DbOpen(COLUMNS, FALSE) /\ UNCHANGED <<at, memory>>

\* Mutant: the loop ends after the first column.
InsertColumn_OnlyFirst ==
  /\ MoreColumns
  /\ ~Rejected(NextColumn)
  /\ ~file[COLUMNS].closed
  /\ InsertRow(COLUMNS, <<at.table, NextColumn.name>>,
               [at EXCEPT !.i = Len(at.columns) + 1])

InsertColumn ==
  /\ MoreColumns
  /\ ~Rejected(NextColumn)
  /\ ~file[COLUMNS].closed
  /\ InsertRow(COLUMNS, <<at.table, NextColumn.name>>, [at EXCEPT !.i = @ + 1])

\* Mutant: deletes the first row instead of the statement's.
Rollback_FirstRow ==
  /\ at.pc = "rollback"
  /\ table_cache' = table_cache \ {at.table}
  /\ DeleteRow(TABLES, <<1, 1>>)
  /\ at' = IF at.table = TABLES THEN [at EXCEPT !.pc = "wild"] ELSE Ready
  /\ UNCHANGED <<has_tables, statements, history>>

\* Tables::del(table_handle): forget and delete the cached table of that name,
\* delete the row.  The rows already in _columns stay.  A row that was never
\* stored ends the process (unmarshal of a null pointer).  The cached table
\* _tables is the object whose del is running: undefined from then on.
Rollback ==
  /\ at.pc = "rollback"
  /\ IF Overrun(Page(TABLES, at.handle[1])) THEN GoWild
     ELSE IF at.handle \notin Select(TABLES) THEN Stop
     ELSE /\ table_cache' = table_cache \ {RowAt(TABLES, at.handle)[1]}
          /\ DeleteRow(TABLES, at.handle)
          /\ at' = IF at.table = TABLES THEN [at EXCEPT !.pc = "wild"] ELSE Ready
          /\ UNCHANGED <<has_tables, statements, history>>

GetTable ==
  /\ at.pc = "column" /\ at.i > Len(at.columns)
  /\ IF at.table \in table_cache
     THEN UNCHANGED <<file, table_cache>>
     ELSE /\ file' = [file EXCEPT ![at.table] = Files!NewFile(at.table)]
          /\ table_cache' = table_cache \union {at.table}
  /\ GoTo("create")
  /\ UNCHANGED <<dbs, slot, has_tables, statements, history>>

\* BTFile::create, as in BTFile; a table created before is open already.
CreateFile ==
  /\ at.pc = "create"
  /\ IF file[at.table].closed THEN Files!DbOpen(at.table, TRUE) ELSE UNCHANGED disk
  /\ GoTo("get_new")
  /\ UNCHANGED memory

GetNew ==
  /\ at.pc = "get_new"
  /\ Files!AllocateBlock(at.table)
  /\ GoTo("put")
  /\ UNCHANGED memory

Put ==
  /\ at.pc = "put"
  /\ Files!PutBlock(at.table, file[at.table].last, <<>>)
  /\ at' = [at EXCEPT !.pc = "seed", !.i = 1]
  /\ UNCHANGED memory

\* The rows that Tables::create and Columns::create add to their new block.
Seeds(t) ==
  CASE t = TABLES -> <<<<TABLES>>, <<COLUMNS>>>>
    [] t = COLUMNS -> <<<<TABLES, "table_name">>, <<COLUMNS, "table_name">>,
                        <<COLUMNS, "column_name">>, <<COLUMNS, "data_type">>>>
    [] OTHER -> <<>>

Seed ==
  /\ at.pc = "seed" /\ at.i <= Len(Seeds(at.table))
  /\ LET row == Seeds(at.table)[at.i]
     IN IF SelectWhere(at.table, Where(row)) # {}
        THEN at' = Ready /\ UNCHANGED <<disk, memory>>
        ELSE InsertRow(at.table, row, [at EXCEPT !.i = @ + 1])

Answer ==
  /\ at.pc = "seed" /\ at.i > Len(Seeds(at.table))
  /\ at' = Ready
  /\ acked' = [acked EXCEPT ![at.table] = @ + 1]
  /\ acked_columns' = acked_columns \union
       {<<at.table, at.columns[i].name>> : i \in DOMAIN at.columns}
  /\ UNCHANGED <<disk, has_tables, table_cache, statements, cut>>

Step ==
  \/ BootOpen \/ BootCreate \/ BootGetNew \/ BootPut \/ BootClose \/ BootEnd
  \/ OpenTables \/ InsertTable
  \/ RejectColumn \/ OpenColumns \/ InsertColumn \/ Rollback
  \/ GetTable \/ CreateFile \/ GetNew \/ Put \/ Seed \/ Answer

Init ==
  /\ dbs = [n \in {} |-> <<>>]
  /\ slot = Files!NoHandles
  /\ file = [n \in Name |-> Files!NewFile(n)]
  /\ has_tables = FALSE
  /\ table_cache = {}
  /\ at = Nowhere
  /\ statements = 0
  /\ acked = [t \in Name |-> 0]
  /\ cut = [t \in Name |-> 0]
  /\ acked_columns = {}

Next ==
  \/ Start
  \/ \E t \in Named, columns \in ColumnLists : ExecuteCreate(t, columns)
  \/ ExecuteOther
  \/ ShowDamaged
  \/ Step
  \/ Crash

Spec == Init /\ [][Next]_vars

\* The program runs on by itself within a statement and while it starts; users
\* and crashes owe nothing.
FairSpec == Spec /\ WF_vars(Step)

-----------------------------------------------------------------------------
(***************************************************************************)
(* Correctness properties.                                                 *)
(***************************************************************************)
TypeOK ==
  /\ DOMAIN dbs \subseteq Name
  /\ slot \in [Files!Dbi -> Name \union {Free}]
  /\ \A n \in Name : /\ file[n].name = n
                     /\ file[n].last \in Nat
                     /\ file[n].closed \in BOOLEAN
                     /\ file[n].dbi \in 0 .. MAX_DBS
  /\ has_tables \in BOOLEAN
  /\ table_cache \subseteq Name
  /\ at.table \in Name \union {NoObject}
  /\ statements \in 0 .. MAX_STATEMENTS
  /\ acked \in [Name -> Nat] /\ cut \in [Name -> Nat]
  /\ acked_columns \subseteq Name \X STRING

\* The durable rows of a schema table.
StoredRows(n) ==
  IF n \notin DOMAIN dbs THEN {}
  ELSE UNION {{<<b, r>> : r \in {i \in DOMAIN dbs[n][b] : dbs[n][b][i] # Deleted}} :
                b \in DOMAIN dbs[n]}
OverrunOnDisk(n) == n \in DOMAIN dbs /\ \E b \in DOMAIN dbs[n] : Overrun(dbs[n][b])
RowsOf(t) == {h \in StoredRows(TABLES) : dbs[TABLES][h[1]][h[2]] = <<t>>}

\* _tables holds one row of t for every CREATE TABLE t that was answered or that
\* the end of the process cut short, one for the statement under way, and no
\* other: a rejected statement takes back its own row, and never the row of an
\* earlier table of the same name.  This is so until the space of a page runs out
\* and has_room accepts one row more.
OneRowPerCreate ==
  at.pc # "wild" /\ ~OverrunOnDisk(TABLES) => \A t \in User :
    Cardinality(RowsOf(t)) =
      acked[t] + cut[t] + (IF Pending /\ at.table = t THEN 1 ELSE 0)

\* Every answered table has, on disk, all its columns and a file with a block,
\* whatever statements failed and whatever processes ended since; the columns,
\* until has_room accepts a row too many into a page of _columns.
AnsweredHasColumns ==
  ~OverrunOnDisk(COLUMNS) => \A tc \in acked_columns :
    \E h \in StoredRows(COLUMNS) : dbs[COLUMNS][h[1]][h[2]] = tc
AnsweredHasBlock ==
  \A t \in Name : acked[t] > 0 => t \in DOMAIN dbs /\ DOMAIN dbs[t] # {}
AnsweredIsComplete == AnsweredHasColumns /\ AnsweredHasBlock

\* SHOW TABLES shows every row there is: what an open Tables object reads by
\* its own handle and its own count of blocks is what is on disk, while a page
\* gives back what it was given.
ShowsAllTables ==
  Files!Attached(TABLES) /\ at.pc # "wild" /\ ~OverrunOnDisk(TABLES) =>
    ShownTables = {h \in StoredRows(TABLES) :
                     dbs[TABLES][h[1]][h[2]][1] \notin SchemaTables}

\* The program keeps the discipline that BTFile relies on: each of its steps
\* is a call that BTFile allows, or no call.
PagesBySize == [n \in DOMAIN dbs |-> [b \in DOMAIN dbs[n] |-> Len(dbs[n][b])]]
FilesOfPages == INSTANCE BTFile WITH
  Object <- Name, Content <- 0 .. PAGE_ROWS + 1, NewBlock <- 0,
  MAX_BLOCKS <- MAX_STATEMENTS + 2, dbs <- PagesBySize,
  creating <- Creating
UsesFilesAsAllowed == FilesOfPages!Spec

\* Every statement, and the start of the program, comes to an end.
StatementsEnd ==
  at.pc \notin {"ready", "down", "wild"} ~> at.pc \in {"ready", "down", "wild"}

\* Undefined behaviour is reached in three ways and no other: the end of a
\* process has left a schema table without a block, a rejected CREATE TABLE has
\* deleted the object of a schema table, or has_room has accepted a row too many
\* into a page of a schema table.  A file's count of blocks never leads to a
\* block that is not there, and no other object is used after its deletion.
DefinedUnlessDamaged ==
  at.pc = "wild" =>
    \/ \E n \in SchemaTables : n \in DOMAIN dbs /\ dbs[n] = <<>>
    \/ ~(SchemaTables \subseteq table_cache)
    \/ \E n \in SchemaTables : OverrunOnDisk(n)

\* "Manually check that table_name is unique."
TableNamesUnique == \A t \in User : Cardinality(RowsOf(t)) <= 1

\* "Initialize access to the schema tables": once the program has started, both
\* schema tables have a block to append to.
SchemaTablesReady ==
  at.pc = "ready" => \A n \in SchemaTables : dbs[n] # <<>>

\* "Create file for table": an answered table has a file with a block.
AnsweredHasFile == \A t \in User : acked[t] > 0 => t \in DOMAIN dbs

=============================================================================
