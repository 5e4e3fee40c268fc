------------------------------ MODULE TwoShells ------------------------------
(***************************************************************************)
(* Several shells on one LMDB directory: the rows of the schema table      *)
(* _tables, which each process boots, appends to and takes rows back from. *)
(*                                                                         *)
(* LMDB lets processes share an environment and makes each transaction     *)
(* atomic among them.  A transaction of this code is one get or one put of *)
(* a block, so the calls of several shells interleave between the two, and *)
(* each shell keeps the count of blocks it read when it opened the file    *)
(* (src/src/heap_storage.cpp).                                             *)
(*                                                                         *)
(* A block is the sequence of its records (see SlottedPage).  A block with *)
(* more records than fit was overrun: an append was accepted over its      *)
(* slots, and what it holds is not known.                                  *)
(***************************************************************************)
EXTENDS Naturals, Sequences

CONSTANTS
  Shell,      \* the processes
  Row,        \* rows to append, each by one CREATE TABLE
  TABLES, COLUMNS,   \* the rows "_tables" and "_columns"
  Deleted,    \* a record that was deleted
  PAGE_ROWS,  \* rows that fit in a block
  MAX_BLOCKS  \* bound of the model: blocks by CREATE TABLE _tables

AnyRow == Row \union {TABLES, COLUMNS}

ASSUME ShellsAssumption ==
  /\ PAGE_ROWS \in Nat /\ MAX_BLOCKS \in Nat
  /\ TABLES \notin Row /\ COLUMNS \notin Row /\ TABLES # COLUMNS
  /\ Deleted \notin AnyRow

VARIABLES
  take_turns, \* whether a shell starts a call only while no other is in one
  exists,    \* the file's database has been created (durable)
  blocks,    \* its blocks (durable)
  pc,        \* pc[p]: the next transaction of shell p
  last,      \* last[p]: BTFile::last
  copy,      \* copy[p]: the block p has read and changed, not yet put
  row,       \* row[p]: the row that p inserts
  handle,    \* handle[p]: where p appended it
  inserted,  \* <<handle, row>> of the appends that returned (history)
  removed,   \* those taken back since (history)
  lost       \* those whose block was overrun or taken for new since (history)

disk == <<exists, blocks>>
history == <<inserted, removed, lost>>
vars == <<take_turns, disk, pc, last, copy, row, handle, history>>

NoHandle == <<0, 0>>
Waiting == {"down", "closed", "ready", "wild"}
MayStart(p) == take_turns => \A q \in Shell \ {p} : pc[q] \in Waiting

GoTo(p, next) == pc' = [pc EXCEPT ![p] = next]

\* Blocks are counted when the file is opened.
CountBlocks(p) == last' = [last EXCEPT ![p] = Len(blocks)]

PutBlock(block_id, block) ==
  blocks' = [b \in 1 .. Len(blocks) + (IF block_id > Len(blocks) THEN 1 ELSE 0) |->
               IF b = block_id THEN block ELSE blocks[b]]

\* Mutant: leaves a record of no bytes.
Without_Empty(block, id) == [i \in DOMAIN block |-> IF i = id THEN <<>> ELSE block[i]]

\* del of a record: an id that the block does not have changes nothing.
Without(block, id) == [i \in DOMAIN block |-> IF i = id THEN Deleted ELSE block[i]]

Overrun(block) == Len(block) > PAGE_ROWS

RecordAt(h) ==
  IF /\ h[1] \in DOMAIN blocks /\ ~Overrun(blocks[h[1]])
     /\ h[2] \in DOMAIN blocks[h[1]]
  THEN blocks[h[1]][h[2]] ELSE Deleted

RowsIn(block_id) == {i \in inserted : i[1][1] = block_id}

Init ==
  /\ take_turns \in BOOLEAN
  /\ exists = FALSE /\ blocks = <<>>
  /\ pc = [p \in Shell |-> "down"]
  /\ last = [p \in Shell |-> 0]
  /\ copy = [p \in Shell |-> <<>>]
  /\ row \in [Shell -> {Deleted}]
  /\ handle = [p \in Shell |-> NoHandle]
  /\ inserted = {} /\ removed = {} /\ lost = {}

\* The local variables of a statement.
local == <<copy, row, handle>>
Leave(p, next) ==
  /\ GoTo(p, next)
  /\ copy' = [copy EXCEPT ![p] = <<>>]
  /\ row' = [row EXCEPT ![p] = Deleted]
  /\ handle' = [handle EXCEPT ![p] = NoHandle]

\* A process ends, by a crash or by an exception nobody catches.
Stop(p) ==
  /\ Leave(p, "down")
  /\ last' = [last EXCEPT ![p] = 0]
  /\ UNCHANGED <<disk, history>>

Crash(p) == pc[p] # "down" /\ Stop(p)

\* Undefined behaviour; what follows is not modelled.
GoWild(p) == GoTo(p, "wild") /\ UNCHANGED <<disk, last, local, history>>

-----------------------------------------------------------------------------
(***************************************************************************)
(* create_if_not_exists() and close(); open() for the first statement.     *)
(* create() is db_open(MDB_CREATE), get_new() and put().                   *)
(***************************************************************************)

Boot(p) ==
  /\ pc[p] = "down" /\ MayStart(p)
  /\ GoTo(p, IF exists THEN "closed" ELSE "absent")
  /\ UNCHANGED <<disk, last, local, history>>

CreateOpen(p) ==
  /\ pc[p] = "absent"
  /\ exists' = TRUE
  /\ CountBlocks(p)
  /\ GoTo(p, "get_new")
  /\ UNCHANGED <<blocks, local, history>>

\* The number of the new block is the one after those that p counted.
GetNew(p) ==
  /\ pc[p] = "get_new"
  /\ last' = [last EXCEPT ![p] = @ + 1]
  /\ PutBlock(last[p] + 1, <<>>)
  /\ lost' = lost \union RowsIn(last[p] + 1)
  /\ GoTo(p, "put")
  /\ UNCHANGED <<exists, local, inserted, removed>>

\* Tables::create goes on to insert its rows.
PutNew(p) ==
  /\ pc[p] = "put"
  /\ PutBlock(last[p], <<>>)
  /\ GoTo(p, IF row[p] = TABLES THEN "seed" ELSE "closed")
  /\ UNCHANGED <<exists, last, local, history>>

Open(p) ==
  /\ pc[p] = "closed" /\ MayStart(p)
  /\ CountBlocks(p)
  /\ GoTo(p, "ready")
  /\ UNCHANGED <<disk, local, history>>

-----------------------------------------------------------------------------
(***************************************************************************)
(* A statement CREATE TABLE: insert a row and, if it is rejected, take it  *)
(* back.  CREATE TABLE _tables goes on with Tables::create, which finds    *)
(* the file open, gets a new block and inserts two rows there.             *)
(***************************************************************************)

\* insert reads the blocks that p counted for a row of that name (none is
\* found), then append reads the last one and adds the row to a copy.  A block
\* that is not there reads as zeros, and adding to it writes out of bounds; an
\* overrun block is read by slots that were overwritten.  On a full block add
\* throws and the shell ends, or has_room wraps around and add overruns it.
Insert(p, r, next) ==
  \/ /\ last[p] = 0 \/ \E b \in 1 .. last[p] : Overrun(blocks[b])
     /\ GoWild(p)
  \/ last[p] # 0 /\ Len(blocks[last[p]]) = PAGE_ROWS /\ Stop(p)
  \/ /\ last[p] # 0 /\ ~Overrun(blocks[last[p]])
     /\ copy' = [copy EXCEPT ![p] = Append(blocks[last[p]], r)]
     /\ row' = [row EXCEPT ![p] = r]
     /\ GoTo(p, next)
     /\ UNCHANGED <<disk, last, handle, history>>

AppendRead(p, r) ==
  /\ pc[p] = "ready" /\ MayStart(p)
  /\ IF r = TABLES THEN last[p] < MAX_BLOCKS
     ELSE (\A q \in Shell : row[q] # r) /\ \A i \in inserted : i[2] # r
  /\ Insert(p, r, "append")

SeedRead(p) == pc[p] = "seed" /\ Insert(p, row[p], "seed_put")

\* The handle that append returns, and its row.
Returned(p) == <<<<last[p], Len(copy[p])>>, row[p]>>

\* append returns to the statement or to Tables::create, which inserts _tables
\* and then _columns.
Return(p) ==
  \/ /\ pc[p] = "append" /\ GoTo(p, "inserted")
     /\ handle' = [handle EXCEPT ![p] = Returned(p)[1]] /\ UNCHANGED row
  \/ /\ pc[p] = "seed_put" /\ row[p] = TABLES /\ GoTo(p, "seed")
     /\ row' = [row EXCEPT ![p] = COLUMNS] /\ UNCHANGED handle
  \/ /\ pc[p] = "seed_put" /\ row[p] = COLUMNS /\ GoTo(p, "ready")
     /\ row' = [row EXCEPT ![p] = Deleted] /\ UNCHANGED handle

\* Mutant: the row is added to a new page in place of the copy.
AppendWrite_Alone(p) ==
  /\ Return(p)
  /\ PutBlock(last[p], <<row[p]>>)
  /\ copy' = [copy EXCEPT ![p] = <<>>]
  /\ inserted' = inserted \union {Returned(p)}
  /\ removed' = removed \ {Returned(p)} /\ lost' = lost \ {Returned(p)}
  /\ UNCHANGED <<exists, last>>

\* ... and puts the copy in its place.
AppendWrite(p) ==
  /\ Return(p)
  /\ PutBlock(last[p], copy[p])
  /\ copy' = [copy EXCEPT ![p] = <<>>]
  /\ inserted' = inserted \union {Returned(p)}
  /\ removed' = removed \ {Returned(p)}
  /\ lost' = IF Overrun(copy[p]) THEN lost \union RowsIn(last[p]) \union {Returned(p)}
             ELSE lost \ {Returned(p)}
  /\ UNCHANGED <<exists, last>>

\* The statement succeeds, or goes on with Tables::create.
Finish(p) ==
  /\ pc[p] = "inserted"
  /\ IF row[p] = TABLES THEN GoTo(p, "get_new") ELSE GoTo(p, "ready")
  /\ row' = [row EXCEPT ![p] = IF @ = TABLES THEN TABLES ELSE Deleted]
  /\ handle' = [handle EXCEPT ![p] = NoHandle]
  /\ UNCHANGED <<disk, last, copy, history>>

\* The statement is rejected.  Tables::del reads the row for its name, and
\* deletes the cached table of that name: for _tables, the object it is called
\* on.  A row that is not there is a null pointer.
Project(p) ==
  /\ pc[p] = "inserted"
  /\ IF Overrun(blocks[handle[p][1]]) \/ RecordAt(handle[p]) = TABLES THEN GoWild(p)
     ELSE IF RecordAt(handle[p]) = Deleted THEN Stop(p)
     ELSE GoTo(p, "project") /\ UNCHANGED <<disk, last, local, history>>

\* Mutant: record ids counted from 0 on one side.
DelRead_Previous(p) ==
  /\ pc[p] = "project"
  /\ copy' = [copy EXCEPT ![p] = Without(blocks[handle[p][1]], handle[p][2] - 1)]
  /\ GoTo(p, "del")
  /\ UNCHANGED <<disk, last, row, handle, history>>

\* del reads the block again and deletes the record in a copy, ...
DelRead(p) ==
  /\ pc[p] = "project"
  /\ IF Overrun(blocks[handle[p][1]]) THEN GoWild(p)
     ELSE /\ copy' = [copy EXCEPT ![p] = Without(blocks[handle[p][1]], handle[p][2])]
          /\ GoTo(p, "del")
          /\ UNCHANGED <<disk, last, row, handle, history>>

\* ... and puts the copy in its place.
DelWrite(p) ==
  /\ pc[p] = "del"
  /\ PutBlock(handle[p][1], copy[p])
  /\ removed' = removed \union {<<handle[p], row[p]>>}
  /\ Leave(p, "ready")
  /\ UNCHANGED <<exists, last, inserted, lost>>

Next ==
  /\ UNCHANGED take_turns
  /\ \E p \in Shell :
    \/ Boot(p) \/ CreateOpen(p) \/ GetNew(p) \/ PutNew(p) \/ Open(p)
    \/ \E r \in Row \union {TABLES} : AppendRead(p, r)
    \/ SeedRead(p) \/ AppendWrite(p) \/ Finish(p)
    \/ Project(p) \/ DelRead(p) \/ DelWrite(p)
    \/ Crash(p)

Spec == Init /\ [][Next]_vars

-----------------------------------------------------------------------------
(***************************************************************************)
(* Correctness properties.                                                 *)
(***************************************************************************)
TypeOK ==
  /\ take_turns \in BOOLEAN
  /\ exists \in BOOLEAN
  /\ \A b \in DOMAIN blocks : blocks[b] \in Seq(AnyRow \union {Deleted})
  /\ last \in [Shell -> Nat]
  /\ row \in [Shell -> AnyRow \union {Deleted}]
  /\ handle \in [Shell -> Nat \X Nat]
  /\ removed \subseteq inserted /\ lost \subseteq inserted

\* "Add a new row to the file": the row of every append that returned is stored
\* under the handle it returned, until it is taken back, as long as shells take
\* turns, although each keeps its own count of blocks and may crash in a call.
\* There are two exceptions, both in the code: a shell that has not counted the
\* block takes its number for a new one, and an append overruns the block.
InsertedStored ==
  take_turns => \A i \in inserted \ (removed \union lost) : RecordAt(i[1]) = i[2]

\* A row that was taken back stays away, as long as shells take turns (and as far
\* as is known: of an overrun block it is not).
RemovedGone ==
  take_turns => \A i \in removed : RecordAt(i[1]) # i[2]

\* Shell p was overtaken: between its read and its write another shell has put
\* the same block; or the row p is about to delete is no longer the one it
\* appended; or there are more blocks than p counted, or rows in the block that
\* p takes for new.
SameButOwnChange(p, block) ==
  \/ pc[p] \in {"append", "seed_put"} /\ copy[p] = Append(block, row[p])
  \/ pc[p] = "del" /\ copy[p] = Without(block, handle[p][2])
Overtaken(p) ==
  \/ pc[p] \in {"append", "seed_put"} /\ ~SameButOwnChange(p, blocks[last[p]])
  \/ pc[p] = "del" /\ ~SameButOwnChange(p, blocks[handle[p][1]])
  \/ pc[p] = "del" /\ RecordAt(handle[p]) # row[p]
  \/ pc[p] = "get_new" /\ Len(blocks) # last[p]
  \/ pc[p] = "put" /\ blocks[last[p]] # <<>>

\* Shell p is about to put a block that it has overrun.
Overruns(p) == pc[p] \in {"append", "seed_put"} /\ Overrun(copy[p])

\* Rows are lost, and removed rows come back, in two ways and no other: by the
\* write of a shell that was overtaken, and by an append that overruns its
\* block.  Crashes and shells that end never do it.
LossOnlyWhenOvertaken ==
  [][\A i \in inserted :
       \/ /\ RecordAt(i[1]) = i[2] /\ i \notin removed' => RecordAt(i[1])' = i[2]
          /\ RecordAt(i[1]) # i[2] /\ i \in removed \intersect removed' => RecordAt(i[1])' # i[2]
       \/ \E p \in Shell : (Overtaken(p) \/ Overruns(p)) /\ pc'[p] # pc[p]]_vars

=============================================================================
