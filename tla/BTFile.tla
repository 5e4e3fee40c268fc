------------------------------- MODULE BTFile -------------------------------
(***************************************************************************)
(* Files of blocks (class BTFile, src/src/heap_storage.cpp): BTFile        *)
(* objects of one process over one LMDB environment.                       *)
(*                                                                         *)
(* A file is a named database whose keys are block ids.  An object holds   *)
(* the handle of its database and, in last, a count of its blocks taken    *)
(* when it was opened.  Every call is one durable transaction; create() is *)
(* three of them, and the process may end between any two.                 *)
(*                                                                         *)
(* The callers' discipline is part of the model: two objects for one file  *)
(* are not open at once, and an object that was closed or dropped is not   *)
(* opened or closed again.                                                 *)
(***************************************************************************)
EXTENDS LMDB

CONSTANTS
  Object,       \* BTFile objects of the process
  Content,      \* what callers put in a block
  NewBlock,     \* the block get_new() makes: a page without records
  Garbage,      \* what stats may hold when mdb_stat had no handle of the file
  NoObject,
  MAX_BLOCKS    \* bound of the model: blocks of a file

ASSUME BTFileAssumption ==
  /\ NewBlock \in Content
  /\ Garbage \subseteq Nat
  /\ NoObject \notin Object
  /\ MAX_BLOCKS \in Nat

VARIABLES
  file,      \* file[f]: the members of object f
  creating   \* the object whose create() is running and its next call

vars == <<dbs, slot, file, creating>>

\* Mutant: the constructor leaves dbi uninitialized.
NewFile_AnyDbi(n) == [name |-> n, last |-> 0, closed |-> TRUE, dbi |-> MAX_DBS + 1]

NewFile(n) == [name |-> n, last |-> 0, closed |-> TRUE, dbi |-> NoDbi]
NotCreating == [object |-> NoObject, next |-> "none"]

Idle == creating = NotCreating

\* The discipline of the callers.
MayOpen(f) ==
  /\ file[f].closed => file[f].dbi = NoDbi
  /\ \A g \in Object \ {f} : file[g].name = file[f].name => file[g].closed

\* The bound of the model on a further block.
Bounded(f) == file[f].last < MAX_BLOCKS /\ Entries(file[f].name) < MAX_BLOCKS

-----------------------------------------------------------------------------
(***************************************************************************)
(* The methods, as effects on dbs, slot and file.                          *)
(***************************************************************************)

\* mdb_dbi_open writes when it creates a database.
MayFailToCreate(n, status) == status = "SUCCESS" /\ n \notin DOMAIN dbs /\ WRITES_FAIL

\* db_open(flags) of a closed file.  Only MDB_NOTFOUND is handled: after any
\* other error dbi keeps its value, last is whatever mdb_stat left in stats,
\* and the file counts as open.
DbOpen(f, create) ==
  LET n == file[f].name
      status == OpenStatus(n, create)
  IN \/ /\ status = "SUCCESS"
        /\ OpenDb(n)
        /\ file' = [file EXCEPT ![f] = [@ EXCEPT !.last = Entries(n),
                                                 !.closed = FALSE,
                                                 !.dbi = OpenHandle(n)]]
     \/ \* No handle is left, or there is no room for the new database.
        /\ status = "DBS_FULL" \/ MayFailToCreate(n, status)
        /\ \E last \in Garbage :
             file' = [file EXCEPT ![f] = [@ EXCEPT !.last = last, !.closed = FALSE]]
        /\ UNCHANGED <<dbs, slot>>
     \/ \* The commit fails: LMDB takes back the new database and its handle,
        \* and dbi still holds it.
        /\ MayFailToCreate(n, status)
        /\ file' = [file EXCEPT ![f] = [@ EXCEPT !.last = 0,
                                                 !.closed = FALSE,
                                                 !.dbi = OpenHandle(n)]]
        /\ UNCHANGED <<dbs, slot>>

\* Mutant: the id of the new block is last before it is incremented.
AllocateBlock_PostIncrement(f) ==
  /\ file' = [file EXCEPT ![f].last = @ + 1]
  /\ PutEntry(file[f].dbi, file[f].last, NewBlock)
  /\ UNCHANGED slot

\* get_new(): the next block id, stored at once.
AllocateBlock(f) ==
  /\ file' = [file EXCEPT ![f].last = @ + 1]
  /\ PutEntry(file[f].dbi, file[f].last + 1, NewBlock)
  /\ UNCHANGED slot

\* Mutant: block ids counted from 0 on one side.
PutBlock_NextKey(f, block_id, content) ==
  /\ PutEntry(file[f].dbi, block_id + 1, content)
  /\ UNCHANGED <<slot, file>>

\* put(block)
PutBlock(f, block_id, content) ==
  /\ PutEntry(file[f].dbi, block_id, content)
  /\ UNCHANGED <<slot, file>>

\* Mutants: closed is not set; the handle is not given back.
CloseFile_StaysOpen(f) ==
  /\ CloseDbi(file[f].dbi)
  /\ UNCHANGED <<dbs, file>>

CloseFile_KeepsHandle(f) ==
  /\ file' = [file EXCEPT ![f].closed = TRUE]
  /\ UNCHANGED <<dbs, slot>>

\* close()
CloseFile(f) ==
  /\ CloseDbi(file[f].dbi)
  /\ file' = [file EXCEPT ![f].closed = TRUE]
  /\ UNCHANGED dbs

-----------------------------------------------------------------------------
Init ==
  /\ dbs = [n \in {} |-> <<>>]
  /\ slot = NoHandles
  /\ file \in [Object -> {NewFile(n) : n \in Name}]
  /\ creating = NotCreating

\* The destructor of the old object closes nothing.
Construct(f, n) ==
  /\ Idle
  /\ file' = [file EXCEPT ![f] = NewFile(n)]
  /\ UNCHANGED <<dbs, slot, creating>>

Open(f) ==
  /\ Idle /\ MayOpen(f) /\ file[f].closed
  /\ DbOpen(f, FALSE)
  /\ UNCHANGED creating

\* create() opens the file unless it is open, ...
Create(f) ==
  /\ Idle /\ MayOpen(f)
  /\ Bounded(f)
  /\ IF file[f].closed THEN DbOpen(f, TRUE) ELSE UNCHANGED <<dbs, slot, file>>
  /\ creating' = [object |-> f, next |-> "get_new"]

\* ... allocates a block, ...
CreateGetNew ==
  /\ creating.next = "get_new"
  /\ AllocateBlock(creating.object)
  /\ creating' = [creating EXCEPT !.next = "put"]

\* ... and puts it again.  Its bytes are get_new's local array, dead by now;
\* what the build finds there is still a page without records.
CreatePut ==
  /\ creating.next = "put"
  /\ PutBlock(creating.object, file[creating.object].last, NewBlock)
  /\ creating' = NotCreating

GetNew(f) ==
  /\ Idle /\ ~file[f].closed
  /\ Bounded(f)
  /\ AllocateBlock(f)
  /\ UNCHANGED creating

\* Callers put the blocks they got from get() or get_new().
Put(f, block_id, content) ==
  /\ Idle /\ ~file[f].closed
  /\ block_id \in 1 .. file[f].last
  /\ PutBlock(f, block_id, content)
  /\ UNCHANGED creating

Close(f) ==
  /\ Idle /\ ~file[f].closed
  /\ CloseFile(f)
  /\ UNCHANGED creating

\* drop() closes the file and removes a file-system path that was never made:
\* the blocks are in the environment's own file.
Drop(f) ==
  /\ Idle /\ ~file[f].closed
  /\ CloseFile(f)
  /\ UNCHANGED creating

\* The process ends, at any point, and another one starts.
Crash ==
  /\ file' = [f \in Object |-> NewFile(file[f].name)]
  /\ slot' = NoHandles
  /\ creating' = NotCreating
  /\ UNCHANGED dbs

Next ==
  \/ \E f \in Object, n \in Name : Construct(f, n)
  \/ \E f \in Object : Open(f)
  \/ \E f \in Object : Create(f)
  \/ CreateGetNew
  \/ CreatePut
  \/ \E f \in Object : GetNew(f)
  \/ \E f \in Object, content \in Content :
       \E block_id \in 1 .. file[f].last : Put(f, block_id, content)
  \/ \E f \in Object : Close(f)
  \/ \E f \in Object : Drop(f)
  \/ Crash

Spec == Init /\ [][Next]_vars

-----------------------------------------------------------------------------
(***************************************************************************)
(* Correctness properties.                                                 *)
(***************************************************************************)
TypeOK ==
  /\ DOMAIN dbs \subseteq Name
  /\ \A n \in DOMAIN dbs : \A k \in DOMAIN dbs[n] : k \in Nat /\ dbs[n][k] \in Content
  /\ slot \in [Dbi -> Name \union {Free}]
  /\ file \in [Object -> [name : Name, last : Nat, closed : BOOLEAN,
                          dbi : Dbi \union {NoDbi}]]
  /\ creating \in [object : Object \union {NoObject}, next : {"none", "get_new", "put"}]

\* An open file with a handle.
Attached(f) == ~file[f].closed /\ file[f].dbi # NoDbi

\* The handle of an open file stands for the database of its own name: handles
\* closed, reused for another name, or left behind by a destroyed object never
\* make a file read or write another file's blocks.
HandleOwn == \A f \in Object : Attached(f) => slot[file[f].dbi] = file[f].name

\* last, read once when the file is opened, stays the number of blocks that are
\* stored, and their ids are 1 to last: the blocks block_ids() lists are the
\* blocks there are, also after a process ended in the middle of create().
LastAccurate ==
  \A f \in Object : Attached(f) =>
    /\ file[f].name \in DOMAIN dbs
    /\ DOMAIN dbs[file[f].name] = 1 .. file[f].last

\* Whatever the objects do, each file is an append-only sequence of blocks
\* whose contents are replaced one at a time.
Blocks == INSTANCE BlockStore WITH files <- dbs
ImplementsBlockStore == Blocks!Spec

=============================================================================
