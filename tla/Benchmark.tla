------------------------------ MODULE Benchmark ------------------------------
(***************************************************************************)
(* The shell's benchmark command (class Benchmark, src/src/benchmark.cpp)  *)
(* in a process that has other files of blocks open (module BTFile).       *)
(*                                                                         *)
(* A round writes a file of pages and, with a second BTFile object, says   *)
(* it reads it: it writes it again.  A step is one call on a BTFile.  The  *)
(* code's last rounds ask for more than the 1 GB of the LMDB map, so that  *)
(* writes may fail, in the benchmark and ever after.                       *)
(***************************************************************************)
EXTENDS Naturals, Sequences

CONSTANTS
  BENCH,        \* the file of the benchmark, "__benchmark.db"
  Others,       \* the other files of the process
  Rounds,       \* pages per round (10,000 to 3,000,000 in the code)
  NewBlock,     \* a page without records
  MAX_BLOCKS,   \* bound of the model: blocks of the other files
  MAX_RUNS,     \* bound of the model: benchmark commands
  MAX_DBS, WRITES_FAIL, Garbage, Free, NoObject   \* see LMDB and BTFile

ASSUME BenchmarkAssumption ==
  /\ BENCH \notin Others
  /\ Rounds \in Seq(Nat) /\ Rounds # <<>>
  /\ MAX_BLOCKS \in Nat /\ MAX_RUNS \in Nat /\ MAX_DBS \in Nat
  /\ Free \notin Others \union {BENCH}

VARIABLES
  dbs, slot,   \* the LMDB environment
  file,        \* file[f]: the object of file f; of the benchmark, the current one
  pc,          \* the next call of the benchmark, or "idle"
  phase,       \* what the benchmark says it measures: "write" or "read"
  round,       \* its round
  left,        \* pages that the round has still to allocate
  runs         \* benchmark commands so far

local == <<phase, round, left, runs>>
vars == <<dbs, slot, file, pc, local>>

Creating ==
  IF pc \in {"get_new", "put"} THEN [object |-> BENCH, next |-> pc]
  ELSE [object |-> NoObject, next |-> "none"]

Files == INSTANCE BTFile WITH
  Name <- Others \union {BENCH}, Object <- Others \union {BENCH},
  Content <- {NewBlock}, creating <- Creating

Init ==
  /\ dbs = [n \in {} |-> <<>>]
  /\ slot = Files!NoHandles
  /\ file = [f \in Others \union {BENCH} |-> Files!NewFile(f)]
  /\ pc = "idle"
  /\ phase = "write" /\ round = 0 /\ left = 0 /\ runs = 0

-----------------------------------------------------------------------------
(***************************************************************************)
(* The rest of the process uses its files between two benchmarks.          *)
(***************************************************************************)
OpenOther(f) ==
  /\ pc = "idle"
  /\ file[f] = Files!NewFile(f)
  /\ Files!DbOpen(f, TRUE)
  /\ UNCHANGED <<pc, local>>

WriteOther(f) ==
  /\ pc = "idle"
  /\ ~file[f].closed /\ Files!Bounded(f)
  /\ Files!AllocateBlock(f)
  /\ UNCHANGED <<pc, local>>

Stop ==
  /\ file' = [f \in Others \union {BENCH} |-> Files!NewFile(f)]
  /\ slot' = Files!NoHandles
  /\ pc' = "idle"
  /\ UNCHANGED <<dbs, local>>

-----------------------------------------------------------------------------
(***************************************************************************)
(* run() and write_test().                                                 *)
(***************************************************************************)

\* Mutant: the benchmark writes to a file of the process.
NewBenchFile_Other ==
  file' = [file EXCEPT ![BENCH] = Files!NewFile(CHOOSE n \in Others : TRUE)]

\* new BenchFile(filename): the object before is deleted, which closes nothing.
NewBenchFile == file' = [file EXCEPT ![BENCH] = Files!NewFile(BENCH)]

Run ==
  /\ pc = "idle"
  /\ runs < MAX_RUNS
  /\ NewBenchFile
  /\ pc' = "create" /\ phase' = "write" /\ round' = 1
  /\ runs' = runs + 1
  /\ UNCHANGED <<dbs, slot, left>>

\* create(): db_open unless the object is open, get_new() and put().
Create ==
  /\ pc = "create"
  /\ IF file[BENCH].closed THEN Files!DbOpen(BENCH, TRUE) ELSE UNCHANGED <<dbs, slot, file>>
  /\ pc' = "get_new"
  /\ UNCHANGED local

CreateGetNew ==
  /\ pc = "get_new"
  /\ Files!AllocateBlock(BENCH)
  /\ pc' = "put"
  /\ UNCHANGED local

CreatePut ==
  /\ pc = "put"
  /\ Files!PutBlock(BENCH, file[BENCH].last, NewBlock)
  /\ pc' = "init_pages" /\ left' = Rounds[round]
  /\ UNCHANGED <<phase, round, runs>>

\* init_pages()
InitPages ==
  /\ pc = "init_pages" /\ left > 0
  /\ Files!AllocateBlock(BENCH)
  /\ left' = left - 1
  /\ UNCHANGED <<pc, phase, round, runs>>

\* Records are added to the pages, whose bytes are the dead local array of
\* get_new: nothing of them is put, and what they overwrite is undefined.
AddRecords ==
  /\ pc = "init_pages" /\ left = 0
  /\ pc' \in {"close", "wild"}
  /\ UNCHANGED <<dbs, slot, file, local>>

Close ==
  /\ pc = "close"
  /\ Files!CloseFile(BENCH)
  /\ pc' = IF phase = "write" THEN "construct" ELSE "drop"
  /\ UNCHANGED local

Construct ==
  /\ pc = "construct"
  /\ NewBenchFile
  /\ pc' = "open"
  /\ UNCHANGED <<dbs, slot, local>>

\* open(), and write_test() again.  A DbException is caught by no one.
Open ==
  /\ pc = "open"
  /\ IF Files!OpenStatus(BENCH, FALSE) = "NOTFOUND" THEN Stop
     ELSE /\ Files!DbOpen(BENCH, FALSE)
          /\ pc' = "create" /\ phase' = "read"
          /\ UNCHANGED <<round, left, runs>>

\* drop() closes the closed file again, and removes nothing.
Drop ==
  /\ pc = "drop"
  /\ Files!CloseFile(BENCH)
  /\ pc' = IF round < Len(Rounds) THEN "next" ELSE "idle"
  /\ UNCHANGED local

NextRound ==
  /\ pc = "next"
  /\ NewBenchFile
  /\ pc' = "create" /\ phase' = "write" /\ round' = round + 1
  /\ UNCHANGED <<dbs, slot, left, runs>>

Step ==
  \/ Create \/ CreateGetNew \/ CreatePut \/ InitPages \/ AddRecords
  \/ Close \/ Construct \/ Open \/ Drop \/ NextRound

Next ==
  \/ Run \/ Step
  \/ \E f \in Others : OpenOther(f) \/ WriteOther(f)
  \/ Stop

Spec == Init /\ [][Next]_vars

-----------------------------------------------------------------------------
(***************************************************************************)
(* Correctness properties.                                                 *)
(***************************************************************************)

\* The benchmark leaves alone what is not its own: the blocks of the other
\* files and, while the process lives, their handles, although it closes a
\* handle twice and drops objects of files that are open.
OthersUntouched ==
  [][pc \notin {"idle", "wild"} =>
       \A n \in Others :
         /\ n \in DOMAIN dbs => n \in DOMAIN dbs' /\ dbs'[n] = dbs[n]
         /\ Files!HandlesOf(n)' = Files!HandlesOf(n) \/ slot' = Files!NoHandles]_vars

\* It gives back the handle it used, of the five there are.
NoHandleLeft == pc = "idle" => Files!HandlesOf(BENCH) = {}

=============================================================================
