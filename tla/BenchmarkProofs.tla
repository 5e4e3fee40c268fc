---------------------------- MODULE BenchmarkProofs ----------------------------
(***************************************************************************)
(* Theorems about Benchmark, for every set of other files, every number of *)
(* handles and every sequence of rounds, whether writes fail or not.       *)
(***************************************************************************)
EXTENDS Benchmark, Minima

All == Others \union {BENCH}

\* A BTFile object of file f.
FileObject(f, x) ==
  x \in [name : {f}, last : {x.last}, closed : BOOLEAN, dbi : Files!Dbi \union {Files!NoDbi}]

Types ==
  /\ slot \in [Files!Dbi -> All \union {Free}]
  /\ file = [f \in All |-> file[f]]
  /\ \A f \in All : FileObject(f, file[f])

\* The benchmark's object is open.
OpenCalls == {"get_new", "put", "init_pages", "close", "wild"}
IsOpen == pc \in OpenCalls \/ (pc = "create" /\ ~file[BENCH].closed)

\* While the benchmark runs, its handle, if it has one, is of its own file or
\* of none.  Only while its object is open is any handle of its file, and then
\* it is the object's.
OwnHandle ==
  /\ pc # "idle" /\ file[BENCH].dbi \in Files!Dbi => slot[file[BENCH].dbi] \in {BENCH, Free}
  /\ \A h \in Files!Dbi : slot[h] = BENCH => IsOpen /\ h = file[BENCH].dbi

\* An object that is about to be opened has no handle yet.
FreshFile ==
  pc = "open" \/ (pc = "create" /\ file[BENCH].closed) => file[BENCH].dbi = Files!NoDbi

\* The inductive invariant.
IInv == Types /\ OwnHandle /\ FreshFile

LEMMA NamesApart ==
  /\ BENCH \in All /\ BENCH \notin Others /\ Others \subseteq All
  /\ Free \notin All
  /\ Files!Dbi \subseteq Nat /\ Files!NoDbi \notin Files!Dbi
BY BenchmarkAssumption DEF BenchmarkAssumption, All, Files!Dbi, Files!NoDbi

-----------------------------------------------------------------------------
(***************************************************************************)
(* What the calls on a BTFile do.                                          *)
(***************************************************************************)

\* mdb_dbi_open returns a handle of that name, or else an unused one.
LEMMA OpenHandleIs ==
  ASSUME NEW n, NEW create, Files!OpenStatus(n, create) = "SUCCESS"
  PROVE  /\ Files!OpenHandle(n) \in Files!Dbi
         /\ slot[Files!OpenHandle(n)] \in {n, Free}
<1> DEFINE candidates == IF Files!HandlesOf(n) # {} THEN Files!HandlesOf(n) ELSE Files!FreeHandles
<1>1. candidates \in SUBSET Nat /\ candidates # {}
  BY NamesApart DEF Files!HandlesOf, Files!FreeHandles, Files!OpenStatus
<1>2. \E h \in candidates : \A i \in candidates : h <= i
  BY <1>1, Minimum
<1>3. Files!OpenHandle(n) \in candidates
  BY <1>2 DEF Files!OpenHandle
<1> QED
  BY <1>3 DEF Files!HandlesOf, Files!FreeHandles

\* Setting members of a file object.
LEMMA SetMembers ==
  ASSUME NEW f, NEW x, FileObject(f, x), NEW last, NEW closed \in BOOLEAN,
         NEW dbi \in Files!Dbi \union {Files!NoDbi}
  PROVE  /\ FileObject(f, [x EXCEPT !.last = last])
         /\ FileObject(f, [x EXCEPT !.closed = closed])
         /\ FileObject(f, [x EXCEPT !.last = last, !.closed = closed])
         /\ FileObject(f, [x EXCEPT !.last = last, !.closed = closed, !.dbi = dbi])
         /\ x.name = f /\ x.closed \in BOOLEAN /\ x.dbi \in Files!Dbi \union {Files!NoDbi}
BY DEF FileObject

\* Replacing one file object by another.
LEMMA SetFile ==
  ASSUME Types, NEW f \in All, NEW x, FileObject(f, x), file' = [file EXCEPT ![f] = x]
  PROVE  /\ file' = [g \in All |-> file'[g]]
         /\ \A g \in All : FileObject(g, file'[g])
         /\ file'[f] = x
         /\ \A g \in All \ {f} : file'[g] = file[g]
<1>1. file' = [g \in All |-> IF g = f THEN x ELSE file[g]]
  BY DEF Types
<1>2. file' = [g \in All |-> file'[g]] /\ file'[f] = x /\ \A g \in All \ {f} : file'[g] = file[g]
  BY <1>1
<1>3. \A g \in All : FileObject(g, file'[g])
  <2>1. \A g \in All \ {f} : FileObject(g, file'[g])
    BY <1>2 DEF Types
  <2> QED
    BY <1>2, <2>1
<1> QED
  BY <1>2, <1>3

\* db_open: the handle is the file's own or a free one; with a new handle
\* nothing happens to those of other files.
LEMMA DbOpenFacts ==
  ASSUME Types, NEW f \in All, NEW create \in BOOLEAN, Files!DbOpen(f, create)
  PROVE  /\ Types'
         /\ ~file'[f].closed
         /\ \A g \in All \ {f} : file'[g] = file[g]
         /\ \A n \in DOMAIN dbs : n \in DOMAIN dbs' /\ dbs'[n] = dbs[n]
         /\ \/ slot' = slot /\ file'[f].dbi = file[f].dbi
            \/ /\ file'[f].dbi \in Files!Dbi /\ slot[file'[f].dbi] \in {f, Free}
               /\ slot' = slot \/ slot' = [slot EXCEPT ![file'[f].dbi] = f]
<1> DEFINE h == Files!OpenHandle(f)
<1>1. FileObject(f, file[f]) /\ file[f].name = f /\ DOMAIN file = All
  BY SetMembers DEF Types, FileObject
\* What file holds after the call, by the handle and the count it was given.
<1>2. ASSUME NEW last, NEW dbi \in Files!Dbi \union {Files!NoDbi},
             \/ file' = [file EXCEPT ![f] = [@ EXCEPT !.last = last, !.closed = FALSE,
                                                     !.dbi = dbi]]
             \/ /\ file' = [file EXCEPT ![f] = [@ EXCEPT !.last = last, !.closed = FALSE]]
                /\ dbi = file[f].dbi
      PROVE  /\ file' = [g \in All |-> file'[g]]
             /\ \A g \in All : FileObject(g, file'[g])
             /\ ~file'[f].closed /\ file'[f].dbi = dbi
             /\ \A g \in All \ {f} : file'[g] = file[g]
  <2>1. CASE file' = [file EXCEPT ![f] = [@ EXCEPT !.last = last, !.closed = FALSE,
                                                   !.dbi = dbi]]
    <3> DEFINE x == [file[f] EXCEPT !.last = last, !.closed = FALSE, !.dbi = dbi]
    <3>1. FileObject(f, x) /\ ~x.closed /\ x.dbi = dbi
      BY <1>1, SetMembers DEF FileObject
    <3>2. file' = [file EXCEPT ![f] = x]
      BY <1>1, <2>1
    <3> HIDE DEF x
    <3> QED
      BY <3>1, <3>2, SetFile
  <2>2. CASE /\ file' = [file EXCEPT ![f] = [@ EXCEPT !.last = last, !.closed = FALSE]]
             /\ dbi = file[f].dbi
    <3> DEFINE x == [file[f] EXCEPT !.last = last, !.closed = FALSE]
    <3>1. FileObject(f, x) /\ ~x.closed /\ x.dbi = dbi
      BY <1>1, <2>2, SetMembers DEF FileObject
    <3>2. file' = [file EXCEPT ![f] = x]
      BY <1>1, <2>2
    <3> HIDE DEF x
    <3> QED
      BY <3>1, <3>2, SetFile
  <2> QED
    BY <1>2, <2>1, <2>2
<1>3. CASE /\ Files!OpenStatus(f, create) = "SUCCESS"
           /\ Files!OpenDb(f)
           /\ file' = [file EXCEPT ![f] = [@ EXCEPT !.last = Files!Entries(f),
                                                    !.closed = FALSE, !.dbi = h]]
  <2>1. h \in Files!Dbi /\ slot[h] \in {f, Free}
    BY <1>3, OpenHandleIs
  <2>2. slot' = [slot EXCEPT ![h] = f]
    BY <1>3 DEF Files!OpenDb
  <2>3. slot' \in [Files!Dbi -> All \union {Free}]
    BY <2>1, <2>2 DEF Types
  <2>4. \A n \in DOMAIN dbs : n \in DOMAIN dbs' /\ dbs'[n] = dbs[n]
    BY <1>3 DEF Files!OpenDb
  <2> HIDE DEF h
  <2>5. /\ file' = [g \in All |-> file'[g]] /\ \A g \in All : FileObject(g, file'[g])
        /\ ~file'[f].closed /\ file'[f].dbi = h
        /\ \A g \in All \ {f} : file'[g] = file[g]
    BY <1>2, <1>3, <2>1
  <2> QED
    BY <2>1, <2>2, <2>3, <2>4, <2>5 DEF Types
<1>4. CASE /\ \/ Files!OpenStatus(f, create) = "DBS_FULL"
              \/ Files!MayFailToCreate(f, Files!OpenStatus(f, create))
           /\ \E last \in Garbage :
                file' = [file EXCEPT ![f] = [@ EXCEPT !.last = last, !.closed = FALSE]]
           /\ UNCHANGED <<dbs, slot>>
  <2>1. file[f].dbi \in Files!Dbi \union {Files!NoDbi}
    BY <1>1 DEF FileObject
  <2>2. /\ file' = [g \in All |-> file'[g]] /\ \A g \in All : FileObject(g, file'[g])
        /\ ~file'[f].closed /\ file'[f].dbi = file[f].dbi
        /\ \A g \in All \ {f} : file'[g] = file[g]
    BY <1>2, <1>4, <2>1
  <2> QED
    BY <1>4, <2>2 DEF Types
<1>5. CASE /\ Files!OpenStatus(f, create) = "SUCCESS"
           /\ file' = [file EXCEPT ![f] = [@ EXCEPT !.last = 0, !.closed = FALSE, !.dbi = h]]
           /\ UNCHANGED <<dbs, slot>>
  <2>1. h \in Files!Dbi /\ slot[h] \in {f, Free}
    BY <1>5, OpenHandleIs
  <2> HIDE DEF h
  <2>2. /\ file' = [g \in All |-> file'[g]] /\ \A g \in All : FileObject(g, file'[g])
        /\ ~file'[f].closed /\ file'[f].dbi = h
        /\ \A g \in All \ {f} : file'[g] = file[g]
    BY <1>2, <1>5, <2>1
  <2> QED
    BY <1>5, <2>1, <2>2 DEF Types
<1> QED
  BY <1>1, <1>3, <1>4, <1>5 DEF Files!DbOpen, Files!MayFailToCreate

\* get_new, put and close.
LEMMA AllocateFacts ==
  ASSUME Types, NEW f \in All, Files!AllocateBlock(f)
  PROVE  /\ Types' /\ slot' = slot
         /\ file'[f].dbi = file[f].dbi /\ file'[f].closed = file[f].closed
         /\ \A g \in All \ {f} : file'[g] = file[g]
<1> DEFINE x == [file[f] EXCEPT !.last = @ + 1]
<1>1. slot' = slot /\ file' = [file EXCEPT ![f] = x]
  BY DEF Files!AllocateBlock, Types
<1>2. FileObject(f, x) /\ x.dbi = file[f].dbi /\ x.closed = file[f].closed
  BY DEF Types, FileObject
<1> HIDE DEF x
<1> QED
  BY <1>1, <1>2, SetFile DEF Types

LEMMA CloseFacts ==
  ASSUME Types, NEW f \in All, Files!CloseFile(f)
  PROVE  /\ Types' /\ dbs' = dbs
         /\ slot' = IF file[f].dbi \in Files!Dbi THEN [slot EXCEPT ![file[f].dbi] = Free] ELSE slot
         /\ file'[f].dbi = file[f].dbi /\ file'[f].closed
         /\ \A g \in All \ {f} : file'[g] = file[g]
<1> DEFINE x == [file[f] EXCEPT !.closed = TRUE]
<1>1. /\ dbs' = dbs
      /\ slot' = IF file[f].dbi \in Files!Dbi THEN [slot EXCEPT ![file[f].dbi] = Free] ELSE slot
      /\ file' = [file EXCEPT ![f] = x]
  BY DEF Files!CloseFile, Files!CloseDbi, Types
<1>2. FileObject(f, x) /\ x.dbi = file[f].dbi /\ x.closed
  BY DEF Types, FileObject
<1> HIDE DEF x
<1>3. slot' \in [Files!Dbi -> All \union {Free}]
  BY <1>1 DEF Types
<1> QED
  BY <1>1, <1>2, <1>3, SetFile DEF Types

LEMMA NewBenchFileFacts ==
  ASSUME Types, NewBenchFile, slot' = slot
  PROVE  /\ Types'
         /\ file'[BENCH].dbi = Files!NoDbi /\ file'[BENCH].closed
<1>1. file' = [f \in All |->
                 IF f = BENCH THEN [name |-> BENCH, last |-> 0, closed |-> TRUE,
                                    dbi |-> Files!NoDbi]
                 ELSE file[f]]
  BY DEF NewBenchFile, Files!NewFile, Types
<1>2. Types'
  BY <1>1 DEF Types, FileObject
<1> QED
  BY <1>1, <1>2, NamesApart

LEMMA StopFacts ==
  ASSUME Stop
  PROVE  IInv'
<1>1. /\ slot' = [h \in Files!Dbi |-> Free]
      /\ file' = [f \in All |-> [name |-> f, last |-> 0, closed |-> TRUE, dbi |-> Files!NoDbi]]
      /\ pc' = "idle"
  BY DEF Stop, Files!NoHandles, Files!NewFile, All
<1>2. Types'
  BY <1>1 DEF Types, FileObject
<1>3. OwnHandle'
  <2>1. \A h \in Files!Dbi : slot'[h] # BENCH
    BY <1>1, NamesApart
  <2> QED
    BY <1>1, <2>1 DEF OwnHandle
<1>4. FreshFile'
  BY <1>1 DEF FreshFile
<1> QED
  BY <1>2, <1>3, <1>4 DEF IInv

LEMMA InitInv == Init => IInv
<1> SUFFICES ASSUME Init PROVE IInv
  OBVIOUS
<1>1. /\ slot = [h \in Files!Dbi |-> Free]
      /\ file = [f \in All |-> [name |-> f, last |-> 0, closed |-> TRUE, dbi |-> Files!NoDbi]]
      /\ pc = "idle"
  BY DEF Init, Files!NoHandles, Files!NewFile, All
<1>2. Types
  BY <1>1 DEF Types, FileObject
<1>3. OwnHandle
  <2>1. \A h \in Files!Dbi : slot[h] # BENCH
    BY <1>1, NamesApart
  <2> QED
    BY <1>1, <2>1 DEF OwnHandle
<1>4. FreshFile
  BY <1>1 DEF FreshFile
<1> QED
  BY <1>2, <1>3, <1>4 DEF IInv

-----------------------------------------------------------------------------
(***************************************************************************)
(* The invariant, one step at a time.                                      *)
(***************************************************************************)
LEMMA NextInv ==
  ASSUME IInv, [Next]_vars
  PROVE  IInv'
<1>1. Types /\ OwnHandle /\ FreshFile
  BY DEF IInv
<1>2. ASSUME NEW f \in Others, OpenOther(f) PROVE IInv'
  <2>1. Types' /\ file'[BENCH] = file[BENCH] /\ pc = "idle" /\ pc' = "idle"
    BY <1>1, <1>2, DbOpenFacts, NamesApart DEF OpenOther
  <2>2. \A h \in Files!Dbi : slot'[h] # BENCH
    <3>1. \A h \in Files!Dbi : slot[h] # BENCH
      BY <1>1, <2>1 DEF OwnHandle, IsOpen, OpenCalls
    <3>2. slot' = slot \/ slot' = [slot EXCEPT ![file'[f].dbi] = f]
      BY <1>1, <1>2, DbOpenFacts, NamesApart DEF OpenOther
    <3> QED
      BY <1>1, <3>1, <3>2, NamesApart DEF Types
  <2> QED
    BY <2>1, <2>2 DEF IInv, OwnHandle, FreshFile
<1>3. ASSUME NEW f \in Others, WriteOther(f) PROVE IInv'
  <2>1. /\ Types' /\ file'[BENCH] = file[BENCH] /\ slot' = slot
        /\ pc = "idle" /\ pc' = "idle"
    BY <1>1, <1>3, AllocateFacts, NamesApart DEF WriteOther
  <2> QED
    BY <1>1, <2>1 DEF IInv, OwnHandle, FreshFile, IsOpen
<1>4. CASE Run
  <2>1. /\ pc = "idle" /\ pc' = "create" /\ slot' = slot
        /\ Types' /\ file'[BENCH].dbi = Files!NoDbi /\ file'[BENCH].closed
    BY <1>1, <1>4, NewBenchFileFacts DEF Run
  <2> QED
    BY <1>1, <2>1, NamesApart DEF IInv, OwnHandle, FreshFile, IsOpen, OpenCalls
<1>5. CASE Create
  <2>1. pc = "create" /\ pc' = "get_new"
    BY <1>5 DEF Create
  <2>2. CASE file[BENCH].closed
    <3>1. /\ Types'
          /\ \/ slot' = slot /\ file'[BENCH].dbi = file[BENCH].dbi
             \/ /\ file'[BENCH].dbi \in Files!Dbi
                /\ slot[file'[BENCH].dbi] \in {BENCH, Free}
                /\ slot' = slot \/ slot' = [slot EXCEPT ![file'[BENCH].dbi] = BENCH]
      BY <1>1, <1>5, <2>2, DbOpenFacts, NamesApart DEF Create
    <3>2. \A h \in Files!Dbi : slot[h] # BENCH
      BY <1>1, <2>1, <2>2 DEF OwnHandle, IsOpen, OpenCalls
    <3>3. IsOpen'
      BY <2>1 DEF IsOpen, OpenCalls
    <3>4. /\ file'[BENCH].dbi \in Files!Dbi => slot'[file'[BENCH].dbi] \in {BENCH, Free}
          /\ \A h \in Files!Dbi : slot'[h] = BENCH => h = file'[BENCH].dbi
      BY <1>1, <2>1, <3>1, <3>2 DEF Types, OwnHandle
    <3> QED
      BY <2>1, <3>1, <3>3, <3>4 DEF IInv, OwnHandle, FreshFile
  <2>3. CASE ~file[BENCH].closed
    <3>1. slot' = slot /\ file' = file
      BY <1>5, <2>3 DEF Create
    <3> QED
      BY <1>1, <2>1, <3>1 DEF IInv, Types, OwnHandle, FreshFile, IsOpen, OpenCalls
  <2> QED
    BY <2>2, <2>3
<1>6. CASE CreateGetNew \/ InitPages
  <2>1. /\ pc \in {"get_new", "init_pages"} /\ pc' \in {"put", "init_pages"}
        /\ slot' = slot /\ Types' /\ file'[BENCH].dbi = file[BENCH].dbi
    BY <1>1, <1>6, AllocateFacts, NamesApart DEF CreateGetNew, InitPages
  <2> QED
    BY <1>1, <2>1 DEF IInv, OwnHandle, FreshFile, IsOpen, OpenCalls
<1>7. CASE CreatePut \/ AddRecords
  <2>1. /\ pc \in {"put", "init_pages"} /\ pc' \in {"init_pages", "close", "wild"}
        /\ slot' = slot /\ file' = file
    BY <1>7 DEF CreatePut, AddRecords, Files!PutBlock
  <2> QED
    BY <1>1, <2>1 DEF IInv, Types, OwnHandle, FreshFile, IsOpen, OpenCalls
<1>8. CASE Close \/ Drop
  <2>1. /\ pc # "idle" /\ pc' \in {"construct", "drop", "next", "idle"}
        /\ Types' /\ file'[BENCH].dbi = file[BENCH].dbi
        /\ slot' = IF file[BENCH].dbi \in Files!Dbi
                   THEN [slot EXCEPT ![file[BENCH].dbi] = Free] ELSE slot
    BY <1>1, <1>8, CloseFacts, NamesApart DEF Close, Drop
  <2>2. \A h \in Files!Dbi : slot'[h] # BENCH
    BY <1>1, <2>1, NamesApart DEF Types, OwnHandle
  <2>3. file'[BENCH].dbi \in Files!Dbi => slot'[file'[BENCH].dbi] = Free
    BY <1>1, <2>1 DEF Types
  <2> QED
    BY <2>1, <2>2, <2>3 DEF IInv, OwnHandle, FreshFile
<1>9. CASE Construct \/ NextRound
  <2>1. /\ pc \in {"construct", "next"} /\ pc' \in {"open", "create"} /\ slot' = slot
        /\ Types' /\ file'[BENCH].dbi = Files!NoDbi /\ file'[BENCH].closed
    BY <1>1, <1>9, NewBenchFileFacts DEF Construct, NextRound
  <2> QED
    BY <1>1, <2>1, NamesApart DEF IInv, OwnHandle, FreshFile, IsOpen, OpenCalls
<1>10. CASE Open
  <2>1. CASE Stop
    BY <2>1, StopFacts
  <2>2. CASE ~Stop
    <3>1. pc = "open" /\ pc' = "create" /\ Files!DbOpen(BENCH, FALSE)
      BY <1>10, <2>2 DEF Open
    <3>2. /\ Types' /\ ~file'[BENCH].closed
          /\ \/ slot' = slot /\ file'[BENCH].dbi = file[BENCH].dbi
             \/ /\ file'[BENCH].dbi \in Files!Dbi
                /\ slot[file'[BENCH].dbi] \in {BENCH, Free}
                /\ slot' = slot \/ slot' = [slot EXCEPT ![file'[BENCH].dbi] = BENCH]
      BY <1>1, <3>1, DbOpenFacts, NamesApart
    <3>3. \A h \in Files!Dbi : slot[h] # BENCH
      BY <1>1, <3>1 DEF OwnHandle, IsOpen, OpenCalls
    <3>4. IsOpen'
      BY <3>1, <3>2 DEF IsOpen
    <3>5. /\ file'[BENCH].dbi \in Files!Dbi => slot'[file'[BENCH].dbi] \in {BENCH, Free}
          /\ \A h \in Files!Dbi : slot'[h] = BENCH => h = file'[BENCH].dbi
      BY <1>1, <3>1, <3>2, <3>3 DEF Types, OwnHandle
    <3> QED
      BY <3>1, <3>2, <3>4, <3>5 DEF IInv, OwnHandle, FreshFile
  <2> QED
    BY <2>1, <2>2
<1>11. CASE Stop
  BY <1>11, StopFacts
<1>12. CASE UNCHANGED vars
  BY <1>1, <1>12 DEF vars, IInv, Types, OwnHandle, FreshFile, IsOpen
<1> QED
  BY <1>2, <1>3, <1>4, <1>5, <1>6, <1>7, <1>8, <1>9, <1>10, <1>11, <1>12 DEF Next, Step

-----------------------------------------------------------------------------
\* A write through a handle of the benchmark's file, or of none, stores
\* nothing in another file.
LEMMA WriteOwn ==
  ASSUME NEW h, NEW key, NEW data, Files!PutEntry(h, key, data),
         h \in Files!Dbi => slot[h] \in {BENCH, Free}, NEW n \in Others, n \in DOMAIN dbs
  PROVE  n \in DOMAIN dbs' /\ dbs'[n] = dbs[n]
<1>1. Files!Valid(h) => slot[h] = BENCH
  BY DEF Files!Valid
<1> QED
  BY <1>1, NamesApart DEF Files!PutEntry

LEMMA UntouchedStep ==
  ASSUME IInv, [Next]_vars, pc \notin {"idle", "wild"}, NEW n \in Others
  PROVE  /\ n \in DOMAIN dbs => n \in DOMAIN dbs' /\ dbs'[n] = dbs[n]
         /\ Files!HandlesOf(n)' = Files!HandlesOf(n) \/ slot' = Files!NoHandles
<1>1. Types /\ n # BENCH /\ n \in All /\ Free # n /\ BENCH \in All
  BY NamesApart DEF IInv
<1>2. file[BENCH].dbi \in Files!Dbi => slot[file[BENCH].dbi] \in {BENCH, Free}
  BY DEF IInv, OwnHandle
\* A handle of the benchmark's file, or of none, changes hands.
<1>3. ASSUME NEW h \in Files!Dbi, slot[h] \in {BENCH, Free}, NEW x \in {BENCH, Free},
             slot' = [slot EXCEPT ![h] = x]
      PROVE  Files!HandlesOf(n)' = Files!HandlesOf(n)
  <2>1. \A i \in Files!Dbi : slot'[i] = n <=> slot[i] = n
    BY <1>1, <1>3 DEF Types
  <2> QED
    BY <2>1 DEF Files!HandlesOf
<1>4. slot' = slot => Files!HandlesOf(n)' = Files!HandlesOf(n)
  BY DEF Files!HandlesOf
<1>5. CASE Stop
  BY <1>5 DEF Stop
<1>6. ASSUME NEW create \in BOOLEAN, Files!DbOpen(BENCH, create)
      PROVE  /\ n \in DOMAIN dbs => n \in DOMAIN dbs' /\ dbs'[n] = dbs[n]
             /\ Files!HandlesOf(n)' = Files!HandlesOf(n)
  BY <1>1, <1>3, <1>4, <1>6, DbOpenFacts
<1>7. CASE Create
  BY <1>4, <1>6, <1>7 DEF Create
<1>8. CASE Open
  BY <1>5, <1>6, <1>8 DEF Open
<1>9. CASE CreateGetNew \/ InitPages \/ CreatePut
  <2>1. slot' = slot
    BY <1>9 DEF CreateGetNew, InitPages, CreatePut, Files!AllocateBlock, Files!PutBlock
  <2>2. \E key : Files!PutEntry(file[BENCH].dbi, key, NewBlock)
    BY <1>9 DEF CreateGetNew, InitPages, CreatePut, Files!AllocateBlock, Files!PutBlock
  <2> QED
    BY <1>2, <1>4, <2>1, <2>2, WriteOwn
<1>10. CASE Close \/ Drop
  <2>1. /\ dbs' = dbs
        /\ slot' = IF file[BENCH].dbi \in Files!Dbi
                   THEN [slot EXCEPT ![file[BENCH].dbi] = Free] ELSE slot
    BY <1>1, <1>10, CloseFacts DEF Close, Drop
  <2> QED
    BY <1>2, <1>3, <1>4, <2>1
<1>11. CASE AddRecords \/ Construct \/ NextRound \/ UNCHANGED vars
  <2>1. dbs' = dbs /\ slot' = slot
    BY <1>11 DEF AddRecords, Construct, NextRound, vars
  <2> QED
    BY <1>4, <2>1
<1>12. ~Run /\ \A f \in Others : ~OpenOther(f) /\ ~WriteOther(f)
  BY DEF Run, OpenOther, WriteOther
<1> QED
  BY <1>5, <1>7, <1>8, <1>9, <1>10, <1>11, <1>12 DEF Next, Step

-----------------------------------------------------------------------------
(***************************************************************************)
(* The theorems.                                                           *)
(***************************************************************************)

\* The inductive invariant holds of every process that runs benchmarks.
THEOREM InductiveInvariant == Spec => []IInv
<1>1. Init => IInv
  BY InitInv
<1>2. IInv /\ [Next]_vars => IInv'
  BY NextInv
<1> QED
  BY <1>1, <1>2, PTL DEF Spec

\* A benchmark that has ended holds no handle of the environment, however its
\* rounds went: also when opens found no handle or commits failed.
THEOREM HandleGivenBack == Spec => []NoHandleLeft
<1>1. IInv => NoHandleLeft
  BY DEF IInv, OwnHandle, IsOpen, OpenCalls, NoHandleLeft, Files!HandlesOf
<1> QED
  BY <1>1, InductiveInvariant, PTL

\* The benchmark writes no other file and takes no other file's handle,
\* although it closes one handle twice in every round.
THEOREM OthersStayUntouched == Spec => OthersUntouched
<1>1. IInv /\ [Next]_vars
        => [pc \notin {"idle", "wild"} =>
              \A n \in Others :
                /\ n \in DOMAIN dbs => n \in DOMAIN dbs' /\ dbs'[n] = dbs[n]
                /\ Files!HandlesOf(n)' = Files!HandlesOf(n) \/ slot' = Files!NoHandles]_vars
  BY UntouchedStep
<1> QED
  BY <1>1, InductiveInvariant, PTL DEF Spec, OthersUntouched

=============================================================================
