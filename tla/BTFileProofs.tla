----------------------------- MODULE BTFileProofs -----------------------------
(***************************************************************************)
(* Theorems about BTFile, for every set of objects and names, every number *)
(* of handles and every bound on blocks: types always, the rest as long as *)
(* writes succeed.                                                         *)
(***************************************************************************)
EXTENDS BTFile, Minima, FiniteSetTheorems, TLAPS

\* A write that fails leaves last ahead of the blocks, and a failed commit
\* leaves a handle that is not the file's own.
WritesSucceed == WRITES_FAIL = FALSE

\* Two open objects are objects of two files.
OneOpen ==
  \A f, g \in Object :
    f # g /\ file[f].name = file[g].name => file[f].closed \/ file[g].closed

\* The ids of a database are the numbers up to some last one.
Contiguous ==
  \A n \in DOMAIN dbs : Entries(n) \in Nat /\ DOMAIN dbs[n] = 1 .. Entries(n)

\* create() runs on an open file; once it has its block, last is its id.
CreatingOpen ==
  /\ creating.next # "none" =>
       creating.object \in Object /\ ~file[creating.object].closed
  /\ creating.next = "put" => file[creating.object].last > 0

\* The part of TypeOK and the invariant that is about dbs, slot and file.
StoreType ==
  /\ DOMAIN dbs \subseteq Name
  /\ \A n \in DOMAIN dbs : \A k \in DOMAIN dbs[n] : k \in Nat /\ dbs[n][k] \in Content
  /\ slot \in [Dbi -> Name \union {Free}]
  /\ file \in [Object -> [name : Name, last : Nat, closed : BOOLEAN,
                          dbi : Dbi \union {NoDbi}]]

StoreInv ==
  /\ StoreType
  /\ HandleOwn
  /\ LastAccurate
  /\ OneOpen
  /\ Contiguous

\* The inductive invariant.
IInv ==
  /\ StoreInv
  /\ creating \in [object : Object \union {NoObject}, next : {"none", "get_new", "put"}]
  /\ CreatingOpen

-----------------------------------------------------------------------------
\* mdb_dbi_open returns a handle of that name, or else an unused one.
LEMMA OpenHandleIs ==
  ASSUME NEW n \in Name, HandlesOf(n) # {} \/ FreeHandles # {}
  PROVE  OpenHandle(n) \in (IF HandlesOf(n) # {} THEN HandlesOf(n) ELSE FreeHandles)
<1> DEFINE candidates == IF HandlesOf(n) # {} THEN HandlesOf(n) ELSE FreeHandles
<1>1. candidates \in SUBSET Nat /\ candidates # {}
  BY LMDBAssumption DEF HandlesOf, FreeHandles, Dbi, LMDBAssumption
<1>2. \E h \in candidates : \A i \in candidates : h <= i
  BY <1>1, Minimum
<1> QED
  BY <1>2 DEF OpenHandle

LEMMA CountTo ==
  ASSUME NEW k \in Nat
  PROVE  Cardinality(1 .. k) = k
BY FS_Interval

\* An object with a handle has a valid one; the others are not its database's.
LEMMA HandleFacts ==
  ASSUME StoreInv, NEW f \in Object, ~file[f].closed
  PROVE  /\ Valid(file[f].dbi) <=> Attached(f)
         /\ Attached(f) => /\ slot[file[f].dbi] = file[f].name
                           /\ file[f].name \in DOMAIN dbs
                           /\ DOMAIN dbs[file[f].name] = 1 .. file[f].last
         /\ \A g \in Object : g # f /\ Attached(g) => file[g].name # file[f].name
<1>1. file[f].dbi \in Dbi \union {NoDbi} /\ file[f].name \in Name
  BY DEF StoreInv, StoreType
<1>2. NoDbi \notin Dbi
  BY LMDBAssumption DEF NoDbi, Dbi, LMDBAssumption
<1>3. Attached(f) => slot[file[f].dbi] = file[f].name
  BY DEF StoreInv, HandleOwn
<1>4. Free \notin Name
  BY LMDBAssumption DEF LMDBAssumption
<1>5. Valid(file[f].dbi) <=> Attached(f)
  BY <1>1, <1>2, <1>3, <1>4 DEF Valid, Attached
<1>6. Attached(f) => /\ file[f].name \in DOMAIN dbs
                     /\ DOMAIN dbs[file[f].name] = 1 .. file[f].last
  BY DEF StoreInv, LastAccurate
<1>7. \A g \in Object : g # f /\ Attached(g) => file[g].name # file[f].name
  BY DEF StoreInv, OneOpen, Attached
<1> QED
  BY <1>3, <1>5, <1>6, <1>7

-----------------------------------------------------------------------------
(***************************************************************************)
(* What the methods do to dbs, slot and file.                              *)
(***************************************************************************)

\* put(block), of a block that the file has.
LEMMA PutBlockStore ==
  ASSUME StoreInv, WritesSucceed, NEW f \in Object, ~file[f].closed,
         NEW id \in 1 .. file[f].last, NEW content \in Content,
         PutBlock(f, id, content)
  PROVE  StoreInv'
<1>1. slot' = slot /\ file' = file
  BY DEF PutBlock
<1>2. CASE ~Attached(f)
  <2>1. ~Valid(file[f].dbi)
    BY <1>2, HandleFacts
  <2>2. dbs' = dbs
    BY <2>1 DEF PutBlock, PutEntry
  <2> QED
    BY <1>1, <2>2 DEF StoreInv, StoreType, HandleOwn, LastAccurate, OneOpen, Contiguous,
                      Attached, Entries
<1>3. CASE Attached(f)
  <2> DEFINE n == file[f].name
  <2>1. Valid(file[f].dbi) /\ slot[file[f].dbi] = n /\ n \in DOMAIN dbs
        /\ DOMAIN dbs[n] = 1 .. file[f].last
    BY <1>3, HandleFacts
  <2>2. PutEntry(file[f].dbi, id, content)
    BY DEF PutBlock
  <2>3. /\ DOMAIN dbs' = DOMAIN dbs
        /\ \A m \in DOMAIN dbs : m # n => dbs'[m] = dbs[m]
        /\ DOMAIN dbs'[n] = DOMAIN dbs[n] \union {id}
        /\ \A k \in DOMAIN dbs'[n] : dbs'[n][k] = IF k = id THEN content ELSE dbs[n][k]
    BY <2>1, <2>2 DEF PutEntry, WritesSucceed
  <2> HIDE DEF n
  <2>4. \A m \in DOMAIN dbs : DOMAIN dbs'[m] = DOMAIN dbs[m]
    BY <2>1, <2>3
  <2>5. StoreType'
    <3>1. \A m \in DOMAIN dbs : \A k \in DOMAIN dbs[m] : k \in Nat /\ dbs'[m][k] \in Content
      BY <2>3, <2>4 DEF StoreInv, StoreType
    <3> QED
      BY <1>1, <2>3, <2>4, <3>1 DEF StoreInv, StoreType
  <2>6. Contiguous'
    BY <2>3, <2>4 DEF StoreInv, Contiguous, Entries
  <2>7. LastAccurate' /\ HandleOwn' /\ OneOpen'
    BY <1>1, <2>3, <2>4 DEF StoreInv, LastAccurate, HandleOwn, OneOpen, Attached
  <2> QED
    BY <2>5, <2>6, <2>7 DEF StoreInv
<1> QED
  BY <1>2, <1>3

\* get_new()
LEMMA AllocateStore ==
  ASSUME StoreInv, WritesSucceed, NEW f \in Object, ~file[f].closed, AllocateBlock(f)
  PROVE  StoreInv' /\ ~file'[f].closed /\ file'[f].last > 0
<1> DEFINE last == file[f].last
<1>1. slot' = slot /\ file' = [file EXCEPT ![f].last = last + 1]
  BY DEF AllocateBlock
<1>2. file \in [Object -> [name : Name, last : Nat, closed : BOOLEAN, dbi : Dbi \union {NoDbi}]]
  BY DEF StoreInv, StoreType
<1>3. /\ file' \in [Object -> [name : Name, last : Nat, closed : BOOLEAN, dbi : Dbi \union {NoDbi}]]
      /\ \A g \in Object : /\ file'[g].name = file[g].name
                            /\ file'[g].closed = file[g].closed
                            /\ file'[g].dbi = file[g].dbi
                            /\ file'[g].last = IF g = f THEN last + 1 ELSE file[g].last
  BY <1>1, <1>2
<1>4. HandleOwn' /\ OneOpen'
  BY <1>1, <1>3 DEF StoreInv, HandleOwn, OneOpen, Attached
<1>5. \A g \in Object : Attached(g)' <=> Attached(g)
  BY <1>3 DEF Attached
<1>6. last \in Nat
  BY <1>2
<1>7. CASE ~Attached(f)
  <2>1. ~Valid(file[f].dbi)
    BY <1>7, HandleFacts
  <2>2. dbs' = dbs
    BY <2>1 DEF AllocateBlock, PutEntry
  <2>3. LastAccurate'
    BY <1>3, <1>5, <1>7, <2>2 DEF StoreInv, LastAccurate
  <2> QED
    BY <1>1, <1>3, <1>4, <1>6, <2>2, <2>3 DEF StoreInv, StoreType, Contiguous, Entries
<1>8. CASE Attached(f)
  <2> DEFINE n == file[f].name
  <2>1. Valid(file[f].dbi) /\ slot[file[f].dbi] = n /\ n \in DOMAIN dbs
        /\ DOMAIN dbs[n] = 1 .. last
    BY <1>8, HandleFacts
  <2>2. PutEntry(file[f].dbi, last + 1, NewBlock)
    BY DEF AllocateBlock
  <2>3. /\ DOMAIN dbs' = DOMAIN dbs
        /\ \A m \in DOMAIN dbs : m # n => dbs'[m] = dbs[m]
        /\ DOMAIN dbs'[n] = DOMAIN dbs[n] \union {last + 1}
        /\ \A k \in DOMAIN dbs'[n] : dbs'[n][k] = IF k = last + 1 THEN NewBlock ELSE dbs[n][k]
    BY <2>1, <2>2 DEF PutEntry, WritesSucceed
  <2>4. \A g \in Object : g # f /\ Attached(g) => file[g].name # n
    BY HandleFacts
  <2> HIDE DEF n, last
  <2>5. DOMAIN dbs'[n] = 1 .. last + 1
    BY <1>6, <2>1, <2>3
  <2>6. StoreType'
    <3>1. \A m \in DOMAIN dbs : \A k \in DOMAIN dbs'[m] : k \in Nat /\ dbs'[m][k] \in Content
      BY <1>6, <2>1, <2>3, <2>5, BTFileAssumption DEF StoreInv, StoreType, BTFileAssumption
    <3> QED
      BY <1>1, <1>3, <2>3, <3>1 DEF StoreInv, StoreType
  <2>7. Contiguous'
    <3>1. Cardinality(DOMAIN dbs'[n]) = last + 1
      BY <1>6, <2>5, CountTo
    <3>2. ASSUME NEW m \in DOMAIN dbs
          PROVE  Cardinality(DOMAIN dbs'[m]) \in Nat /\ DOMAIN dbs'[m] = 1 .. Cardinality(DOMAIN dbs'[m])
      <4>1. CASE m = n
        BY <1>6, <2>5, <3>1, <4>1
      <4>2. CASE m # n
        BY <2>3, <4>2 DEF StoreInv, Contiguous, Entries
      <4> QED
        BY <4>1, <4>2
    <3> QED
      BY <2>3, <3>2 DEF Contiguous, Entries
  <2>8. LastAccurate'
    BY <1>3, <1>5, <2>1, <2>3, <2>4, <2>5 DEF StoreInv, LastAccurate, n
  <2> QED
    BY <1>3, <1>4, <1>6, <2>6, <2>7, <2>8 DEF StoreInv
<1> QED
  BY <1>7, <1>8

\* db_open, of an object that was never opened and whose file no other object
\* has open.
LEMMA DbOpenStore ==
  ASSUME StoreInv, WritesSucceed, NEW f \in Object, NEW create \in BOOLEAN,
         MayOpen(f), file[f].closed, DbOpen(f, create)
  PROVE  StoreInv' /\ ~file'[f].closed
<1> DEFINE n == file[f].name
           h == OpenHandle(n)
<1>1. /\ file \in [Object -> [name : Name, last : Nat, closed : BOOLEAN, dbi : Dbi \union {NoDbi}]]
      /\ slot \in [Dbi -> Name \union {Free}]
      /\ n \in Name /\ file[f].dbi = NoDbi
      /\ Free \notin Name /\ NoDbi \notin Dbi
  BY LMDBAssumption DEF StoreInv, StoreType, MayOpen, LMDBAssumption, NoDbi, Dbi
<1>2. \A g \in Object \ {f} : file[g].name = n => file[g].closed
  BY DEF MayOpen
<1>3. CASE /\ OpenStatus(n, create) = "DBS_FULL"
           /\ \E last \in Garbage :
                file' = [file EXCEPT ![f] = [@ EXCEPT !.last = last, !.closed = FALSE]]
           /\ UNCHANGED <<dbs, slot>>
  <2>1. PICK last \in Garbage :
          file' = [file EXCEPT ![f] = [@ EXCEPT !.last = last, !.closed = FALSE]]
    BY <1>3
  <2>2. last \in Nat
    BY BTFileAssumption DEF BTFileAssumption
  <2>3. /\ file' \in [Object -> [name : Name, last : Nat, closed : BOOLEAN, dbi : Dbi \union {NoDbi}]]
        /\ \A g \in Object \ {f} : file'[g] = file[g]
        /\ file'[f].name = n /\ file'[f].dbi = NoDbi /\ file'[f].closed = FALSE
    BY <1>1, <2>1, <2>2
  <2>4. \A g \in Object : Attached(g)' => g # f /\ Attached(g)
    BY <2>3 DEF Attached
  <2>5. StoreType' /\ Contiguous'
    BY <1>3, <2>3 DEF StoreInv, StoreType, Contiguous, Entries
  <2>6. HandleOwn' /\ LastAccurate'
    BY <1>3, <2>3, <2>4 DEF StoreInv, HandleOwn, LastAccurate
  <2>7. OneOpen'
    BY <1>2, <2>3 DEF StoreInv, OneOpen
  <2> QED
    BY <2>3, <2>5, <2>6, <2>7 DEF StoreInv
<1>4. CASE /\ OpenStatus(n, create) = "SUCCESS"
           /\ OpenDb(n)
           /\ file' = [file EXCEPT ![f] = [@ EXCEPT !.last = Entries(n), !.closed = FALSE,
                                                    !.dbi = OpenHandle(n)]]
  <2>1. h \in Dbi /\ slot[h] \in {n, Free}
    <3>1. HandlesOf(n) # {} \/ FreeHandles # {}
      BY <1>4 DEF OpenStatus
    <3> QED
      BY <1>1, <3>1, OpenHandleIs DEF HandlesOf, FreeHandles
  <2>2. /\ slot' = [slot EXCEPT ![h] = n]
        /\ DOMAIN dbs' = DOMAIN dbs \union {n}
        /\ \A m \in DOMAIN dbs : dbs'[m] = dbs[m]
        /\ n \notin DOMAIN dbs => dbs'[n] = <<>>
    BY <1>4 DEF OpenDb
  <2>3. DOMAIN <<>> = {}
    OBVIOUS
  <2>4. Entries(n) \in Nat /\ DOMAIN dbs'[n] = 1 .. Entries(n)
    <3>1. CASE n \in DOMAIN dbs
      BY <2>2, <3>1 DEF StoreInv, Contiguous
    <3>2. CASE n \notin DOMAIN dbs
      BY <2>2, <2>3, <3>2 DEF Entries
    <3> QED
      BY <3>1, <3>2
  <2> HIDE DEF h
  <2>5. /\ file' \in [Object -> [name : Name, last : Nat, closed : BOOLEAN, dbi : Dbi \union {NoDbi}]]
        /\ \A g \in Object \ {f} : file'[g] = file[g]
        /\ file'[f].name = n /\ file'[f].dbi = h /\ file'[f].closed = FALSE
        /\ file'[f].last = Entries(n)
    BY <1>1, <1>4, <2>1, <2>4 DEF h
  <2> HIDE DEF n
  <2>6. \A g \in Object \ {f} : Attached(g)' <=> Attached(g)
    BY <2>5 DEF Attached
  <2>7. StoreType'
    <3>1. slot' \in [Dbi -> Name \union {Free}]
      BY <1>1, <2>1, <2>2
    <3>2. \A m \in DOMAIN dbs' : \A k \in DOMAIN dbs'[m] : k \in Nat /\ dbs'[m][k] \in Content
      BY <2>2, <2>3 DEF StoreInv, StoreType
    <3> QED
      BY <1>1, <2>2, <2>5, <3>1, <3>2 DEF StoreInv, StoreType
  <2>8. Contiguous'
    <3>1. ASSUME NEW m \in DOMAIN dbs'
          PROVE  Cardinality(DOMAIN dbs'[m]) \in Nat /\ DOMAIN dbs'[m] = 1 .. Cardinality(DOMAIN dbs'[m])
      <4>1. CASE m = n
        <5>1. Cardinality(1 .. Entries(n)) = Entries(n)
          BY <2>4, CountTo
        <5> QED
          BY <2>4, <4>1, <5>1
      <4>2. CASE m # n
        BY <2>2, <4>2 DEF StoreInv, Contiguous, Entries
      <4> QED
        BY <4>1, <4>2
    <3> QED
      BY <3>1 DEF Contiguous, Entries
  <2>9. HandleOwn'
    <3>1. \A g \in Object \ {f} : Attached(g) => file[g].dbi # h
      BY <1>1, <1>2, <2>1 DEF StoreInv, HandleOwn, Attached, StoreType, n
    <3>2. ASSUME NEW g \in Object, Attached(g)'
          PROVE  slot'[file'[g].dbi] = file'[g].name
      <4>1. CASE g = f
        BY <1>1, <2>1, <2>2, <2>5, <4>1
      <4>2. CASE g # f
        <5>1. Attached(g) /\ file'[g] = file[g]
          BY <2>5, <2>6, <3>2, <4>2
        <5>2. file[g].dbi \in Dbi
          BY <1>1, <5>1 DEF Attached
        <5>3. slot'[file[g].dbi] = slot[file[g].dbi]
          BY <1>1, <2>1, <2>2, <3>1, <4>2, <5>1, <5>2
        <5> QED
          BY <5>1, <5>3 DEF StoreInv, HandleOwn
      <4> QED
        BY <4>1, <4>2
    <3> QED
      BY <3>2 DEF HandleOwn
  <2>10. LastAccurate'
    BY <2>2, <2>4, <2>5, <2>6 DEF StoreInv, LastAccurate
  <2>11. OneOpen'
    BY <1>2, <2>5 DEF StoreInv, OneOpen
  <2> QED
    BY <2>5, <2>7, <2>8, <2>9, <2>10, <2>11 DEF StoreInv
<1> QED
  BY <1>3, <1>4 DEF DbOpen, MayFailToCreate, WritesSucceed

\* close()
LEMMA CloseStore ==
  ASSUME StoreInv, NEW f \in Object, ~file[f].closed, CloseFile(f)
  PROVE  StoreInv'
<1>1. /\ file \in [Object -> [name : Name, last : Nat, closed : BOOLEAN, dbi : Dbi \union {NoDbi}]]
      /\ slot \in [Dbi -> Name \union {Free}]
  BY DEF StoreInv, StoreType
<1>2. /\ dbs' = dbs
      /\ file' = [file EXCEPT ![f].closed = TRUE]
      /\ slot' = IF file[f].dbi \in Dbi THEN [slot EXCEPT ![file[f].dbi] = Free] ELSE slot
  BY DEF CloseFile, CloseDbi
<1>3. /\ file' \in [Object -> [name : Name, last : Nat, closed : BOOLEAN, dbi : Dbi \union {NoDbi}]]
      /\ \A g \in Object \ {f} : file'[g] = file[g]
      /\ file'[f].name = file[f].name /\ file'[f].closed = TRUE
      /\ slot' \in [Dbi -> Name \union {Free}]
  BY <1>1, <1>2
<1>4. \A g \in Object : Attached(g)' => g # f /\ Attached(g)
  BY <1>3 DEF Attached
<1>5. ASSUME NEW g \in Object, Attached(g)'
      PROVE  slot'[file[g].dbi] = slot[file[g].dbi]
  <2>1. g # f /\ Attached(g) /\ file[g].name # file[f].name
    BY <1>4, <1>5, HandleFacts
  <2>2. file[f].dbi \in Dbi => slot[file[f].dbi] = file[f].name
    BY HandleFacts, LMDBAssumption DEF Attached, NoDbi, Dbi, LMDBAssumption
  <2>3. slot[file[g].dbi] = file[g].name
    BY <2>1 DEF StoreInv, HandleOwn
  <2> QED
    BY <1>1, <1>2, <2>1, <2>2, <2>3
<1>6. HandleOwn' /\ LastAccurate'
  BY <1>2, <1>3, <1>4, <1>5 DEF StoreInv, HandleOwn, LastAccurate
<1>7. StoreType' /\ OneOpen' /\ Contiguous'
  BY <1>2, <1>3 DEF StoreInv, StoreType, OneOpen, Contiguous, Entries
<1> QED
  BY <1>6, <1>7 DEF StoreInv

\* A new object in the place of an old one.
LEMMA ConstructStore ==
  ASSUME StoreInv, NEW f \in Object, NEW n \in Name,
         file' = [file EXCEPT ![f] = NewFile(n)], UNCHANGED <<dbs, slot>>
  PROVE  StoreInv'
<1>1. /\ file' \in [Object -> [name : Name, last : Nat, closed : BOOLEAN, dbi : Dbi \union {NoDbi}]]
      /\ \A g \in Object \ {f} : file'[g] = file[g]
      /\ file'[f].closed
  BY DEF NewFile, StoreInv, StoreType
<1>2. StoreType' /\ Contiguous' /\ OneOpen'
  BY <1>1 DEF StoreInv, StoreType, Contiguous, OneOpen, Entries
<1>3. HandleOwn' /\ LastAccurate'
  BY <1>1 DEF StoreInv, HandleOwn, LastAccurate, Attached
<1> QED
  BY <1>2, <1>3 DEF StoreInv

\* The process ends.
LEMMA EndStore ==
  ASSUME StoreInv, file' = [f \in Object |-> NewFile(file[f].name)],
         slot' = NoHandles, UNCHANGED dbs
  PROVE  StoreInv'
<1>1. slot' \in [Dbi -> Name \union {Free}]
  BY DEF NoHandles
<1>2. /\ file' \in [Object -> [name : Name, last : Nat, closed : BOOLEAN, dbi : Dbi \union {NoDbi}]]
      /\ \A f \in Object : file'[f].closed
  BY DEF NewFile, StoreInv, StoreType
<1> QED
  BY <1>1, <1>2 DEF StoreInv, StoreType, HandleOwn, LastAccurate, OneOpen, Contiguous,
                    Attached, Entries

-----------------------------------------------------------------------------
LEMMA InitStore ==
  ASSUME dbs = [n \in {} |-> <<>>], slot = NoHandles,
         file \in [Object -> {NewFile(n) : n \in Name}]
  PROVE  StoreInv
<1>1. /\ DOMAIN dbs = {}
      /\ slot \in [Dbi -> Name \union {Free}]
  BY DEF NoHandles
<1>2. /\ file \in [Object -> [name : Name, last : Nat, closed : BOOLEAN, dbi : Dbi \union {NoDbi}]]
      /\ \A f \in Object : file[f].closed
  <2>1. \A n \in Name :
          /\ NewFile(n) \in [name : Name, last : Nat, closed : BOOLEAN, dbi : Dbi \union {NoDbi}]
          /\ NewFile(n).closed
    BY DEF NewFile
  <2>2. ASSUME NEW f \in Object
        PROVE  /\ file[f] \in [name : Name, last : Nat, closed : BOOLEAN, dbi : Dbi \union {NoDbi}]
               /\ file[f].closed
    <3>1. PICK n \in Name : file[f] = NewFile(n)
      OBVIOUS
    <3> QED
      BY <2>1, <3>1
  <2> QED
    BY <2>2
<1> QED
  BY <1>1, <1>2 DEF StoreInv, StoreType, HandleOwn, LastAccurate, OneOpen, Contiguous, Attached

LEMMA InitInv ==
  Init => IInv
BY InitStore DEF Init, IInv, CreatingOpen, NotCreating

LEMMA StepInv ==
  ASSUME WritesSucceed, IInv, [Next]_vars
  PROVE  IInv'
<1>1. /\ StoreInv
      /\ creating \in [object : Object \union {NoObject}, next : {"none", "get_new", "put"}]
      /\ CreatingOpen
      /\ file \in [Object -> [name : Name, last : Nat, closed : BOOLEAN, dbi : Dbi \union {NoDbi}]]
  BY DEF IInv, StoreInv, StoreType
<1>2. /\ NotCreating \in [object : Object \union {NoObject}, next : {"none", "get_new", "put"}]
      /\ NotCreating.next = "none"
  BY DEF NotCreating
<1>3. ASSUME Idle, creating' = creating, StoreInv'
      PROVE  IInv'
  BY <1>2, <1>3 DEF IInv, CreatingOpen, Idle
<1>4. ASSUME NEW f \in Object, NEW n \in Name, Construct(f, n)
      PROVE  IInv'
  BY <1>1, <1>3, <1>4, ConstructStore DEF Construct
<1>5. ASSUME NEW f \in Object, Open(f)
      PROVE  IInv'
  BY <1>1, <1>3, <1>5, DbOpenStore DEF Open
<1>6. ASSUME NEW f \in Object, Create(f)
      PROVE  IInv'
  <2>1. StoreInv' /\ ~file'[f].closed
    <3>1. CASE file[f].closed
      BY <1>1, <1>6, <3>1, DbOpenStore DEF Create
    <3>2. CASE ~file[f].closed
      <4>1. dbs' = dbs /\ slot' = slot /\ file' = file
        BY <1>6, <3>2 DEF Create
      <4> QED
        BY <1>1, <3>2, <4>1 DEF StoreInv, StoreType, HandleOwn, LastAccurate, OneOpen,
                                Contiguous, Attached, Entries
    <3> QED
      BY <3>1, <3>2
  <2>2. creating' = [object |-> f, next |-> "get_new"]
    BY <1>6 DEF Create
  <2> QED
    BY <2>1, <2>2 DEF IInv, CreatingOpen
<1>7. ASSUME CreateGetNew
      PROVE  IInv'
  <2> DEFINE f == creating.object
  <2>1. f \in Object /\ ~file[f].closed /\ AllocateBlock(f)
    BY <1>1, <1>7 DEF CreateGetNew, CreatingOpen
  <2>2. StoreInv' /\ ~file'[f].closed /\ file'[f].last > 0
    BY <1>1, <2>1, AllocateStore
  <2>3. creating' = [creating EXCEPT !.next = "put"]
    BY <1>7 DEF CreateGetNew
  <2>4. /\ creating' \in [object : Object \union {NoObject}, next : {"none", "get_new", "put"}]
        /\ creating'.object = f
    BY <1>1, <2>3
  <2> QED
    BY <2>1, <2>2, <2>4 DEF IInv, CreatingOpen
<1>8. ASSUME CreatePut
      PROVE  IInv'
  <2> DEFINE f == creating.object
  <2>1. /\ f \in Object /\ ~file[f].closed /\ file[f].last \in 1 .. file[f].last
        /\ PutBlock(f, file[f].last, NewBlock)
    <3>1. f \in Object /\ ~file[f].closed /\ file[f].last > 0
      BY <1>1, <1>8 DEF CreatePut, CreatingOpen
    <3>2. file[f].last \in Nat
      BY <1>1, <3>1
    <3> QED
      BY <1>8, <3>1, <3>2 DEF CreatePut
  <2>2. StoreInv'
    BY <1>1, <2>1, BTFileAssumption, PutBlockStore DEF BTFileAssumption
  <2>3. creating' = NotCreating
    BY <1>8 DEF CreatePut
  <2> QED
    BY <1>2, <2>2, <2>3 DEF IInv, CreatingOpen
<1>9. ASSUME NEW f \in Object, GetNew(f)
      PROVE  IInv'
  BY <1>1, <1>3, <1>9, AllocateStore DEF GetNew
<1>10. ASSUME NEW f \in Object, NEW content \in Content, NEW id \in 1 .. file[f].last,
              Put(f, id, content)
       PROVE  IInv'
  BY <1>1, <1>3, <1>10, PutBlockStore DEF Put
<1>11. ASSUME NEW f \in Object, Close(f) \/ Drop(f)
       PROVE  IInv'
  BY <1>1, <1>3, <1>11, CloseStore DEF Close, Drop
<1>12. ASSUME Crash
       PROVE  IInv'
  BY <1>1, <1>2, <1>12, EndStore DEF Crash, IInv, CreatingOpen
<1>13. CASE UNCHANGED vars
  BY <1>1, <1>13 DEF vars, IInv, StoreInv, StoreType, HandleOwn, LastAccurate, OneOpen,
                     Contiguous, Attached, Entries, CreatingOpen
<1> QED
  BY <1>4, <1>5, <1>6, <1>7, <1>8, <1>9, <1>10, <1>11, <1>12, <1>13 DEF Next

-----------------------------------------------------------------------------
(***************************************************************************)
(* Types, whether or not writes fail.  A count of entries is a number only *)
(* of a finite database, and create() goes on with an object.              *)
(***************************************************************************)
TypeInv ==
  /\ TypeOK
  /\ \A n \in DOMAIN dbs : IsFiniteSet(DOMAIN dbs[n])
  /\ creating.next # "none" => creating.object \in Object

\* The part of TypeInv that is about dbs, slot and file.
StoreTyped ==
  /\ StoreType
  /\ \A n \in DOMAIN dbs : IsFiniteSet(DOMAIN dbs[n])

LEMMA PutEntryTyped ==
  ASSUME StoreTyped, NEW h, NEW key \in Nat, NEW data \in Content, PutEntry(h, key, data)
  PROVE  /\ DOMAIN dbs' \subseteq Name
         /\ \A n \in DOMAIN dbs' :
              /\ IsFiniteSet(DOMAIN dbs'[n])
              /\ \A k \in DOMAIN dbs'[n] : k \in Nat /\ dbs'[n][k] \in Content
<1>1. CASE UNCHANGED dbs
  BY <1>1 DEF StoreTyped, StoreType
<1>2. CASE dbs' = [dbs EXCEPT ![slot[h]] =
                    [k \in DOMAIN @ \union {key} |-> IF k = key THEN data ELSE @[k]]]
  <2>1. DOMAIN dbs' = DOMAIN dbs
    BY <1>2
  <2>2. \A n \in DOMAIN dbs : n # slot[h] => dbs'[n] = dbs[n]
    BY <1>2
  <2>3. slot[h] \in DOMAIN dbs =>
          dbs'[slot[h]] = [k \in DOMAIN dbs[slot[h]] \union {key} |->
                             IF k = key THEN data ELSE dbs[slot[h]][k]]
    BY <1>2
  <2>4. slot[h] \in DOMAIN dbs =>
          /\ IsFiniteSet(DOMAIN dbs'[slot[h]])
          /\ \A k \in DOMAIN dbs'[slot[h]] : k \in Nat /\ dbs'[slot[h]][k] \in Content
    <3>1. slot[h] \in DOMAIN dbs => IsFiniteSet(DOMAIN dbs[slot[h]] \union {key})
      BY FS_AddElement DEF StoreTyped
    <3> QED
      BY <2>3, <3>1 DEF StoreTyped, StoreType
  <2> QED
    BY <2>1, <2>2, <2>4 DEF StoreTyped, StoreType
<1> QED
  BY <1>1, <1>2 DEF PutEntry

LEMMA AllocateTyped ==
  ASSUME StoreTyped, NEW f \in Object, AllocateBlock(f)
  PROVE  StoreTyped'
<1>1. file[f].last + 1 \in Nat
  BY DEF StoreTyped, StoreType
<1>2. /\ slot' = slot
      /\ file' \in [Object -> [name : Name, last : Nat, closed : BOOLEAN, dbi : Dbi \union {NoDbi}]]
  BY DEF AllocateBlock, StoreTyped, StoreType
<1> QED
  BY <1>1, <1>2, BTFileAssumption, PutEntryTyped
     DEF AllocateBlock, BTFileAssumption, StoreTyped, StoreType

LEMMA PutBlockTyped ==
  ASSUME StoreTyped, NEW f \in Object, NEW id \in Nat, NEW content \in Content,
         PutBlock(f, id, content)
  PROVE  StoreTyped'
BY PutEntryTyped DEF PutBlock, StoreTyped, StoreType

LEMMA DbOpenTyped ==
  ASSUME StoreTyped, NEW f \in Object, NEW create \in BOOLEAN, DbOpen(f, create)
  PROVE  StoreTyped'
<1> DEFINE n == file[f].name
           h == OpenHandle(n)
           member == [name : Name, last : Nat, closed : BOOLEAN, dbi : Dbi \union {NoDbi}]
<1>1. /\ file \in [Object -> member] /\ n \in Name
      /\ slot \in [Dbi -> Name \union {Free}]
  BY DEF StoreTyped, StoreType
<1>2. Entries(n) \in Nat
  BY FS_CardinalityType DEF Entries, StoreTyped
<1>3. OpenStatus(n, create) = "SUCCESS" => h \in Dbi
  <2>1. OpenStatus(n, create) = "SUCCESS" => HandlesOf(n) # {} \/ FreeHandles # {}
    BY DEF OpenStatus
  <2> QED
    BY <1>1, <2>1, OpenHandleIs DEF HandlesOf, FreeHandles
<1> HIDE DEF h
<1>4. CASE /\ OpenStatus(n, create) = "DBS_FULL" \/ MayFailToCreate(n, OpenStatus(n, create))
           /\ \E last \in Garbage :
                file' = [file EXCEPT ![f] = [@ EXCEPT !.last = last, !.closed = FALSE]]
           /\ UNCHANGED <<dbs, slot>>
  <2>1. file' \in [Object -> member]
    BY <1>1, <1>4, BTFileAssumption DEF BTFileAssumption
  <2> QED
    BY <1>4, <2>1 DEF StoreTyped, StoreType
<1>5. CASE /\ OpenStatus(n, create) = "SUCCESS"
           /\ OpenDb(n)
           /\ file' = [file EXCEPT ![f] = [@ EXCEPT !.last = Entries(n), !.closed = FALSE,
                                                    !.dbi = h]]
  <2>1. file' \in [Object -> member]
    BY <1>1, <1>2, <1>3, <1>5
  <2>2. slot' \in [Dbi -> Name \union {Free}]
    BY <1>1, <1>5 DEF OpenDb
  <2>3. /\ DOMAIN dbs' = DOMAIN dbs \union {n}
        /\ \A m \in DOMAIN dbs : dbs'[m] = dbs[m]
        /\ n \notin DOMAIN dbs => dbs'[n] = <<>>
    BY <1>5 DEF OpenDb
  <2>4. DOMAIN <<>> = {} /\ IsFiniteSet({})
    BY FS_EmptySet
  <2> HIDE DEF n
  <2>5. \A m \in DOMAIN dbs' :
          /\ IsFiniteSet(DOMAIN dbs'[m])
          /\ \A k \in DOMAIN dbs'[m] : k \in Nat /\ dbs'[m][k] \in Content
    BY <2>3, <2>4 DEF StoreTyped, StoreType
  <2> QED
    BY <1>1, <2>1, <2>2, <2>3, <2>5 DEF StoreTyped, StoreType
<1>6. CASE /\ OpenStatus(n, create) = "SUCCESS"
           /\ file' = [file EXCEPT ![f] = [@ EXCEPT !.last = 0, !.closed = FALSE, !.dbi = h]]
           /\ UNCHANGED <<dbs, slot>>
  <2>1. file' \in [Object -> member]
    BY <1>1, <1>3, <1>6
  <2> QED
    BY <1>6, <2>1 DEF StoreTyped, StoreType
<1> QED
  BY <1>4, <1>5, <1>6 DEF DbOpen, MayFailToCreate, h

LEMMA CloseTyped ==
  ASSUME StoreTyped, NEW f \in Object, CloseFile(f)
  PROVE  StoreTyped'
<1>1. file' \in [Object -> [name : Name, last : Nat, closed : BOOLEAN, dbi : Dbi \union {NoDbi}]]
  BY DEF CloseFile, StoreTyped, StoreType
<1>2. slot' \in [Dbi -> Name \union {Free}] /\ dbs' = dbs
  BY DEF CloseFile, CloseDbi, StoreTyped, StoreType
<1> QED
  BY <1>1, <1>2 DEF StoreTyped, StoreType

LEMMA NextTyped ==
  ASSUME TypeInv, [Next]_vars
  PROVE  TypeInv'
<1>1. /\ StoreTyped
      /\ creating \in [object : Object \union {NoObject}, next : {"none", "get_new", "put"}]
      /\ creating.next # "none" => creating.object \in Object
      /\ file \in [Object -> [name : Name, last : Nat, closed : BOOLEAN, dbi : Dbi \union {NoDbi}]]
  BY DEF TypeInv, TypeOK, StoreTyped, StoreType
<1>2. ASSUME StoreTyped',
             \/ creating' = creating
             \/ creating' = NotCreating
             \/ \E f \in Object : creating' = [object |-> f, next |-> "get_new"]
             \/ creating.next # "none" /\ creating' = [creating EXCEPT !.next = "put"]
      PROVE  TypeInv'
  BY <1>1, <1>2 DEF TypeInv, TypeOK, StoreTyped, StoreType, NotCreating
<1>3. ASSUME NEW f \in Object, NEW n \in Name, Construct(f, n)
      PROVE  TypeInv'
  <2>1. NewFile(n) \in [name : Name, last : Nat, closed : BOOLEAN, dbi : Dbi \union {NoDbi}]
    BY DEF NewFile
  <2>2. StoreTyped'
    BY <1>1, <1>3, <2>1 DEF Construct, StoreTyped, StoreType
  <2> QED
    BY <1>2, <1>3, <2>2 DEF Construct
<1>4. ASSUME NEW f \in Object, Open(f)
      PROVE  TypeInv'
  BY <1>1, <1>2, <1>4, DbOpenTyped DEF Open
<1>5. ASSUME NEW f \in Object, Create(f)
      PROVE  TypeInv'
  <2>1. CASE DbOpen(f, TRUE)
    BY <1>1, <1>2, <1>5, <2>1, DbOpenTyped DEF Create
  <2>2. CASE UNCHANGED <<dbs, slot, file>>
    BY <1>1, <1>2, <1>5, <2>2 DEF Create, StoreTyped, StoreType
  <2> QED
    BY <1>5, <2>1, <2>2 DEF Create
<1>6. ASSUME CreateGetNew
      PROVE  TypeInv'
  BY <1>1, <1>2, <1>6, AllocateTyped DEF CreateGetNew
<1>7. ASSUME CreatePut
      PROVE  TypeInv'
  <2>1. creating.object \in Object /\ file[creating.object].last \in Nat
    BY <1>1, <1>7 DEF CreatePut
  <2> QED
    BY <1>1, <1>2, <1>7, <2>1, PutBlockTyped, BTFileAssumption DEF CreatePut, BTFileAssumption
<1>8. ASSUME NEW f \in Object, GetNew(f)
      PROVE  TypeInv'
  BY <1>1, <1>2, <1>8, AllocateTyped DEF GetNew
<1>9. ASSUME NEW f \in Object, NEW content \in Content, NEW id \in 1 .. file[f].last,
             Put(f, id, content)
      PROVE  TypeInv'
  <2>1. id \in Nat
    BY <1>1
  <2> QED
    BY <1>1, <1>2, <1>9, <2>1, PutBlockTyped DEF Put
<1>10. ASSUME NEW f \in Object, Close(f) \/ Drop(f)
       PROVE  TypeInv'
  BY <1>1, <1>2, <1>10, CloseTyped DEF Close, Drop
<1>11. ASSUME Crash
       PROVE  TypeInv'
  <2>1. /\ file' \in [Object -> [name : Name, last : Nat, closed : BOOLEAN, dbi : Dbi \union {NoDbi}]]
        /\ slot' \in [Dbi -> Name \union {Free}] /\ dbs' = dbs
    BY <1>1, <1>11 DEF Crash, NewFile, NoHandles
  <2>2. StoreTyped'
    BY <1>1, <2>1 DEF StoreTyped, StoreType
  <2> QED
    BY <1>2, <1>11, <2>2 DEF Crash
<1>12. CASE UNCHANGED vars
  BY <1>12 DEF vars, TypeInv, TypeOK
<1> QED
  BY <1>3, <1>4, <1>5, <1>6, <1>7, <1>8, <1>9, <1>10, <1>11, <1>12 DEF Next

-----------------------------------------------------------------------------
(***************************************************************************)
(* The theorems.                                                           *)
(***************************************************************************)

\* Whatever the objects do and whenever the process ends, IInv holds: also two
\* open objects never share a file, and block ids have no gaps.
THEOREM InductiveInvariant ==
  ASSUME WritesSucceed
  PROVE  Spec => []IInv
<1>1. IInv /\ [Next]_vars => IInv'
  BY StepInv
<1> QED
  BY <1>1, InitInv, PTL DEF Spec

\* The environment, the handles and the objects are well typed: a database's
\* keys are block ids, and no object holds a handle that does not exist.  Also
\* when writes fail.
THEOREM TypeCorrect ==
  Spec => []TypeOK
<1>1. Init => TypeInv
  <2>1. Init => StoreType
    BY InitStore DEF Init, StoreInv
  <2> QED
    BY <2>1 DEF Init, TypeInv, TypeOK, StoreType, NotCreating
<1>2. TypeInv /\ [Next]_vars => TypeInv'
  BY NextTyped
<1>3. TypeInv => TypeOK
  BY DEF TypeInv
<1> QED
  BY <1>1, <1>2, <1>3, PTL DEF Spec

\* The handle of an open file stands for that file, although handles are closed,
\* handed out again and left behind.
THEOREM HandlesAreOwn ==
  ASSUME WritesSucceed
  PROVE  Spec => []HandleOwn
<1>1. IInv => HandleOwn
  BY DEF IInv, StoreInv
<1> QED
  BY <1>1, InductiveInvariant, PTL

\* The count taken when a file was opened, and counted on, is the last block id
\* of the file, and every id below it has its block.
THEOREM CountsAreAccurate ==
  ASSUME WritesSucceed
  PROVE  Spec => []LastAccurate
<1>1. IInv => LastAccurate
  BY DEF IInv, StoreInv
<1> QED
  BY <1>1, InductiveInvariant, PTL

-----------------------------------------------------------------------------
(***************************************************************************)
(* Files of blocks implement BlockStore.                                   *)
(***************************************************************************)
DbsFunction == dbs = [n \in DOMAIN dbs |-> dbs[n]]

\* What a step does to the databases.
StoreStep == DbsFunction' /\ [Blocks!Next]_dbs

LEMMA PutBlockStep ==
  ASSUME StoreInv, DbsFunction, WritesSucceed, NEW f \in Object, ~file[f].closed,
         NEW id \in 1 .. file[f].last, NEW content \in Content,
         PutBlock(f, id, content)
  PROVE  StoreStep
<1>1. CASE ~Attached(f)
  BY <1>1, HandleFacts DEF PutBlock, PutEntry, StoreStep, DbsFunction
<1>2. CASE Attached(f)
  <2> DEFINE n == file[f].name
  <2>1. Valid(file[f].dbi) /\ slot[file[f].dbi] = n /\ n \in DOMAIN dbs
        /\ DOMAIN dbs[n] = 1 .. file[f].last
    BY <1>2, HandleFacts
  <2>2. dbs' = [dbs EXCEPT ![n] =
                 [k \in DOMAIN dbs[n] \union {id} |-> IF k = id THEN content ELSE dbs[n][k]]]
    BY <2>1 DEF PutBlock, PutEntry, WritesSucceed
  <2>3. id \in DOMAIN dbs[n] /\ DOMAIN dbs[n] \union {id} = DOMAIN dbs[n]
    BY <2>1
  <2> HIDE DEF n
  <2>4. [k \in DOMAIN dbs[n] \union {id} |-> IF k = id THEN content ELSE dbs[n][k]]
          = [dbs[n] EXCEPT ![id] = content]
    BY <2>3
  <2>5. Blocks!Replace(n, id, content)
    BY <2>2, <2>4 DEF Blocks!Replace
  <2>6. DbsFunction'
    BY <2>2 DEF DbsFunction
  <2> QED
    BY <2>1, <2>3, <2>5, <2>6 DEF StoreStep, Blocks!Next
<1> QED
  BY <1>1, <1>2

LEMMA AllocateStep ==
  ASSUME StoreInv, DbsFunction, WritesSucceed, NEW f \in Object, ~file[f].closed,
         AllocateBlock(f)
  PROVE  StoreStep
<1>1. CASE ~Attached(f)
  BY <1>1, HandleFacts DEF AllocateBlock, PutEntry, StoreStep, DbsFunction
<1>2. CASE Attached(f)
  <2> DEFINE n == file[f].name
             last == file[f].last
  <2>1. Valid(file[f].dbi) /\ slot[file[f].dbi] = n /\ n \in DOMAIN dbs
        /\ DOMAIN dbs[n] = 1 .. last /\ last \in Nat
    BY <1>2, HandleFacts DEF StoreInv, StoreType
  <2>2. dbs' = [dbs EXCEPT ![n] = [k \in DOMAIN dbs[n] \union {last + 1} |->
                                     IF k = last + 1 THEN NewBlock ELSE dbs[n][k]]]
    BY <2>1 DEF AllocateBlock, PutEntry, WritesSucceed
  <2> HIDE DEF n, last
  <2>3. last + 1 \in ({1} \union {i + 1 : i \in DOMAIN dbs[n]}) \ DOMAIN dbs[n]
    <3>1. last = 0 \/ last \in DOMAIN dbs[n]
      BY <2>1
    <3>2. last + 1 \notin DOMAIN dbs[n]
      BY <2>1
    <3> QED
      BY <3>1, <3>2
  <2>4. Blocks!Allocate(n)
    BY <2>2, <2>3 DEF Blocks!Allocate
  <2>5. DbsFunction'
    BY <2>2 DEF DbsFunction
  <2> QED
    BY <2>1, <2>4, <2>5 DEF StoreStep, Blocks!Next
<1> QED
  BY <1>1, <1>2

LEMMA DbOpenStep ==
  ASSUME StoreInv, DbsFunction, NEW f \in Object, NEW create \in BOOLEAN,
         DbOpen(f, create)
  PROVE  StoreStep
<1> DEFINE n == file[f].name
<1>1. n \in Name
  BY DEF StoreInv, StoreType
<1>2. CASE UNCHANGED dbs
  BY <1>2 DEF StoreStep, DbsFunction
<1>3. CASE OpenDb(n)
  <2>1. dbs' = [m \in DOMAIN dbs \union {n} |-> IF m \in DOMAIN dbs THEN dbs[m] ELSE <<>>]
    BY <1>3 DEF OpenDb
  <2> HIDE DEF n
  <2>2. DbsFunction'
    BY <2>1 DEF DbsFunction
  <2>3. CASE n \in DOMAIN dbs
    <3>1. dbs' = [m \in DOMAIN dbs |-> dbs[m]]
      BY <2>1, <2>3
    <3> QED
      BY <2>2, <3>1 DEF StoreStep, DbsFunction
  <2>4. CASE n \notin DOMAIN dbs
    <3>1. dbs' = [m \in DOMAIN dbs \union {n} |-> IF m = n THEN <<>> ELSE dbs[m]]
      BY <2>1, <2>4
    <3>2. Blocks!Create(n)
      BY <2>4, <3>1 DEF Blocks!Create
    <3> QED
      BY <1>1, <2>2, <3>2 DEF StoreStep, Blocks!Next
  <2> QED
    BY <2>3, <2>4
<1> QED
  BY <1>2, <1>3 DEF DbOpen

LEMMA EveryStoreStep ==
  ASSUME WritesSucceed, IInv, DbsFunction, [Next]_vars
  PROVE  StoreStep
<1>1. StoreInv /\ CreatingOpen
  BY DEF IInv
<1>2. CASE UNCHANGED dbs
  BY <1>2 DEF StoreStep, DbsFunction
<1>3. ASSUME NEW f \in Object, Open(f) \/ Create(f)
      PROVE  StoreStep
  BY <1>1, <1>2, <1>3, DbOpenStep DEF Open, Create
<1>4. CASE CreateGetNew
  BY <1>1, <1>4, AllocateStep DEF CreateGetNew, CreatingOpen
<1>5. CASE CreatePut
  <2> DEFINE f == creating.object
  <2>1. f \in Object /\ ~file[f].closed /\ file[f].last > 0
    BY <1>1, <1>5 DEF CreatePut, CreatingOpen
  <2>2. file[f].last \in 1 .. file[f].last
    BY <1>1, <2>1 DEF StoreInv, StoreType
  <2>3. PutBlock(f, file[f].last, NewBlock)
    BY <1>5 DEF CreatePut
  <2> QED
    BY <1>1, <2>1, <2>2, <2>3, BTFileAssumption, PutBlockStep DEF BTFileAssumption
<1>6. ASSUME NEW f \in Object, GetNew(f)
      PROVE  StoreStep
  BY <1>1, <1>6, AllocateStep DEF GetNew
<1>7. ASSUME NEW f \in Object, NEW content \in Content, NEW id \in 1 .. file[f].last,
             Put(f, id, content)
      PROVE  StoreStep
  BY <1>1, <1>7, PutBlockStep DEF Put
<1>8. ASSUME NEW f \in Object, (\E n \in Name : Construct(f, n)) \/ Close(f) \/ Drop(f)
      PROVE  UNCHANGED dbs
  BY <1>8 DEF Construct, Close, Drop, CloseFile
<1>9. Crash \/ UNCHANGED vars => UNCHANGED dbs
  BY DEF Crash, vars
<1> QED
  BY <1>2, <1>3, <1>4, <1>5, <1>6, <1>7, <1>8, <1>9 DEF Next

\* Whatever is opened, closed and dropped, and whenever the process ends, the
\* files are what DbFile promises: blocks are appended one at a time with the
\* next id, stay, and are replaced one at a time in the file they belong to.
THEOREM FilesImplementBlockStore ==
  ASSUME WritesSucceed
  PROVE  Spec => ImplementsBlockStore
<1>1. Init => DbsFunction /\ Blocks!Init
  BY DEF Init, DbsFunction, Blocks!Init
<1>2. IInv /\ DbsFunction /\ [Next]_vars => DbsFunction' /\ [Blocks!Next]_dbs
  BY EveryStoreStep DEF StoreStep
<1>3. Spec => []IInv
  BY InductiveInvariant
<1> QED
  BY <1>1, <1>2, <1>3, PTL DEF Spec, ImplementsBlockStore, Blocks!Spec

=============================================================================
