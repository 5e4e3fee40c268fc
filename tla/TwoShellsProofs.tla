--------------------------- MODULE TwoShellsProofs ---------------------------
(***************************************************************************)
(* Theorems about TwoShells, for every number of shells, every set of rows *)
(* and every size of a block.                                              *)
(***************************************************************************)
EXTENDS TwoShells, TLAPS

Block == Seq(AnyRow \union {Deleted})
Appending == {"append", "seed_put"}
PC == {"down", "closed", "absent", "get_new", "put", "ready", "wild",
       "append", "inserted", "project", "del", "seed", "seed_put"}

\* Where a shell has the handle of a row it appended and has not let go of.
HasHandle(p) == pc[p] \in {"inserted", "project", "del"}

\* The types that TypeOK leaves open.
Types ==
  /\ TypeOK
  /\ blocks \in Seq(Block)
  /\ pc \in [Shell -> PC]
  /\ copy \in [Shell -> Block]
  /\ inserted \subseteq (Nat \X Nat) \X AnyRow

\* Blocks are never taken away: what a shell counted is there.
Counts ==
  \A p \in Shell :
    /\ last[p] <= Len(blocks)
    /\ pc[p] \in Appending \union {"put"} => last[p] > 0

\* What a shell remembers of its row.
Handles ==
  \A p \in Shell :
    /\ pc[p] \in Appending \union {"seed"} => row[p] \in AnyRow
    /\ HasHandle(p) => /\ handle[p][1] \in DOMAIN blocks
                       /\ <<handle[p], row[p]>> \in inserted

\* What holds however the shells interleave.
Inv == Types /\ Counts /\ Handles

\* A shell in a call is the only one, and what it copied is still so; its row has
\* not been taken back, and is lost only with its block.
InTurn(p) ==
  /\ pc[p] \in Waiting \/ \A q \in Shell \ {p} : pc[q] \in Waiting
  /\ pc[p] = "put" => blocks[last[p]] = <<>>
  /\ pc[p] \in Appending => SameButOwnChange(p, blocks[last[p]])
  /\ pc[p] = "del" => SameButOwnChange(p, blocks[handle[p][1]])
  /\ HasHandle(p) => <<handle[p], row[p]>> \notin removed
  /\ pc[p] = "inserted" /\ <<handle[p], row[p]>> \in lost => Overrun(blocks[handle[p][1]])
  /\ pc[p] \in {"project", "del"} => <<handle[p], row[p]>> \notin lost

Stored == \A i \in inserted \ (removed \union lost) : RecordAt(i[1]) = i[2]
Gone == \A i \in removed : RecordAt(i[1]) # i[2]

\* What holds as long as shells take turns.
Turns == take_turns => (\A p \in Shell : InTurn(p)) /\ Stored /\ Gone

-----------------------------------------------------------------------------
(***************************************************************************)
(* Blocks and their records.                                               *)
(***************************************************************************)
LEMMA PutBlockFacts ==
  ASSUME blocks \in Seq(Block), NEW id \in 1 .. Len(blocks) + 1, NEW block \in Block,
         PutBlock(id, block)
  PROVE  /\ blocks' \in Seq(Block)
         /\ Len(blocks') = IF id > Len(blocks) THEN Len(blocks) + 1 ELSE Len(blocks)
         /\ DOMAIN blocks' = 1 .. Len(blocks')
         /\ Len(blocks) <= Len(blocks')
         /\ \A b \in 1 .. Len(blocks') : blocks'[b] = IF b = id THEN block ELSE blocks[b]
<1> DEFINE n == Len(blocks) + (IF id > Len(blocks) THEN 1 ELSE 0)
<1>1. n \in Nat /\ blocks' = [b \in 1 .. n |-> IF b = id THEN block ELSE blocks[b]]
  BY DEF PutBlock
<1>2. \A b \in 1 .. n : (IF b = id THEN block ELSE blocks[b]) \in Block
  OBVIOUS
<1> HIDE DEF n
<1>3. blocks' \in [1 .. n -> Block]
  BY <1>1, <1>2
<1>4. blocks' \in Seq(Block) /\ Len(blocks') = n
  BY <1>1, <1>3
<1> QED
  BY <1>1, <1>4 DEF n

\* What a put does to the records.
LEMMA PutRecords ==
  ASSUME Inv, NEW id \in 1 .. Len(blocks) + 1, NEW block \in Block, PutBlock(id, block),
         NEW h
  PROVE  RecordAt(h)' = IF h[1] # id THEN RecordAt(h)
                        ELSE IF ~Overrun(block) /\ h[2] \in DOMAIN block THEN block[h[2]]
                        ELSE Deleted
<1>1. /\ DOMAIN blocks' = 1 .. Len(blocks') /\ DOMAIN blocks = 1 .. Len(blocks)
      /\ Len(blocks') = IF id > Len(blocks) THEN Len(blocks) + 1 ELSE Len(blocks)
      /\ Len(blocks) \in Nat
      /\ \A b \in DOMAIN blocks' : blocks'[b] = IF b = id THEN block ELSE blocks[b]
  <2>1. blocks \in Seq(Block)
    BY DEF Inv, Types
  <2>2. Len(blocks) \in Nat /\ DOMAIN blocks = 1 .. Len(blocks)
    BY <2>1
  <2> QED
    BY <2>1, <2>2, PutBlockFacts
<1>2. CASE h[1] = id
  <2>1. id \in DOMAIN blocks' /\ blocks'[id] = block
    BY <1>1
  <2> QED
    BY <1>2, <2>1 DEF RecordAt, Overrun
<1>3. CASE h[1] # id
  <2>1. h[1] \in DOMAIN blocks' <=> h[1] \in DOMAIN blocks
    BY <1>1, <1>3
  <2>2. h[1] \in DOMAIN blocks => blocks'[h[1]] = blocks[h[1]]
    BY <1>1, <1>3, <2>1
  <2> QED
    BY <1>3, <2>1, <2>2 DEF RecordAt, Overrun
<1> QED
  BY <1>2, <1>3

LEMMA WithoutType ==
  ASSUME NEW block \in Block, NEW id \in Nat
  PROVE  /\ Without(block, id) \in Block
         /\ Len(Without(block, id)) = Len(block)
         /\ DOMAIN Without(block, id) = DOMAIN block
         /\ \A i \in DOMAIN block : Without(block, id)[i] = IF i = id THEN Deleted ELSE block[i]
<1>1. \A i \in 1 .. Len(block) : (IF i = id THEN Deleted ELSE block[i]) \in AnyRow \union {Deleted}
  BY DEF Block
<1>2. Without(block, id) \in [1 .. Len(block) -> AnyRow \union {Deleted}]
  BY <1>1 DEF Without, Block
<1>3. Len(block) \in Nat
  BY DEF Block
<1>4. Without(block, id) \in Block /\ Len(Without(block, id)) = Len(block)
  BY <1>2, <1>3 DEF Block
<1> QED
  BY <1>4 DEF Without, Block

LEMMA AppendType ==
  ASSUME NEW block \in Block, NEW r \in AnyRow
  PROVE  /\ Append(block, r) \in Block
         /\ Len(block) \in Nat /\ Len(Append(block, r)) = Len(block) + 1
         /\ DOMAIN block = 1 .. Len(block)
         /\ DOMAIN Append(block, r) = 1 .. Len(block) + 1
         /\ Append(block, r)[Len(block) + 1] = r
         /\ \A i \in 1 .. Len(block) : Append(block, r)[i] = block[i]
BY DEF Block

LEMMA EmptyType == <<>> \in Block /\ Len(<<>>) = 0 /\ DOMAIN <<>> = {}
BY DEF Block

\* What the proofs of a step of p use of the invariant.
Facts(p) ==
  /\ last \in [Shell -> Nat] /\ copy \in [Shell -> Block]
  /\ row \in [Shell -> AnyRow \union {Deleted}] /\ handle \in [Shell -> Nat \X Nat]
  /\ blocks \in Seq(Block) /\ exists \in BOOLEAN /\ pc \in [Shell -> PC]
  /\ Len(blocks) \in Nat /\ DOMAIN blocks = 1 .. Len(blocks)
  /\ removed \subseteq inserted /\ lost \subseteq inserted
  /\ inserted \subseteq (Nat \X Nat) \X AnyRow
  /\ last[p] \in Nat /\ last[p] <= Len(blocks)
  /\ pc[p] \in Appending \union {"put"} => last[p] \in 1 .. Len(blocks)
  /\ last[p] # 0 => last[p] \in 1 .. Len(blocks)
  /\ pc[p] \in Appending \union {"seed"} => row[p] \in AnyRow
  /\ HasHandle(p) => /\ handle[p][1] \in 1 .. Len(blocks)
                     /\ <<handle[p], row[p]>> \in inserted
  /\ handle[p] \in Nat \X Nat /\ copy[p] \in Block

LEMMA ShellFacts ==
  ASSUME Inv, NEW p \in Shell
  PROVE  Facts(p)
<1>1. /\ last \in [Shell -> Nat] /\ copy \in [Shell -> Block]
      /\ row \in [Shell -> AnyRow \union {Deleted}] /\ handle \in [Shell -> Nat \X Nat]
      /\ blocks \in Seq(Block) /\ exists \in BOOLEAN /\ pc \in [Shell -> PC]
      /\ removed \subseteq inserted /\ lost \subseteq inserted
      /\ inserted \subseteq (Nat \X Nat) \X AnyRow
  BY DEF Inv, Types, TypeOK
<1>2. Len(blocks) \in Nat /\ DOMAIN blocks = 1 .. Len(blocks)
  BY <1>1
<1>3. last[p] \in Nat /\ handle[p] \in Nat \X Nat /\ copy[p] \in Block
  BY <1>1
<1>4. /\ last[p] <= Len(blocks)
      /\ pc[p] \in Appending \union {"put"} => last[p] > 0
      /\ pc[p] \in Appending \union {"seed"} => row[p] \in AnyRow
      /\ HasHandle(p) => /\ handle[p][1] \in DOMAIN blocks
                         /\ <<handle[p], row[p]>> \in inserted
  BY DEF Inv, Counts, Handles
<1> QED
  BY <1>1, <1>2, <1>3, <1>4 DEF Facts

-----------------------------------------------------------------------------
(***************************************************************************)
(* At once: Inv is inductive.                                              *)
(***************************************************************************)
LEMMA InitInv == Init => Inv
<1> SUFFICES ASSUME Init PROVE Inv
  OBVIOUS
<1>1. blocks \in Seq(Block) /\ Len(blocks) = 0 /\ \A b \in DOMAIN blocks : FALSE
  BY DEF Init
<1>2. copy \in [Shell -> Block] /\ pc \in [Shell -> PC]
  BY EmptyType DEF Init, PC
<1>3. row \in [Shell -> AnyRow \union {Deleted}]
  BY DEF Init
<1>4. last \in [Shell -> Nat] /\ handle \in [Shell -> Nat \X Nat]
  BY DEF Init, NoHandle
<1>5. TypeOK
  BY <1>1, <1>3, <1>4 DEF Init, TypeOK
<1> QED
  BY <1>1, <1>2, <1>5 DEF Init, Inv, Types, Counts, Handles, HasHandle, Appending

\* Steps that leave the disk alone.
LEMMA QuietStep ==
  ASSUME Inv, NEW p \in Shell, UNCHANGED <<disk, history, take_turns>>,
         NEW next \in PC, pc' = [pc EXCEPT ![p] = next],
         last' \in [Shell -> Nat], copy' \in [Shell -> Block],
         row' \in [Shell -> AnyRow \union {Deleted}], handle' \in [Shell -> Nat \X Nat],
         \A q \in Shell \ {p} : last'[q] = last[q] /\ row'[q] = row[q] /\ handle'[q] = handle[q],
         last'[p] <= Len(blocks),
         next \notin {"put", "seed"}, next \in Appending => last'[p] > 0 /\ row'[p] \in AnyRow,
         next \in {"inserted", "project", "del"} =>
           HasHandle(p) /\ row'[p] = row[p] /\ handle'[p] = handle[p]
  PROVE  Inv'
<1>1. blocks' = blocks /\ exists' = exists /\ inserted' = inserted /\ removed' = removed
      /\ lost' = lost /\ take_turns' = take_turns
  BY DEF disk, history
<1>2. /\ pc' \in [Shell -> PC] /\ pc'[p] = next
      /\ \A q \in Shell \ {p} : pc'[q] = pc[q]
  BY DEF Inv, Types
<1>3. Types'
  BY <1>1, <1>2 DEF Inv, Types, TypeOK
<1>4. Counts'
  BY <1>1, <1>2 DEF Inv, Counts, Appending
<1>5. Handles'
  BY <1>1, <1>2 DEF Inv, Handles, HasHandle, Appending
<1> QED
  BY <1>3, <1>4, <1>5 DEF Inv

\* Steps that put a block.
LEMMA PutStep ==
  ASSUME Inv, NEW p \in Shell, UNCHANGED <<take_turns, exists>>,
         NEW id \in 1 .. Len(blocks) + 1, NEW block \in Block, PutBlock(id, block),
         NEW next \in PC, pc' = [pc EXCEPT ![p] = next],
         last' \in [Shell -> Nat], copy' \in [Shell -> Block],
         row' \in [Shell -> AnyRow \union {Deleted}], handle' \in [Shell -> Nat \X Nat],
         inserted \subseteq inserted', removed' \subseteq inserted', lost' \subseteq inserted',
         inserted' \subseteq (Nat \X Nat) \X AnyRow,
         \A q \in Shell \ {p} : last'[q] = last[q] /\ row'[q] = row[q] /\ handle'[q] = handle[q],
         last'[p] = last[p] \/ last'[p] = id,
         next = "put" => last'[p] > 0, next \notin Appending,
         next = "seed" => row'[p] \in AnyRow,
         next \in {"inserted", "project", "del"} =>
           handle'[p][1] \in 1 .. Len(blocks) /\ <<handle'[p], row'[p]>> \in inserted'
  PROVE  Inv'
<1>1. /\ blocks' \in Seq(Block) /\ DOMAIN blocks' = 1 .. Len(blocks')
      /\ Len(blocks) <= Len(blocks') /\ id <= Len(blocks')
      /\ Len(blocks) \in Nat /\ Len(blocks') \in Nat /\ DOMAIN blocks = 1 .. Len(blocks)
  BY PutBlockFacts DEF Inv, Types
<1>2. /\ pc' \in [Shell -> PC] /\ pc'[p] = next
      /\ \A q \in Shell \ {p} : pc'[q] = pc[q]
  BY DEF Inv, Types
<1>3. Types'
  <2>1. \A b \in DOMAIN blocks' : blocks'[b] \in Seq(AnyRow \union {Deleted})
    BY <1>1 DEF Block
  <2> QED
    BY <1>1, <1>2, <2>1 DEF Inv, Types, TypeOK
<1>4. Counts'
  <2>1. ASSUME NEW q \in Shell
        PROVE  /\ last[q] \in Nat /\ last[q] <= Len(blocks)
               /\ last'[q] \in Nat
               /\ pc[q] \in Appending \union {"put"} => last[q] > 0
    BY DEF Inv, Counts, Types, TypeOK
  <2>2. ASSUME NEW q \in Shell, q # p
        PROVE  last'[q] <= Len(blocks')
    <3>1. last'[q] = last[q] /\ last[q] \in Nat /\ last[q] <= Len(blocks)
      BY <2>1, <2>2
    <3> QED
      BY <1>1, <3>1
  <2>3. last'[p] <= Len(blocks')
    BY <1>1, <2>1
  <2>4. \A q \in Shell \ {p} : pc'[q] \in Appending \union {"put"} => last'[q] > 0
    BY <1>2, <2>1
  <2>5. pc'[p] \in Appending \union {"put"} => last'[p] > 0
    BY <1>2
  <2> QED
    BY <2>2, <2>3, <2>4, <2>5 DEF Counts
<1>5. Handles'
  <2>1. DOMAIN blocks \subseteq DOMAIN blocks' /\ 1 .. Len(blocks) \subseteq DOMAIN blocks'
    BY <1>1
  <2>2. ASSUME NEW q \in Shell, q # p
        PROVE  /\ pc'[q] \in Appending \union {"seed"} => row'[q] \in AnyRow
               /\ HasHandle(q)' => /\ handle'[q][1] \in DOMAIN blocks'
                                  /\ <<handle'[q], row'[q]>> \in inserted'
    BY <1>2, <2>1, <2>2 DEF Inv, Handles, HasHandle
  <2>3. /\ pc'[p] \in Appending \union {"seed"} => row'[p] \in AnyRow
        /\ HasHandle(p)' => /\ handle'[p][1] \in DOMAIN blocks'
                           /\ <<handle'[p], row'[p]>> \in inserted'
    BY <1>2, <2>1 DEF HasHandle
  <2> QED
    BY <2>2, <2>3 DEF Handles
<1> QED
  BY <1>3, <1>4, <1>5 DEF Inv

LEMMA StopInv ==
  ASSUME Inv, NEW p \in Shell, Stop(p), UNCHANGED take_turns
  PROVE  Inv'
<1>f. Facts(p)
  BY ShellFacts
<1> USE <1>f DEF Facts
<1>1. /\ UNCHANGED <<disk, history>> /\ pc' = [pc EXCEPT ![p] = "down"]
      /\ last' = [last EXCEPT ![p] = 0] /\ copy' = [copy EXCEPT ![p] = <<>>]
      /\ row' = [row EXCEPT ![p] = Deleted] /\ handle' = [handle EXCEPT ![p] = <<0, 0>>]
  BY DEF Stop, Leave, GoTo, NoHandle
<1>2. /\ last' \in [Shell -> Nat] /\ copy' \in [Shell -> Block] /\ last'[p] = 0
      /\ row' \in [Shell -> AnyRow \union {Deleted}] /\ handle' \in [Shell -> Nat \X Nat]
      /\ \A q \in Shell \ {p} : last'[q] = last[q] /\ row'[q] = row[q] /\ handle'[q] = handle[q]
  BY <1>1, EmptyType
<1>3. /\ last'[p] <= Len(blocks) /\ "down" \in PC /\ "down" \notin Appending
      /\ "down" \notin {"put", "seed", "inserted", "project", "del"}
      /\ UNCHANGED <<disk, history, take_turns>>
  BY <1>1, <1>2 DEF PC, Appending
<1> HIDE <1>f
<1> QED
  BY <1>1, <1>2, <1>3, QuietStep

\* A step of p that changes nothing but where p is, and keeps p's handle if p
\* goes on with it.
LEMMA GoToInv ==
  ASSUME Inv, NEW p \in Shell, UNCHANGED take_turns,
         NEW next \in PC \ {"put", "seed", "append", "seed_put"},
         next \in {"inserted", "project", "del"} => HasHandle(p),
         GoTo(p, next), UNCHANGED <<disk, last, local, history>>
  PROVE  Inv'
<1>f. Facts(p)
  BY ShellFacts
<1> USE <1>f DEF Facts
<1>1. /\ UNCHANGED <<disk, history>> /\ pc' = [pc EXCEPT ![p] = next]
      /\ last' = last /\ copy' = copy /\ row' = row /\ handle' = handle
  BY DEF GoTo, local
<1>2. next \notin {"put", "seed"} /\ next \notin Appending /\ last'[p] <= Len(blocks)
  BY <1>1 DEF Appending
<1> QED
  BY <1>1, <1>2, QuietStep

LEMMA InsertInv ==
  ASSUME Inv, NEW p \in Shell, UNCHANGED take_turns, NEW r \in AnyRow,
         NEW next \in Appending, Insert(p, r, next)
  PROVE  Inv'
<1>f. Facts(p)
  BY ShellFacts
<1> USE <1>f DEF Facts
<1>1. CASE GoWild(p)
  BY <1>1, GoToInv DEF GoWild, PC
<1>2. CASE Stop(p)
  BY <1>2, StopInv
<1>3. CASE ~GoWild(p) /\ ~Stop(p)
  <2>1. /\ last[p] # 0 /\ UNCHANGED <<disk, last, handle, history>>
        /\ pc' = [pc EXCEPT ![p] = next]
        /\ copy' = [copy EXCEPT ![p] = Append(blocks[last[p]], r)]
        /\ row' = [row EXCEPT ![p] = r]
    BY <1>3 DEF Insert, GoTo
  <2>2. last[p] \in 1 .. Len(blocks) /\ last[p] <= Len(blocks) /\ last[p] > 0
        /\ last' = last /\ handle' = handle
    BY <2>1
  <2>3. blocks[last[p]] \in Block
    BY <2>2
  <2>4. Append(blocks[last[p]], r) \in Block
    BY <2>3, AppendType
  <2>5. /\ copy' \in [Shell -> Block] /\ row' \in [Shell -> AnyRow \union {Deleted}]
        /\ row'[p] = r /\ \A q \in Shell \ {p} : row'[q] = row[q]
    BY <2>1, <2>4
  <2>6. next \in PC /\ next \notin {"put", "seed", "inserted", "project", "del"}
    BY DEF Appending, PC
  <2> QED
    BY <2>1, <2>2, <2>5, <2>6, QuietStep
<1> QED
  BY <1>1, <1>2, <1>3

LEMMA ProcessInv ==
  ASSUME Inv, UNCHANGED take_turns, NEW p \in Shell,
         Boot(p) \/ CreateOpen(p) \/ GetNew(p) \/ PutNew(p) \/ Open(p) \/ Crash(p)
  PROVE  Inv'
<1>f. Facts(p)
  BY ShellFacts
<1> USE <1>f DEF Facts
<1>1. CASE Boot(p)
  <2>1. (IF exists THEN "closed" ELSE "absent") \in
          PC \ {"put", "seed", "append", "seed_put", "inserted", "project", "del"}
    BY DEF PC
  <2> QED
    BY <1>1, <2>1, GoToInv DEF Boot
<1>2. CASE CreateOpen(p)
  <2>1. blocks' = blocks /\ exists' = TRUE /\ inserted' = inserted /\ removed' = removed
        /\ lost' = lost /\ copy' = copy /\ row' = row /\ handle' = handle
        /\ pc' = [pc EXCEPT ![p] = "get_new"] /\ last' = [last EXCEPT ![p] = Len(blocks)]
    BY <1>2 DEF CreateOpen, GoTo, local, history, CountBlocks
  <2>2. last' \in [Shell -> Nat] /\ pc' \in [Shell -> PC]
        /\ last'[p] = Len(blocks) /\ pc'[p] = "get_new"
        /\ \A q \in Shell \ {p} : last'[q] = last[q] /\ pc'[q] = pc[q]
    BY <2>1 DEF PC
  <2>3. Types'
    BY <2>1, <2>2 DEF Inv, Types, TypeOK
  <2>4. Counts'
    BY <2>1, <2>2 DEF Inv, Counts, Appending
  <2>5. Handles'
    BY <2>1, <2>2 DEF Inv, Handles, HasHandle, Appending
  <2> QED
    BY <2>3, <2>4, <2>5 DEF Inv
<1>3. CASE GetNew(p)
  <2>1. last' = [last EXCEPT ![p] = last[p] + 1] /\ exists' = exists
        /\ copy' = copy /\ row' = row /\ handle' = handle
        /\ inserted' = inserted /\ removed' = removed
        /\ lost' = lost \union RowsIn(last[p] + 1)
        /\ PutBlock(last[p] + 1, <<>>) /\ pc' = [pc EXCEPT ![p] = "put"]
    BY <1>3 DEF GetNew, GoTo, local
  <2>2. last[p] + 1 \in 1 .. Len(blocks) + 1 /\ last' \in [Shell -> Nat]
        /\ last'[p] = last[p] + 1 /\ last'[p] > 0
        /\ \A q \in Shell \ {p} : last'[q] = last[q]
    BY <2>1
  <2>3. lost' \subseteq inserted'
    BY <2>1 DEF RowsIn
  <2>4. "put" \in PC /\ "put" \notin Appending
    BY DEF PC, Appending
  <2> QED
    BY <2>1, <2>2, <2>3, <2>4, EmptyType, PutStep
<1>4. CASE PutNew(p)
  <2> DEFINE next == IF row[p] = TABLES THEN "seed" ELSE "closed"
  <2>1. last[p] \in 1 .. Len(blocks) /\ last[p] \in 1 .. Len(blocks) + 1
    BY <1>4 DEF PutNew
  <2>2. /\ UNCHANGED <<exists, last, copy, row, handle, inserted, removed, lost>>
        /\ PutBlock(last[p], <<>>) /\ pc' = [pc EXCEPT ![p] = next]
    BY <1>4 DEF PutNew, GoTo, local, history
  <2>3. /\ next \in PC /\ next \notin Appending /\ next # "put"
        /\ next \notin {"inserted", "project", "del"}
        /\ next = "seed" => row'[p] \in AnyRow
    BY <2>2 DEF PC, Appending, AnyRow
  <2> HIDE DEF next
  <2> QED
    BY <2>1, <2>2, <2>3, EmptyType, PutStep
<1>5. CASE Open(p)
  <2>1. /\ UNCHANGED <<disk, history>> /\ pc' = [pc EXCEPT ![p] = "ready"]
        /\ last' = [last EXCEPT ![p] = Len(blocks)] /\ copy' = copy /\ row' = row /\ handle' = handle
    BY <1>5 DEF Open, GoTo, local, CountBlocks
  <2>2. /\ last' \in [Shell -> Nat] /\ last'[p] <= Len(blocks)
        /\ \A q \in Shell \ {p} : last'[q] = last[q]
    BY <2>1
  <2>3. "ready" \in PC /\ "ready" \notin Appending
    BY DEF PC, Appending
  <2> QED
    BY <2>1, <2>2, <2>3, QuietStep
<1>6. CASE Crash(p)
  BY <1>6, StopInv DEF Crash
<1> QED
  BY <1>1, <1>2, <1>3, <1>4, <1>5, <1>6

LEMMA StatementInv ==
  ASSUME Inv, UNCHANGED take_turns, NEW p \in Shell,
         \/ \E r \in Row \union {TABLES} : AppendRead(p, r)
         \/ SeedRead(p) \/ AppendWrite(p) \/ Finish(p)
         \/ Project(p) \/ DelRead(p) \/ DelWrite(p)
  PROVE  Inv'
<1>f. Facts(p)
  BY ShellFacts
<1> USE <1>f DEF Facts
<1>1. ASSUME NEW r \in Row \union {TABLES}, AppendRead(p, r)
      PROVE  Inv'
  <2>1. r \in AnyRow /\ "append" \in Appending
    BY DEF AnyRow, Appending
  <2> QED
    BY <1>1, <2>1, InsertInv DEF AppendRead
<1>2. CASE SeedRead(p)
  <2>1. row[p] \in AnyRow /\ "seed_put" \in Appending
    BY <1>2 DEF SeedRead, Appending
  <2> QED
    BY <1>2, <2>1, InsertInv DEF SeedRead
<1>3. CASE AppendWrite(p)
  <2> DEFINE h == Returned(p)[1]
  <2>1. /\ PutBlock(last[p], copy[p]) /\ exists' = exists /\ last' = last
        /\ copy' = [copy EXCEPT ![p] = <<>>]
        /\ inserted' = inserted \union {Returned(p)}
        /\ removed' \subseteq removed
        /\ lost' \subseteq lost \union RowsIn(last[p]) \union {Returned(p)}
        /\ pc[p] \in Appending /\ Return(p)
    BY <1>3 DEF AppendWrite, Return, Appending
  <2>2. /\ h \in Nat \X Nat /\ Returned(p) = <<h, row[p]>> /\ Returned(p) \in (Nat \X Nat) \X AnyRow
        /\ h[1] \in 1 .. Len(blocks) /\ last[p] \in 1 .. Len(blocks) + 1
    <3>1. last[p] \in 1 .. Len(blocks) /\ row[p] \in AnyRow /\ copy[p] \in Block
      BY <2>1
    <3>2. Len(copy[p]) \in Nat
      BY <3>1 DEF Block
    <3> QED
      BY <3>1, <3>2 DEF Returned
  <2>3. copy' \in [Shell -> Block]
    BY <2>1, EmptyType
  <2>4. lost' \subseteq inserted' /\ removed' \subseteq inserted'
        /\ inserted' \subseteq (Nat \X Nat) \X AnyRow /\ Returned(p) \in inserted'
    BY <2>1, <2>2 DEF RowsIn
  <2> HIDE DEF h
  <2>5. CASE pc[p] = "append"
    <3>1. /\ pc' = [pc EXCEPT ![p] = "inserted"] /\ row' = row
          /\ handle' = [handle EXCEPT ![p] = h]
      BY <2>1, <2>5 DEF Return, GoTo, h
    <3>2. handle' \in [Shell -> Nat \X Nat] /\ handle'[p] = h
          /\ \A q \in Shell \ {p} : handle'[q] = handle[q]
      BY <2>2, <3>1
    <3>3. "inserted" \in PC /\ "inserted" \notin Appending
      BY DEF PC, Appending
    <3> QED
      BY <2>1, <2>2, <2>3, <2>4, <3>1, <3>2, <3>3, PutStep
  <2>6. CASE pc[p] = "seed_put"
    <3>1. /\ handle' = handle
          /\ \/ pc' = [pc EXCEPT ![p] = "seed"] /\ row' = [row EXCEPT ![p] = COLUMNS]
             \/ pc' = [pc EXCEPT ![p] = "ready"] /\ row' = [row EXCEPT ![p] = Deleted]
      BY <2>1, <2>6 DEF Return, GoTo
    <3>2. /\ row' \in [Shell -> AnyRow \union {Deleted}]
          /\ \A q \in Shell \ {p} : row'[q] = row[q]
      BY <3>1 DEF AnyRow
    <3>3. {"seed", "ready"} \subseteq PC /\ {"seed", "ready"} \intersect Appending = {}
      BY DEF PC, Appending
    <3>4. CASE pc' = [pc EXCEPT ![p] = "seed"] /\ row' = [row EXCEPT ![p] = COLUMNS]
      <4>1. row'[p] \in AnyRow
        BY <3>4 DEF AnyRow
      <4> QED
        BY <2>1, <2>2, <2>3, <2>4, <3>1, <3>2, <3>3, <3>4, <4>1, PutStep
    <3>5. CASE pc' = [pc EXCEPT ![p] = "ready"]
      BY <2>1, <2>2, <2>3, <2>4, <3>1, <3>2, <3>3, <3>5, PutStep
    <3> QED
      BY <3>1, <3>4, <3>5
  <2> QED
    BY <2>1, <2>5, <2>6 DEF Appending
<1>4. CASE Finish(p)
  <2>1. /\ UNCHANGED <<disk, history, last, copy>>
        /\ pc' = [pc EXCEPT ![p] = IF row[p] = TABLES THEN "get_new" ELSE "ready"]
        /\ row' = [row EXCEPT ![p] = IF @ = TABLES THEN TABLES ELSE Deleted]
        /\ handle' = [handle EXCEPT ![p] = <<0, 0>>]
    BY <1>4 DEF Finish, GoTo, NoHandle
  <2>2. /\ row' \in [Shell -> AnyRow \union {Deleted}] /\ handle' \in [Shell -> Nat \X Nat]
        /\ \A q \in Shell \ {p} : row'[q] = row[q] /\ handle'[q] = handle[q]
        /\ last' = last /\ copy' = copy
    BY <2>1 DEF AnyRow
  <2> DEFINE next == IF row[p] = TABLES THEN "get_new" ELSE "ready"
  <2>3. /\ next \in PC /\ next \notin Appending
        /\ next \notin {"put", "seed", "inserted", "project", "del"}
        /\ last' \in [Shell -> Nat] /\ copy' \in [Shell -> Block] /\ last'[p] <= Len(blocks)
        /\ UNCHANGED <<disk, history, take_turns>> /\ pc' = [pc EXCEPT ![p] = next]
    BY <2>1, <2>2 DEF PC, Appending
  <2> HIDE <1>f DEF next
  <2> QED
    BY <2>2, <2>3, QuietStep
<1>5. CASE Project(p)
  <2>1. HasHandle(p) /\ "project" \in PC \ {"put", "seed", "append", "seed_put"}
        /\ "wild" \in PC \ {"put", "seed", "append", "seed_put", "inserted", "project", "del"}
    BY <1>5 DEF Project, HasHandle, PC
  <2> QED
    BY <1>5, <2>1, GoToInv, StopInv DEF Project, GoWild
<1>6. CASE DelRead(p)
  <2>1. HasHandle(p)
    BY <1>6 DEF DelRead, HasHandle
  <2>2. CASE GoWild(p)
    BY <2>2, GoToInv DEF GoWild, PC
  <2>3. CASE ~GoWild(p)
    <3>1. blocks[handle[p][1]] \in Block /\ handle[p][2] \in Nat
      BY <2>1
    <3>2. Without(blocks[handle[p][1]], handle[p][2]) \in Block
      BY <3>1, WithoutType
    <3>3. /\ UNCHANGED <<disk, last, row, handle, history>> /\ pc' = [pc EXCEPT ![p] = "del"]
          /\ copy' = [copy EXCEPT ![p] = Without(blocks[handle[p][1]], handle[p][2])]
      BY <1>6, <2>3 DEF DelRead, GoTo
    <3>4. copy' \in [Shell -> Block] /\ "del" \in PC /\ "del" \notin Appending
      BY <3>2, <3>3 DEF PC, Appending
    <3> QED
      BY <2>1, <3>3, <3>4, QuietStep
  <2> QED
    BY <2>2, <2>3
<1>7. CASE DelWrite(p)
  <2>1. HasHandle(p)
    BY <1>7 DEF DelWrite, HasHandle
  <2>2. handle[p][1] \in 1 .. Len(blocks) + 1
    BY <2>1
  <2>3. /\ UNCHANGED <<exists, last, inserted, lost>> /\ pc' = [pc EXCEPT ![p] = "ready"]
        /\ copy' = [copy EXCEPT ![p] = <<>>] /\ row' = [row EXCEPT ![p] = Deleted]
        /\ handle' = [handle EXCEPT ![p] = <<0, 0>>] /\ PutBlock(handle[p][1], copy[p])
        /\ removed' = removed \union {<<handle[p], row[p]>>}
    BY <1>7 DEF DelWrite, Leave, GoTo, NoHandle
  <2>4. /\ copy' \in [Shell -> Block] /\ row' \in [Shell -> AnyRow \union {Deleted}]
        /\ handle' \in [Shell -> Nat \X Nat] /\ removed' \subseteq inserted'
        /\ \A q \in Shell \ {p} : row'[q] = row[q] /\ handle'[q] = handle[q]
    <3>1. <<handle[p], row[p]>> \in inserted
      BY <2>1
    <3>2. removed' \subseteq inserted'
      BY <2>3, <3>1
    <3>3. copy' \in [Shell -> Block]
      BY <2>3, EmptyType
    <3>4. row' \in [Shell -> AnyRow \union {Deleted}] /\ handle' \in [Shell -> Nat \X Nat]
      BY <2>3
    <3>5. \A q \in Shell \ {p} : row'[q] = row[q] /\ handle'[q] = handle[q]
      BY <2>3
    <3> QED
      BY <3>2, <3>3, <3>4, <3>5
  <2>5. "ready" \in PC /\ "ready" \notin Appending
    BY DEF PC, Appending
  <2> QED
    BY <2>2, <2>3, <2>4, <2>5, PutStep
<1> QED
  BY <1>1, <1>2, <1>3, <1>4, <1>5, <1>6, <1>7

LEMMA StepInv ==
  ASSUME Inv, [Next]_vars
  PROVE  Inv'
<1>1. CASE UNCHANGED vars
  BY <1>1 DEF vars, disk, history, Inv, Types, TypeOK, Counts, Handles, HasHandle
<1> QED
  BY <1>1, ProcessInv, StatementInv DEF Next

-----------------------------------------------------------------------------
(***************************************************************************)
(* At once: which steps lose rows.                                         *)
(***************************************************************************)

\* Row i is still where it was appended, or still gone.
Kept(i) ==
  /\ RecordAt(i[1]) = i[2] /\ i \notin removed' => RecordAt(i[1])' = i[2]
  /\ RecordAt(i[1]) # i[2] /\ i \in removed \intersect removed' => RecordAt(i[1])' # i[2]

Puts(p) == GetNew(p) \/ PutNew(p) \/ AppendWrite(p) \/ DelWrite(p)

\* All other steps leave the blocks alone.
LEMMA QuietOrPuts ==
  ASSUME NEW p \in Shell,
         \/ Boot(p) \/ CreateOpen(p) \/ GetNew(p) \/ PutNew(p) \/ Open(p)
         \/ \E r \in Row \union {TABLES} : AppendRead(p, r)
         \/ SeedRead(p) \/ AppendWrite(p) \/ Finish(p)
         \/ Project(p) \/ DelRead(p) \/ DelWrite(p)
         \/ Crash(p)
  PROVE  Puts(p) \/ UNCHANGED <<blocks, inserted, removed, lost>>
BY DEF Puts, disk, history, Boot, CreateOpen, Open, AppendRead, SeedRead, Insert, GoWild,
       Finish, Project, DelRead, Crash, Stop

\* A put that nobody else's comes before keeps every row.
LEMMA PutKeeps ==
  ASSUME Inv, NEW p \in Shell, Puts(p), ~Overtaken(p), ~Overruns(p), NEW i \in inserted
  PROVE  Kept(i)
<1>f. Facts(p)
  BY ShellFacts
<1> USE <1>f DEF Facts
<1>1. i \in (Nat \X Nat) \X AnyRow /\ i = <<i[1], i[2]>> /\ i[1] = <<i[1][1], i[1][2]>>
      /\ i[2] # Deleted /\ i[1][2] \in Nat
  BY ShellsAssumption DEF ShellsAssumption
<1>2. CASE GetNew(p)
  <2>1. PutBlock(last[p] + 1, <<>>) /\ Len(blocks) = last[p]
    BY <1>2 DEF GetNew, Overtaken
  <2>2. last[p] + 1 \in 1 .. Len(blocks) + 1 /\ (i[1][1] = last[p] + 1 => i[1][1] \notin DOMAIN blocks)
    BY <1>1, <2>1
  <2>3. RecordAt(i[1])' = IF i[1][1] # last[p] + 1 THEN RecordAt(i[1]) ELSE Deleted
    BY <2>1, <2>2, EmptyType, PutRecords
  <2>4. i[1][1] = last[p] + 1 => RecordAt(i[1]) = Deleted
    BY <2>2 DEF RecordAt
  <2> QED
    BY <1>1, <2>3, <2>4 DEF Kept
<1>3. CASE PutNew(p)
  <2>1. PutBlock(last[p], <<>>) /\ blocks[last[p]] = <<>> /\ last[p] \in 1 .. Len(blocks) + 1
    BY <1>3 DEF PutNew, Overtaken
  <2>2. RecordAt(i[1])' = IF i[1][1] # last[p] THEN RecordAt(i[1]) ELSE Deleted
    BY <2>1, EmptyType, PutRecords
  <2>3. i[1][1] = last[p] => RecordAt(i[1]) = Deleted
    BY <2>1, EmptyType DEF RecordAt
  <2> QED
    BY <1>1, <2>2, <2>3 DEF Kept
<1>4. CASE AppendWrite(p)
  <2> DEFINE b == last[p]
  <2>1. /\ PutBlock(b, copy[p]) /\ copy[p] = Append(blocks[b], row[p]) /\ ~Overrun(copy[p])
        /\ removed' = removed \ {Returned(p)} /\ b \in 1 .. Len(blocks) /\ row[p] \in AnyRow
        /\ b \in 1 .. Len(blocks) + 1 /\ copy[p] \in Block
    BY <1>4 DEF AppendWrite, Return, Overtaken, Overruns, SameButOwnChange, Appending
  <2>2. RecordAt(i[1])' = IF i[1][1] # b THEN RecordAt(i[1])
                          ELSE IF i[1][2] \in DOMAIN copy[p] THEN copy[p][i[1][2]] ELSE Deleted
    <3> HIDE <1>f DEF b
    <3> QED
      BY <2>1, PutRecords
  <2>3. blocks[b] \in Block
    BY <2>1
  <2>4. /\ Len(blocks[b]) \in Nat /\ Len(copy[p]) = Len(blocks[b]) + 1
        /\ DOMAIN blocks[b] = 1 .. Len(blocks[b]) /\ DOMAIN copy[p] = 1 .. Len(blocks[b]) + 1
        /\ copy[p][Len(blocks[b]) + 1] = row[p]
        /\ \A j \in 1 .. Len(blocks[b]) : copy[p][j] = blocks[b][j]
    BY <2>1, <2>3, AppendType
  <2>5. ~Overrun(blocks[b])
    BY <2>1, <2>4, ShellsAssumption DEF Overrun, ShellsAssumption
  <2>6. CASE i[1][1] # b
    BY <2>2, <2>6 DEF Kept
  <2>7. CASE i[1][1] = b /\ i[1][2] \in DOMAIN blocks[b]
    <3>1. RecordAt(i[1]) = blocks[b][i[1][2]]
      BY <2>1, <2>5, <2>7 DEF RecordAt
    <3>2. RecordAt(i[1])' = blocks[b][i[1][2]]
      BY <2>2, <2>4, <2>7
    <3> QED
      BY <3>1, <3>2 DEF Kept
  <2>8. CASE i[1][1] = b /\ i[1][2] \notin DOMAIN blocks[b]
    <3>1. RecordAt(i[1]) = Deleted
      BY <2>8 DEF RecordAt
    <3>2. CASE i[1][2] = Len(blocks[b]) + 1
      <4>1. RecordAt(i[1])' = row[p] /\ Returned(p) = <<i[1], row[p]>>
        BY <1>1, <2>2, <2>4, <2>8, <3>2 DEF Returned
      <4>2. i \in removed' => i[2] # row[p]
        BY <1>1, <2>1, <4>1
      <4> QED
        BY <1>1, <3>1, <4>1, <4>2 DEF Kept
    <3>3. CASE i[1][2] # Len(blocks[b]) + 1
      <4>1. i[1][2] \notin DOMAIN copy[p]
        <5> DEFINE n == Len(blocks[b])
                   k == i[1][2]
        <5>1. n \in Nat /\ k \in Nat /\ DOMAIN copy[p] = 1 .. n + 1 /\ k \notin 1 .. n /\ k # n + 1
          BY <1>1, <2>4, <2>8, <3>3
        <5> HIDE <1>f DEF n, k, b
        <5>2. k \notin 1 .. n + 1
          BY <5>1
        <5> QED
          BY <5>1, <5>2 DEF k
      <4>2. RecordAt(i[1])' = Deleted
        BY <2>2, <2>8, <4>1
      <4> QED
        BY <1>1, <3>1, <4>2 DEF Kept
    <3> QED
      BY <3>2, <3>3
  <2> QED
    BY <2>6, <2>7, <2>8
<1>5. CASE DelWrite(p)
  <2> DEFINE h == handle[p]
  <2>1. /\ copy[p] = Without(blocks[h[1]], h[2]) /\ PutBlock(h[1], copy[p])
        /\ RecordAt(h) = row[p] /\ <<h, row[p]>> \in removed'
        /\ h[1] \in 1 .. Len(blocks) /\ h[1] \in 1 .. Len(blocks) + 1
        /\ h = <<h[1], h[2]>> /\ h[2] \in Nat
    BY <1>5 DEF DelWrite, Overtaken, SameButOwnChange, HasHandle
  <2>2. blocks[h[1]] \in Block
    BY <2>1
  <2> HIDE DEF h
  <2>3. /\ DOMAIN copy[p] = DOMAIN blocks[h[1]]
        /\ Len(copy[p]) = Len(blocks[h[1]])
        /\ Overrun(copy[p]) <=> Overrun(blocks[h[1]])
        /\ \A j \in DOMAIN blocks[h[1]] : copy[p][j] = IF j = h[2] THEN Deleted ELSE blocks[h[1]][j]
    <3>1. /\ DOMAIN copy[p] = DOMAIN blocks[h[1]]
          /\ Len(copy[p]) = Len(blocks[h[1]])
          /\ \A j \in DOMAIN blocks[h[1]] : copy[p][j] = IF j = h[2] THEN Deleted ELSE blocks[h[1]][j]
      <4> DEFINE block == blocks[h[1]]
      <4>1. block \in Block /\ h[2] \in Nat /\ copy[p] = Without(block, h[2])
        BY <2>1, <2>2
      <4> HIDE <1>f DEF block
      <4>2. /\ DOMAIN copy[p] = DOMAIN block /\ Len(copy[p]) = Len(block)
            /\ \A j \in DOMAIN block : copy[p][j] = IF j = h[2] THEN Deleted ELSE block[j]
        BY <4>1, WithoutType
      <4> QED
        BY <4>2 DEF block
    <3> QED
      BY <3>1 DEF Overrun
  <2>4. RecordAt(i[1])' = IF i[1] = h THEN Deleted ELSE RecordAt(i[1])
    <3>1. CASE i[1][1] # h[1]
      BY <2>1, <3>1, PutRecords
    <3>2. CASE i[1][1] = h[1]
      <4>1. i[1] = h <=> i[1][2] = h[2]
        BY <1>1, <2>1, <3>2
      <4>2. RecordAt(i[1])' = IF ~Overrun(copy[p]) /\ i[1][2] \in DOMAIN copy[p]
                              THEN copy[p][i[1][2]] ELSE Deleted
        BY <2>1, <3>2, PutRecords
      <4> QED
        BY <2>1, <2>3, <3>2, <4>1, <4>2 DEF RecordAt
    <3> QED
      BY <3>1, <3>2
  <2>5. i[1] = h /\ RecordAt(i[1]) = i[2] => i \in removed'
    BY <1>1, <2>1
  <2> QED
    BY <1>1, <2>4, <2>5 DEF Kept
<1> QED
  BY <1>2, <1>3, <1>4, <1>5 DEF Puts

LEMMA LossStep ==
  ASSUME Inv, [Next]_vars, NEW i \in inserted
  PROVE  Kept(i) \/ \E p \in Shell : (Overtaken(p) \/ Overruns(p)) /\ pc'[p] # pc[p]
<1>1. CASE UNCHANGED blocks
  BY <1>1 DEF Kept, RecordAt, Overrun
<1>2. ASSUME NEW p \in Shell, Puts(p)
      PROVE  pc'[p] # pc[p]
  <2>1. pc \in [Shell -> PC]
    BY DEF Inv, Types
  <2> QED
    BY <1>2, <2>1 DEF Puts, GetNew, PutNew, AppendWrite, Return, DelWrite, Leave, GoTo
<1>3. UNCHANGED vars => UNCHANGED blocks
  BY DEF vars, disk
<1>4. UNCHANGED blocks \/ \E p \in Shell : Puts(p)
  BY <1>3, QuietOrPuts DEF Next
<1> QED
  BY <1>1, <1>2, <1>4, PutKeeps

-----------------------------------------------------------------------------
(***************************************************************************)
(* Taking turns.                                                           *)
(***************************************************************************)
OthersWait(p) == \A q \in Shell \ {p} : pc[q] \in Waiting

LEMMA TurnsInit == Init => Turns
BY DEF Init, Turns, InTurn, Stored, Gone, Waiting, HasHandle, Appending

\* A step of p concerns no other shell.
LEMMA OthersInTurn ==
  ASSUME Inv, \A q \in Shell : InTurn(q), NEW p \in Shell, NEW next, GoTo(p, next),
         \A q \in Shell \ {p} : /\ last'[q] = last[q] /\ copy'[q] = copy[q]
                                /\ row'[q] = row[q] /\ handle'[q] = handle[q],
         OthersWait(p) \/ (next \in Waiting /\ UNCHANGED <<disk, history>>)
  PROVE  /\ \A q \in Shell \ {p} : InTurn(q)'
         /\ pc'[p] = next
         /\ pc'[p] \in Waiting \/ \A q \in Shell \ {p} : pc'[q] \in Waiting
<1>1. pc'[p] = next /\ \A q \in Shell \ {p} : pc'[q] = pc[q]
  BY DEF Inv, Types, GoTo
<1>2. CASE OthersWait(p)
  <2>1. \A q \in Shell \ {p} : pc'[q] \in Waiting
    BY <1>1, <1>2 DEF OthersWait
  <2>2. \A q \in Shell \ {p} : InTurn(q)'
    BY <2>1 DEF InTurn, HasHandle, Waiting, Appending
  <2> QED
    BY <1>1, <2>1, <2>2
<1>3. CASE next \in Waiting /\ UNCHANGED <<disk, history>>
  <2>1. blocks' = blocks /\ removed' = removed /\ lost' = lost
    BY <1>3 DEF disk, history
  <2>2. ASSUME NEW q \in Shell, q # p
        PROVE  InTurn(q)'
    <3>1. pc'[q] \in Waiting \/ \A o \in Shell \ {q} : pc'[o] \in Waiting
      BY <1>1, <1>3, <2>2 DEF InTurn
    <3> QED
      BY <1>1, <2>1, <2>2, <3>1 DEF InTurn, HasHandle, SameButOwnChange, Appending, Overrun
  <2> QED
    BY <1>1, <1>3, <2>2
<1> QED
  BY <1>2, <1>3

\* What each put does to the rows, when p was not overtaken except by the count
\* of blocks.
LEMMA GetNewStored ==
  ASSUME Inv, NEW p \in Shell, Stored, Gone, GetNew(p)
  PROVE  Stored' /\ Gone' /\ blocks'[last'[p]] = <<>>
<1>f. Facts(p)
  BY ShellFacts
<1> DEFINE b == last[p] + 1
<1>1. /\ PutBlock(b, <<>>) /\ b \in 1 .. Len(blocks) + 1 /\ last'[p] = b
      /\ inserted' = inserted /\ removed' = removed /\ lost' = lost \union RowsIn(b)
  BY <1>f DEF GetNew, Facts
<1>2. blocks'[b] = <<>>
  <2>1. /\ blocks \in Seq(Block) /\ Len(blocks) \in Nat
        /\ Len(blocks') = IF b > Len(blocks) THEN Len(blocks) + 1 ELSE Len(blocks)
        /\ \A c \in 1 .. Len(blocks') : blocks'[c] = IF c = b THEN <<>> ELSE blocks[c]
    BY <1>f, <1>1, EmptyType, PutBlockFacts DEF Facts
  <2>2. b \in 1 .. Len(blocks')
    BY <1>1, <2>1
  <2> QED
    BY <2>1, <2>2
<1> HIDE DEF b
<1>3. \A i \in inserted : RecordAt(i[1])' = IF i[1][1] # b THEN RecordAt(i[1]) ELSE Deleted
  BY <1>1, EmptyType, PutRecords
<1>4. \A i \in inserted : i[2] # Deleted
  BY <1>f, ShellsAssumption DEF Facts, ShellsAssumption
<1>5. Stored'
  BY <1>1, <1>3 DEF Stored, RowsIn
<1>6. Gone'
  BY <1>f, <1>1, <1>3, <1>4 DEF Gone, Facts
<1> QED
  BY <1>1, <1>2, <1>5, <1>6

LEMMA PutNewStored ==
  ASSUME Inv, NEW p \in Shell, InTurn(p), Stored, Gone, PutNew(p)
  PROVE  Stored' /\ Gone'
<1>1. ~Overtaken(p) /\ ~Overruns(p) /\ UNCHANGED history /\ Puts(p)
  BY DEF PutNew, InTurn, Overtaken, Overruns, Puts
<1>2. \A i \in inserted : Kept(i)
  BY <1>1, PutKeeps
<1>3. removed \subseteq inserted
  BY DEF Inv, Types, TypeOK
<1> QED
  BY <1>1, <1>2, <1>3 DEF Stored, Gone, Kept, history

LEMMA AppendStored ==
  ASSUME Inv, NEW p \in Shell, InTurn(p), Stored, Gone, AppendWrite(p)
  PROVE  /\ Stored' /\ Gone'
         /\ Returned(p) \notin removed'
         /\ Returned(p) \in lost' => Overrun(blocks'[last[p]])
<1>f. Facts(p)
  BY ShellFacts
<1> DEFINE b == last[p]
           h == Returned(p)[1]
<1>1. /\ PutBlock(b, copy[p]) /\ pc[p] \in Appending /\ copy[p] \in Block
      /\ b \in 1 .. Len(blocks) /\ b \in 1 .. Len(blocks) + 1 /\ row[p] \in AnyRow
      /\ inserted' = inserted \union {Returned(p)} /\ removed' = removed \ {Returned(p)}
      /\ lost' = IF Overrun(copy[p]) THEN lost \union RowsIn(b) \union {Returned(p)}
                 ELSE lost \ {Returned(p)}
      /\ copy[p] = Append(blocks[b], row[p])
      /\ Returned(p) = <<h, row[p]>> /\ h[1] = b /\ h[2] = Len(copy[p])
  BY <1>f DEF AppendWrite, Return, Appending, Facts, InTurn, SameButOwnChange, Returned
<1>2. blocks'[b] = copy[p]
  <2>1. /\ blocks \in Seq(Block) /\ Len(blocks) \in Nat
        /\ Len(blocks) <= Len(blocks') /\ Len(blocks') \in Nat
        /\ \A c \in 1 .. Len(blocks') : blocks'[c] = IF c = b THEN copy[p] ELSE blocks[c]
    <3> HIDE DEF b
    <3>1. blocks \in Seq(Block) /\ Len(blocks) \in Nat
      BY <1>f DEF Facts
    <3>2. /\ Len(blocks') = IF b > Len(blocks) THEN Len(blocks) + 1 ELSE Len(blocks)
          /\ \A c \in 1 .. Len(blocks') : blocks'[c] = IF c = b THEN copy[p] ELSE blocks[c]
      BY <1>1, <3>1, PutBlockFacts
    <3> QED
      BY <3>1, <3>2
  <2>2. b \in 1 .. Len(blocks')
    BY <1>1, <2>1
  <2> QED
    BY <2>1, <2>2
<1>3. \A i \in inserted : i[2] # Deleted /\ i \in (Nat \X Nat) \X AnyRow
  BY <1>f, ShellsAssumption DEF Facts, ShellsAssumption
<1>4. removed \subseteq inserted
  BY <1>f DEF Facts
<1>5. CASE Overrun(copy[p])
  <2>1. \A i \in inserted : RecordAt(i[1])' = IF i[1][1] # b THEN RecordAt(i[1]) ELSE Deleted
    BY <1>1, <1>5, PutRecords
  <2>2. Stored'
    BY <1>1, <1>5, <2>1 DEF Stored, RowsIn
  <2>3. Gone'
    BY <1>1, <1>3, <1>4, <2>1 DEF Gone
  <2> QED
    BY <1>1, <1>2, <1>5, <2>2, <2>3
<1>6. CASE ~Overrun(copy[p])
  <2>1. ~Overtaken(p) /\ ~Overruns(p) /\ Puts(p)
    BY <1>1, <1>6 DEF InTurn, Overtaken, Overruns, Puts, Appending
  <2>2. \A i \in inserted : Kept(i)
    BY <2>1, PutKeeps
  <2>3. ASSUME NEW g, g = h
        PROVE  RecordAt(g)' = row[p]
    <3>1. blocks[b] \in Block
      BY <1>f, <1>1 DEF Facts
    <3>2. /\ Len(blocks[b]) \in Nat /\ Len(copy[p]) = Len(blocks[b]) + 1
          /\ DOMAIN copy[p] = 1 .. Len(blocks[b]) + 1
          /\ copy[p][Len(blocks[b]) + 1] = row[p]
      BY <1>1, <3>1, AppendType
    <3>3. h[2] \in DOMAIN copy[p] /\ copy[p][h[2]] = row[p]
      BY <1>1, <3>2
    <3> HIDE DEF h, b
    <3> QED
      BY <1>1, <1>6, <2>3, <3>3, PutRecords
  <2> HIDE DEF h, b
  <2>4. Stored'
    <3>1. ASSUME NEW i \in inserted' \ (removed' \union lost')
          PROVE  RecordAt(i[1])' = i[2]
      <4>1. CASE i = Returned(p)
        BY <1>1, <2>3, <4>1
      <4>2. CASE i # Returned(p)
        BY <1>1, <1>6, <2>2, <3>1, <4>2 DEF Stored, Kept
      <4> QED
        BY <4>1, <4>2
    <3> QED
      BY <3>1 DEF Stored
  <2>5. Gone'
    BY <1>1, <1>4, <2>2 DEF Gone, Kept
  <2> QED
    BY <1>1, <1>6, <2>4, <2>5
<1> QED
  BY <1>5, <1>6

LEMMA DelStored ==
  ASSUME Inv, NEW p \in Shell, InTurn(p), Stored, Gone, DelWrite(p)
  PROVE  Stored' /\ Gone'
<1>f. Facts(p)
  BY ShellFacts
<1> DEFINE h == handle[p]
           mine == <<h, row[p]>>
<1>1. /\ pc[p] = "del" /\ mine \in inserted \ (removed \union lost)
      /\ inserted' = inserted /\ lost' = lost /\ removed' = removed \union {mine}
      /\ copy[p] = Without(blocks[h[1]], h[2]) /\ PutBlock(h[1], copy[p])
      /\ h[1] \in 1 .. Len(blocks) /\ h[1] \in 1 .. Len(blocks) + 1 /\ h[2] \in Nat
      /\ copy[p] \in Block
  BY <1>f DEF DelWrite, InTurn, HasHandle, Facts, SameButOwnChange
<1>2. RecordAt(h) = row[p]
  BY <1>1 DEF Stored
<1>3. ~Overtaken(p) /\ ~Overruns(p) /\ Puts(p)
  BY <1>1, <1>2 DEF InTurn, Overtaken, Overruns, Puts
<1>4. \A i \in inserted : Kept(i)
  BY <1>3, PutKeeps
<1>5. ASSUME NEW g, g = h
      PROVE  RecordAt(g)' # row[p]
  <2>1. blocks[h[1]] \in Block
    BY <1>f, <1>1 DEF Facts
  <2> HIDE DEF h
  <2>2. h[2] \in DOMAIN copy[p] => copy[p][h[2]] = Deleted
    BY <1>1, <2>1, WithoutType
  <2>3. RecordAt(g)' = Deleted
    BY <1>1, <1>5, <2>2, PutRecords
  <2>4. row[p] \in AnyRow
    BY <1>f, <1>1 DEF Facts, h
  <2> QED
    BY <2>3, <2>4, ShellsAssumption DEF ShellsAssumption
<1>6. removed \subseteq inserted
  BY <1>f DEF Facts
<1> HIDE DEF h
<1>7. Stored'
  BY <1>1, <1>4 DEF Stored, Kept
<1>8. Gone'
  <2>1. ASSUME NEW i \in removed'
        PROVE  RecordAt(i[1])' # i[2]
    <3>1. CASE i = mine
      BY <1>5, <3>1
    <3>2. CASE i # mine
      BY <1>1, <1>4, <1>6, <2>1, <3>2 DEF Gone, Kept
    <3> QED
      BY <3>1, <3>2
  <2> QED
    BY <2>1 DEF Gone
<1> QED
  BY <1>7, <1>8

\* A step of p leads from turn to turn, when what InTurn says of where p goes is
\* so.
LEMMA TurnsGoTo ==
  ASSUME Inv, \A q \in Shell : InTurn(q), NEW p \in Shell, NEW next, GoTo(p, next),
         \A q \in Shell \ {p} : /\ last'[q] = last[q] /\ copy'[q] = copy[q]
                                /\ row'[q] = row[q] /\ handle'[q] = handle[q],
         pc[p] \notin Waiting \/ MayStart(p) \/ (next \in Waiting /\ UNCHANGED <<disk, history>>),
         take_turns,
         Stored' /\ Gone',
         next = "put" => blocks'[last'[p]] = <<>>,
         next \in Appending => copy'[p] = Append(blocks'[last'[p]], row'[p]),
         next = "del" => copy'[p] = Without(blocks'[handle'[p][1]], handle'[p][2]),
         next \in {"inserted", "project", "del"} => <<handle'[p], row'[p]>> \notin removed',
         next = "inserted" /\ <<handle'[p], row'[p]>> \in lost' => Overrun(blocks'[handle'[p][1]]),
         next \in {"project", "del"} => <<handle'[p], row'[p]>> \notin lost'
  PROVE  Turns'
<1>1. OthersWait(p) \/ (next \in Waiting /\ UNCHANGED <<disk, history>>)
  BY DEF InTurn, OthersWait, MayStart
<1>2. /\ \A q \in Shell \ {p} : InTurn(q)'
      /\ pc'[p] = next
      /\ pc'[p] \in Waiting \/ \A q \in Shell \ {p} : pc'[q] \in Waiting
  BY <1>1, OthersInTurn
<1>3. InTurn(p)'
  BY <1>2 DEF InTurn, HasHandle, SameButOwnChange, Appending
<1> QED
  BY <1>2, <1>3 DEF Turns

LEMMA StoredQuiet ==
  Stored /\ Gone /\ UNCHANGED <<blocks, history>> => Stored' /\ Gone'
BY DEF Stored, Gone, RecordAt, Overrun, history

LEMMA StopTurns ==
  ASSUME Inv, Turns, take_turns, NEW p \in Shell, Stop(p)
  PROVE  Turns'
<1>f. Facts(p)
  BY ShellFacts
<1>1. /\ GoTo(p, "down") /\ UNCHANGED <<disk, history>>
      /\ \A q \in Shell \ {p} : /\ last'[q] = last[q] /\ copy'[q] = copy[q]
                                /\ row'[q] = row[q] /\ handle'[q] = handle[q]
  BY <1>f DEF Stop, Leave, Facts
<1>2. Stored' /\ Gone'
  BY <1>1, StoredQuiet DEF Turns, disk
<1>3. "down" \in Waiting /\ "down" \notin Appending
  BY DEF Waiting, Appending
<1> QED
  BY <1>1, <1>2, <1>3, TurnsGoTo DEF Turns

\* A step of p that changes nothing but where p is.
LEMMA GoToTurns ==
  ASSUME Inv, Turns, take_turns, NEW p \in Shell, NEW next, GoTo(p, next),
         UNCHANGED <<blocks, copy, row, handle, history>>,
         \A q \in Shell \ {p} : last'[q] = last[q],
         pc[p] \notin Waiting \/ MayStart(p),
         next \notin Appending \union {"put", "del", "inserted"},
         next = "project" => HasHandle(p) /\ <<handle[p], row[p]>> \notin lost
  PROVE  Turns'
<1>1. Stored' /\ Gone'
  BY StoredQuiet DEF Turns
<1>2. next = "project" => /\ <<handle'[p], row'[p]>> \notin removed'
                          /\ <<handle'[p], row'[p]>> \notin lost'
  BY DEF Turns, InTurn, history
<1> QED
  BY <1>1, <1>2, TurnsGoTo DEF Turns

LEMMA InsertTurns ==
  ASSUME Inv, Turns, take_turns, NEW p \in Shell, NEW r \in AnyRow, NEW next \in Appending,
         pc[p] \notin Waiting \/ MayStart(p), Insert(p, r, next)
  PROVE  Turns'
<1>f. Facts(p)
  BY ShellFacts
<1>1. CASE GoWild(p)
  <2>1. GoTo(p, "wild") /\ UNCHANGED <<blocks, last, copy, row, handle, history>>
    BY <1>1 DEF GoWild, disk, local
  <2>2. "wild" \notin Appending \union {"put", "del", "inserted", "project"}
    BY DEF Appending
  <2> QED
    BY <2>1, <2>2, GoToTurns
<1>2. CASE Stop(p)
  BY <1>2, StopTurns
<1>3. CASE ~GoWild(p) /\ ~Stop(p)
  <2>1. /\ GoTo(p, next) /\ UNCHANGED <<blocks, last, handle, history>>
        /\ copy' = [copy EXCEPT ![p] = Append(blocks[last[p]], r)]
        /\ row' = [row EXCEPT ![p] = r]
    BY <1>3 DEF Insert, disk
  <2>2. Stored' /\ Gone'
    BY <2>1, StoredQuiet DEF Turns
  <2>3. /\ copy'[p] = Append(blocks'[last'[p]], row'[p])
        /\ \A q \in Shell \ {p} : copy'[q] = copy[q] /\ row'[q] = row[q]
    BY <1>f, <2>1 DEF Facts
  <2>4. next \notin {"put", "del", "inserted", "project"}
    BY DEF Appending
  <2> QED
    BY <2>1, <2>2, <2>3, <2>4, TurnsGoTo DEF Turns
<1> QED
  BY <1>1, <1>2, <1>3

LEMMA ProcessTurns ==
  ASSUME Inv, Turns, take_turns, NEW p \in Shell,
         Boot(p) \/ CreateOpen(p) \/ GetNew(p) \/ PutNew(p) \/ Open(p) \/ Crash(p)
  PROVE  Turns'
<1>f. Facts(p)
  BY ShellFacts
<1>0. InTurn(p) /\ Stored /\ Gone /\ \A q \in Shell : InTurn(q)
  BY DEF Turns
<1>1. CASE Boot(p)
  <2> DEFINE next == IF exists THEN "closed" ELSE "absent"
  <2>1. GoTo(p, next) /\ UNCHANGED <<blocks, last, copy, row, handle, history>> /\ MayStart(p)
    BY <1>1 DEF Boot, disk, local
  <2>2. next \notin Appending \union {"put", "del", "inserted", "project"}
    BY DEF Appending
  <2> HIDE DEF next
  <2> QED
    BY <2>1, <2>2, GoToTurns
<1>2. CASE CreateOpen(p)
  <2>1. /\ GoTo(p, "get_new") /\ UNCHANGED <<blocks, copy, row, handle, history>>
        /\ \A q \in Shell \ {p} : last'[q] = last[q]
    BY <1>f, <1>2 DEF CreateOpen, CountBlocks, local, Facts
  <2>2. pc[p] \notin Waiting /\ "get_new" \notin Appending \union {"put", "del", "inserted", "project"}
    BY <1>2 DEF CreateOpen, Appending, Waiting
  <2> QED
    BY <2>1, <2>2, GoToTurns
<1>3. CASE GetNew(p)
  <2>1. /\ GoTo(p, "put") /\ UNCHANGED <<copy, row, handle>>
        /\ \A q \in Shell \ {p} : last'[q] = last[q]
        /\ pc[p] \notin Waiting /\ "put" \notin Appending
    BY <1>f, <1>3 DEF GetNew, local, Facts, Waiting, Appending
  <2>2. Stored' /\ Gone' /\ blocks'[last'[p]] = <<>>
    BY <1>0, <1>3, GetNewStored
  <2> QED
    BY <1>0, <2>1, <2>2, TurnsGoTo
<1>4. CASE PutNew(p)
  <2> DEFINE next == IF row[p] = TABLES THEN "seed" ELSE "closed"
  <2>1. /\ GoTo(p, next) /\ UNCHANGED <<last, copy, row, handle>> /\ pc[p] \notin Waiting
        /\ next \notin Appending \union {"put", "del", "inserted", "project"}
    BY <1>4 DEF PutNew, local, Waiting, Appending
  <2>2. Stored' /\ Gone'
    BY <1>0, <1>4, PutNewStored
  <2> HIDE DEF next
  <2> QED
    BY <1>0, <2>1, <2>2, TurnsGoTo
<1>5. CASE Open(p)
  <2>1. /\ GoTo(p, "ready") /\ UNCHANGED <<blocks, copy, row, handle, history>>
        /\ \A q \in Shell \ {p} : last'[q] = last[q]
        /\ MayStart(p) /\ "ready" \notin Appending \union {"put", "del", "inserted", "project"}
    BY <1>f, <1>5 DEF Open, CountBlocks, disk, local, Facts, Appending
  <2> QED
    BY <2>1, GoToTurns
<1>6. CASE Crash(p)
  BY <1>6, StopTurns DEF Crash
<1> QED
  BY <1>1, <1>2, <1>3, <1>4, <1>5, <1>6

LEMMA StatementTurns ==
  ASSUME Inv, Turns, take_turns, NEW p \in Shell,
         \/ \E r \in Row \union {TABLES} : AppendRead(p, r)
         \/ SeedRead(p) \/ AppendWrite(p) \/ Finish(p)
         \/ Project(p) \/ DelRead(p) \/ DelWrite(p)
  PROVE  Turns'
<1>f. Facts(p)
  BY ShellFacts
<1>0. InTurn(p) /\ Stored /\ Gone /\ \A q \in Shell : InTurn(q)
  BY DEF Turns
<1>1. ASSUME NEW r \in Row \union {TABLES}, AppendRead(p, r)
      PROVE  Turns'
  BY <1>1, InsertTurns DEF AppendRead, AnyRow, Appending
<1>2. CASE SeedRead(p)
  <2>1. pc[p] \notin Waiting /\ row[p] \in AnyRow /\ "seed_put" \in Appending
        /\ Insert(p, row[p], "seed_put")
    BY <1>f, <1>2 DEF SeedRead, Waiting, Facts, Appending
  <2> QED
    BY <2>1, InsertTurns
<1>3. CASE AppendWrite(p)
  <2>1. /\ Stored' /\ Gone'
        /\ Returned(p) \notin removed'
        /\ Returned(p) \in lost' => Overrun(blocks'[last[p]])
    BY <1>0, <1>3, AppendStored
  <2>2. /\ last' = last /\ copy' = [copy EXCEPT ![p] = <<>>] /\ Return(p)
        /\ pc[p] \notin Waiting
    BY <1>3 DEF AppendWrite, Return, Waiting
  <2>3. \A q \in Shell \ {p} : /\ copy'[q] = copy[q]
                               /\ row'[q] = row[q] /\ handle'[q] = handle[q]
    BY <1>f, <2>2 DEF Return, Facts
  <2>4. CASE GoTo(p, "inserted") /\ row' = row /\ handle' = [handle EXCEPT ![p] = Returned(p)[1]]
    <3>1. <<handle'[p], row'[p]>> = Returned(p) /\ handle'[p][1] = last[p]
      BY <1>f, <2>4 DEF Facts, Returned
    <3>2. "inserted" \notin Appending
      BY DEF Appending
    <3> QED
      BY <1>0, <2>1, <2>2, <2>3, <2>4, <3>1, <3>2, TurnsGoTo
  <2>5. ASSUME NEW next \in {"seed", "ready"}, GoTo(p, next)
        PROVE  Turns'
    <3>1. next \notin Appending \union {"put", "del", "inserted", "project"}
      BY <2>5 DEF Appending
    <3> QED
      BY <1>0, <2>1, <2>2, <2>3, <2>5, <3>1, TurnsGoTo
  <2> QED
    BY <2>2, <2>4, <2>5 DEF Return
<1>4. CASE Finish(p)
  <2> DEFINE next == IF row[p] = TABLES THEN "get_new" ELSE "ready"
  <2>1. /\ GoTo(p, next) /\ UNCHANGED <<blocks, last, copy, history>> /\ pc[p] \notin Waiting
        /\ next \notin Appending \union {"put", "del", "inserted", "project"}
        /\ \A q \in Shell \ {p} : row'[q] = row[q] /\ handle'[q] = handle[q]
    BY <1>f, <1>4 DEF Finish, disk, Waiting, Appending, Facts
  <2>2. Stored' /\ Gone'
    BY <1>0, <2>1, StoredQuiet
  <2> HIDE DEF next
  <2> QED
    BY <1>0, <2>1, <2>2, TurnsGoTo
<1>5. CASE Project(p)
  <2>1. pc[p] = "inserted" /\ pc[p] \notin Waiting /\ HasHandle(p)
    BY <1>5 DEF Project, Waiting, HasHandle
  <2>2. CASE GoWild(p)
    <3>1. GoTo(p, "wild") /\ UNCHANGED <<blocks, last, copy, row, handle, history>>
      BY <2>2 DEF GoWild, disk, local
    <3>2. "wild" \notin Appending \union {"put", "del", "inserted", "project"}
      BY DEF Appending
    <3> QED
      BY <2>1, <3>1, <3>2, GoToTurns
  <2>3. CASE ~GoWild(p) /\ ~Stop(p)
    <3>1. /\ GoTo(p, "project") /\ UNCHANGED <<blocks, last, copy, row, handle, history>>
          /\ ~Overrun(blocks[handle[p][1]])
      BY <1>5, <2>3 DEF Project, disk, local
    <3>2. <<handle[p], row[p]>> \notin lost /\ "project" \notin Appending \union {"put", "del", "inserted"}
      BY <1>0, <2>1, <3>1 DEF InTurn, Appending
    <3> QED
      BY <2>1, <3>1, <3>2, GoToTurns
  <2> QED
    BY <2>2, <2>3, StopTurns
<1>6. CASE DelRead(p)
  <2>1. pc[p] = "project" /\ pc[p] \notin Waiting /\ HasHandle(p)
    BY <1>6 DEF DelRead, Waiting, HasHandle
  <2>2. CASE GoWild(p)
    <3>1. GoTo(p, "wild") /\ UNCHANGED <<blocks, last, copy, row, handle, history>>
      BY <2>2 DEF GoWild, disk, local
    <3>2. "wild" \notin Appending \union {"put", "del", "inserted", "project"}
      BY DEF Appending
    <3> QED
      BY <2>1, <3>1, <3>2, GoToTurns
  <2>3. CASE ~GoWild(p)
    <3>1. /\ GoTo(p, "del") /\ UNCHANGED <<blocks, last, row, handle, history>>
          /\ copy' = [copy EXCEPT ![p] = Without(blocks[handle[p][1]], handle[p][2])]
      BY <1>6, <2>3 DEF DelRead, disk
    <3>2. Stored' /\ Gone'
      BY <1>0, <3>1, StoredQuiet
    <3>3. /\ copy'[p] = Without(blocks'[handle'[p][1]], handle'[p][2])
          /\ \A q \in Shell \ {p} : copy'[q] = copy[q]
          /\ <<handle'[p], row'[p]>> \notin removed' /\ <<handle'[p], row'[p]>> \notin lost'
      BY <1>0, <1>f, <2>1, <3>1 DEF Facts, InTurn, history
    <3>4. "del" \notin Appending
      BY DEF Appending
    <3> QED
      BY <1>0, <2>1, <3>1, <3>2, <3>3, <3>4, TurnsGoTo
  <2> QED
    BY <2>2, <2>3
<1>7. CASE DelWrite(p)
  <2>1. /\ GoTo(p, "ready") /\ pc[p] \notin Waiting /\ last' = last
        /\ \A q \in Shell \ {p} : copy'[q] = copy[q] /\ row'[q] = row[q] /\ handle'[q] = handle[q]
        /\ "ready" \notin Appending
    BY <1>f, <1>7 DEF DelWrite, Leave, Waiting, Facts, Appending
  <2>2. Stored' /\ Gone'
    BY <1>0, <1>7, DelStored
  <2> QED
    BY <1>0, <2>1, <2>2, TurnsGoTo
<1> QED
  BY <1>1, <1>2, <1>3, <1>4, <1>5, <1>6, <1>7

LEMMA TurnsStep ==
  ASSUME Inv, Turns, [Next]_vars
  PROVE  Turns'
<1>1. CASE UNCHANGED vars
  BY <1>1 DEF vars, disk, history, Turns, InTurn, Stored, Gone, RecordAt, Overrun, HasHandle,
              SameButOwnChange
<1>2. CASE Next
  <2>1. CASE ~take_turns
    BY <1>2, <2>1 DEF Next, Turns
  <2> QED
    BY <1>2, <2>1, ProcessTurns, StatementTurns DEF Next
<1> QED
  BY <1>1, <1>2

-----------------------------------------------------------------------------
(***************************************************************************)
(* The theorems.                                                           *)
(***************************************************************************)

\* Inv and Turns hold in every reachable state.
THEOREM InductiveInvariant == Spec => [](Inv /\ Turns)
<1>1. Init => Inv /\ Turns
  BY InitInv, TurnsInit
<1>2. Inv /\ Turns /\ [Next]_vars => Inv' /\ Turns'
  BY StepInv, TurnsStep
<1> QED
  BY <1>1, <1>2, PTL DEF Spec

\* Blocks, counts, copies and handles are well typed, and only rows that were
\* inserted are removed or lost, however the shells interleave and whenever they
\* end.
THEOREM TypeCorrect == Spec => []TypeOK
<1>1. Inv => TypeOK
  BY DEF Inv, Types
<1> QED
  BY <1>1, InductiveInvariant, PTL

\* Shells that take turns keep every row that append has returned a handle for,
\* until it is taken back, whenever they crash, unless its block is overrun or
\* taken for new by a shell that had not counted it.
THEOREM InsertedStays == Spec => []InsertedStored
<1>1. Turns => InsertedStored
  BY DEF Turns, Stored, InsertedStored
<1> QED
  BY <1>1, InductiveInvariant, PTL

\* Shells that take turns never bring back a row that was taken back.
THEOREM RemovedStaysAway == Spec => []RemovedGone
<1>1. Turns => RemovedGone
  BY DEF Turns, Gone, RemovedGone
<1> QED
  BY <1>1, InductiveInvariant, PTL

\* Shells that do not take turns lose rows, and get removed ones back, only by
\* the write of a shell that was overtaken and by an append that overruns its
\* block.
THEOREM OnlyOvertakenShellsLose == Spec => LossOnlyWhenOvertaken
<1>1. Inv /\ [Next]_vars =>
        [\A i \in inserted :
           \/ /\ RecordAt(i[1]) = i[2] /\ i \notin removed' => RecordAt(i[1])' = i[2]
              /\ RecordAt(i[1]) # i[2] /\ i \in removed \intersect removed' =>
                   RecordAt(i[1])' # i[2]
           \/ \E p \in Shell : (Overtaken(p) \/ Overruns(p)) /\ pc'[p] # pc[p]]_vars
  BY LossStep DEF Kept
<1> QED
  BY <1>1, InductiveInvariant, PTL DEF Spec, LossOnlyWhenOvertaken

=============================================================================
