-------------------------- MODULE SlottedPageProofs --------------------------
(***************************************************************************)
(* Theorems about SlottedPage, for every block size, every set of record   *)
(* contents and every number of records.                                   *)
(***************************************************************************)
EXTENDS SlottedPage, TLAPS

\* Records hold at least one byte.  Without this RecordsApart fails: a record
\* of size 0 starts where its neighbour starts, and slide() moves both.
DataNonEmpty == \A d \in Data : Len(d) > 0

LiveNonEmpty == ~overrun => \A id \in ids : header[id].size > 0
DeadEmpty == ~overrun => \A id \in RecordID \ ids : header[id].size = 0

\* The inductive invariant.
IInv ==
  /\ TypeOK
  /\ HeaderClear
  /\ RecordsApart
  /\ NoSpaceLeaks
  /\ LiveNonEmpty
  /\ DeadEmpty

LEMMA U16Type == U16 \in Nat /\ U16 > 8
BY DEF U16

LEMMA ModType ==
  ASSUME NEW x \in Int
  PROVE  x % U16 \in 0 .. U16 - 1
BY U16Type

LEMMA ModSame ==
  ASSUME NEW x \in 0 .. U16 - 1
  PROVE  x % U16 = x
BY U16Type

LEMMA DataFacts ==
  ASSUME NEW d \in Data
  PROVE  /\ d \in Seq(Byte)
         /\ Len(d) \in 0 .. BLOCK_SZ
         /\ Len(d) \in 0 .. U16 - 1
         /\ BLOCK_SZ \in 4 .. U16 - 1
<1>1. d \in Seq(Byte)
  BY PageAssumption DEF PageAssumption
<1>2. Len(d) <= BLOCK_SZ /\ BLOCK_SZ \in 4 .. U16 - 1
  BY PageAssumption DEF PageAssumption
<1>3. Len(d) \in Nat
  BY <1>1
<1> QED
  BY <1>1, <1>2, <1>3, U16Type

LEMMA SlotFacts ==
  ASSUME NEW s \in Slot
  PROVE  s.size \in 0 .. U16 - 1 /\ s.loc \in 0 .. U16 - 1
BY DEF Slot

LEMMA WriteType ==
  ASSUME NEW mem \in [Offset -> Byte \union {NoByte}], NEW loc \in Int, NEW d \in Data
  PROVE  Write(mem, loc, d) \in [Offset -> Byte \union {NoByte}]
<1>1. d \in Seq(Byte) /\ BLOCK_SZ \in 4 .. U16 - 1
  BY DataFacts
<1>2. ASSUME NEW o \in Offset, loc <= o, o < loc + Len(d)
      PROVE  d[o - loc + 1] \in Byte
  BY <1>1, <1>2, U16Type DEF Offset
<1> QED
  BY <1>2 DEF Write

LEMMA SlideBytesType ==
  ASSUME NEW mem \in [Offset -> Byte \union {NoByte}], NEW start \in Int, NEW shift \in Int,
         end_free \in Nat, start <= BLOCK_SZ
  PROVE  SlideBytes(mem, start, shift) \in [Offset -> Byte \union {NoByte}]
<1>1. BLOCK_SZ \in Nat
  BY PageAssumption DEF PageAssumption
<1>2. ASSUME NEW o \in Offset, end_free + 1 + shift <= o, o < start + shift
      PROVE  o - shift \in Offset
  BY <1>1, <1>2 DEF Offset
<1> QED
  BY <1>2 DEF SlideBytes

\* What slide() does to the slots, one by one.
LEMMA SlideSlotsFacts ==
  ASSUME TypeOK, NEW start \in Int, NEW shift \in Int
  PROVE  LET slots == SlideSlots(start, shift)
         IN  /\ slots \in [RecordID -> Slot]
             /\ \A i \in RecordID :
                  /\ slots[i].size = header[i].size
                  /\ slots[i].loc = IF Live(i) /\ header[i].loc <= start
                                    THEN (header[i].loc + shift) % U16
                                    ELSE header[i].loc
<1>1. header \in [RecordID -> Slot]
  BY DEF TypeOK
<1>2. ASSUME NEW i \in RecordID
      PROVE  /\ header[i] \in Slot
             /\ (header[i].loc + shift) % U16 \in 0 .. U16 - 1
             /\ [header[i] EXCEPT !.loc = (@ + shift) % U16]
                  = [size |-> header[i].size, loc |-> (header[i].loc + shift) % U16]
  <2>1. header[i] \in Slot
    BY <1>1
  <2>2. header[i].loc \in Int
    BY <2>1, SlotFacts, U16Type
  <2>3. (header[i].loc + shift) % U16 \in 0 .. U16 - 1
    BY <2>2, ModType
  <2>4. [header[i] EXCEPT !.loc = (@ + shift) % U16]
          = [size |-> header[i].size, loc |-> (header[i].loc + shift) % U16]
    BY <2>1 DEF Slot
  <2> QED
    BY <2>1, <2>3, <2>4
<1> QED
  BY <1>1, <1>2 DEF SlideSlots, Slot

LEMMA InitInv == Init => IInv
<1> SUFFICES ASSUME Init PROVE IInv
  OBVIOUS
<1>1. BLOCK_SZ \in 4 .. U16 - 1
  BY PageAssumption DEF PageAssumption
<1>2. RecordID = {} /\ ids = {}
  BY DEF Init, RecordID, ids
<1>3. TypeOK
  <2>1. header \in [RecordID -> Slot]
    BY <1>2 DEF Init
  <2>2. num_records \in Nat /\ end_free \in 0 .. U16 - 1
    BY <1>1, U16Type DEF Init
  <2>3. bytes \in [Offset -> Byte \union {NoByte}]
    BY DEF Init
  <2>4. overrun \in BOOLEAN
    BY DEF Init
  <2> QED
    BY <2>1, <2>2, <2>3, <2>4 DEF TypeOK
<1>4. HeaderClear
  BY <1>1, U16Type DEF Init, HeaderClear, SlotsEnd
<1>5. RecordsApart /\ LiveNonEmpty /\ DeadEmpty
  BY <1>2 DEF RecordsApart, LiveNonEmpty, DeadEmpty
<1>6. NoSpaceLeaks
  BY <1>1, U16Type DEF Init, NoSpaceLeaks
<1> QED
  BY <1>3, <1>4, <1>5, <1>6 DEF IInv

-----------------------------------------------------------------------------
(***************************************************************************)
(* The invariant, one action at a time.                                    *)
(***************************************************************************)

\* What the invariant says of a page that has not overrun: its counters, ...
LEMMA PageNumbers ==
  ASSUME IInv, ~overrun
  PROVE  /\ num_records \in Nat /\ end_free \in Nat /\ BLOCK_SZ \in Nat
         /\ U16 \in Nat /\ BLOCK_SZ < U16
         /\ 4 * (num_records + 1) <= end_free + 1
         /\ end_free < BLOCK_SZ
<1>1. BLOCK_SZ \in 4 .. U16 - 1
  BY PageAssumption DEF PageAssumption
<1>2. num_records \in Nat /\ end_free \in Nat
  BY U16Type DEF IInv, TypeOK
<1>3. 4 * (num_records + 1) <= end_free + 1 /\ end_free < BLOCK_SZ
  BY DEF IInv, HeaderClear, SlotsEnd
<1> QED
  BY <1>1, <1>2, <1>3, U16Type

\* ... one slot, ...
LEMMA OneSlot ==
  ASSUME IInv, ~overrun, NEW i \in RecordID
  PROVE  /\ header[i] \in Slot
         /\ header[i].size \in Nat
         /\ header[i].loc \in Nat
         /\ header[i].loc = 0 => header[i].size = 0
         /\ header[i].loc # 0 => /\ end_free < header[i].loc
                                 /\ header[i].loc + header[i].size <= BLOCK_SZ
                                 /\ header[i].size > 0
<1>1. header[i] \in Slot
  BY DEF IInv, TypeOK
<1>2. header[i].size \in Nat /\ header[i].loc \in Nat
  BY <1>1, SlotFacts, U16Type
<1>3. header[i].loc = 0 => header[i].size = 0
  BY DEF IInv, DeadEmpty, ids, Live
<1>4. header[i].loc # 0 => i \in ids
  BY DEF ids, Live
<1> QED
  BY <1>1, <1>2, <1>3, <1>4 DEF IInv, RecordsApart, LiveNonEmpty

\* ... and two records.
LEMMA TwoSlots ==
  ASSUME IInv, ~overrun, NEW i \in RecordID, NEW j \in RecordID, i # j,
         header[i].loc # 0, header[j].loc # 0
  PROVE  \/ header[i].loc + header[i].size <= header[j].loc
         \/ header[j].loc + header[j].size <= header[i].loc
<1>1. i \in ids /\ j \in ids
  BY DEF ids, Live
<1> QED
  BY <1>1 DEF IInv, RecordsApart

\* Every byte beyond the free space is some record's.
LEMMA OwnedByte ==
  ASSUME IInv, ~overrun, NEW o \in Nat, end_free < o, o < BLOCK_SZ
  PROVE  \E i \in RecordID : /\ header[i].loc # 0
                             /\ header[i].loc <= o
                             /\ o < header[i].loc + header[i].size
<1>1. o \in end_free + 1 .. BLOCK_SZ - 1
  BY PageNumbers
<1> QED
  BY <1>1 DEF IInv, NoSpaceLeaks, ids, Live

LEMMA AddInv ==
  ASSUME IInv, DataNonEmpty, NEW d \in Data, Add(d)
  PROVE  IInv'
<1> DEFINE size == Len(d)
           loc == (end_free - Len(d) + 1) % U16
<1>1. ~overrun /\ size \in Nat /\ size > 0 /\ size \in 0 .. U16 - 1
  BY DataFacts DEF Add, DataNonEmpty
<1>2. /\ num_records' = num_records + 1
      /\ end_free' = (end_free - size) % U16
      /\ bytes' = Write(bytes, loc, d)
      /\ overrun' = (end_free - size + 1 < 4 * ((num_records + 1) + 1))
      /\ header' = [i \in 1 .. num_records + 1 |->
                      IF i \in RecordID THEN header[i] ELSE [size |-> size, loc |-> loc]]
  BY DEF Add, SlotsEnd
<1>3. /\ num_records \in Nat /\ end_free \in Nat /\ BLOCK_SZ \in Nat
      /\ U16 \in Nat /\ BLOCK_SZ < U16
      /\ end_free < BLOCK_SZ
  BY <1>1, PageNumbers
<1>4. loc \in 0 .. U16 - 1 /\ end_free' \in 0 .. U16 - 1
  <2>1. end_free - size \in Int /\ end_free - Len(d) + 1 \in Int
    BY <1>1, <1>3
  <2>2. loc \in 0 .. U16 - 1
    BY <2>1, ModType
  <2>3. (end_free - size) % U16 \in 0 .. U16 - 1
    BY <2>1, ModType
  <2> QED
    BY <2>2, <2>3, <1>2
<1>5. RecordID' = 1 .. num_records + 1 /\ RecordID = 1 .. num_records
  BY <1>2 DEF RecordID
<1>6. [size |-> size, loc |-> loc] \in Slot
  BY <1>1, <1>4 DEF Slot
<1> HIDE DEF size, loc
<1>7. TypeOK'
  <2>1. header \in [RecordID -> Slot]
    BY DEF IInv, TypeOK
  <2>2. header' \in [RecordID' -> Slot]
    BY <1>2, <1>5, <1>6, <2>1
  <2>3. bytes' \in [Offset -> Byte \union {NoByte}]
    <3>1. loc \in Int
      BY <1>4, U16Type
    <3>2. bytes \in [Offset -> Byte \union {NoByte}]
      BY DEF IInv, TypeOK
    <3> QED
      BY <1>2, <3>1, <3>2, WriteType
  <2>4. overrun' \in BOOLEAN
    BY <1>2
  <2>5. num_records' \in Nat
    BY <1>2, <1>3
  <2> QED
    BY <1>4, <2>2, <2>3, <2>4, <2>5 DEF TypeOK
<1>8. ASSUME ~overrun'
      PROVE  /\ end_free' = end_free - size
             /\ loc = end_free' + 1
             /\ 4 * (num_records' + 1) <= end_free' + 1
             /\ end_free' \in Nat
  <2>1. ~(end_free - size + 1 < 4 * ((num_records + 1) + 1))
    BY <1>2, <1>8
  <2>2. 4 * ((num_records + 1) + 1) <= end_free - size + 1
    BY <2>1, <1>1, <1>3
  <2>3. /\ end_free - size \in 0 .. U16 - 1
        /\ end_free - size + 1 \in 0 .. U16 - 1
    BY <1>1, <1>3, <2>2
  <2>4. end_free' = end_free - size
    BY <1>2, <2>3, ModSame
  <2>5. loc = end_free - size + 1
    BY <2>3, ModSame DEF loc, size
  <2> QED
    BY <1>2, <2>2, <2>3, <2>4, <2>5
<1>9. ASSUME ~overrun', NEW i \in RecordID', i \notin RecordID
      PROVE  header'[i].size = size /\ header'[i].loc = end_free' + 1 /\ i = num_records + 1
  <2>1. header'[i] = [size |-> size, loc |-> loc]
    BY <1>2, <1>5, <1>9
  <2> QED
    BY <1>3, <1>5, <1>8, <1>9, <2>1
<1>10. ASSUME NEW i \in RecordID
      PROVE  header'[i] = header[i] /\ i \in RecordID'
  BY <1>2, <1>3, <1>5
<1>11. ASSUME ~overrun', NEW i \in RecordID'
      PROVE  /\ header'[i].loc = 0 => header'[i].size = 0
             /\ header'[i].loc # 0 =>
                  /\ end_free' < header'[i].loc
                  /\ header'[i].loc + header'[i].size <= BLOCK_SZ
                  /\ header'[i].size > 0
  <2>1. CASE i \in RecordID
    <3>1. header'[i] = header[i]
      BY <1>10, <2>1
    <3> QED
      BY <1>1, <1>3, <1>8, <1>11, <2>1, <3>1, OneSlot
  <2>2. CASE i \notin RecordID
    <3>1. header'[i].size = size /\ header'[i].loc = end_free' + 1
      BY <1>9, <1>11, <2>2
    <3> QED
      BY <1>1, <1>3, <1>8, <1>11, <3>1
  <2> QED
    BY <2>1, <2>2
<1>12. ASSUME ~overrun', NEW i \in RecordID, NEW j \in RecordID' \ RecordID,
              header'[i].loc # 0
      PROVE  header'[j].loc + header'[j].size <= header'[i].loc
  <2>1. header'[i] = header[i]
    BY <1>10
  <2>2. header[i].loc \in Nat /\ end_free < header[i].loc
    BY <1>1, <1>12, <2>1, OneSlot
  <2>3. header'[j].size = size /\ header'[j].loc = end_free' + 1
    BY <1>9, <1>12
  <2> QED
    BY <1>1, <1>3, <1>8, <1>12, <2>1, <2>2, <2>3
<1>13. ASSUME ~overrun', NEW i \in RecordID', NEW j \in RecordID', i # j,
             header'[i].loc # 0, header'[j].loc # 0
      PROVE  \/ header'[i].loc + header'[i].size <= header'[j].loc
             \/ header'[j].loc + header'[j].size <= header'[i].loc
  <2>1. CASE i \in RecordID /\ j \in RecordID
    <3>1. header'[i] = header[i] /\ header'[j] = header[j]
      BY <1>10, <2>1
    <3> QED
      BY <1>1, <1>13, <2>1, <3>1, TwoSlots
  <2>2. CASE i \notin RecordID /\ j \notin RecordID
    BY <1>9, <1>13, <2>2
  <2>3. CASE i \in RecordID /\ j \notin RecordID
    BY <1>12, <1>13, <2>3
  <2>4. CASE i \notin RecordID /\ j \in RecordID
    BY <1>12, <1>13, <2>4
  <2> QED
    BY <2>1, <2>2, <2>3, <2>4
<1>14. HeaderClear'
  <2>1. ~overrun' => end_free' < BLOCK_SZ
    BY <1>1, <1>3, <1>8
  <2> QED
    BY <1>8, <2>1 DEF HeaderClear, SlotsEnd
\* The bytes that the new record takes are its own.
<1>15. NoSpaceLeaks'
  <2> SUFFICES ASSUME ~overrun', NEW o \in end_free' + 1 .. BLOCK_SZ - 1
               PROVE  \E i \in ids' : /\ header'[i].loc <= o
                                      /\ o < header'[i].loc + header'[i].size
    BY DEF NoSpaceLeaks
  <2>1. o \in Nat /\ end_free' < o /\ o < BLOCK_SZ
    BY <1>3, <1>8
  <2>2. CASE end_free < o
    <3>1. PICK i \in RecordID : /\ header[i].loc # 0
                                /\ header[i].loc <= o
                                /\ o < header[i].loc + header[i].size
      BY <1>1, <2>1, <2>2, OwnedByte
    <3> QED
      BY <1>10, <3>1 DEF ids, Live
  <2>3. CASE ~(end_free < o)
    <3> DEFINE i == num_records + 1
    <3>1. i \in RecordID' /\ i \notin RecordID
      BY <1>3, <1>5
    <3>2. header'[i].size = size /\ header'[i].loc = end_free' + 1
      BY <1>9, <3>1
    <3>3. header'[i].loc # 0 /\ header'[i].loc <= o /\ o < header'[i].loc + header'[i].size
      BY <1>1, <1>3, <1>8, <2>1, <2>3, <3>2
    <3> HIDE DEF i
    <3> QED
      BY <3>1, <3>3 DEF ids, Live
  <2> QED
    BY <2>2, <2>3
<1> QED
  BY <1>7, <1>11, <1>13, <1>14, <1>15 DEF IInv, RecordsApart, LiveNonEmpty, DeadEmpty, ids, Live


-----------------------------------------------------------------------------
(***************************************************************************)
(* put and del resize one record: its size shrinks by delta (grows, for a  *)
(* negative delta), and it and every record before it move up by delta.    *)
(***************************************************************************)
Resized(id, delta) ==
  /\ ~overrun /\ ~overrun'
  /\ num_records' = num_records
  /\ end_free' = end_free + delta
  /\ 4 * (num_records + 1) <= end_free + delta + 1
  /\ header[id].loc = 0 => delta = 0
  /\ header'[id].size = header[id].size - delta
  /\ header'[id].loc = IF header'[id].size = 0 THEN 0 ELSE header[id].loc + delta
  /\ \A i \in RecordID \ {id} :
       /\ header'[i].size = header[i].size
       /\ header'[i].loc = IF header[i].loc # 0 /\ header[i].loc <= header[id].loc
                           THEN header[i].loc + delta
                           ELSE header[i].loc

LEMMA ResizeInv ==
  ASSUME IInv, NEW id \in RecordID, NEW delta \in Int, TypeOK', Resized(id, delta)
  PROVE  IInv'
<1> DEFINE L == header[id].loc
           S == header[id].size
<1>0. /\ ~overrun /\ ~overrun' /\ num_records' = num_records
      /\ end_free' = end_free + delta
      /\ 4 * (num_records + 1) <= end_free + delta + 1
      /\ L = 0 => delta = 0
  BY DEF Resized
<1>1. RecordID' = RecordID
  BY <1>0 DEF RecordID
<1>2. /\ num_records \in Nat /\ end_free \in Nat /\ BLOCK_SZ \in Nat
      /\ end_free < BLOCK_SZ
  BY <1>0, PageNumbers
<1>3. /\ L \in Nat /\ S \in Nat
      /\ L = 0 => S = 0
      /\ L # 0 => end_free < L /\ L + S <= BLOCK_SZ /\ S > 0
  BY <1>0, OneSlot
<1>4. header'[id].size \in Nat
  <2>1. header'[id] \in Slot
    BY <1>1 DEF TypeOK
  <2> QED
    BY <2>1, SlotFacts, U16Type
<1>7. header'[id].size = S - delta
  BY DEF Resized
<1>8. header'[id].loc = IF header'[id].size = 0 THEN 0 ELSE L + delta
  BY DEF Resized
<1>5. delta <= S /\ (L = 0 => delta = 0)
  BY <1>0, <1>3, <1>4, <1>7
\* Every other record lies before the resized one and moves with it, or lies
\* after it and stays.
<1>6. ASSUME NEW i \in RecordID, i # id, header[i].loc # 0
      PROVE  /\ header[i].loc \in Nat /\ header[i].size \in Nat
             /\ header[i].size > 0 /\ header'[i].size = header[i].size
             /\ end_free < header[i].loc /\ header[i].loc + header[i].size <= BLOCK_SZ
             /\ \/ /\ header[i].loc + header[i].size <= L
                   /\ header'[i].loc = header[i].loc + delta
                \/ /\ L + S <= header[i].loc
                   /\ header'[i].loc = header[i].loc
  <2>1. /\ header[i].loc \in Nat /\ header[i].size \in Nat /\ header[i].size > 0
        /\ end_free < header[i].loc /\ header[i].loc + header[i].size <= BLOCK_SZ
    BY <1>0, <1>6, OneSlot
  <2>2. /\ header'[i].size = header[i].size
        /\ header'[i].loc = IF header[i].loc <= L THEN header[i].loc + delta
                                                  ELSE header[i].loc
    BY <1>6 DEF Resized
  <2>3. CASE L = 0
    <3>1. header[i].loc > L /\ header'[i].loc = header[i].loc
      BY <1>3, <1>6, <2>1, <2>2, <2>3
    <3>2. S = 0
      BY <1>3, <2>3
    <3>3. L + S <= header[i].loc
      BY <2>1, <2>3, <3>2
    <3> QED
      BY <2>1, <2>2, <3>1, <3>3
  <2>4. CASE L # 0
    <3>1. header[i].loc + header[i].size <= L \/ L + S <= header[i].loc
      BY <1>0, <1>6, <2>4, TwoSlots
    <3> QED
      BY <1>3, <2>1, <2>2, <2>4, <3>1
  <2> QED
    BY <2>3, <2>4
<1>9. ASSUME NEW i \in RecordID, i # id, header[i].loc = 0
      PROVE  header'[i].loc = 0 /\ header'[i].size = 0
  BY <1>0, <1>9, OneSlot DEF Resized
<1>10. end_free' = end_free + delta /\ end_free + delta >= 0
  BY <1>0, <1>2
<1> HIDE DEF L, S
<1>11. ASSUME NEW i \in RecordID
       PROVE  /\ header'[i].loc = 0 => header'[i].size = 0
              /\ header'[i].loc # 0 => /\ end_free' < header'[i].loc
                                       /\ header'[i].loc + header'[i].size <= BLOCK_SZ
                                       /\ header'[i].size > 0
  <2>1. CASE i = id
    <3>1. header'[id].size = 0 => header'[id].loc = 0
      BY <1>8
    <3>2. CASE header'[id].size # 0
      <4>1. header'[id].size > 0 /\ L # 0
        BY <1>3, <1>4, <1>5, <1>7, <3>2
      <4>2. header'[id].loc = L + delta
        BY <1>8, <3>2
      <4>3. end_free' < L + delta /\ L + delta + header'[id].size <= BLOCK_SZ
        BY <1>2, <1>3, <1>7, <1>10, <4>1
      <4>4. header'[id].loc # 0
        BY <1>2, <1>3, <1>10, <4>2, <4>3
      <4> QED
        BY <2>1, <4>1, <4>2, <4>3, <4>4
    <3> QED
      BY <2>1, <3>1, <3>2
  <2>2. CASE i # id /\ header[i].loc = 0
    BY <1>9, <2>2
  <2>3. CASE i # id /\ header[i].loc # 0
    <3>1. /\ header[i].loc \in Nat /\ header[i].size \in Nat
          /\ header[i].size > 0 /\ header'[i].size = header[i].size
          /\ end_free < header[i].loc /\ header[i].loc + header[i].size <= BLOCK_SZ
      BY <1>6, <2>3
    <3>2. CASE /\ header[i].loc + header[i].size <= L
               /\ header'[i].loc = header[i].loc + delta
      <4>1. L # 0 /\ L + S <= BLOCK_SZ
        BY <1>2, <1>3, <3>1, <3>2
      <4> QED
        BY <1>2, <1>3, <1>5, <1>10, <3>1, <3>2, <4>1
    <3>3. CASE L + S <= header[i].loc /\ header'[i].loc = header[i].loc
      <4>1. CASE L = 0
        BY <1>2, <1>3, <1>5, <1>10, <3>1, <3>3, <4>1
      <4>2. CASE L # 0
        BY <1>2, <1>3, <1>5, <1>10, <3>1, <3>3, <4>2
      <4> QED
        BY <4>1, <4>2
    <3> QED
      BY <1>6, <2>3, <3>2, <3>3
  <2> QED
    BY <2>1, <2>2, <2>3
\* The resized record against another one ...
<1>12. ASSUME NEW i \in RecordID, i # id, header'[i].loc # 0, header'[id].loc # 0
       PROVE  \/ header'[i].loc + header'[i].size <= header'[id].loc
              \/ header'[id].loc + header'[id].size <= header'[i].loc
  <2>1. header[i].loc # 0
    BY <1>9, <1>12
  <2> QED
    BY <1>3, <1>4, <1>5, <1>6, <1>7, <1>8, <1>12, <2>1
\* ... and two others.
<1>13. ASSUME NEW i \in RecordID, NEW j \in RecordID, i # id, j # id, i # j,
              header'[i].loc # 0, header'[j].loc # 0
       PROVE  \/ header'[i].loc + header'[i].size <= header'[j].loc
              \/ header'[j].loc + header'[j].size <= header'[i].loc
  <2>1. header[i].loc # 0 /\ header[j].loc # 0
    BY <1>9, <1>13
  <2>2. \/ header[i].loc + header[i].size <= header[j].loc
        \/ header[j].loc + header[j].size <= header[i].loc
    BY <1>0, <1>13, <2>1, TwoSlots
  <2> QED
    BY <1>3, <1>5, <1>6, <1>13, <2>1, <2>2
<1>14. ASSUME NEW i \in RecordID, NEW j \in RecordID, i # j,
              header'[i].loc # 0, header'[j].loc # 0
       PROVE  \/ header'[i].loc + header'[i].size <= header'[j].loc
              \/ header'[j].loc + header'[j].size <= header'[i].loc
  BY <1>12, <1>13, <1>14
<1>15. HeaderClear'
  <2>1. end_free' < BLOCK_SZ
    BY <1>2, <1>3, <1>5, <1>10
  <2> QED
    BY <1>0, <2>1 DEF HeaderClear, SlotsEnd
\* A byte before the end of the resized record was another's, delta before;
\* one after it is another's still.
<1>16. NoSpaceLeaks'
  <2> SUFFICES ASSUME NEW o \in end_free' + 1 .. BLOCK_SZ - 1
               PROVE  \E i \in RecordID : /\ header'[i].loc # 0
                                          /\ header'[i].loc <= o
                                          /\ o < header'[i].loc + header'[i].size
    BY <1>1 DEF NoSpaceLeaks, ids, Live
  <2>1. o \in Nat /\ end_free + delta < o /\ o < BLOCK_SZ
    BY <1>2, <1>10
  <2>2. CASE L + S <= o
    <3>1. end_free < o
      BY <1>2, <1>3, <1>5, <1>10, <2>1, <2>2
    <3>2. PICK i \in RecordID : /\ header[i].loc # 0
                                /\ header[i].loc <= o
                                /\ o < header[i].loc + header[i].size
      BY <1>0, <2>1, <3>1, OwnedByte
    <3>3. i # id
      BY <1>3, <2>1, <2>2, <3>2 DEF L, S
    <3>4. header'[i].loc = header[i].loc /\ header'[i].size = header[i].size
      BY <1>3, <1>6, <2>1, <2>2, <3>2, <3>3
    <3> QED
      BY <3>2, <3>4
  <2>3. CASE o < L + S /\ L + delta <= o
    <3>1. L # 0
      BY <1>2, <1>3, <2>1, <2>3
    <3>2. header'[id].size # 0
      BY <1>3, <1>7, <2>1, <2>3
    <3>3. header'[id].loc = L + delta
      BY <1>8, <3>2
    <3>4. L + delta # 0 /\ o < (L + delta) + (S - delta)
      BY <1>2, <1>3, <1>10, <2>1, <2>3, <3>1
    <3> QED
      BY <1>7, <2>3, <3>3, <3>4
  <2>4. CASE o < L + S /\ o < L + delta
    <3> DEFINE p == o - delta
    <3>1. p \in Nat /\ end_free < p /\ p < L /\ p < BLOCK_SZ
      BY <1>2, <1>3, <2>1, <2>4, <1>0
    <3>2. o = p + delta
      BY <2>1
    <3> HIDE DEF p
    <3>3. PICK i \in RecordID : /\ header[i].loc # 0
                                /\ header[i].loc <= p
                                /\ p < header[i].loc + header[i].size
      BY <1>0, <3>1, OwnedByte
    <3>4. i # id
      BY <3>1, <3>3, <1>3 DEF L
    <3>5. header'[i].loc = header[i].loc + delta /\ header'[i].size = header[i].size
      BY <1>3, <1>6, <3>1, <3>3, <3>4
    <3>6. header[i].loc \in Nat /\ header[i].size \in Nat /\ end_free < header[i].loc
      BY <1>6, <3>3, <3>4
    <3>7. /\ header'[i].loc # 0 /\ header'[i].loc <= o
          /\ o < header'[i].loc + header'[i].size
      BY <1>2, <1>10, <3>1, <3>2, <3>3, <3>5, <3>6
    <3> QED
      BY <3>7
  <2>5. L + S <= o \/ L + delta <= o \/ o < L + delta
    BY <1>3, <2>1
  <2>6. L + S <= o \/ o < L + S
    BY <1>3, <2>1
  <2> QED
    BY <2>2, <2>3, <2>4, <2>5, <2>6
<1> QED
  BY <1>1, <1>11, <1>14, <1>15, <1>16
     DEF IInv, RecordsApart, LiveNonEmpty, DeadEmpty, ids, Live


\* Once the slots and the records have met, only the types matter.
LEMMA OverrunInv == TypeOK' /\ overrun' => IInv'
BY DEF IInv, HeaderClear, RecordsApart, NoSpaceLeaks, LiveNonEmpty, DeadEmpty

LEMMA DelResized ==
  ASSUME IInv, NEW id \in RecordID, Del(id)
  PROVE  TypeOK' /\ Resized(id, header[id].size)
<1> DEFINE size == header[id].size
           loc == header[id].loc
           slots == SlideSlots(loc, size)
<1>1. ~overrun /\ ~overrun' /\ num_records' = num_records
  BY DEF Del
<1>2. /\ end_free' = end_free + size
      /\ bytes' = SlideBytes(bytes, loc, size)
      /\ header' = [slots EXCEPT ![id] = [size |-> 0, loc |-> 0]]
  BY DEF Del
<1>3. /\ num_records \in Nat /\ end_free \in Nat /\ BLOCK_SZ \in Nat
      /\ U16 \in Nat /\ BLOCK_SZ < U16
      /\ 4 * (num_records + 1) <= end_free + 1
      /\ end_free < BLOCK_SZ
  BY <1>1, PageNumbers
<1>4. /\ size \in Nat /\ loc \in Nat
      /\ loc = 0 => size = 0
      /\ loc # 0 => end_free < loc /\ loc + size <= BLOCK_SZ /\ size > 0
  BY <1>1, OneSlot
<1>5. /\ slots \in [RecordID -> Slot]
      /\ \A i \in RecordID :
           /\ slots[i].size = header[i].size
           /\ slots[i].loc = IF Live(i) /\ header[i].loc <= loc
                             THEN (header[i].loc + size) % U16
                             ELSE header[i].loc
  <2>1. TypeOK
    BY DEF IInv
  <2>2. loc \in Int /\ size \in Int
    BY <1>4
  <2> QED
    BY <2>1, <2>2, SlideSlotsFacts
<1>6. RecordID' = RecordID /\ Slot = [size : 0 .. U16 - 1, loc : 0 .. U16 - 1]
  BY <1>1 DEF RecordID, Slot
<1> HIDE DEF size, loc, slots
<1>7. [size |-> 0, loc |-> 0] \in Slot
  BY <1>3, <1>6
<1>8. TypeOK'
  <2>1. header' \in [RecordID' -> Slot]
    BY <1>2, <1>5, <1>6, <1>7
  <2>2. end_free' \in 0 .. U16 - 1
    <3>1. end_free + size < U16
      BY <1>3, <1>4
    <3> QED
      BY <1>2, <1>3, <1>4, <3>1
  <2>3. bytes' \in [Offset -> Byte \union {NoByte}]
    <3>1. bytes \in [Offset -> Byte \union {NoByte}]
      BY DEF IInv, TypeOK
    <3>2. loc \in Int /\ size \in Int /\ loc <= BLOCK_SZ
      BY <1>3, <1>4
    <3> QED
      BY <1>2, <1>3, <3>1, <3>2, SlideBytesType
  <2>4. overrun' \in BOOLEAN
    <3>1. overrun' = overrun
      BY DEF Del
    <3> QED
      BY <3>1 DEF IInv, TypeOK
  <2> QED
    BY <1>1, <1>3, <2>1, <2>2, <2>3, <2>4 DEF TypeOK
<1>9. header'[id].size = 0 /\ header'[id].loc = 0
  BY <1>2, <1>5
<1>10. ASSUME NEW i \in RecordID \ {id}
       PROVE  /\ header'[i].size = header[i].size
              /\ header'[i].loc = IF header[i].loc # 0 /\ header[i].loc <= loc
                                  THEN header[i].loc + size
                                  ELSE header[i].loc
  <2>1. header'[i] = slots[i]
    BY <1>2, <1>5
  <2>2. CASE header[i].loc # 0 /\ header[i].loc <= loc
    <3>1. header[i].loc \in Nat
      BY <1>1, OneSlot
    <3>2. loc # 0
      BY <1>4, <2>2, <3>1
    <3>3. header[i].loc + size \in 0 .. U16 - 1
      BY <1>3, <1>4, <2>2, <3>1, <3>2
    <3>4. (header[i].loc + size) % U16 = header[i].loc + size
      BY <3>3, ModSame
    <3> QED
      BY <1>5, <2>1, <2>2, <3>4 DEF Live
  <2> QED
    BY <1>5, <2>1, <2>2 DEF Live
<1>11. 4 * (num_records + 1) <= end_free + size + 1
  BY <1>3, <1>4
<1>12. size \in Int /\ header'[id].size = size - size
  BY <1>4, <1>9
<1> QED
  BY <1>1, <1>2, <1>4, <1>8, <1>9, <1>10, <1>11, <1>12 DEF Resized, size, loc


LEMMA PutNoLongerResized ==
  ASSUME IInv, DataNonEmpty, NEW id \in ids, NEW d \in Data, PutNoLonger(id, d)
  PROVE  TypeOK' /\ Resized(id, header[id].size - Len(d))
<1> DEFINE size == header[id].size
           loc == header[id].loc
           spare == size - Len(d)
           slots == SlideSlots(loc + Len(d), spare)
           mem == Write(bytes, loc, d)
<1>1. ~overrun /\ ~overrun' /\ num_records' = num_records /\ spare >= 0
  BY DEF PutNoLonger
<1>2. /\ end_free' = end_free + spare
      /\ bytes' = SlideBytes(mem, loc + Len(d), spare)
      /\ header' = [slots EXCEPT ![id].size = Len(d)]
  BY DEF PutNoLonger
<1>3. /\ num_records \in Nat /\ end_free \in Nat /\ BLOCK_SZ \in Nat
      /\ U16 \in Nat /\ BLOCK_SZ < U16
      /\ 4 * (num_records + 1) <= end_free + 1
      /\ end_free < BLOCK_SZ
  BY <1>1, PageNumbers
<1>4. id \in RecordID /\ loc # 0
  BY DEF ids, Live
<1>5. /\ size \in Nat /\ loc \in Nat /\ end_free < loc
      /\ loc + size <= BLOCK_SZ /\ size > 0
  BY <1>1, <1>4, OneSlot
<1>6. Len(d) \in Nat /\ Len(d) > 0 /\ Len(d) \in 0 .. U16 - 1
  BY <1>3, DataFacts DEF DataNonEmpty
<1>6a. spare = size - Len(d)
  OBVIOUS
<1> HIDE DEF size, loc, spare
<1>7. spare \in Nat /\ spare < size /\ loc + Len(d) \in Int /\ loc + Len(d) <= BLOCK_SZ
  BY <1>1, <1>3, <1>5, <1>6, <1>6a
<1>8. /\ slots \in [RecordID -> Slot]
      /\ \A i \in RecordID :
           /\ slots[i].size = header[i].size
           /\ slots[i].loc = IF Live(i) /\ header[i].loc <= loc + Len(d)
                             THEN (header[i].loc + spare) % U16
                             ELSE header[i].loc
  <2>1. TypeOK
    BY DEF IInv
  <2>2. loc + Len(d) \in Int /\ spare \in Int
    BY <1>7
  <2> QED
    BY <2>1, <2>2, SlideSlotsFacts
<1>9. RecordID' = RecordID /\ Slot = [size : 0 .. U16 - 1, loc : 0 .. U16 - 1]
  BY <1>1 DEF RecordID, Slot
<1>10. mem \in [Offset -> Byte \union {NoByte}]
  BY <1>5, WriteType DEF IInv, TypeOK
<1> HIDE DEF slots, mem
<1>12. /\ header' \in [RecordID' -> Slot]
       /\ header'[id].size = Len(d)
       /\ header'[id].loc = slots[id].loc
       /\ \A i \in RecordID \ {id} : header'[i] = slots[i]
  <2>1. slots[id] \in Slot
    BY <1>4, <1>8
  <2>2. [slots[id] EXCEPT !.size = Len(d)] = [size |-> Len(d), loc |-> slots[id].loc]
    BY <1>9, <2>1
  <2>3. [size |-> Len(d), loc |-> slots[id].loc] \in Slot
    BY <1>6, <1>9, <2>1
  <2>4. header' = [slots EXCEPT ![id] = [size |-> Len(d), loc |-> slots[id].loc]]
    BY <1>2, <1>4, <1>8, <2>2
  <2> QED
    BY <1>4, <1>8, <1>9, <2>3, <2>4
<1>13. TypeOK'
  <2>1. end_free' \in 0 .. U16 - 1
    <3>1. end_free + spare < U16
      BY <1>3, <1>5, <1>7
    <3> QED
      BY <1>2, <1>3, <1>7, <3>1
  <2>2. bytes' \in [Offset -> Byte \union {NoByte}]
    <3>1. spare \in Int
      BY <1>3, <1>7
    <3> QED
      BY <1>2, <1>3, <1>7, <1>10, <3>1, SlideBytesType
  <2>3. overrun' \in BOOLEAN
    <3>1. overrun' = overrun
      BY DEF PutNoLonger
    <3> QED
      BY <3>1 DEF IInv, TypeOK
  <2> QED
    BY <1>1, <1>3, <1>12, <2>1, <2>2, <2>3 DEF TypeOK
<1>14. header'[id].loc = loc + spare
  <2>1. loc + spare \in 0 .. U16 - 1
    BY <1>3, <1>5, <1>7
  <2>2. (loc + spare) % U16 = loc + spare
    BY <2>1, ModSame
  <2>3. header[id].loc = loc /\ loc <= loc + Len(d)
    BY <1>5, <1>6 DEF loc
  <2> QED
    BY <1>4, <1>8, <1>12, <2>2, <2>3 DEF Live
<1>15. ASSUME NEW i \in RecordID \ {id}
       PROVE  /\ header'[i].size = header[i].size
              /\ header'[i].loc = IF header[i].loc # 0 /\ header[i].loc <= loc
                                  THEN header[i].loc + spare
                                  ELSE header[i].loc
  <2>1. header'[i].size = header[i].size
    BY <1>8, <1>12
  <2>2. header[i].loc \in Nat
    BY <1>1, OneSlot
  <2>3. CASE header[i].loc # 0 /\ header[i].loc <= loc
    <3>1. header[i].loc + spare \in 0 .. U16 - 1
      <4>1. header[i].loc + spare \in Nat /\ header[i].loc + spare < loc + size
        BY <1>5, <1>7, <2>2, <2>3
      <4> QED
        BY <1>3, <1>5, <4>1
    <3>2. (header[i].loc + spare) % U16 = header[i].loc + spare
      BY <3>1, ModSame
    <3>3. header[i].loc <= loc + Len(d)
      BY <1>5, <1>6, <2>2, <2>3
    <3> QED
      BY <1>8, <1>12, <2>1, <2>3, <3>2, <3>3 DEF Live
  <2>4. CASE header[i].loc # 0 /\ ~(header[i].loc <= loc)
    \* Record i starts at or after the end of record id: only a slide by 0
    \* can touch it.
    <3>1. loc + size <= header[i].loc
      <4>1. \/ header[i].loc + header[i].size <= loc
            \/ loc + size <= header[i].loc
        BY <1>1, <1>4, <2>4, TwoSlots DEF loc, size
      <4>2. header[i].size \in Nat
        BY <1>1, OneSlot
      <4> QED
        BY <1>5, <2>2, <2>4, <4>1, <4>2
    <3>2. CASE spare = 0
      <4>1. header[i].loc + spare = header[i].loc /\ header[i].loc \in 0 .. U16 - 1
        <5>1. header[i] \in Slot
          BY <1>1, OneSlot
        <5> QED
          BY <2>2, <3>2, <5>1, SlotFacts
      <4>2. (header[i].loc + spare) % U16 = header[i].loc
        BY <4>1, ModSame
      <4> QED
        BY <1>8, <1>12, <2>1, <2>4, <4>2
    <3>3. CASE spare # 0
      <4>1. ~(header[i].loc <= loc + Len(d))
        BY <1>5, <1>6, <1>7, <1>6a, <2>2, <3>1, <3>3
      <4> QED
        BY <1>8, <1>12, <2>1, <2>4, <4>1
    <3> QED
      BY <3>2, <3>3
  <2>5. CASE header[i].loc = 0
    BY <1>8, <1>12, <2>1, <2>5 DEF Live
  <2> QED
    BY <2>3, <2>4, <2>5
<1>16. /\ 4 * (num_records + 1) <= end_free + spare + 1
       /\ spare \in Int
       /\ header'[id].size = size - spare
       /\ header'[id].size # 0
  BY <1>3, <1>5, <1>6, <1>7, <1>6a, <1>12
<1> QED
  BY <1>1, <1>2, <1>4, <1>13, <1>14, <1>15, <1>16, <1>6a DEF Resized, size, loc


LEMMA PutLongerResized ==
  ASSUME IInv, DataNonEmpty, NEW id \in ids, NEW d \in Data, PutLonger(id, d)
  PROVE  TypeOK' /\ (~overrun' => Resized(id, header[id].size - Len(d)))
<1> DEFINE size == header[id].size
           loc == header[id].loc
           extra == Len(d) - size
           delta == -extra
           slots == SlideSlots(loc, delta)
           mem == SlideBytes(bytes, loc, delta)
<1>1. ~overrun /\ num_records' = num_records /\ extra > 0 /\ has_room(extra)
  BY DEF PutLonger
<1>2. /\ end_free' = (end_free - extra) % U16
      /\ bytes' = Write(mem, loc - extra, d)
      /\ header' = [slots EXCEPT ![id].size = Len(d)]
      /\ overrun' = (end_free - extra + 1 < 4 * (num_records + 1))
  BY DEF PutLonger, SlotsEnd
<1>3. /\ num_records \in Nat /\ end_free \in Nat /\ BLOCK_SZ \in Nat
      /\ U16 \in Nat /\ BLOCK_SZ < U16
      /\ 4 * (num_records + 1) <= end_free + 1
      /\ end_free < BLOCK_SZ
  BY <1>1, PageNumbers
<1>4. id \in RecordID /\ loc # 0
  BY DEF ids, Live
<1>5. /\ size \in Nat /\ loc \in Nat /\ end_free < loc
      /\ loc + size <= BLOCK_SZ /\ size > 0
  BY <1>1, <1>4, OneSlot
<1>6. Len(d) \in Nat /\ Len(d) > 0 /\ Len(d) <= BLOCK_SZ /\ Len(d) \in 0 .. U16 - 1
  BY <1>3, DataFacts DEF DataNonEmpty
<1>7. extra = Len(d) - size
  OBVIOUS
<1> HIDE DEF size, loc, extra
<1>8. extra \in Int /\ delta \in Int /\ size + extra = Len(d) /\ delta = -extra
  BY <1>5, <1>6, <1>7
<1> HIDE DEF delta
<1>9. /\ slots \in [RecordID -> Slot]
      /\ \A i \in RecordID :
           /\ slots[i].size = header[i].size
           /\ slots[i].loc = IF Live(i) /\ header[i].loc <= loc
                             THEN (header[i].loc + delta) % U16
                             ELSE header[i].loc
  <2>1. TypeOK
    BY DEF IInv
  <2>2. loc \in Int /\ delta \in Int
    BY <1>5, <1>8
  <2> QED
    BY <2>1, <2>2, SlideSlotsFacts
<1>10. RecordID' = RecordID /\ Slot = [size : 0 .. U16 - 1, loc : 0 .. U16 - 1]
  BY <1>1 DEF RecordID, Slot
<1> HIDE DEF slots
<1>11. /\ header' \in [RecordID' -> Slot]
       /\ header'[id].size = Len(d)
       /\ header'[id].loc = slots[id].loc
       /\ \A i \in RecordID \ {id} : header'[i] = slots[i]
  <2>1. slots[id] \in Slot
    BY <1>4, <1>9
  <2>2. [slots[id] EXCEPT !.size = Len(d)] = [size |-> Len(d), loc |-> slots[id].loc]
    BY <1>10, <2>1
  <2>3. [size |-> Len(d), loc |-> slots[id].loc] \in Slot
    BY <1>6, <1>10, <2>1
  <2>4. header' = [slots EXCEPT ![id] = [size |-> Len(d), loc |-> slots[id].loc]]
    BY <1>2, <1>4, <1>9, <2>2
  <2> QED
    BY <1>4, <1>9, <1>10, <2>3, <2>4
<1>12. TypeOK'
  <2>1. end_free - extra \in Int
    BY <1>3, <1>8
  <2>2. end_free' \in 0 .. U16 - 1
    BY <1>2, <2>1, ModType
  <2>3. mem \in [Offset -> Byte \union {NoByte}]
    <3>1. bytes \in [Offset -> Byte \union {NoByte}]
      BY DEF IInv, TypeOK
    <3>2. loc \in Int /\ loc <= BLOCK_SZ
      BY <1>3, <1>5
    <3> QED
      BY <1>3, <1>8, <3>1, <3>2, SlideBytesType
  <2>4. bytes' \in [Offset -> Byte \union {NoByte}]
    <3>1. loc - extra \in Int
      BY <1>5, <1>8
    <3> HIDE DEF mem
    <3> QED
      BY <1>2, <2>3, <3>1, WriteType
  <2>5. overrun' \in BOOLEAN
    BY <1>2
  <2> QED
    BY <1>1, <1>3, <1>11, <2>2, <2>4, <2>5 DEF TypeOK
<1>13. CASE overrun'
  BY <1>12, <1>13
<1>14. CASE ~overrun'
  <2>1. /\ 4 * (num_records + 1) <= end_free - extra + 1
        /\ end_free - extra >= 0
    <3>1. ~(end_free - extra + 1 < 4 * (num_records + 1))
      BY <1>2, <1>14
    <3> QED
      BY <1>3, <1>8, <3>1
  <2>2. end_free' = end_free + delta
    <3>1. end_free - extra \in 0 .. U16 - 1
      BY <1>1, <1>3, <1>8, <2>1
    <3> QED
      BY <1>2, <1>3, <1>8, <3>1, ModSame
  <2>3. ASSUME NEW i \in RecordID, header[i].loc # 0
        PROVE  (header[i].loc + delta) % U16 = header[i].loc + delta
    <3>1. /\ header[i].loc \in Nat /\ header[i].size \in Nat
          /\ end_free < header[i].loc /\ header[i].loc + header[i].size <= BLOCK_SZ
      BY <1>1, <2>3, OneSlot
    <3>2. header[i].loc + delta \in 0 .. U16 - 1
      <4>1. delta < 0 /\ end_free + delta >= 0
        BY <1>1, <1>3, <1>8, <2>1
      <4>2. 0 <= header[i].loc + delta /\ header[i].loc + delta <= BLOCK_SZ
        BY <1>3, <1>8, <3>1, <4>1
      <4> QED
        BY <1>3, <1>8, <3>1, <4>2
    <3> QED
      BY <3>2, ModSame
  <2>4. header'[id].loc = loc + delta
    <3>1. header[id].loc = loc /\ loc <= loc
      BY <1>5 DEF loc
    <3> QED
      BY <1>4, <1>9, <1>11, <2>3, <3>1 DEF Live
  <2>5. ASSUME NEW i \in RecordID \ {id}
        PROVE  /\ header'[i].size = header[i].size
               /\ header'[i].loc = IF header[i].loc # 0 /\ header[i].loc <= loc
                                   THEN header[i].loc + delta
                                   ELSE header[i].loc
    BY <1>9, <1>11, <2>3 DEF Live
  <2>6. /\ 4 * (num_records + 1) <= end_free + delta + 1
        /\ header'[id].size = size - delta
        /\ header'[id].size # 0
    BY <1>3, <1>5, <1>6, <1>8, <1>11, <2>1
  <2>7. delta = size - Len(d)
    BY <1>5, <1>6, <1>8
  <2> QED
    BY <1>1, <1>4, <1>12, <1>14, <2>2, <2>4, <2>5, <2>6, <2>7 DEF Resized, size, loc
<1> QED
  BY <1>13, <1>14


LEMMA StutterInv == IInv /\ UNCHANGED vars => IInv'
BY DEF IInv, TypeOK, HeaderClear, RecordsApart, NoSpaceLeaks, LiveNonEmpty, DeadEmpty, vars,
       RecordID, ids, Live, SlotsEnd

LEMMA NextInv ==
  ASSUME DataNonEmpty, IInv, [Next]_vars
  PROVE  IInv'
<1>1. ASSUME NEW d \in Data, Add(d) PROVE IInv'
  BY <1>1, AddInv
<1>2. ASSUME NEW id \in RecordID, NEW d \in Data
      PROVE  header[id].size \in Int /\ header[id].size - Len(d) \in Int
  <2>1. header[id] \in Slot
    BY DEF IInv, TypeOK
  <2> QED
    BY <2>1, SlotFacts, DataFacts, U16Type
<1>3. ASSUME NEW id \in ids, NEW d \in Data, PutLonger(id, d) PROVE IInv'
  BY <1>2, <1>3, PutLongerResized, ResizeInv, OverrunInv DEF ids
<1>4. ASSUME NEW id \in ids, NEW d \in Data, PutNoLonger(id, d) PROVE IInv'
  BY <1>2, <1>4, PutNoLongerResized, ResizeInv DEF ids
<1>5. ASSUME NEW id \in RecordID, Del(id) PROVE IInv'
  <2>1. header[id].size \in Int
    <3>1. header[id] \in Slot
      BY DEF IInv, TypeOK
    <3> QED
      BY <3>1, SlotFacts, U16Type
  <2> QED
    BY <1>5, <2>1, DelResized, ResizeInv
<1>6. CASE UNCHANGED vars
  BY <1>6, StutterInv
<1> QED
  BY <1>1, <1>3, <1>4, <1>5, <1>6 DEF Next

-----------------------------------------------------------------------------
(***************************************************************************)
(* What get returns: the bytes of every other record go where its slot     *)
(* goes, and the record that add or put writes holds what it was given.    *)
(***************************************************************************)

\* slide(), seen from the records: the bytes before the resized record move
\* with the slots of the records there, those after it stay.
BytesMoved(id, delta) ==
  /\ \A o \in Offset : end_free < o /\ o < header[id].loc => bytes'[o + delta] = bytes[o]
  /\ \A o \in Offset : header[id].loc + header[id].size <= o => bytes'[o] = bytes[o]

\* One byte of Write and of SlideBytes.
LEMMA WriteAt ==
  ASSUME NEW mem, NEW loc, NEW d, NEW o \in Offset
  PROVE  Write(mem, loc, d)[o] =
           IF loc <= o /\ o < loc + Len(d) THEN d[o - loc + 1] ELSE mem[o]
BY DEF Write

LEMMA SlideBytesAt ==
  ASSUME NEW mem, NEW start, NEW shift, NEW o \in Offset
  PROVE  SlideBytes(mem, start, shift)[o] =
           IF end_free + 1 + shift <= o /\ o < start + shift THEN mem[o - shift] ELSE mem[o]
BY DEF SlideBytes

LEMMA DelBytes ==
  ASSUME IInv, NEW id \in RecordID, Del(id)
  PROVE  BytesMoved(id, header[id].size)
<1> DEFINE L == header[id].loc
           S == header[id].size
<1>1. ~overrun /\ bytes' = SlideBytes(bytes, L, S)
  BY DEF Del
<1>2. /\ end_free \in Nat /\ BLOCK_SZ \in Nat /\ Offset = 0 .. BLOCK_SZ - 1
      /\ L \in Nat /\ S \in Nat
      /\ L = 0 => S = 0
      /\ L # 0 => L + S <= BLOCK_SZ
  BY <1>1, PageNumbers, OneSlot DEF Offset
<1>3. \A o \in Offset :
        bytes'[o] = IF end_free + 1 + S <= o /\ o < L + S THEN bytes[o - S] ELSE bytes[o]
  BY <1>1, SlideBytesAt
<1> HIDE DEF L, S
<1>4. ASSUME NEW o \in Offset, end_free < o, o < L
      PROVE  bytes'[o + S] = bytes[o]
  <2>1. o + S \in Offset /\ end_free + 1 + S <= o + S /\ o + S < L + S /\ (o + S) - S = o
    BY <1>2, <1>4
  <2> QED
    BY <1>3, <2>1
<1>5. ASSUME NEW o \in Offset, L + S <= o
      PROVE  bytes'[o] = bytes[o]
  BY <1>2, <1>3, <1>5
<1> QED
  BY <1>4, <1>5 DEF BytesMoved, L, S

LEMMA PutNoLongerBytes ==
  ASSUME IInv, DataNonEmpty, NEW id \in ids, NEW d \in Data, PutNoLonger(id, d)
  PROVE  /\ BytesMoved(id, header[id].size - Len(d))
         /\ \A k \in 1 .. Len(d) : bytes'[header'[id].loc + k - 1] = d[k]
         /\ header'[id].loc # 0
<1> DEFINE L == header[id].loc
           S == header[id].size
           n == Len(d)
           mem == Write(bytes, L, d)
<1>1. ~overrun /\ bytes' = SlideBytes(mem, L + n, S - n) /\ S - n >= 0
  BY DEF PutNoLonger
<1>2. /\ end_free \in Nat /\ BLOCK_SZ \in Nat /\ Offset = 0 .. BLOCK_SZ - 1
      /\ L \in Nat /\ S \in Nat /\ n \in Nat /\ n > 0 /\ n <= S
      /\ end_free < L /\ L + S <= BLOCK_SZ
  <2>1. id \in RecordID /\ header[id].loc # 0
    BY DEF ids, Live
  <2>2. n \in Nat /\ n > 0
    BY DataFacts DEF DataNonEmpty
  <2>3. end_free \in Nat /\ BLOCK_SZ \in Nat /\ Offset = 0 .. BLOCK_SZ - 1
    BY <1>1, PageNumbers DEF Offset
  <2>4. L \in Nat /\ S \in Nat /\ end_free < L /\ L + S <= BLOCK_SZ
    BY <1>1, <2>1, OneSlot
  <2> QED
    BY <1>1, <2>2, <2>3, <2>4
<1>3. \A o \in Offset :
        bytes'[o] = IF end_free + 1 + (S - n) <= o /\ o < (L + n) + (S - n)
                    THEN mem[o - (S - n)] ELSE mem[o]
  <2> HIDE DEF mem
  <2> QED
    BY <1>1, SlideBytesAt
<1>4. \A o \in Offset :
        mem[o] = IF L <= o /\ o < L + n THEN d[o - L + 1] ELSE bytes[o]
  BY WriteAt
<1>5. header'[id].loc = L + (S - n)
  <2>1. Resized(id, header[id].size - Len(d))
    BY PutNoLongerResized
  <2>2. header'[id].size = S - (S - n)
    BY <2>1 DEF Resized
  <2>3. header'[id].loc = IF header'[id].size = 0 THEN 0 ELSE L + (S - n)
    BY <2>1 DEF Resized
  <2> QED
    BY <1>2, <2>2, <2>3
<1> HIDE DEF L, S, n, mem
<1>6. ASSUME NEW o \in Offset, end_free < o, o < L
      PROVE  bytes'[o + (S - n)] = bytes[o]
  <2>1. /\ o + (S - n) \in Offset /\ end_free + 1 + (S - n) <= o + (S - n)
        /\ o + (S - n) < (L + n) + (S - n) /\ (o + (S - n)) - (S - n) = o
    BY <1>2, <1>6
  <2>2. bytes'[o + (S - n)] = mem[o]
    BY <1>3, <2>1
  <2> QED
    BY <1>2, <1>4, <1>6, <2>2
<1>7. ASSUME NEW o \in Offset, L + S <= o
      PROVE  bytes'[o] = bytes[o]
  <2>1. bytes'[o] = mem[o]
    BY <1>2, <1>3, <1>7
  <2> QED
    BY <1>2, <1>4, <1>7, <2>1
<1>8. ASSUME NEW k \in 1 .. n
      PROVE  bytes'[header'[id].loc + k - 1] = d[k]
  <2> DEFINE o == L + (S - n) + k - 1
             q == L + k - 1
  <2>1. /\ o \in Offset /\ end_free + 1 + (S - n) <= o
        /\ o < (L + n) + (S - n) /\ o - (S - n) = q
        /\ q \in Offset /\ L <= q /\ q < L + n /\ q - L + 1 = k
    BY <1>2
  <2> HIDE DEF o, q
  <2>2. bytes'[o] = mem[q] /\ mem[q] = d[k]
    BY <1>3, <1>4, <2>1
  <2> QED
    BY <1>5, <2>2 DEF o
<1>9. header'[id].loc # 0
  BY <1>2, <1>5
<1> QED
  BY <1>6, <1>7, <1>8, <1>9 DEF BytesMoved, L, S, n

LEMMA PutLongerBytes ==
  ASSUME IInv, DataNonEmpty, NEW id \in ids, NEW d \in Data, PutLonger(id, d), ~overrun'
  PROVE  /\ BytesMoved(id, header[id].size - Len(d))
         /\ \A k \in 1 .. Len(d) : bytes'[header'[id].loc + k - 1] = d[k]
         /\ header'[id].loc # 0
<1> DEFINE L == header[id].loc
           S == header[id].size
           n == Len(d)
           mem == SlideBytes(bytes, L, -(n - S))
<1>1. ~overrun /\ bytes' = Write(mem, L - (n - S), d) /\ n - S > 0
  BY DEF PutLonger
<1>0. Resized(id, S - n)
  BY PutLongerResized
<1>2. /\ end_free \in Nat /\ BLOCK_SZ \in Nat /\ Offset = 0 .. BLOCK_SZ - 1
      /\ L \in Nat /\ S \in Nat /\ n \in Nat /\ n > 0 /\ S < n
      /\ end_free < L /\ L + S <= BLOCK_SZ
      /\ 0 <= end_free + (S - n)
  <2>1. id \in RecordID /\ header[id].loc # 0
    BY DEF ids, Live
  <2>2. n \in Nat /\ n > 0
    BY DataFacts DEF DataNonEmpty
  <2>3. /\ end_free \in Nat /\ BLOCK_SZ \in Nat /\ Offset = 0 .. BLOCK_SZ - 1
        /\ num_records \in Nat
    BY <1>1, PageNumbers DEF Offset
  <2>4. L \in Nat /\ S \in Nat /\ end_free < L /\ L + S <= BLOCK_SZ
    BY <1>1, <2>1, OneSlot
  <2>5. 4 * (num_records + 1) <= end_free + (S - n) + 1
    BY <1>0 DEF Resized
  <2> QED
    BY <1>1, <2>2, <2>3, <2>4, <2>5
<1>3. \A o \in Offset :
        bytes'[o] = IF L - (n - S) <= o /\ o < L - (n - S) + n
                    THEN d[o - (L - (n - S)) + 1] ELSE mem[o]
  <2> HIDE DEF mem
  <2> QED
    BY <1>1, WriteAt
<1>4. \A o \in Offset :
        mem[o] = IF end_free + 1 + (-(n - S)) <= o /\ o < L + (-(n - S))
                 THEN bytes[o - (-(n - S))] ELSE bytes[o]
  BY SlideBytesAt
<1>5. header'[id].loc = L + (S - n)
  <2>1. header'[id].size = S - (S - n)
    BY <1>0 DEF Resized
  <2>2. header'[id].loc = IF header'[id].size = 0 THEN 0 ELSE L + (S - n)
    BY <1>0 DEF Resized
  <2> QED
    BY <1>2, <2>1, <2>2
<1> HIDE DEF L, S, n, mem
<1>6. ASSUME NEW o \in Offset, end_free < o, o < L
      PROVE  bytes'[o + (S - n)] = bytes[o]
  <2> DEFINE p == o + (S - n)
  <2>1. /\ p \in Offset /\ ~(L - (n - S) <= p)
        /\ end_free + 1 + (-(n - S)) <= p /\ p < L + (-(n - S))
        /\ p - (-(n - S)) = o
    BY <1>2, <1>6
  <2> HIDE DEF p
  <2>2. bytes'[p] = mem[p] /\ mem[p] = bytes[o]
    BY <1>3, <1>4, <2>1
  <2> QED
    BY <2>2 DEF p
<1>7. ASSUME NEW o \in Offset, L + S <= o
      PROVE  bytes'[o] = bytes[o]
  <2>1. ~(o < L - (n - S) + n) /\ ~(o < L + (-(n - S)))
    BY <1>2, <1>7
  <2> QED
    BY <1>3, <1>4, <2>1
<1>8. ASSUME NEW k \in 1 .. n
      PROVE  bytes'[header'[id].loc + k - 1] = d[k]
  <2> DEFINE o == L + (S - n) + k - 1
  <2>1. /\ o \in Offset /\ L - (n - S) <= o /\ o < L - (n - S) + n
        /\ o - (L - (n - S)) + 1 = k
    BY <1>2
  <2> HIDE DEF o
  <2>2. bytes'[o] = d[k]
    BY <1>3, <2>1
  <2> QED
    BY <1>5, <2>2 DEF o
<1>9. header'[id].loc # 0
  BY <1>2, <1>5
<1> QED
  BY <1>6, <1>7, <1>8, <1>9 DEF BytesMoved, L, S, n

\* What a record is for the abstract page.
Held(i) == IF Live(i) THEN Payload(i) ELSE NoRecord

\* Every record holds one of the byte strings that add and put were given.
Whole == ~overrun => \A i \in ids : Payload(i) \in Data

\* Resizing one record changes what no other record holds.
LEMMA OthersKeep ==
  ASSUME IInv, NEW id \in RecordID, NEW delta \in Int,
         Resized(id, delta), BytesMoved(id, delta), NEW i \in RecordID \ {id}
  PROVE  (Live(i)' <=> Live(i)) /\ Held(i)' = Held(i)
<1> DEFINE L == header[id].loc
           S == header[id].size
           l == header[i].loc
           s == header[i].size
<1>1. /\ ~overrun
      /\ end_free' = end_free + delta /\ L = 0 => delta = 0
      /\ 4 * (num_records + 1) <= end_free + delta + 1
      /\ header'[i].size = s
      /\ header'[i].loc = IF l # 0 /\ l <= L THEN l + delta ELSE l
  BY DEF Resized
<1>2. /\ end_free \in Nat /\ BLOCK_SZ \in Nat /\ num_records \in Nat
      /\ Offset = 0 .. BLOCK_SZ - 1
      /\ L \in Nat /\ S \in Nat /\ l \in Nat /\ s \in Nat
      /\ L = 0 => S = 0
      /\ L # 0 => end_free < L /\ L + S <= BLOCK_SZ /\ S > 0
      /\ l # 0 => end_free < l /\ l + s <= BLOCK_SZ /\ s > 0
  <2>1. end_free \in Nat /\ BLOCK_SZ \in Nat /\ num_records \in Nat
    BY <1>1, PageNumbers
  <2>2. /\ L \in Nat /\ S \in Nat /\ (L = 0 => S = 0)
        /\ L # 0 => end_free < L /\ L + S <= BLOCK_SZ /\ S > 0
    BY <1>1, OneSlot
  <2>3. /\ l \in Nat /\ s \in Nat
        /\ l # 0 => end_free < l /\ l + s <= BLOCK_SZ /\ s > 0
    BY <1>1, OneSlot
  <2> QED
    BY <2>1, <2>2, <2>3 DEF Offset
<1>3. l # 0 /\ L # 0 => l + s <= L \/ L + S <= l
  BY <1>1, TwoSlots
<1>4. /\ \A o \in Offset : end_free < o /\ o < L => bytes'[o + delta] = bytes[o]
      /\ \A o \in Offset : L + S <= o => bytes'[o] = bytes[o]
  BY DEF BytesMoved
<1> HIDE DEF L, S, l, s
<1>5. CASE l = 0
  BY <1>1, <1>5 DEF Live, Held, l
<1>6. CASE l # 0 /\ l <= L
  <2>1. l + s <= L /\ header'[i].loc = l + delta /\ header'[i].loc # 0
    BY <1>1, <1>2, <1>3, <1>6
  <2>2. ASSUME NEW k \in 1 .. s
        PROVE  bytes'[header'[i].loc + k - 1] = bytes[l + k - 1]
    <3> DEFINE o == l + k - 1
    <3>1. /\ o \in Offset /\ end_free < o /\ o < L
          /\ header'[i].loc + k - 1 = o + delta
      BY <1>2, <1>6, <2>1
    <3> HIDE DEF o
    <3>2. bytes'[o + delta] = bytes[o]
      BY <1>4, <3>1
    <3> QED
      BY <3>1, <3>2 DEF o
  <2>3. Payload(i)' = Payload(i)
    <3>1. Payload(i) = [k \in 1 .. s |-> bytes[l + k - 1]]
      BY DEF Payload, l, s
    <3>2. Payload(i)' = [k \in 1 .. s |-> bytes'[header'[i].loc + k - 1]]
      BY <1>1 DEF Payload
    <3> QED
      BY <2>2, <3>1, <3>2
  <2>4. Live(i) /\ Live(i)'
    BY <1>6, <2>1 DEF Live, l
  <2> QED
    BY <2>3, <2>4 DEF Held
<1>7. CASE l # 0 /\ ~(l <= L)
  <2>1. L + S <= l /\ header'[i].loc = l
    BY <1>1, <1>2, <1>3, <1>7
  <2>2. ASSUME NEW k \in 1 .. s
        PROVE  bytes'[l + k - 1] = bytes[l + k - 1]
    <3>1. l + k - 1 \in Offset /\ L + S <= l + k - 1
      BY <1>2, <1>7, <2>1
    <3> QED
      BY <1>4, <3>1
  <2>3. Payload(i)' = Payload(i)
    <3>1. Payload(i) = [k \in 1 .. s |-> bytes[l + k - 1]]
      BY DEF Payload, l, s
    <3>2. Payload(i)' = [k \in 1 .. s |-> bytes'[l + k - 1]]
      BY <1>1, <2>1 DEF Payload
    <3> QED
      BY <2>2, <3>1, <3>2
  <2>4. Live(i) /\ Live(i)'
    BY <1>7, <2>1 DEF Live, l
  <2> QED
    BY <2>3, <2>4 DEF Held
<1> QED
  BY <1>5, <1>6, <1>7

\* A record whose bytes are those of d holds d.
LEMMA HoldsData ==
  ASSUME NEW i, NEW d \in Data, header'[i].size = Len(d), header'[i].loc # 0,
         \A k \in 1 .. Len(d) : bytes'[header'[i].loc + k - 1] = d[k]
  PROVE  Live(i)' /\ Payload(i)' = d /\ Held(i)' = d
<1>1. d = [k \in 1 .. Len(d) |-> d[k]]
  <2>1. d \in Seq(Byte)
    BY DataFacts
  <2> QED
    BY <2>1
<1>2. Payload(i)' = [k \in 1 .. Len(d) |-> bytes'[header'[i].loc + k - 1]]
  BY DEF Payload
<1>3. Payload(i)' = d
  BY <1>1, <1>2
<1>4. Live(i)'
  BY DEF Live
<1> QED
  BY <1>3, <1>4 DEF Held

LEMMA AddHolds ==
  ASSUME IInv, DataNonEmpty, NEW d \in Data, Add(d), ~overrun'
  PROVE  /\ num_records \in Nat /\ num_records' = num_records + 1
         /\ \A i \in RecordID : (Live(i)' <=> Live(i)) /\ Held(i)' = Held(i)
         /\ RecordID' = RecordID \union {num_records + 1}
         /\ \A i \in RecordID' \ RecordID : Live(i)' /\ Held(i)' = d
<1> DEFINE n == Len(d)
           loc == (end_free - Len(d) + 1) % U16
<1>1. /\ ~overrun
      /\ num_records' = num_records + 1
      /\ bytes' = Write(bytes, loc, d)
      /\ ~(end_free - n + 1 < 4 * ((num_records + 1) + 1))
      /\ header' = [i \in 1 .. num_records + 1 |->
                      IF i \in RecordID THEN header[i] ELSE [size |-> n, loc |-> loc]]
  BY DEF Add, SlotsEnd
<1>2. /\ num_records \in Nat /\ end_free \in Nat /\ BLOCK_SZ \in Nat
      /\ U16 \in Nat /\ BLOCK_SZ < U16 /\ end_free < BLOCK_SZ
      /\ Offset = 0 .. BLOCK_SZ - 1 /\ n \in Nat /\ n > 0
  <2>1. /\ num_records \in Nat /\ end_free \in Nat /\ BLOCK_SZ \in Nat
        /\ U16 \in Nat /\ BLOCK_SZ < U16 /\ end_free < BLOCK_SZ
    BY <1>1, PageNumbers
  <2>2. n \in Nat /\ n > 0
    BY DataFacts DEF DataNonEmpty
  <2> QED
    BY <2>1, <2>2 DEF Offset
<1>3. loc = end_free - n + 1 /\ loc > 0
  <2>1. end_free - n + 1 \in 0 .. U16 - 1 /\ end_free - n + 1 > 0
    BY <1>1, <1>2
  <2> QED
    BY <2>1, ModSame
<1>4. /\ RecordID = 1 .. num_records /\ RecordID' = 1 .. num_records + 1
      /\ RecordID' = RecordID \union {num_records + 1}
  BY <1>1, <1>2 DEF RecordID
<1>5. ASSUME NEW new \in RecordID' \ RecordID
      PROVE  header'[new].size = n /\ header'[new].loc = loc
  BY <1>1, <1>4
<1>6. \A o \in Offset : bytes'[o] = IF loc <= o /\ o < loc + n THEN d[o - loc + 1] ELSE bytes[o]
  <2> HIDE DEF loc
  <2> QED
    BY <1>1, WriteAt
<1> HIDE DEF n, loc
<1>7. ASSUME NEW new \in RecordID' \ RecordID
      PROVE  Live(new)' /\ Held(new)' = d
  <2>1. ASSUME NEW k \in 1 .. n
        PROVE  bytes'[header'[new].loc + k - 1] = d[k]
    <3> DEFINE o == loc + k - 1
    <3>1. o \in Offset /\ loc <= o /\ o < loc + n /\ o - loc + 1 = k
      BY <1>2, <1>3
    <3> HIDE DEF o
    <3>2. bytes'[o] = d[k]
      BY <1>6, <3>1
    <3> QED
      BY <1>5, <3>2 DEF o
  <2>2. header'[new].size = Len(d) /\ header'[new].loc # 0
    BY <1>2, <1>3, <1>5 DEF n
  <2>3. \A k \in 1 .. Len(d) : bytes'[header'[new].loc + k - 1] = d[k]
    BY <2>1 DEF n
  <2> QED
    BY <2>2, <2>3, HoldsData
<1>8. ASSUME NEW i \in RecordID
      PROVE  (Live(i)' <=> Live(i)) /\ Held(i)' = Held(i)
  <2>1. header'[i] = header[i]
    BY <1>1, <1>2, <1>4
  <2>2. CASE header[i].loc = 0
    BY <2>1, <2>2 DEF Live, Held
  <2>3. CASE header[i].loc # 0
    <3>1. /\ header[i].loc \in Nat /\ header[i].size \in Nat
          /\ end_free < header[i].loc /\ header[i].loc + header[i].size <= BLOCK_SZ
      BY <1>1, <2>3, OneSlot
    <3>2. ASSUME NEW k \in 1 .. header[i].size
          PROVE  bytes'[header[i].loc + k - 1] = bytes[header[i].loc + k - 1]
      <4>1. /\ header[i].loc + k - 1 \in Offset
            /\ ~(header[i].loc + k - 1 < loc + n)
        BY <1>2, <1>3, <3>1
      <4> QED
        BY <1>6, <4>1
    <3>3. Payload(i)' = Payload(i)
      BY <2>1, <3>2 DEF Payload
    <3> QED
      BY <2>1, <3>3 DEF Live, Held
  <2> QED
    BY <2>2, <2>3
<1> QED
  BY <1>1, <1>2, <1>4, <1>7, <1>8

\* put: one record holds the new data, the others what they held.
LEMMA PutHolds ==
  ASSUME IInv, DataNonEmpty, NEW id \in ids, NEW d \in Data,
         PutLonger(id, d) \/ PutNoLonger(id, d), ~overrun'
  PROVE  /\ ~overrun /\ num_records' = num_records
         /\ Live(id)' /\ Held(id)' = d
         /\ \A i \in RecordID \ {id} : (Live(i)' <=> Live(i)) /\ Held(i)' = Held(i)
<1> DEFINE delta == header[id].size - Len(d)
<1>1. /\ Resized(id, delta) /\ BytesMoved(id, delta)
      /\ header'[id].loc # 0
      /\ \A k \in 1 .. Len(d) : bytes'[header'[id].loc + k - 1] = d[k]
  <2>1. CASE PutLonger(id, d)
    BY <2>1, PutLongerResized, PutLongerBytes
  <2>2. CASE PutNoLonger(id, d)
    BY <2>2, PutNoLongerResized, PutNoLongerBytes
  <2> QED
    BY <2>1, <2>2
<1>2. id \in RecordID
  BY DEF ids
<1>3. ~overrun /\ num_records' = num_records /\ header'[id].size = header[id].size - delta
  BY <1>1 DEF Resized
<1>4. header[id].size \in Nat /\ Len(d) \in Nat
  BY <1>2, <1>3, OneSlot, DataFacts
<1>5. delta \in Int /\ header'[id].size = Len(d)
  BY <1>3, <1>4
<1> HIDE DEF delta
<1>6. Live(id)' /\ Held(id)' = d
  BY <1>1, <1>5, HoldsData
<1>7. \A i \in RecordID \ {id} : (Live(i)' <=> Live(i)) /\ Held(i)' = Held(i)
  BY <1>1, <1>2, <1>5, OthersKeep
<1> QED
  BY <1>3, <1>6, <1>7

\* del: the record is gone, the others hold what they held.
LEMMA DelHolds ==
  ASSUME IInv, NEW id \in RecordID, Del(id)
  PROVE  /\ ~overrun /\ ~overrun' /\ num_records' = num_records
         /\ ~Live(id)' /\ Held(id)' = NoRecord
         /\ \A i \in RecordID \ {id} : (Live(i)' <=> Live(i)) /\ Held(i)' = Held(i)
<1> DEFINE delta == header[id].size
<1>1. Resized(id, delta) /\ BytesMoved(id, delta)
  BY DelResized, DelBytes
<1>2. /\ ~overrun /\ ~overrun' /\ num_records' = num_records
      /\ header'[id].size = header[id].size - delta
      /\ header'[id].size = 0 => header'[id].loc = 0
  BY <1>1 DEF Resized
<1>3. header[id].size \in Nat
  BY <1>2, OneSlot
<1>4. header'[id].loc = 0
  BY <1>2, <1>3
<1>5. ~Live(id)' /\ Held(id)' = NoRecord
  BY <1>4 DEF Live, Held
<1>6. delta \in Int
  BY <1>3
<1> HIDE DEF delta
<1>7. \A i \in RecordID \ {id} : (Live(i)' <=> Live(i)) /\ Held(i)' = Held(i)
  BY <1>1, <1>6, OthersKeep
<1> QED
  BY <1>2, <1>5, <1>7

LEMMA WholeStep ==
  ASSUME DataNonEmpty, IInv, Whole, [Next]_vars
  PROVE  Whole'
<1> SUFFICES ASSUME ~overrun', NEW i \in RecordID', Live(i)'
             PROVE  Held(i)' \in Data
  BY DEF Whole, ids, Held
<1>1. ASSUME NEW j \in RecordID, Live(j), ~overrun
      PROVE  Held(j) \in Data
  BY <1>1 DEF Whole, ids, Held
<1>2. ASSUME NEW d \in Data, Add(d) PROVE Held(i)' \in Data
  <2>1. ~overrun
    BY <1>2 DEF Add
  <2>2. CASE i \in RecordID
    BY <1>1, <1>2, <2>1, <2>2, AddHolds
  <2>3. CASE i \notin RecordID
    BY <1>2, <2>3, AddHolds
  <2> QED
    BY <2>2, <2>3
<1>3. ASSUME NEW id \in ids, NEW d \in Data, PutLonger(id, d) \/ PutNoLonger(id, d)
      PROVE  Held(i)' \in Data
  <2>1. ~overrun /\ RecordID' = RecordID
    BY <1>3, PutHolds DEF RecordID
  <2>2. CASE i = id
    BY <1>3, <2>2, PutHolds
  <2>3. CASE i # id
    BY <1>1, <1>3, <2>1, <2>3, PutHolds
  <2> QED
    BY <2>2, <2>3
<1>4. ASSUME NEW id \in RecordID, Del(id) PROVE Held(i)' \in Data
  <2>1. ~overrun /\ RecordID' = RecordID
    BY <1>4, DelHolds DEF RecordID
  <2>2. i # id
    BY <1>4, DelHolds
  <2> QED
    BY <1>1, <1>4, <2>1, <2>2, DelHolds
<1>5. CASE UNCHANGED vars
  BY <1>1, <1>5 DEF vars, Held, Live, Payload, RecordID
<1> QED
  BY <1>2, <1>3, <1>4, <1>5 DEF Next

\* The abstract page that a page stands for.
AbsLast == IF overrun THEN 0 ELSE num_records
AbsRecs == [i \in 1 .. AbsLast |-> Held(i)]

\* Every step of a page is a step of the abstract page: an overrunning one
\* loses the page, another one is the operation of its name.
LEMMA PageStep ==
  ASSUME DataNonEmpty, IInv, Whole, [Next]_vars
  PROVE  [Records!Next]_(Records!vars)
<1>1. num_records \in Nat /\ overrun \in BOOLEAN /\ overrun' \in BOOLEAN
  <2>1. IInv'
    BY NextInv
  <2> QED
    BY <2>1 DEF IInv, TypeOK
<1>2. ASSUME ~overrun, overrun' PROVE Records!Lose
  <2>1. AbsLast' = 0 /\ AbsRecs' = [i \in 1 .. 0 |-> NoRecord]
    BY <1>2 DEF AbsLast, AbsRecs
  <2> QED
    BY <1>1, <1>2, <2>1 DEF Records!Lose, AbsLast, AbsRecs, Held
<1>3. ASSUME NEW d \in Data, Add(d) PROVE Records!Next
  <2>1. ~overrun
    BY <1>3 DEF Add
  <2>2. CASE overrun'
    BY <1>2, <2>1, <2>2 DEF Records!Next
  <2>3. CASE ~overrun'
    <3>1. /\ num_records' = num_records + 1
          /\ RecordID = 1 .. num_records /\ RecordID' = RecordID \union {num_records + 1}
          /\ \A i \in RecordID : Held(i)' = Held(i)
          /\ \A i \in RecordID' \ RecordID : Held(i)' = d
      BY <1>3, <2>3, AddHolds DEF RecordID
    <3>2. AbsLast' = num_records + 1 /\ AbsLast = num_records
      BY <2>1, <2>3, <3>1 DEF AbsLast
    <3>3. ASSUME NEW i \in 1 .. num_records + 1
          PROVE  Held(i)' = IF i <= num_records THEN AbsRecs[i] ELSE d
      <4>1. CASE i <= num_records
        <5>1. i \in RecordID /\ i \in 1 .. AbsLast
          BY <1>1, <3>1, <3>2, <4>1
        <5> QED
          BY <3>1, <4>1, <5>1 DEF AbsRecs
      <4>2. CASE ~(i <= num_records)
        <5>1. i \in RecordID' \ RecordID
          BY <1>1, <3>1, <4>2
        <5> QED
          BY <3>1, <4>2, <5>1
      <4> QED
        BY <4>1, <4>2
    <3>4. AbsRecs' = [i \in 1 .. num_records + 1 |-> IF i <= num_records THEN AbsRecs[i] ELSE d]
      BY <3>2, <3>3 DEF AbsRecs
    <3>5. Records!Add(d)
      BY <1>1, <2>1, <2>3, <3>2, <3>4 DEF Records!Add, AbsRecs, AbsLast, Held
    <3> QED
      BY <3>5 DEF Records!Next
  <2> QED
    BY <2>2, <2>3
<1>4. ASSUME NEW id \in ids, NEW d \in Data, PutLonger(id, d) \/ PutNoLonger(id, d)
      PROVE  Records!Next
  <2>1. ~overrun
    BY <1>4 DEF PutLonger, PutNoLonger
  <2>2. CASE overrun'
    BY <1>2, <2>1, <2>2 DEF Records!Next
  <2>3. CASE ~overrun'
    <3>1. /\ num_records' = num_records /\ RecordID = 1 .. num_records
          /\ id \in RecordID /\ Live(id)
          /\ Held(id)' = d
          /\ \A i \in RecordID \ {id} : Held(i)' = Held(i)
      BY <1>4, <2>3, PutHolds DEF RecordID, ids
    <3>2. AbsLast' = num_records /\ AbsLast = num_records /\ id \in 1 .. num_records
      BY <2>1, <2>3, <3>1 DEF AbsLast
    <3>3. AbsRecs[id] # NoRecord
      <4>1. AbsRecs[id] = Payload(id)
        BY <3>1, <3>2 DEF AbsRecs, Held
      <4> QED
        BY <2>1, <4>1, PageAssumption DEF Whole, PageAssumption
    <3>4. AbsRecs' = [AbsRecs EXCEPT ![id] = d]
      BY <3>1, <3>2 DEF AbsRecs
    <3>5. Records!Put(id, d)
      BY <1>1, <2>1, <2>3, <3>2, <3>3, <3>4 DEF Records!Put, AbsRecs, AbsLast, Held
    <3> QED
      BY <2>1, <3>2, <3>5 DEF Records!Next, AbsLast
  <2> QED
    BY <2>2, <2>3
<1>5. ASSUME NEW id \in RecordID, Del(id) PROVE Records!Next
  <2>1. /\ ~overrun /\ ~overrun' /\ num_records' = num_records
        /\ RecordID = 1 .. num_records
        /\ Held(id)' = NoRecord
        /\ \A i \in RecordID \ {id} : Held(i)' = Held(i)
    BY <1>5, DelHolds DEF RecordID
  <2>2. AbsLast' = num_records /\ AbsLast = num_records /\ id \in 1 .. num_records
    BY <2>1 DEF AbsLast
  <2>3. AbsRecs' = [AbsRecs EXCEPT ![id] = NoRecord]
    BY <2>1, <2>2 DEF AbsRecs
  <2>4. Records!Del(id)
    BY <1>1, <2>1, <2>2, <2>3 DEF Records!Del, AbsRecs, AbsLast, Held
  <2> QED
    BY <2>1, <2>2, <2>4 DEF Records!Next, AbsLast
<1>6. CASE UNCHANGED vars
  BY <1>6 DEF vars, Records!vars, Live, Payload
<1> QED
  BY <1>3, <1>4, <1>5, <1>6 DEF Next

-----------------------------------------------------------------------------
(***************************************************************************)
(* The theorems.                                                           *)
(***************************************************************************)

\* The inductive invariant holds of every page whose records are not empty.
THEOREM InductiveInvariant ==
  ASSUME DataNonEmpty
  PROVE  Spec => []IInv
<1>1. Init => IInv
  BY InitInv
<1>2. IInv /\ [Next]_vars => IInv'
  BY NextInv
<1> QED
  BY <1>1, <1>2, PTL DEF Spec

\* Type correctness: header, end_free and the block's bytes keep their types
\* through every add, put, del and slide, an overrunning one included.
THEOREM TypeCorrect ==
  ASSUME DataNonEmpty
  PROVE  Spec => []TypeOK
<1>1. IInv => TypeOK
  BY DEF IInv
<1> QED
  BY <1>1, InductiveInvariant, PTL

\* The slots of all ids handed out stay below the free space of the block.
THEOREM SlotsStayClear ==
  ASSUME DataNonEmpty
  PROVE  Spec => []HeaderClear
<1>1. IInv => HeaderClear
  BY DEF IInv
<1> QED
  BY <1>1, InductiveInvariant, PTL

\* No two records share a byte and none reaches into the free space, whatever
\* sequence of add, put and del moved them about.
THEOREM RecordsStayApart ==
  ASSUME DataNonEmpty
  PROVE  Spec => []RecordsApart
<1>1. IInv => RecordsApart
  BY DEF IInv
<1> QED
  BY <1>1, InductiveInvariant, PTL


LEMMA DeletedStep ==
  ASSUME IInv, [Next]_vars, NEW id \in RecordID, ~Live(id), ~overrun'
  PROVE  ~Live(id)'
<1>1. ASSUME NEW d \in Data, Add(d) PROVE ~Live(id)'
  <2>1. header'[id] = header[id]
    <3>1. num_records \in Nat
      BY DEF IInv, TypeOK
    <3>2. id \in 1 .. num_records + 1
      BY <3>1 DEF RecordID
    <3> QED
      BY <1>1, <3>2 DEF Add
  <2> QED
    BY <2>1 DEF Live
\* slide() passes over the slot of a deleted record.
<1>2. ASSUME NEW start \in Int, NEW shift \in Int
      PROVE  /\ SlideSlots(start, shift) \in [RecordID -> Slot]
             /\ SlideSlots(start, shift)[id].loc = 0
  BY <1>2, SlideSlotsFacts DEF IInv, Live
<1>3. ASSUME NEW i \in RecordID
      PROVE  header[i].size \in Int /\ header[i].loc \in Int
  <2>1. header[i] \in Slot
    BY DEF IInv, TypeOK
  <2> QED
    BY <2>1, SlotFacts, U16Type
<1>4. ASSUME NEW i \in ids, NEW d \in Data, PutLonger(i, d) PROVE ~Live(id)'
  <2> DEFINE shift == -(Len(d) - header[i].size)
             slots == SlideSlots(header[i].loc, shift)
  <2>1. shift \in Int
    BY <1>3, DataFacts DEF ids
  <2>2. slots \in [RecordID -> Slot] /\ slots[id].loc = 0
    BY <1>2, <1>3, <2>1 DEF ids
  <2>3. header' = [slots EXCEPT ![i].size = Len(d)] /\ id # i
    BY <1>4 DEF PutLonger, ids
  <2> HIDE DEF slots
  <2> QED
    BY <2>2, <2>3 DEF Live
<1>5. ASSUME NEW i \in ids, NEW d \in Data, PutNoLonger(i, d) PROVE ~Live(id)'
  <2> DEFINE shift == header[i].size - Len(d)
             slots == SlideSlots(header[i].loc + Len(d), shift)
  <2>1. shift \in Int /\ header[i].loc + Len(d) \in Int
    BY <1>3, DataFacts DEF ids
  <2>2. slots \in [RecordID -> Slot] /\ slots[id].loc = 0
    BY <1>2, <2>1
  <2>3. header' = [slots EXCEPT ![i].size = Len(d)] /\ id # i
    BY <1>5 DEF PutNoLonger, ids
  <2> HIDE DEF slots
  <2> QED
    BY <2>2, <2>3 DEF Live
<1>6. ASSUME NEW i \in RecordID, Del(i) PROVE ~Live(id)'
  <2> DEFINE slots == SlideSlots(header[i].loc, header[i].size)
  <2>1. slots \in [RecordID -> Slot] /\ slots[id].loc = 0
    BY <1>2, <1>3
  <2>2. header' = [slots EXCEPT ![i] = [size |-> 0, loc |-> 0]]
    BY <1>6 DEF Del
  <2> HIDE DEF slots
  <2> QED
    BY <2>1, <2>2 DEF Live
<1>7. CASE UNCHANGED vars
  BY <1>7 DEF vars, Live
<1> QED
  BY <1>1, <1>4, <1>5, <1>6, <1>7 DEF Next

\* A record that del removed never comes back: no slide, add or put gives its
\* slot an offset again.
THEOREM DeletedStaysDeleted ==
  ASSUME DataNonEmpty
  PROVE  Spec => DeletedForGood
<1>1. IInv /\ [Next]_vars
        => [\A id \in RecordID : ~Live(id) /\ ~overrun' => ~Live(id)']_vars
  BY DeletedStep
<1> QED
  BY <1>1, InductiveInvariant, PTL DEF Spec, DeletedForGood

LEMMA RoomStep ==
  ASSUME DataNonEmpty, IInv, [Next]_vars, overrun', ~overrun
  PROVE  end_free < (num_records + 2) * 4
<1> SUFFICES ASSUME ~(end_free < (num_records + 2) * 4) PROVE FALSE
  OBVIOUS
<1>1. /\ num_records \in Nat /\ end_free \in Nat /\ U16 \in Nat /\ end_free < U16
  BY PageNumbers
<1>2. (num_records + 2) * 4 <= end_free
  BY <1>1
\* The subtraction in has_room does not wrap.
<1>3. ASSUME NEW size \in Int, has_room(size)
      PROVE  size <= end_free - (num_records + 2) * 4
  <2>1. end_free - (num_records + 2) * 4 \in 0 .. U16 - 1
    BY <1>1, <1>2
  <2> QED
    BY <1>3, <2>1, ModSame DEF has_room
<1>4. ASSUME NEW d \in Data, Add(d) PROVE FALSE
  <2>1. has_room(Len(d)) /\ end_free - Len(d) + 1 < 4 * ((num_records + 1) + 1)
    BY <1>4 DEF Add, SlotsEnd
  <2>2. Len(d) \in Int
    BY DataFacts
  <2>3. Len(d) <= end_free - (num_records + 2) * 4
    BY <1>3, <2>1, <2>2
  <2> QED
    BY <1>1, <2>1, <2>2, <2>3
<1>5. ASSUME NEW id \in ids, NEW d \in Data, PutLonger(id, d) PROVE FALSE
  <2> DEFINE extra == Len(d) - header[id].size
  <2>1. has_room(extra) /\ end_free - extra + 1 < 4 * (num_records + 1)
    BY <1>5 DEF PutLonger, SlotsEnd
  <2>2. extra \in Int
    <3>1. header[id].size \in Nat
      BY OneSlot DEF ids
    <3> QED
      BY <3>1, DataFacts
  <2> HIDE DEF extra
  <2>3. extra <= end_free - (num_records + 2) * 4
    BY <1>3, <2>1, <2>2
  <2> QED
    BY <1>1, <2>1, <2>2, <2>3
<1>6. ASSUME NEW id \in ids, NEW d \in Data, PutNoLonger(id, d) PROVE FALSE
  BY <1>6 DEF PutNoLonger
<1>7. ASSUME NEW id \in RecordID, Del(id) PROVE FALSE
  BY <1>7 DEF Del
<1>8. CASE UNCHANGED vars
  BY <1>8 DEF vars
<1> QED
  BY <1>4, <1>5, <1>6, <1>7, <1>8 DEF Next

\* has_room keeps the records out of the slots on every page that still has
\* space for one more slot: its only wrong answers are those of a page where
\* its u_int16_t subtraction wraps around.
THEOREM RoomIsRealUnlessFull ==
  ASSUME DataNonEmpty
  PROVE  Spec => OverrunOnlyWhenFull
<1>1. IInv /\ [Next]_vars
        => [overrun' => overrun \/ end_free < (num_records + 2) * 4]_vars
  BY RoomStep
<1> QED
  BY <1>1, InductiveInvariant, PTL DEF Spec, OverrunOnlyWhenFull

\* What del and a shrinking put give up is free again: every byte beyond the
\* free space is some record's.
THEOREM NothingLeaks ==
  ASSUME DataNonEmpty
  PROVE  Spec => []NoSpaceLeaks
<1>1. IInv => NoSpaceLeaks
  BY DEF IInv
<1> QED
  BY <1>1, InductiveInvariant, PTL

\* The page is the abstract block of records: until it overruns, get returns
\* what add or put last stored under an id, however often the records of other
\* ids were put, deleted and slid about.
THEOREM PageImplementsRecords ==
  ASSUME DataNonEmpty
  PROVE  Spec => ImplementsRecordPage
<1>1. Init => Whole /\ Records!Init
  <2> SUFFICES ASSUME Init PROVE Whole /\ Records!Init
    OBVIOUS
  <2>1. num_records = 0 /\ overrun = FALSE /\ ids = {}
    BY DEF Init, ids, RecordID
  <2> QED
    BY <2>1 DEF Whole, Records!Init
<1>2. IInv /\ Whole /\ [Next]_vars => Whole' /\ [Records!Next]_(Records!vars)
  BY WholeStep, PageStep
<1>3. Spec => []IInv
  BY InductiveInvariant
<1> QED
  BY <1>1, <1>2, <1>3, PTL DEF Spec, ImplementsRecordPage, Records!Spec

=============================================================================
