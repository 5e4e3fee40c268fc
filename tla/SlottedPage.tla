----------------------------- MODULE SlottedPage -----------------------------
(***************************************************************************)
(* One slotted page (class SlottedPage, src/src/heap_storage.cpp).         *)
(*                                                                         *)
(* A block of BLOCK_SZ bytes starts with one 4-byte slot for the block and *)
(* one for each record id handed out, and holds the records' bytes at its  *)
(* end, packed towards BLOCK_SZ.  end_free is the last free offset between *)
(* the two.  A slot holds the size and the offset of its record; offset 0  *)
(* marks a deleted record.                                                 *)
(*                                                                         *)
(* The slots are a sequence of their own here and the records' bytes a     *)
(* function on offsets.  Separate memory is exact as long as the two areas *)
(* of the block do not meet; the step that makes them meet sets overrun,   *)
(* and the page is not followed further.                                   *)
(***************************************************************************)
EXTENDS Integers, Sequences

CONSTANTS
  BLOCK_SZ,    \* size of the block in bytes (4096 in the code)
  Byte,        \* the values a byte of a record may have
  Data,        \* the byte strings given to add and put
  NoByte,      \* the content of a byte never written
  NoRecord,    \* what a deleted record holds, for the abstract specification
  MAX_RECORDS  \* bound of the model: ids handed out

U16 == 256 * 256   \* offsets, sizes and counts are u_int16_t

ASSUME PageAssumption ==
  /\ BLOCK_SZ \in 4 .. U16 - 1
  /\ MAX_RECORDS \in Nat
  /\ Data \subseteq Seq(Byte)
  /\ \A d \in Data : Len(d) <= BLOCK_SZ
  /\ NoRecord \notin Data

VARIABLES
  num_records,  \* ids handed out; deleted records keep their id
  header,       \* header[id] = [size, loc]: the slot of record id
  end_free,     \* the last free offset before the records
  bytes,        \* the block's memory, outside the slots
  overrun       \* TRUE once the slots and the records have met

vars == <<num_records, header, end_free, bytes, overrun>>

Offset == 0 .. BLOCK_SZ - 1
Slot == [size : 0 .. U16 - 1, loc : 0 .. U16 - 1]

RecordID == 1 .. num_records
Live(id) == header[id].loc # 0

\* ids(): the ids of the records that have not been deleted.
ids == {id \in RecordID : Live(id)}

\* The bytes the slots take: one slot for the block, one per record id.
SlotsEnd(records) == 4 * (records + 1)

\* Mutant: forgets the slots of the block and of the new record.
has_room_NoSlots(size) == size <= (end_free - num_records * 4) % U16

\* Can the page still take size bytes and one more slot?  The subtraction is
\* made in u_int16_t.
has_room(size) == size <= (end_free - (num_records + 2) * 4) % U16

Write(mem, loc, d) ==
  [o \in Offset |-> IF loc <= o /\ o < loc + Len(d) THEN d[o - loc + 1] ELSE mem[o]]

-----------------------------------------------------------------------------
(***************************************************************************)
(* slide(start, end), with shift = end - start: the records that start at  *)
(* or before start move by shift, bytes and slots.  A positive shift       *)
(* closes a gap, a negative one opens it.                                  *)
(***************************************************************************)
\* Mutant: moves one byte too few.
SlideBytes_OneLess(mem, start, shift) ==
  [o \in Offset |->
     IF end_free + 2 + shift <= o /\ o < start + shift THEN mem[o - shift] ELSE mem[o]]

SlideBytes(mem, start, shift) ==
  [o \in Offset |->
     IF end_free + 1 + shift <= o /\ o < start + shift THEN mem[o - shift] ELSE mem[o]]

\* Mutants: not the record at start itself; the deleted records too.
SlideSlots_Before(start, shift) ==
  [id \in RecordID |->
     IF Live(id) /\ header[id].loc < start
     THEN [header[id] EXCEPT !.loc = (@ + shift) % U16]
     ELSE header[id]]

SlideSlots_All(start, shift) ==
  [id \in RecordID |->
     IF header[id].loc <= start
     THEN [header[id] EXCEPT !.loc = (@ + shift) % U16]
     ELSE header[id]]

SlideSlots(start, shift) ==
  [id \in RecordID |->
     IF Live(id) /\ header[id].loc <= start
     THEN [header[id] EXCEPT !.loc = (@ + shift) % U16]
     ELSE header[id]]

-----------------------------------------------------------------------------
Init ==
  /\ num_records = 0
  /\ header = [id \in 1 .. 0 |-> [size |-> 0, loc |-> 0]]
  /\ end_free = BLOCK_SZ - 1
  /\ bytes = [o \in Offset |-> NoByte]
  /\ overrun = FALSE

\* Mutant: the record count is not incremented.
Add_SameCount(d) ==
  LET loc == (end_free - Len(d) + 1) % U16
  IN /\ ~overrun
     /\ num_records < MAX_RECORDS
     /\ has_room(Len(d))
     /\ end_free' = (end_free - Len(d)) % U16
     /\ header' = [id \in 1 .. num_records + 1 |->
                     IF id \in RecordID THEN header[id]
                     ELSE [size |-> Len(d), loc |-> loc]]
     /\ bytes' = Write(bytes, loc, d)
     /\ overrun' = (end_free - Len(d) + 1 < SlotsEnd(num_records + 1))
     /\ UNCHANGED num_records

\* add(data): a new id, its bytes just below the others.
Add(d) ==
  LET loc == (end_free - Len(d) + 1) % U16
  IN /\ ~overrun
     /\ num_records < MAX_RECORDS
     /\ has_room(Len(d))
     /\ end_free' = (end_free - Len(d)) % U16
     /\ num_records' = num_records + 1
     /\ header' = [id \in 1 .. num_records + 1 |->
                     IF id \in RecordID THEN header[id]
                     ELSE [size |-> Len(d), loc |-> loc]]
     /\ bytes' = Write(bytes, loc, d)
     /\ overrun' = (end_free - Len(d) + 1 < SlotsEnd(num_records + 1))

\* put(record_id, data) with data longer than the record: open a gap of extra
\* bytes in front of the record, then write the data over gap and record.
PutLonger(id, d) ==
  LET size == header[id].size
      loc == header[id].loc
      extra == Len(d) - size
      slots == SlideSlots(loc, -extra)
  IN /\ ~overrun
     /\ extra > 0
     /\ has_room(extra)
     /\ bytes' = Write(SlideBytes(bytes, loc, -extra), loc - extra, d)
     /\ header' = [slots EXCEPT ![id].size = Len(d)]
     /\ end_free' = (end_free - extra) % U16
     /\ overrun' = (end_free - extra + 1 < SlotsEnd(num_records))
     /\ UNCHANGED num_records

\* Mutant: slide() does not give the bytes back.
PutNoLonger_KeepsEnd(id, d) ==
  LET size == header[id].size
      loc == header[id].loc
      spare == size - Len(d)
      slots == SlideSlots(loc + Len(d), spare)
  IN /\ ~overrun
     /\ spare >= 0
     /\ bytes' = SlideBytes(Write(bytes, loc, d), loc + Len(d), spare)
     /\ header' = [slots EXCEPT ![id].size = Len(d)]
     /\ UNCHANGED <<num_records, end_free, overrun>>

\* put(record_id, data) with data no longer than the record: write the data,
\* then close the gap after it.
PutNoLonger(id, d) ==
  LET size == header[id].size
      loc == header[id].loc
      spare == size - Len(d)
      slots == SlideSlots(loc + Len(d), spare)
  IN /\ ~overrun
     /\ spare >= 0
     /\ bytes' = SlideBytes(Write(bytes, loc, d), loc + Len(d), spare)
     /\ header' = [slots EXCEPT ![id].size = Len(d)]
     /\ end_free' = end_free + spare
     /\ UNCHANGED <<num_records, overrun>>

\* Mutant: the slot of the deleted record keeps its size.
Del_KeepsSize(id) ==
  LET size == header[id].size
      loc == header[id].loc
  IN /\ ~overrun
     /\ bytes' = SlideBytes(bytes, loc, size)
     /\ header' = [SlideSlots(loc, size) EXCEPT ![id] = [size |-> size, loc |-> 0]]
     /\ end_free' = end_free + size
     /\ UNCHANGED <<num_records, overrun>>

\* del(record_id): close the record's space and mark its slot.  For an id
\* already deleted nothing changes.
Del(id) ==
  LET size == header[id].size
      loc == header[id].loc
  IN /\ ~overrun
     /\ bytes' = SlideBytes(bytes, loc, size)
     /\ header' = [SlideSlots(loc, size) EXCEPT ![id] = [size |-> 0, loc |-> 0]]
     /\ end_free' = end_free + size
     /\ UNCHANGED <<num_records, overrun>>

\* put is called for records that exist; del takes any id handed out.
Next ==
  \/ \E d \in Data : Add(d)
  \/ \E id \in ids, d \in Data : PutLonger(id, d)
  \/ \E id \in ids, d \in Data : PutNoLonger(id, d)
  \/ \E id \in RecordID : Del(id)

Spec == Init /\ [][Next]_vars

-----------------------------------------------------------------------------
(***************************************************************************)
(* Correctness properties.                                                 *)
(***************************************************************************)
TypeOK ==
  /\ num_records \in Nat
  /\ header \in [RecordID -> Slot]
  /\ end_free \in 0 .. U16 - 1
  /\ bytes \in [Offset -> Byte \union {NoByte}]
  /\ overrun \in BOOLEAN

\* Until an overrun, the slots of all ids handed out lie below the free space.
HeaderClear ==
  ~overrun => SlotsEnd(num_records) <= end_free + 1 /\ end_free < BLOCK_SZ

\* Until an overrun, every record lies between the free space and the end of
\* the block, and no two records share a byte: the slots that slide() and put
\* rewrite one after the other always agree with where the bytes went.
RecordsApart ==
  ~overrun =>
    /\ \A id \in ids : /\ end_free < header[id].loc
                       /\ header[id].loc + header[id].size <= BLOCK_SZ
    /\ \A i, j \in ids :
         i # j => \/ header[i].loc + header[i].size <= header[j].loc
                  \/ header[j].loc + header[j].size <= header[i].loc

\* Until an overrun, every byte beyond the free space belongs to some record:
\* what del and a shrinking put give up can be used again.
NoSpaceLeaks ==
  ~overrun => \A o \in end_free + 1 .. BLOCK_SZ - 1 :
                \E id \in ids : /\ header[id].loc <= o
                                /\ o < header[id].loc + header[id].size

\* A deleted id stays deleted: slide() passes over it although its slot is
\* still in the block, and add hands out a new id instead.
DeletedForGood ==
  [][\A id \in RecordID : ~Live(id) /\ ~overrun' => ~Live(id)']_vars

\* The bytes get(id) returns.
Payload(id) == [k \in 1 .. header[id].size |-> bytes[header[id].loc + k - 1]]

\* The page implements RecordPage: get returns what add or put last stored,
\* although every other record's put and del moves it about.
Records == INSTANCE RecordPage WITH
  last_id <- IF overrun THEN 0 ELSE num_records,
  recs <- [id \in 1 .. (IF overrun THEN 0 ELSE num_records) |->
             IF Live(id) THEN Payload(id) ELSE NoRecord],
  lost <- overrun

ImplementsRecordPage == Records!Spec

\* has_room errs only on a page whose free space is already less than the slot
\* it would have to take: before that, data it accepts never reaches the slots.
OverrunOnlyWhenFull ==
  [][overrun' => overrun \/ end_free < (num_records + 2) * 4]_vars

\* "Check if SlottedPage has room": data accepted by add or put never reaches
\* the slots.
NeverOverrun == ~overrun

=============================================================================
