------------------------------- MODULE BTTable -------------------------------
(***************************************************************************)
(* A table of rows (class BTTable, src/src/heap_storage.cpp) down to the   *)
(* bytes of its rows in a SlottedPage.                                     *)
(*                                                                         *)
(* append only ever adds to the last block and never makes another, so the *)
(* table is one block here; tables of several blocks are in SQLExec.  Each *)
(* method is one step: it reads the block, changes a copy and puts it      *)
(* back, in one process.  A call that throws, or ends the process, leaves  *)
(* the stored block as it was, and is a stuttering step.                   *)
(***************************************************************************)
EXTENDS Integers, Sequences

CONSTANTS
  ColumnLists,  \* the tables' column lists: sequences of [name, data_type]
  Inputs,       \* the rows given to insert: functions from names to values
  Wheres,       \* the conditions given to select
  NoRow,        \* what a deleted row reads as
  BLOCK_SZ, NoByte, MAX_RECORDS  \* see SlottedPage

Column == [name : STRING, data_type : {"INT", "TEXT", "BOOLEAN"}]
Byte == 0 .. 255

\* What the bytes of a number weigh.
Weight == <<1, 256, 256 * 256, 256 * 256 * 256>>

\* int32_t
I32 == (-127 * Weight[4]) - Weight[4] .. 127 * Weight[4] + (Weight[4] - 1)
Value == [data_type : {"INT", "TEXT"}, n : I32, s : Seq(Byte)]

\* Column names differ, as in every table that gets rows (the schema tables and the
\* table of test_heap_storage); no statement stores rows in another table.
ASSUME TableAssumption ==
  /\ BLOCK_SZ \in 4 .. Weight[3] - 1 /\ MAX_RECORDS \in Nat
  /\ \A list \in ColumnLists :
       /\ list \in Seq(Column)
       /\ \A i, j \in DOMAIN list : list[i].name = list[j].name => i = j
  /\ \A row \in Inputs \union Wheres : \A c \in DOMAIN row : row[c] \in Value

VARIABLES
  num_records, header, end_free, bytes, overrun,  \* the table's block
  columns,    \* column_names and column_attributes
  overflow,   \* TRUE once marshal has written past its buffer
  given       \* given[id]: the row given to the insert of record id (history)

block == <<num_records, header, end_free, bytes, overrun>>
vars == <<block, columns, overflow, given>>

\* Data only bounds the next-state relation of SlottedPage, not used here.
Page == INSTANCE SlottedPage WITH Data <- {}, NoRecord <- NoRow

-----------------------------------------------------------------------------
(***************************************************************************)
(* Values and their bytes.                                                 *)
(***************************************************************************)
IntValue(n) == [data_type |-> "INT", n |-> n, s |-> <<>>]
TextValue(s) == [data_type |-> "TEXT", n |-> 0, s |-> s]

\* Value::operator==
ValueEq(v, w) ==
  /\ v.data_type = w.data_type
  /\ IF v.data_type = "INT" THEN v.n = w.n ELSE v.s = w.s

NamesOf(list) == {list[i].name : i \in DOMAIN list}
Names == NamesOf(columns)

\* Mutant: the bytes are not cut out of the number.
LittleEndian_NoMask(n, size) == [k \in 1 .. size |-> n \div Weight[k]]

\* Little-endian, in two's complement.
LittleEndian(n, size) == [k \in 1 .. size |-> (n \div Weight[k]) % 256]

\* One column of marshal: by the column's type, whatever the value's is.
FieldBytes(data_type, v) ==
  IF data_type = "INT" THEN LittleEndian(v.n, 4)
  ELSE LittleEndian(Len(v.s), 2) \o v.s

CanMarshal == \A i \in DOMAIN columns : columns[i].data_type \in {"INT", "TEXT"}

marshal(row) ==
  LET fields[i \in 0 .. Len(columns)] ==
        IF i = 0 THEN <<>>
        ELSE fields[i - 1] \o FieldBytes(columns[i].data_type, row[columns[i].name])
  IN fields[Len(columns)]

\* The fields of unmarshal, at offset of the row's bytes d.
Int32(d, offset) ==
  LET top == d[offset + 4]
  IN (((IF top < 128 THEN top ELSE top - 256) * 256 + d[offset + 3]) * 256
       + d[offset + 2]) * 256 + d[offset + 1]
TextSize(d, offset) == d[offset + 1] + 256 * d[offset + 2]

\* Mutant: forgets the bytes of the length.
FieldSize_NoPrefix(data_type, d, offset) ==
  IF data_type = "INT" THEN 4 ELSE TextSize(d, offset)

FieldSize(data_type, d, offset) ==
  IF data_type = "INT" THEN 4 ELSE 2 + TextSize(d, offset)

FieldOffset(d, i) ==
  LET at[k \in 1 .. i] ==
        IF k = 1 THEN 0
        ELSE at[k - 1] + FieldSize(columns[k - 1].data_type, d, at[k - 1])
  IN at[i]

\* Mutant: sets the data_type of a text.
Field_Typed(data_type, d, offset) ==
  IF data_type = "INT" THEN IntValue(Int32(d, offset))
  ELSE TextValue(SubSeq(d, offset + 3, offset + 2 + TextSize(d, offset)))

\* The values are default ones with n or s set: their data_type stays INT.
Field(data_type, d, offset) ==
  IF data_type = "INT" THEN IntValue(Int32(d, offset))
  ELSE [IntValue(0) EXCEPT !.s = SubSeq(d, offset + 3, offset + 2 + TextSize(d, offset))]

unmarshal(d) ==
  [c \in Names |->
     LET i == CHOOSE k \in DOMAIN columns : columns[k].name = c
     IN Field(columns[i].data_type, d, FieldOffset(d, i))]

-----------------------------------------------------------------------------
(***************************************************************************)
(* Reading.  Handles are record ids: the block is always the same.         *)
(***************************************************************************)

\* project(handle, names), of a row that was not deleted: names the table does
\* not have are passed over.
project(id, names) ==
  LET row == unmarshal(Page!Payload(id)) IN [c \in names \intersect DOMAIN row |-> row[c]]

\* select(): no condition.
SelectAll == Page!ids

\* selected(handle, where): the projection and the condition are equal maps.
selected(id, where) ==
  LET row == project(id, DOMAIN where)
  IN /\ DOMAIN row = DOMAIN where
     /\ \A c \in DOMAIN where : ValueEq(row[c], where[c])

select(where) == {id \in SelectAll : selected(id, where)}

-----------------------------------------------------------------------------
Init ==
  /\ Page!Init
  /\ columns \in ColumnLists
  /\ overflow = FALSE
  /\ given = <<>>

\* validate(row): all columns of the table, and only these.
validate(row) == [c \in Names |-> row[c]]

\* insert(row): validate, marshal, append.  A full block throws (in Add).
Insert(row) ==
  /\ ~overflow
  /\ Names \subseteq DOMAIN row /\ CanMarshal
  /\ LET full_row == validate(row)
         data == marshal(full_row)
     IN IF Len(data) > BLOCK_SZ
        THEN overflow' = TRUE /\ UNCHANGED <<block, columns, given>>
        ELSE /\ Page!Add(data)
             /\ given' = Append(given, full_row)
             /\ UNCHANGED <<columns, overflow>>

\* del(handle)
Delete(id) ==
  /\ ~overflow
  /\ Page!Del(id)
  /\ UNCHANGED <<columns, overflow, given>>

Next ==
  \/ \E row \in Inputs : Insert(row)
  \/ \E id \in Page!RecordID : Delete(id)

Spec == Init /\ [][Next]_vars

-----------------------------------------------------------------------------
(***************************************************************************)
(* Correctness properties.                                                 *)
(***************************************************************************)
lost == overflow \/ overrun

TypeOK ==
  /\ Page!TypeOK
  /\ columns \in ColumnLists
  /\ overflow \in BOOLEAN
  /\ ~lost => Len(given) = num_records

\* A row as a table with these columns keeps it: of each value what the column's
\* type asks for.  validate does not look at types, and a value of another one
\* is not refused: its n of 0 is kept, or its empty text.
Kept(list, row) ==
  [c \in NamesOf(list) |->
     IF \E i \in DOMAIN list : list[i] = [name |-> c, data_type |-> "INT"]
     THEN IntValue(row[c].n) ELSE TextValue(row[c].s)]

KeptRows ==
  UNION {{Kept(list, row) : row \in {r \in Inputs : NamesOf(list) \subseteq DOMAIN r}} :
           list \in ColumnLists}

\* The table implements RowStore: what the columns keep of a row stays
\* as it is until the row is deleted, although it is stored as bytes without
\* names or types between others that move.
Table == INSTANCE RowStore WITH
  Row <- KeptRows,
  handles <- IF lost THEN 0 ELSE num_records,
  rows <- [id \in 1 .. (IF lost THEN 0 ELSE num_records) |->
             IF Page!Live(id) THEN Kept(columns, project(id, Names)) ELSE NoRow]

ImplementsRowStore == Table!Spec

\* What select(where) selects, said of the rows as they were given.  A value of
\* type INT is compared with a column of integers, and its n with 0 in a column
\* of texts; a value of type TEXT equals nothing that is read from a table.
Matches(row, where) ==
  \A c \in DOMAIN where :
    /\ c \in Names
    /\ where[c].data_type = "INT"
    /\ where[c].n = Kept(columns, row)[c].n

SelectsMatches ==
  ~lost => \A where \in Wheres :
             select(where) = {id \in SelectAll : Matches(given[id], where)}

\* A row reads back as what the columns keep of the row given to its insert,
\* wherever the bytes of the other rows have moved since.
ReadsBack ==
  ~lost => \A id \in SelectAll :
             Kept(columns, project(id, Names)) = Kept(columns, given[id])

=============================================================================
