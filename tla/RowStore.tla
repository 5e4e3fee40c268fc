------------------------------ MODULE RowStore ------------------------------
(***************************************************************************)
(* What a table promises its users (class DbRelation of                    *)
(* src/src/storage_engine.h): insert stores a row under a handle of its    *)
(* own, the row reads back as it was given until it is deleted, and a      *)
(* handle is never handed out again.                                       *)
(*                                                                         *)
(* A call that throws is a stuttering step.  A table can be lost: it has   *)
(* accepted a row its memory cannot hold.                                  *)
(***************************************************************************)
EXTENDS Naturals

CONSTANTS
  Row,     \* the rows users may insert
  NoRow    \* what a deleted row's handle stands for

VARIABLES
  handles,  \* handles handed out so far: 1, 2, 3, ...
  rows,     \* rows[h]: the row of handle h, or NoRow
  lost

vars == <<handles, rows, lost>>

Init ==
  /\ handles = 0
  /\ rows = [h \in 1 .. 0 |-> NoRow]
  /\ lost = FALSE

Insert(row) ==
  /\ ~lost
  /\ handles' = handles + 1
  /\ rows' = [h \in 1 .. handles + 1 |-> IF h <= handles THEN rows[h] ELSE row]
  /\ UNCHANGED lost

Delete(h) ==
  /\ ~lost
  /\ rows' = [rows EXCEPT ![h] = NoRow]
  /\ UNCHANGED <<handles, lost>>

Lose ==
  /\ ~lost
  /\ lost' = TRUE
  /\ handles' = 0
  /\ rows' = [h \in 1 .. 0 |-> NoRow]

Next ==
  \/ \E row \in Row : Insert(row)
  \/ \E h \in 1 .. handles : Delete(h)
  \/ Lose

Spec == Init /\ [][Next]_vars

=============================================================================
