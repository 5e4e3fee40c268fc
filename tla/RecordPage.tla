----------------------------- MODULE RecordPage -----------------------------
(***************************************************************************)
(* What one block of records promises its users (class DbBlock of          *)
(* src/src/storage_engine.h): record ids are handed out 1, 2, 3, ... by    *)
(* add; a record reads back as the data last given to add or put for its   *)
(* id, whatever happens to the other records; del removes one record and   *)
(* its id is never handed out again.                                       *)
(*                                                                         *)
(* A call that throws is a stuttering step.  A block can also be lost: the *)
(* implementation has accepted data its memory cannot hold, and nothing is *)
(* promised from then on.                                                  *)
(***************************************************************************)
EXTENDS Naturals

CONSTANTS
  Data,      \* the byte strings a record may hold
  NoRecord   \* what a deleted record id holds, not a byte string

VARIABLES
  last_id,   \* the number of ids handed out so far
  recs,      \* recs[id]: the data of record id, or NoRecord
  lost       \* TRUE once the block has accepted what it cannot hold

vars == <<last_id, recs, lost>>

Init ==
  /\ last_id = 0
  /\ recs = [id \in 1 .. 0 |-> NoRecord]
  /\ lost = FALSE

Add(d) ==
  /\ ~lost
  /\ last_id' = last_id + 1
  /\ recs' = [id \in 1 .. last_id + 1 |-> IF id <= last_id THEN recs[id] ELSE d]
  /\ UNCHANGED lost

Put(id, d) ==
  /\ ~lost
  /\ recs[id] # NoRecord
  /\ recs' = [recs EXCEPT ![id] = d]
  /\ UNCHANGED <<last_id, lost>>

Del(id) ==
  /\ ~lost
  /\ recs' = [recs EXCEPT ![id] = NoRecord]
  /\ UNCHANGED <<last_id, lost>>

Lose ==
  /\ ~lost
  /\ lost' = TRUE
  /\ last_id' = 0
  /\ recs' = [id \in 1 .. 0 |-> NoRecord]

Next ==
  \/ \E d \in Data : Add(d)
  \/ \E id \in 1 .. last_id, d \in Data : Put(id, d)
  \/ \E id \in 1 .. last_id : Del(id)
  \/ Lose

Spec == Init /\ [][Next]_vars

=============================================================================
