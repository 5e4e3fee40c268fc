----------------------------- MODULE BlockStore -----------------------------
(***************************************************************************)
(* What a file of blocks promises (class DbFile of                         *)
(* src/src/storage_engine.h): block ids are handed out 1, 2, 3, ...; a     *)
(* block is allocated at the end of a file and stays; putting a block      *)
(* replaces that block of that file and nothing else.                      *)
(***************************************************************************)
EXTENDS Naturals

CONSTANTS Name, Content, NewBlock

VARIABLE files    \* files[n]: the blocks of file n by id

Init == files = [n \in {} |-> <<>>]

Create(n) ==
  /\ n \notin DOMAIN files
  /\ files' = [m \in DOMAIN files \union {n} |-> IF m = n THEN <<>> ELSE files[m]]

\* The new id is 1 or the one after an id in use: after the last one, as there
\* are no gaps.
Allocate(n) ==
  \E id \in ({1} \union {i + 1 : i \in DOMAIN files[n]}) \ DOMAIN files[n] :
    files' = [files EXCEPT ![n] =
               [i \in DOMAIN @ \union {id} |-> IF i = id THEN NewBlock ELSE @[i]]]

Replace(n, id, content) == files' = [files EXCEPT ![n][id] = content]

Next ==
  \/ \E n \in Name : Create(n)
  \/ \E n \in DOMAIN files : Allocate(n)
  \/ \E n \in DOMAIN files, content \in Content :
       \E id \in DOMAIN files[n] : Replace(n, id, content)

Spec == Init /\ [][Next]_files

=============================================================================
