-------------------------------- MODULE LMDB --------------------------------
(***************************************************************************)
(* The part of the LMDB library that BTFile uses: one environment with     *)
(* named databases (durable) and a table of database handles (gone with    *)
(* the process).  LMDB is not in this repository; the operators say what   *)
(* its API documents for the calls BTFile makes.  BTFile wraps every call  *)
(* in a write transaction of its own, so each is one atomic durable step.  *)
(***************************************************************************)
EXTENDS Naturals, FiniteSets

CONSTANTS
  Name,      \* names of databases
  MAX_DBS,   \* mdb_env_set_maxdbs: how many handles may be open (5 in the code)
  WRITES_FAIL,  \* whether a write may fail: the map or the disk full, an I/O error
  Free       \* an unused handle

ASSUME LMDBAssumption ==
  /\ MAX_DBS \in Nat
  /\ WRITES_FAIL \in BOOLEAN
  /\ Free \notin Name

VARIABLES
  dbs,    \* dbs[n]: the entries of database n, a function from key to data
  slot    \* slot[h]: the database that handle h stands for, or Free

Dbi == 1 .. MAX_DBS
NoDbi == 0    \* what BTFile's dbi holds before any open; no handle for LMDB

Valid(h) == h \in Dbi /\ slot[h] # Free

HandlesOf(n) == {h \in Dbi : slot[h] = n}
FreeHandles == HandlesOf(Free)

\* mdb_dbi_open: a database already open keeps its handle; otherwise a free
\* handle is needed, and only then is the database looked up or created.
OpenStatus(n, create) ==
  IF HandlesOf(n) # {} THEN "SUCCESS"
  ELSE IF FreeHandles = {} THEN "DBS_FULL"
  ELSE IF n \in DOMAIN dbs \/ create THEN "SUCCESS"
  ELSE "NOTFOUND"

OpenHandle(n) ==
  LET candidates == IF HandlesOf(n) # {} THEN HandlesOf(n) ELSE FreeHandles
  IN CHOOSE h \in candidates : \A i \in candidates : h <= i

OpenDb(n) ==
  /\ slot' = [slot EXCEPT ![OpenHandle(n)] = n]
  /\ dbs' = [m \in DOMAIN dbs \union {n} |-> IF m \in DOMAIN dbs THEN dbs[m] ELSE <<>>]

\* mdb_stat's ms_entries.
Entries(n) == IF n \in DOMAIN dbs THEN Cardinality(DOMAIN dbs[n]) ELSE 0

\* mdb_put and the commit: one that fails, or has no valid handle, stores
\* nothing.
PutEntry(h, key, data) ==
  \/ /\ Valid(h)
     /\ dbs' = [dbs EXCEPT ![slot[h]] =
                 [k \in DOMAIN @ \union {key} |-> IF k = key THEN data ELSE @[k]]]
  \/ /\ ~Valid(h) \/ WRITES_FAIL
     /\ UNCHANGED dbs

\* mdb_get finds the key.
HasEntry(h, key) == Valid(h) /\ key \in DOMAIN dbs[slot[h]]

\* mdb_dbi_close: of no handle or of a free one, silently nothing.
CloseDbi(h) == slot' = IF h \in Dbi THEN [slot EXCEPT ![h] = Free] ELSE slot

\* The process ends: its handles are gone, the databases are not.
NoHandles == [h \in Dbi |-> Free]

=============================================================================
