------------------------------ MODULE BatchUpdates ------------------------------
(***************************************************************************)
(* Writes of many rows (jpa/jpa.go, saveAll, SaveAllUpsert, BatchUpdate):  *)
(* how they are cut into statements and what one statement does to the     *)
(* table.                                                                  *)
(*                                                                         *)
(* A row of a BatchUpdate is a record of two functions from columns to     *)
(* values, key and set.  Properties are resolved: one that the entity does *)
(* not have stands for itself and is not in Columns.  The audit columns    *)
(* set along are left out.                                                 *)
(***************************************************************************)
EXTENDS Integers, FiniteSets, SequencesExt

CONSTANTS
    Ids,        \* primary keys
    Columns,    \* columns of the entity
    Values,     \* values of the columns
    NoRow,      \* no row with the key
    BatchSize,  \* batchSize, 500 in the code
    MaxParams   \* Dialect.MaxParams

ASSUME SizeAssumption == BatchSize \in Nat \ {0} /\ MaxParams \in Nat

Row == [Columns -> Values]

ASSUME NoRowAssumption == NoRow \notin Row

Table == [Ids -> Row \cup {NoRow}]

\* Rows of a BatchUpdate: keys are made of values, and so are the columns they
\* set.  A row has a key: without one the conditions have no text, and no server
\* runs the statement.
IsBatch(rows) ==
    /\ DOMAIN rows \subseteq Nat
    /\ \A i \in DOMAIN rows :
          /\ DOMAIN rows[i].key # {}
          /\ rows[i].key \in [DOMAIN rows[i].key -> Values]
          /\ \A c \in DOMAIN rows[i].set \cap Columns : rows[i].set[c] \in Values

-------------------------------------------------------------------------------
(* Chunks. *)

\* Mutant of Chunks: no chunk for what is left over.
ChunksFull(items, n) ==
    [k \in 1 .. Len(items) \div n |-> SubSeq(items, (k - 1) * n + 1, k * n)]

\* The loops of saveAll, SaveAllUpsert and BatchUpdate, and Chunk: at most n
\* items each, in order.
Chunks(items, n) ==
    [k \in 1 .. (Len(items) + n - 1) \div n |->
        SubSeq(items, (k - 1) * n + 1, Min({k * n, Len(items)}))]

-------------------------------------------------------------------------------
(* One statement of BatchUpdate: UPDATE ... SET c = CASE ... END WHERE ... *)

\* The key columns of a chunk are those of its first row.
KeyColumns(rows) == DOMAIN rows[1].key

SetColumns(rows) == UNION {DOMAIN rows[i].set : i \in DOMAIN rows}

\* All rows have the chunk's key columns and set none of them.
Plain(rows) ==
    /\ \A i \in DOMAIN rows : DOMAIN rows[i].key = KeyColumns(rows)
    /\ SetColumns(rows) \cap KeyColumns(rows) = {}

\* The condition of the i-th row of the chunk holds of r.
Names(rows, i, r) == \A k \in KeyColumns(rows) : r[k] = rows[i].key[k]

\* Arguments: a key and a value in every WHEN, a key in the WHERE.
Parameters(rows) ==
    LET keys == Cardinality(KeyColumns(rows))
    IN FoldLeft(LAMBDA n, row : n + Cardinality(DOMAIN row.set) * (keys + 1) + keys, 0, rows)

\* batchChunk returns an error and runs nothing.
Refused(rows) ==
    \/ ~(KeyColumns(rows) \cup SetColumns(rows) \subseteq Columns)
    \/ /\ SetColumns(rows) # {}
       /\ \/ \E i \in DOMAIN rows : ~(KeyColumns(rows) \subseteq DOMAIN rows[i].key)
          \/ Parameters(rows) > MaxParams

\* The rows that have a WHEN for column c that holds of r.
Whens(rows, c, r) == {i \in DOMAIN rows : c \in DOMAIN rows[i].set /\ Names(rows, i, r)}

\* Mutant of Case: the last WHEN that holds gives the value.
CaseLast(rows, c, r) ==
    IF Whens(rows, c, r) = {} THEN r[c] ELSE rows[Max(Whens(rows, c, r))].set[c]

\* CASE: the first WHEN that holds gives the value, ELSE the column's own.
Case(rows, c, r) ==
    IF Whens(rows, c, r) = {} THEN r[c] ELSE rows[Min(Whens(rows, c, r))].set[c]

\* The statement changes the rows that its WHERE names.
BatchChunk(rows, table) ==
    [id \in Ids |->
        IF table[id] # NoRow /\ \E i \in DOMAIN rows : Names(rows, i, table[id])
        THEN [c \in Columns |-> Case(rows, c, table[id])]
        ELSE table[id]]

-------------------------------------------------------------------------------
(* What a batch asks for: its rows one by one, each with the key columns it *)
(* names itself.  In a chunk an earlier row goes before a later one with    *)
(* the same key, so the last row comes first.                               *)

OneRow(row, table) ==
    [id \in Ids |->
        IF table[id] # NoRow /\ \A k \in DOMAIN row.key : table[id][k] = row.key[k]
        THEN [c \in Columns |-> IF c \in DOMAIN row.set THEN row.set[c] ELSE table[id][c]]
        ELSE table[id]]

RowByRow(rows, table) ==
    LET from[i \in 1 .. Len(rows) + 1] ==
            IF i = Len(rows) + 1 THEN table ELSE OneRow(rows[i], from[i + 1])
    IN from[1]
===============================================================================
