--------------------------- MODULE TransactionProofs ---------------------------
(***************************************************************************)
(* Proofs about BatchUpdates and Transaction, for all tables, batches,     *)
(* calls, functions and chunk sizes.                                       *)
(*                                                                         *)
(* Of BatchUpdates: how items are cut into chunks, what one statement does *)
(* to the table, and that the statement does what its rows ask for one by  *)
(* one.                                                                    *)
(*                                                                         *)
(* NothingBeforeCommit holds where no policy runs a statement again after  *)
(* a deadlock of MySQL (SafePolicies): then a connection whose transaction *)
(* is gone is used for nothing but the rollback, and every statement that  *)
(* takes effect does so in the open transaction (IInv).                    *)
(*                                                                         *)
(* WholeOrPrefix and NilMeansAll hold where also the rows of each batch    *)
(* are plain (PlainRows).  The database, and the open transaction, are on  *)
(* the path of the work at the statement that is next, or just after it    *)
(* where an answer was lost (PathInv): a statement that is sent makes the  *)
(* next table of the path (EffectIsAsked), and one that is run twice makes *)
(* it again (EffectTwice).  The end of the path is what all calls ask for, *)
(* however they are cut into statements (GoalIsResult).                    *)
(***************************************************************************)
EXTENDS Transaction, StepLemmas

-------------------------------------------------------------------------------
(* Chunks. *)

LEMMA DivMod ==
    ASSUME NEW a \in Nat, NEW n \in Nat \ {0}
    PROVE  a \div n \in Nat /\ (a \div n) * n <= a /\ a < (a \div n) * n + n
OBVIOUS

LEMMA MinOfTwo ==
    ASSUME NEW a \in Int, NEW b \in Int PROVE Min({a, b}) = IF a <= b THEN a ELSE b
<1>1. \E x \in {a, b} : \A y \in {a, b} : x =< y
  OBVIOUS
<1>2. Min({a, b}) \in {a, b} /\ \A y \in {a, b} : Min({a, b}) =< y
  BY <1>1 DEF Min
<1> QED BY <1>2

LEMMA Products ==
    ASSUME NEW k \in Nat \ {0}, NEW n \in Nat \ {0}
    PROVE  k * n \in Nat /\ (k - 1) * n \in Nat /\ (k - 1) * n + n = k * n
OBVIOUS

\* The k-th chunk holds the items after those of the k - 1 chunks before it.
CutAt(X, items, n, k) ==
    LET chunk == Chunks(items, n)[k]
    IN /\ k \in Nat \ {0}
       /\ Len(chunk) = (IF k * n <= Len(items) THEN k * n ELSE Len(items)) - (k - 1) * n
       /\ Len(chunk) \in 1 .. n
       /\ chunk \in Seq(X)
       /\ \A i \in 1 .. Len(chunk) : chunk[i] = items[(k - 1) * n + i]

LEMMA OneChunk ==
    ASSUME NEW X, NEW items \in Seq(X), NEW n \in Nat \ {0}, NEW k \in DOMAIN Chunks(items, n)
    PROVE  CutAt(X, items, n, k)
<1> DEFINE len  == Len(items)
           last == IF k * n <= len THEN k * n ELSE len
           from == (k - 1) * n
<1>1. len \in Nat
  OBVIOUS
<1>2. k \in 1 .. (len + n - 1) \div n
  BY DEF Chunks
<1>3. k \in Nat /\ k >= 1 /\ k * n \in Nat /\ from \in Nat /\ from + n = k * n
  <2> DEFINE q == (len + n - 1) \div n
  <2>1. q \in Nat
    BY <1>1, DivMod
  <2>2. k \in 1 .. q
    BY <1>2
  <2> HIDE DEF q
  <2>3. k \in Nat \ {0}
    BY <2>1, <2>2
  <2> QED BY <2>3, Products
<1>4. from < len
  <2> DEFINE q == (len + n - 1) \div n
  <2>1. q \in Nat /\ q * n <= len + n - 1
    BY <1>1, DivMod
  <2>2. k <= q
    BY <1>2, <2>1
  <2> HIDE DEF q
  <2>3. k * n <= q * n
    BY <1>3, <2>1, <2>2
  <2> QED BY <1>1, <1>3, <2>1, <2>3
<1>5. Chunks(items, n)[k] = SubSeq(items, from + 1, last)
  <2>1. Chunks(items, n)[k] = SubSeq(items, (k - 1) * n + 1, Min({k * n, len}))
    BY DEF Chunks
  <2>2. Min({k * n, len}) = last
    BY <1>1, <1>3, MinOfTwo
  <2> QED BY <2>1, <2>2
<1>6. last \in Nat /\ last <= len /\ last > from /\ last <= from + n
  BY <1>1, <1>3, <1>4
<1> HIDE DEF from, last
<1>7. /\ Len(SubSeq(items, from + 1, last)) = last - from
      /\ SubSeq(items, from + 1, last) \in Seq(X)
      /\ \A i \in 1 .. last - from : SubSeq(items, from + 1, last)[i] = items[from + i]
  BY <1>1, <1>3, <1>6 DEF len
<1>8. Len(Chunks(items, n)[k]) = last - from
  BY <1>5, <1>7
<1>9. last - from \in 1 .. n
  BY <1>3, <1>6
<1>10. k \in Nat \ {0}
  BY <1>3
<1>11. Len(Chunks(items, n)[k]) = (IF k * n <= Len(items) THEN k * n ELSE Len(items)) - (k - 1) * n
  BY <1>8 DEF from, last, len
<1>12. \A i \in 1 .. Len(Chunks(items, n)[k]) : Chunks(items, n)[k][i] = items[from + i]
  BY <1>5, <1>7, <1>8
<1>13. Chunks(items, n)[k] \in Seq(X) /\ Len(Chunks(items, n)[k]) \in 1 .. n
  BY <1>5, <1>7, <1>8, <1>9
<1> QED BY <1>10, <1>11, <1>12, <1>13 DEF from, CutAt

\* The loops of saveAll, SaveAllUpsert and BatchUpdate leave out no item, send
\* none twice and keep their order: the i-th item of the k-th chunk is item
\* (k - 1) * n + i, a chunk has from 1 to n items, and every item has a place.
THEOREM ChunksKeepItems ==
    ASSUME NEW X, NEW items \in Seq(X), NEW n \in Nat \ {0}
    PROVE  /\ \A k \in DOMAIN Chunks(items, n) :
                 /\ Len(Chunks(items, n)[k]) \in 1 .. n
                 /\ \A i \in 1 .. Len(Chunks(items, n)[k]) :
                       Chunks(items, n)[k][i] = items[(k - 1) * n + i]
           /\ \A j \in 1 .. Len(items) :
                 \E k \in DOMAIN Chunks(items, n) :
                    \E i \in 1 .. Len(Chunks(items, n)[k]) : j = (k - 1) * n + i
<1>cut. ASSUME NEW k \in DOMAIN Chunks(items, n) PROVE CutAt(X, items, n, k)
  BY OneChunk
<1>0. ASSUME NEW k \in DOMAIN Chunks(items, n)
      PROVE  Len(Chunks(items, n)[k]) =
                (IF k * n <= Len(items) THEN k * n ELSE Len(items)) - (k - 1) * n
  <2>1. CutAt(X, items, n, k)
    BY <1>cut
  <2> QED BY <2>1 DEF CutAt
<1>1. ASSUME NEW j \in 1 .. Len(items)
      PROVE  \E k \in DOMAIN Chunks(items, n) :
                \E i \in 1 .. Len(Chunks(items, n)[k]) : j = (k - 1) * n + i
  <2> DEFINE len == Len(items)
             q   == (j - 1) \div n
             r   == (len + n - 1) \div n
  <2>1. len \in Nat /\ j \in Nat /\ 1 <= j /\ j <= len
    OBVIOUS
  <2>2. q \in Nat /\ q * n <= j - 1 /\ j - 1 < q * n + n
    BY <2>1, DivMod
  <2>3. r \in Nat /\ len + n - 1 < r * n + n
    BY <2>1, DivMod
  <2>4. DOMAIN Chunks(items, n) = 1 .. r
    BY DEF Chunks
  <2> HIDE DEF q, r, len
  <2>5. q < r
    <3>1. q * n < r * n
      BY <2>1, <2>2, <2>3
    <3> QED BY <2>2, <2>3, <3>1
  <2>6. q + 1 \in DOMAIN Chunks(items, n)
    BY <2>2, <2>3, <2>4, <2>5
  <2>7. Len(Chunks(items, n)[q + 1]) =
           (IF (q + 1) * n <= len THEN (q + 1) * n ELSE len) - q * n
    <3> DEFINE k == q + 1
    <3>1. k - 1 = q
      BY <2>2
    <3>2. k \in DOMAIN Chunks(items, n)
      BY <2>6
    <3> HIDE DEF k
    <3>3. Len(Chunks(items, n)[k]) =
             (IF k * n <= Len(items) THEN k * n ELSE Len(items)) - (k - 1) * n
      BY <3>2, <1>0
    <3> QED BY <3>1, <3>3 DEF k, len
  <2>8. j - q * n \in 1 .. Len(Chunks(items, n)[q + 1])
    <3>1. (q + 1) * n = q * n + n /\ q * n \in Nat
      BY <2>2
    <3> QED BY <2>1, <2>2, <2>7, <3>1
  <2>9. j = ((q + 1) - 1) * n + (j - q * n)
    BY <2>1, <2>2
  <2> QED BY <2>6, <2>8, <2>9
<1>2. ASSUME NEW k \in DOMAIN Chunks(items, n)
      PROVE  /\ Len(Chunks(items, n)[k]) \in 1 .. n
             /\ \A i \in 1 .. Len(Chunks(items, n)[k]) :
                   Chunks(items, n)[k][i] = items[(k - 1) * n + i]
  <2>1. CutAt(X, items, n, k)
    BY <1>cut
  <2> QED BY <2>1 DEF CutAt
<1> QED BY <1>1, <1>2

\* The number of items in the first k chunks.
UpTo(items, n, k) == IF k * n <= Len(items) THEN k * n ELSE Len(items)

\* A chunk goes on where the one before it ends, and the last ends with the items.
LEMMA ChunkPlaces ==
    ASSUME NEW X, NEW items \in Seq(X), NEW n \in Nat \ {0}
    PROVE  LET chunks == Chunks(items, n)
           IN /\ Len(chunks) \in Nat /\ DOMAIN chunks = 1 .. Len(chunks)
              /\ UpTo(items, n, 0) = 0 /\ UpTo(items, n, Len(chunks)) = Len(items)
              /\ \A k \in 0 .. Len(chunks) : UpTo(items, n, k) \in 0 .. Len(items)
              /\ \A k \in 1 .. Len(chunks) :
                    /\ chunks[k] \in Seq(X) /\ Len(chunks[k]) \in Nat \ {0}
                    /\ UpTo(items, n, k - 1) + Len(chunks[k]) = UpTo(items, n, k)
                    /\ \A i \in 1 .. Len(chunks[k]) :
                          chunks[k][i] = items[UpTo(items, n, k - 1) + i]
<1> DEFINE chunks == Chunks(items, n)
           len == Len(items)
           r == (len + n - 1) \div n
<1>1. len \in Nat
  OBVIOUS
<1>2. r \in Nat /\ len + n - 1 < r * n + n
  BY <1>1, DivMod
<1>3. DOMAIN chunks = 1 .. r
  BY DEF Chunks
<1>4. Len(chunks) = r
  <2> HIDE DEF r
  <2>1. chunks = [k \in 1 .. r |-> chunks[k]]
    BY <1>3 DEF Chunks, r
  <2> HIDE DEF chunks
  <2> QED BY <1>2, <2>1
<1> HIDE DEF r
<1>5. UpTo(items, n, 0) = 0
  BY <1>1 DEF UpTo
<1>6. UpTo(items, n, r) = len
  <2>1. r * n \in Nat
    BY <1>2
  <2> QED BY <1>1, <1>2, <2>1 DEF UpTo
<1>7. ASSUME NEW k \in 0 .. r PROVE UpTo(items, n, k) \in 0 .. len
  <2>1. k * n \in Nat
    BY <1>2
  <2> QED BY <1>1, <2>1 DEF UpTo
<1>8. ASSUME NEW k \in 1 .. r
      PROVE  /\ chunks[k] \in Seq(X) /\ Len(chunks[k]) \in Nat \ {0}
             /\ UpTo(items, n, k - 1) + Len(chunks[k]) = UpTo(items, n, k)
             /\ \A i \in 1 .. Len(chunks[k]) : chunks[k][i] = items[UpTo(items, n, k - 1) + i]
  <2>1. /\ k \in Nat \ {0} /\ chunks[k] \in Seq(X)
        /\ Len(chunks[k]) = UpTo(items, n, k) - (k - 1) * n
        /\ Len(chunks[k]) \in 1 .. n
        /\ \A i \in 1 .. Len(chunks[k]) : chunks[k][i] = items[(k - 1) * n + i]
    <3>1. k \in DOMAIN Chunks(items, n)
      BY <1>3
    <3>2. CutAt(X, items, n, k)
      BY <3>1, OneChunk
    <3> HIDE DEF chunks
    <3>3. UpTo(items, n, k) = IF k * n <= Len(items) THEN k * n ELSE Len(items)
      BY DEF UpTo
    <3> QED BY <3>2, <3>3 DEF CutAt, chunks
  <2>2. k * n \in Nat /\ (k - 1) * n \in Nat
    BY <2>1, Products
  <2>3. UpTo(items, n, k) <= len
    BY <1>1, <2>2 DEF UpTo
  <2>4. UpTo(items, n, k) \in Nat
    BY <1>1, <2>2 DEF UpTo
  <2>5. UpTo(items, n, k - 1) = (k - 1) * n
    <3>1. (k - 1) * n <= len
      BY <1>1, <2>1, <2>2, <2>3, <2>4
    <3> QED BY <3>1 DEF UpTo
  <2> HIDE DEF chunks
  <2>6. UpTo(items, n, k - 1) + Len(chunks[k]) = UpTo(items, n, k)
    BY <2>1, <2>2, <2>4, <2>5
  <2>7. Len(chunks[k]) \in Nat \ {0}
    BY <2>1
  <2> QED BY <2>1, <2>5, <2>6, <2>7
<1> QED BY <1>2, <1>3, <1>4, <1>5, <1>6, <1>7, <1>8

-------------------------------------------------------------------------------
(* A chunk that is run twice. *)

\* A statement leaves records of the columns, none of them NoRow.
LEMMA ChunkMakesRows ==
    ASSUME NEW rows, IsBatch(rows), NEW table \in Table, NEW id \in Ids, table[id] # NoRow
    PROVE  BatchChunk(rows, table)[id] \in Row
<1>1. table[id] \in Row
  BY DEF Table
<1>2. ASSUME NEW c \in Columns PROVE Case(rows, c, table[id]) \in Values
  <2>1. CASE Whens(rows, c, table[id]) = {}
    BY <1>1, <2>1 DEF Case, Row
  <2>2. CASE Whens(rows, c, table[id]) # {}
    <3>1. Min(Whens(rows, c, table[id])) \in Whens(rows, c, table[id])
      BY <2>2, MinIn DEF Whens, IsBatch
    <3> QED BY <2>2, <3>1 DEF Case, Whens, IsBatch
  <2> QED BY <2>1, <2>2
<1> QED BY <1>1, <1>2 DEF BatchChunk, Row

\* A statement that does not set its key columns keeps them.
LEMMA ChunkKeepsKeys ==
    ASSUME NEW rows, NEW table, NEW id \in Ids, table[id] # NoRow,
           SetColumns(rows) \cap KeyColumns(rows) = {}, KeyColumns(rows) \subseteq Columns
    PROVE  \A k \in KeyColumns(rows) : BatchChunk(rows, table)[id][k] = table[id][k]
<1> SUFFICES ASSUME NEW k \in KeyColumns(rows)
             PROVE  BatchChunk(rows, table)[id][k] = table[id][k]
  OBVIOUS
<1>1. Whens(rows, k, table[id]) = {}
  BY DEF Whens, SetColumns
<1> QED BY <1>1 DEF Case, BatchChunk

\* "A chunk tried again": run twice, as after an answer that was lost, a
\* statement of BatchUpdate makes the table that it made the first time, if
\* it does not set the columns that name its rows.
THEOREM ChunkTwice ==
    ASSUME NEW rows, IsBatch(rows), NEW table \in Table,
           SetColumns(rows) \cap KeyColumns(rows) = {}, KeyColumns(rows) \subseteq Columns
    PROVE  BatchChunk(rows, BatchChunk(rows, table)) = BatchChunk(rows, table)
<1> DEFINE once == BatchChunk(rows, table)
<1>1. ASSUME NEW id \in Ids PROVE BatchChunk(rows, once)[id] = once[id]
  <2>1. CASE table[id] = NoRow
    BY <2>1 DEF BatchChunk
  <2>2. CASE table[id] # NoRow
    <3>1. once[id] \in Row /\ once[id] # NoRow
      BY <2>2, ChunkMakesRows, NoRowAssumption
    <3>2. \A k \in KeyColumns(rows) : once[id][k] = table[id][k]
      BY <2>2, ChunkKeepsKeys
    <3> HIDE DEF once
    <3>3. \A i \in DOMAIN rows : Names(rows, i, once[id]) <=> Names(rows, i, table[id])
      BY <3>2 DEF Names
    <3>4. \A c : Whens(rows, c, once[id]) = Whens(rows, c, table[id])
      BY <3>3 DEF Whens
    <3>5. CASE \E i \in DOMAIN rows : Names(rows, i, table[id])
      <4>1. once[id] = [c \in Columns |-> Case(rows, c, table[id])]
        BY <2>2, <3>5 DEF once, BatchChunk
      <4>2. BatchChunk(rows, once)[id] = [c \in Columns |-> Case(rows, c, once[id])]
        BY <3>1, <3>3, <3>5 DEF BatchChunk
      <4>3. ASSUME NEW c \in Columns PROVE Case(rows, c, once[id]) = Case(rows, c, table[id])
        BY <3>4, <4>1 DEF Case
      <4> QED BY <4>1, <4>2, <4>3
    <3>6. CASE ~\E i \in DOMAIN rows : Names(rows, i, table[id])
      BY <3>1, <3>3, <3>6 DEF BatchChunk
    <3> QED BY <3>5, <3>6
  <2> QED BY <2>1, <2>2
<1> QED BY <1>1 DEF BatchChunk
-------------------------------------------------------------------------------
(* A statement and its rows one by one. *)

\* A row of a batch makes a table of a table.
LEMMA OneRowType ==
    ASSUME NEW row, \A c \in DOMAIN row.set \cap Columns : row.set[c] \in Values, NEW t \in Table
    PROVE  OneRow(row, t) \in Table
<1>1. ASSUME NEW id \in Ids PROVE OneRow(row, t)[id] \in Row \cup {NoRow}
  BY DEF OneRow, Table, Row
<1> QED BY <1>1 DEF OneRow, Table

\* The tables that the rows make, from the last to the first.
LEMMA RowByRowSteps ==
    ASSUME NEW rows, NEW n \in Nat, DOMAIN rows = 1 .. n, Len(rows) = n, IsBatch(rows),
           NEW table \in Table
    PROVE  \E f : /\ f = [i \in 1 .. n + 1 |->
                             IF i = n + 1 THEN table ELSE OneRow(rows[i], f[i + 1])]
                  /\ RowByRow(rows, table) = f[1]
<1> DEFINE next == [k \in 1 .. n |-> [u \in Table |-> OneRow(rows[n + 1 - k], u)]]
           Made(f) == f = [i \in 1 .. n + 1 |->
                              IF i = n + 1 THEN table ELSE OneRow(rows[i], f[i + 1])]
<1>1. next \in [1 .. n -> [Table -> Table]]
  BY OneRowType DEF IsBatch
<1>2. PICK g \in [0 .. n -> Table] : g[0] = table /\ \A k \in 1 .. n : g[k] = next[k][g[k - 1]]
  <2> HIDE DEF next
  <2>1. Lead(Table, table, n, next)
    BY <1>1, StepByStep
  <2> QED BY <2>1 DEF Lead
<1>3. Made([i \in 1 .. n + 1 |-> g[n + 1 - i]])
  <2> DEFINE f == [i \in 1 .. n + 1 |-> g[n + 1 - i]]
  <2>1. ASSUME NEW i \in 1 .. n + 1
        PROVE  f[i] = IF i = n + 1 THEN table ELSE OneRow(rows[i], f[i + 1])
    <3>1. CASE i = n + 1
      BY <1>2, <3>1
    <3>2. CASE i # n + 1
      <4> DEFINE k == n + 1 - i
      <4>1. k \in 1 .. n /\ k - 1 \in 0 .. n /\ n + 1 - k = i /\ n + 1 - (i + 1) = k - 1
            /\ i + 1 \in 1 .. n + 1
        BY <3>2
      <4>2. g[k] = next[k][g[k - 1]]
        BY <1>2, <4>1
      <4>3. g[k] = OneRow(rows[i], g[k - 1])
        BY <4>1, <4>2
      <4> HIDE DEF k
      <4>4. f[i] = g[k] /\ f[i + 1] = g[k - 1]
        BY <4>1 DEF k
      <4> QED BY <3>2, <4>3, <4>4
    <3> QED BY <3>1, <3>2
  <2> QED BY <2>1
<1>4. Made(CHOOSE f : Made(f))
  BY <1>3
<1>5. RowByRow(rows, table) = (CHOOSE f : Made(f))[1]
  BY DEF RowByRow
<1> QED BY <1>4, <1>5

\* They make a table.
LEMMA RowByRowType ==
    ASSUME NEW rows, NEW n \in Nat, DOMAIN rows = 1 .. n, Len(rows) = n, IsBatch(rows),
           NEW table \in Table
    PROVE  RowByRow(rows, table) \in Table
<1>1. PICK f : /\ f = [i \in 1 .. n + 1 |->
                          IF i = n + 1 THEN table ELSE OneRow(rows[i], f[i + 1])]
               /\ RowByRow(rows, table) = f[1]
  BY RowByRowSteps
<1>2. f[n + 1] = table /\ \A i \in 1 .. n : f[i] = OneRow(rows[i], f[i + 1])
  BY <1>1
<1> DEFINE S == {k \in Nat : k <= n => f[n + 1 - k] \in Table}
<1>3. 0 \in S
  BY <1>2
<1>4. ASSUME NEW k \in Nat, k \in S PROVE k + 1 \in S
  <2> SUFFICES ASSUME k + 1 <= n PROVE f[n + 1 - (k + 1)] \in Table
    OBVIOUS
  <2> DEFINE m == n + 1 - (k + 1)
  <2>1. m \in 1 .. n /\ m + 1 = n + 1 - k /\ k <= n
    OBVIOUS
  <2>2. f[m + 1] \in Table /\ f[m] = OneRow(rows[m], f[m + 1])
    BY <1>2, <1>4, <2>1
  <2> HIDE DEF m
  <2>3. f[m] \in Table
    BY <2>1, <2>2, OneRowType DEF IsBatch
  <2> QED BY <2>3 DEF m
<1> HIDE DEF S
<1>5. n \in S
  BY <1>3, <1>4, Induction
<1>6. n + 1 - n = 1
  OBVIOUS
<1> QED BY <1>1, <1>5, <1>6 DEF S

\* The row of a batch names r and sets column c.
Hits(row, r, c) == c \in DOMAIN row.set /\ \A k \in DOMAIN row.key : r[k] = row.key[k]

\* Rows m to n of a batch have made u of table: of those that hit a column the
\* first gives its value.
Given(rows, m, n, table, u) ==
    /\ u \in Table
    /\ \A id \in Ids :
          IF table[id] = NoRow THEN u[id] = NoRow
          ELSE /\ u[id] \in Row
               /\ \A c \in Columns :
                     \/ /\ u[id][c] = table[id][c]
                        /\ \A i \in m .. n : ~Hits(rows[i], table[id], c)
                     \/ \E i \in m .. n :
                           /\ Hits(rows[i], table[id], c)
                           /\ u[id][c] = rows[i].set[c]
                           /\ \A j \in m .. i - 1 : ~Hits(rows[j], table[id], c)

\* One row more, before the others.
LEMMA GivenBefore ==
    ASSUME NEW rows, NEW m \in Nat \ {0}, NEW n \in Nat, m <= n, NEW table \in Table, NEW u,
           NEW K \in SUBSET Columns,
           DOMAIN rows[m].key = K, DOMAIN rows[m].set \cap K = {},
           \A i \in m .. n : DOMAIN rows[i].set \cap K = {},
           \A c \in DOMAIN rows[m].set \cap Columns : rows[m].set[c] \in Values,
           Given(rows, m + 1, n, table, u)
    PROVE  Given(rows, m, n, table, OneRow(rows[m], u))
<1> DEFINE v == OneRow(rows[m], u)
<1>1. u \in Table /\ v \in Table
  BY OneRowType DEF Given
<1>2. ASSUME NEW id \in Ids, table[id] = NoRow PROVE v[id] = NoRow
  BY <1>2 DEF Given, OneRow
<1>3. ASSUME NEW id \in Ids, table[id] # NoRow
      PROVE  /\ v[id] \in Row
             /\ \A c \in Columns :
                   \/ /\ v[id][c] = table[id][c]
                      /\ \A i \in m .. n : ~Hits(rows[i], table[id], c)
                   \/ \E i \in m .. n :
                         /\ Hits(rows[i], table[id], c)
                         /\ v[id][c] = rows[i].set[c]
                         /\ \A j \in m .. i - 1 : ~Hits(rows[j], table[id], c)
  <2>1. /\ u[id] \in Row /\ u[id] # NoRow
        /\ \A c \in Columns :
              \/ /\ u[id][c] = table[id][c]
                 /\ \A i \in m + 1 .. n : ~Hits(rows[i], table[id], c)
              \/ \E i \in m + 1 .. n :
                    /\ Hits(rows[i], table[id], c)
                    /\ u[id][c] = rows[i].set[c]
                    /\ \A j \in m + 1 .. i - 1 : ~Hits(rows[j], table[id], c)
    BY <1>3, NoRowAssumption DEF Given
  <2>2. \A k \in K : u[id][k] = table[id][k]
    BY <2>1 DEF Hits
  <2>3. (\A k \in K : u[id][k] = rows[m].key[k]) <=> (\A k \in K : table[id][k] = rows[m].key[k])
    BY <2>2
  <2>4. ASSUME NEW c \in Columns
        PROVE  v[id][c] = IF Hits(rows[m], table[id], c) THEN rows[m].set[c] ELSE u[id][c]
    BY <2>1, <2>3 DEF OneRow, Hits
  <2>5. v[id] \in Row
    <3>1. v[id] # NoRow
      BY <2>1, NoRowAssumption DEF OneRow, Row
    <3> QED BY <1>1, <3>1 DEF Table
  <2>6. ASSUME NEW c \in Columns
        PROVE  \/ /\ v[id][c] = table[id][c]
                  /\ \A i \in m .. n : ~Hits(rows[i], table[id], c)
               \/ \E i \in m .. n :
                     /\ Hits(rows[i], table[id], c)
                     /\ v[id][c] = rows[i].set[c]
                     /\ \A j \in m .. i - 1 : ~Hits(rows[j], table[id], c)
    <3> HIDE DEF v
    <3>1. CASE Hits(rows[m], table[id], c)
      <4>1. m \in m .. n /\ v[id][c] = rows[m].set[c] /\ m .. m - 1 = {}
        BY <2>4, <3>1
      <4> QED BY <3>1, <4>1
    <3>2. CASE ~Hits(rows[m], table[id], c)
      <4>1. v[id][c] = u[id][c]
        BY <2>4, <3>2
      <4>2. CASE /\ u[id][c] = table[id][c]
                 /\ \A i \in m + 1 .. n : ~Hits(rows[i], table[id], c)
        <5>1. \A i \in m .. n : i = m \/ i \in m + 1 .. n
          OBVIOUS
        <5> QED BY <3>2, <4>1, <4>2, <5>1
      <4>3. CASE \E i \in m + 1 .. n :
                    /\ Hits(rows[i], table[id], c)
                    /\ u[id][c] = rows[i].set[c]
                    /\ \A j \in m + 1 .. i - 1 : ~Hits(rows[j], table[id], c)
        <5>1. PICK i \in m + 1 .. n :
                    /\ Hits(rows[i], table[id], c)
                    /\ u[id][c] = rows[i].set[c]
                    /\ \A j \in m + 1 .. i - 1 : ~Hits(rows[j], table[id], c)
          BY <4>3
        <5>2. i \in m .. n /\ \A j \in m .. i - 1 : j = m \/ j \in m + 1 .. i - 1
          OBVIOUS
        <5>3. \A j \in m .. i - 1 : ~Hits(rows[j], table[id], c)
          BY <3>2, <5>1, <5>2
        <5> QED BY <4>1, <5>1, <5>2, <5>3
      <4> QED BY <2>1, <4>2, <4>3
    <3> QED BY <3>1, <3>2
  <2> QED BY <2>5, <2>6
<1> HIDE DEF v
<1>4. Given(rows, m, n, table, v)
  BY <1>1, <1>2, <1>3 DEF Given
<1> QED BY <1>4 DEF v

\* What the rows of a batch make one by one.
LEMMA RowByRowGives ==
    ASSUME NEW rows, NEW n \in Nat, DOMAIN rows = 1 .. n, Len(rows) = n, IsBatch(rows),
           NEW table \in Table, NEW K \in SUBSET Columns,
           \A i \in 1 .. n : DOMAIN rows[i].key = K /\ DOMAIN rows[i].set \cap K = {}
    PROVE  Given(rows, 1, n, table, RowByRow(rows, table))
<1>1. PICK f : /\ f = [i \in 1 .. n + 1 |->
                          IF i = n + 1 THEN table ELSE OneRow(rows[i], f[i + 1])]
               /\ RowByRow(rows, table) = f[1]
  BY RowByRowSteps
<1>2. f[n + 1] = table /\ \A i \in 1 .. n : f[i] = OneRow(rows[i], f[i + 1])
  BY <1>1
<1> DEFINE S == {k \in Nat : k <= n => Given(rows, n + 1 - k, n, table, f[n + 1 - k])}
<1>3. 0 \in S
  <2>1. n + 1 - 0 = n + 1 /\ n + 1 .. n = {}
    OBVIOUS
  <2>2. Given(rows, n + 1, n, table, table)
    BY <2>1 DEF Given, Table
  <2> QED BY <1>2, <2>1, <2>2
<1>4. ASSUME NEW k \in Nat, k \in S PROVE k + 1 \in S
  <2> SUFFICES ASSUME k + 1 <= n
               PROVE  Given(rows, n + 1 - (k + 1), n, table, f[n + 1 - (k + 1)])
    OBVIOUS
  <2> DEFINE m == n + 1 - (k + 1)
  <2>1. m \in 1 .. n /\ m + 1 = n + 1 - k /\ k <= n /\ m \in Nat \ {0} /\ m <= n
    OBVIOUS
  <2>2. Given(rows, m + 1, n, table, f[m + 1])
    BY <1>4, <2>1
  <2>3. f[m] = OneRow(rows[m], f[m + 1])
    BY <1>2, <2>1
  <2> HIDE DEF m
  <2>4. /\ \A i \in m .. n : DOMAIN rows[i].set \cap K = {}
        /\ DOMAIN rows[m].key = K /\ DOMAIN rows[m].set \cap K = {}
        /\ \A c \in DOMAIN rows[m].set \cap Columns : rows[m].set[c] \in Values
    BY <2>1 DEF IsBatch
  <2>5. Given(rows, m, n, table, f[m])
    BY <2>1, <2>2, <2>3, <2>4, GivenBefore
  <2> QED BY <2>5 DEF m
<1> HIDE DEF S
<1>5. n \in S
  BY <1>3, <1>4, Induction
<1>6. n + 1 - n = 1
  OBVIOUS
<1> QED BY <1>1, <1>5, <1>6 DEF S
\* There is one such table.
LEMMA GivenOnce ==
    ASSUME NEW rows, NEW m \in Nat, NEW n \in Nat, NEW table \in Table, NEW u, NEW v,
           Given(rows, m, n, table, u), Given(rows, m, n, table, v)
    PROVE  u = v
<1>1. ASSUME NEW id \in Ids, table[id] # NoRow, NEW c \in Columns PROVE u[id][c] = v[id][c]
  <2>1. CASE \A i \in m .. n : ~Hits(rows[i], table[id], c)
    BY <1>1, <2>1 DEF Given
  <2>2. CASE \E i \in m .. n : Hits(rows[i], table[id], c)
    <3>1. PICK i \in m .. n : /\ Hits(rows[i], table[id], c)
                              /\ u[id][c] = rows[i].set[c]
                              /\ \A j \in m .. i - 1 : ~Hits(rows[j], table[id], c)
      BY <1>1, <2>2 DEF Given
    <3>2. PICK k \in m .. n : /\ Hits(rows[k], table[id], c)
                              /\ v[id][c] = rows[k].set[c]
                              /\ \A j \in m .. k - 1 : ~Hits(rows[j], table[id], c)
      BY <1>1, <2>2 DEF Given
    <3>3. i = k
      <4>1. ~(i \in m .. k - 1) /\ ~(k \in m .. i - 1)
        BY <3>1, <3>2
      <4> QED BY <4>1
    <3> QED BY <3>1, <3>2, <3>3
  <2> QED BY <2>1, <2>2
<1>2. ASSUME NEW id \in Ids PROVE u[id] = v[id]
  <2>1. CASE table[id] = NoRow
    BY <2>1 DEF Given
  <2>2. CASE table[id] # NoRow
    <3>1. u[id] \in Row /\ v[id] \in Row
      BY <2>2 DEF Given
    <3>2. \A c \in Columns : u[id][c] = v[id][c]
      BY <1>1, <2>2
    <3> QED BY <3>1, <3>2 DEF Row
  <2> QED BY <2>1, <2>2
<1>3. u \in Table /\ v \in Table
  BY DEF Given
<1> QED BY <1>2, <1>3 DEF Table

\* What one statement of BatchUpdate makes.
LEMMA ChunkGives ==
    ASSUME NEW rows, NEW n \in Nat \ {0}, DOMAIN rows = 1 .. n, IsBatch(rows), Plain(rows),
           KeyColumns(rows) \subseteq Columns, NEW table \in Table
    PROVE  Given(rows, 1, n, table, BatchChunk(rows, table))
<1> DEFINE u == BatchChunk(rows, table)
<1>1. ASSUME NEW id \in Ids, table[id] = NoRow PROVE u[id] = NoRow
  BY <1>1 DEF BatchChunk
<1>2. ASSUME NEW id \in Ids, table[id] # NoRow PROVE u[id] \in Row
  BY <1>2, ChunkMakesRows
<1>3. u \in Table
  <2>1. \A id \in Ids : u[id] \in Row \cup {NoRow}
    BY <1>1, <1>2
  <2> QED BY <2>1 DEF BatchChunk, Table
<1>4. ASSUME NEW r, NEW c, NEW i \in 1 .. n PROVE i \in Whens(rows, c, r) <=> Hits(rows[i], r, c)
  BY DEF Whens, Names, Hits, Plain
<1>5. ASSUME NEW id \in Ids, table[id] # NoRow, NEW c \in Columns
      PROVE  \/ /\ u[id][c] = table[id][c]
                /\ \A i \in 1 .. n : ~Hits(rows[i], table[id], c)
             \/ \E i \in 1 .. n :
                   /\ Hits(rows[i], table[id], c)
                   /\ u[id][c] = rows[i].set[c]
                   /\ \A j \in 1 .. i - 1 : ~Hits(rows[j], table[id], c)
  <2> DEFINE r == table[id]
             W == Whens(rows, c, r)
  <2>1. r \in Row
    BY <1>5 DEF Table
  <2>2. CASE W = {}
    <3>1. \A i \in 1 .. n : ~Hits(rows[i], r, c)
      BY <1>4, <2>2
    <3>2. u[id][c] = r[c]
      BY <1>5, <2>2 DEF BatchChunk, Case
    <3> QED BY <3>1, <3>2
  <2>3. CASE W # {}
    <3>1. W \in SUBSET (1 .. n)
      BY DEF Whens
    <3>2. Min(W) \in W /\ \A y \in W : Min(W) =< y
      <4> HIDE DEF W
      <4> QED BY <2>3, <3>1, MinIn
    <3>3. \E i \in DOMAIN rows : Names(rows, i, r)
      BY <2>3 DEF Whens
    <3>4. u[id][c] = rows[Min(W)].set[c]
      BY <1>5, <2>3, <3>3 DEF BatchChunk, Case
    <3> DEFINE i == Min(W)
    <3>5. i \in W /\ i \in 1 .. n /\ \A y \in W : i =< y
      BY <3>1, <3>2
    <3>6. u[id][c] = rows[i].set[c]
      BY <3>4
    <3> HIDE DEF i, W
    <3>7. Hits(rows[i], r, c) /\ \A j \in 1 .. i - 1 : ~Hits(rows[j], r, c)
      <4>1. \A j \in 1 .. i - 1 : j \in 1 .. n /\ ~(i =< j)
        BY <3>5
      <4>2. \A j \in 1 .. n : j \in W <=> Hits(rows[j], r, c)
        BY <1>4 DEF W
      <4> QED BY <3>5, <4>1, <4>2
    <3> QED BY <3>5, <3>6, <3>7
  <2> QED BY <2>2, <2>3
<1> HIDE DEF u
<1>6. Given(rows, 1, n, table, u)
  BY <1>1, <1>2, <1>3, <1>5 DEF Given
<1> QED BY <1>6 DEF u

\* One UPDATE with CASE does what the rows of its chunk ask for one by one, if
\* they have the same key columns and set others (batchChunk).
THEOREM ChunkIsRowByRow ==
    ASSUME NEW rows, NEW n \in Nat \ {0}, DOMAIN rows = 1 .. n, Len(rows) = n, IsBatch(rows),
           Plain(rows), KeyColumns(rows) \subseteq Columns, NEW table \in Table
    PROVE  BatchChunk(rows, table) = RowByRow(rows, table)
<1>1. Given(rows, 1, n, table, BatchChunk(rows, table))
  BY ChunkGives
<1>2. \A i \in 1 .. n : /\ DOMAIN rows[i].key = KeyColumns(rows)
                        /\ DOMAIN rows[i].set \cap KeyColumns(rows) = {}
  BY DEF Plain, SetColumns
<1>3. Given(rows, 1, n, table, RowByRow(rows, table))
  BY <1>2, RowByRowGives
<1> QED BY <1>1, <1>3, GivenOnce

\* Rows that set nothing make nothing.
LEMMA NothingSet ==
    ASSUME NEW rows, NEW n \in Nat, DOMAIN rows = 1 .. n, Len(rows) = n, IsBatch(rows),
           SetColumns(rows) = {}, NEW table \in Table
    PROVE  RowByRow(rows, table) = table
<1>1. PICK f : /\ f = [i \in 1 .. n + 1 |->
                          IF i = n + 1 THEN table ELSE OneRow(rows[i], f[i + 1])]
               /\ RowByRow(rows, table) = f[1]
  BY RowByRowSteps
<1>2. f[n + 1] = table /\ \A i \in 1 .. n : f[i] = OneRow(rows[i], f[i + 1])
  BY <1>1
<1>3. ASSUME NEW i \in 1 .. n PROVE OneRow(rows[i], table) = table
  <2>1. DOMAIN rows[i].set = {}
    BY DEF SetColumns
  <2>2. \A id \in Ids : table[id] # NoRow => [c \in Columns |-> table[id][c]] = table[id]
    BY DEF Table, Row
  <2>3. \A id \in Ids : OneRow(rows[i], table)[id] = table[id]
    BY <2>1, <2>2 DEF OneRow
  <2> QED BY <2>3 DEF OneRow, Table
<1> DEFINE S == {k \in Nat : k <= n => f[n + 1 - k] = table}
<1>4. 0 \in S
  BY <1>2
<1>5. ASSUME NEW k \in Nat, k \in S PROVE k + 1 \in S
  <2> SUFFICES ASSUME k + 1 <= n PROVE f[n + 1 - (k + 1)] = table
    OBVIOUS
  <2> DEFINE m == n + 1 - (k + 1)
  <2>1. m \in 1 .. n /\ m + 1 = n + 1 - k /\ k <= n
    OBVIOUS
  <2>2. f[m + 1] = table
    BY <1>5, <2>1
  <2> HIDE DEF m
  <2>3. f[m] = table
    BY <1>2, <1>3, <2>1, <2>2
  <2> QED BY <2>3 DEF m
<1> HIDE DEF S
<1>6. n \in S
  BY <1>4, <1>5, Induction
<1>7. n + 1 - n = 1
  OBVIOUS
<1> QED BY <1>1, <1>6, <1>7 DEF S

\* A chunk goes on from the rows before it, if no two rows have the same key.
LEMMA GivenOnward ==
    ASSUME NEW rows, NEW chunk, NEW m \in Nat, NEW p \in Nat,
           \A i \in 1 .. p : chunk[i] = rows[m + i],
           NEW K \in SUBSET Columns,
           \A i \in 1 .. m + p : /\ rows[i].key \in [K -> Values]
                                 /\ DOMAIN rows[i].set \cap K = {},
           \A i, j \in 1 .. m + p : rows[i].key = rows[j].key => i = j,
           NEW table \in Table, NEW u, NEW w,
           Given(rows, 1, m, table, u), Given(chunk, 1, p, u, w)
    PROVE  Given(rows, 1, m + p, table, w)
<1>1. u \in Table /\ w \in Table
  BY DEF Given
<1>2. ASSUME NEW id \in Ids, table[id] = NoRow PROVE w[id] = NoRow
  BY <1>2 DEF Given
<1>3. ASSUME NEW id \in Ids, table[id] # NoRow
      PROVE  /\ w[id] \in Row
             /\ \A c \in Columns :
                   \/ /\ w[id][c] = table[id][c]
                      /\ \A i \in 1 .. m + p : ~Hits(rows[i], table[id], c)
                   \/ \E i \in 1 .. m + p :
                         /\ Hits(rows[i], table[id], c)
                         /\ w[id][c] = rows[i].set[c]
                         /\ \A j \in 1 .. i - 1 : ~Hits(rows[j], table[id], c)
  <2>1. u[id] # NoRow /\ w[id] \in Row
    BY <1>3, NoRowAssumption DEF Given
  <2>2. ASSUME NEW c \in Columns
        PROVE  \/ /\ u[id][c] = table[id][c]
                  /\ \A i \in 1 .. m : ~Hits(rows[i], table[id], c)
               \/ \E i \in 1 .. m :
                     /\ Hits(rows[i], table[id], c)
                     /\ u[id][c] = rows[i].set[c]
                     /\ \A j \in 1 .. i - 1 : ~Hits(rows[j], table[id], c)
    BY <1>3 DEF Given
  <2>3. ASSUME NEW c \in Columns
        PROVE  \/ /\ w[id][c] = u[id][c]
                  /\ \A i \in 1 .. p : ~Hits(chunk[i], u[id], c)
               \/ \E i \in 1 .. p :
                     /\ Hits(chunk[i], u[id], c)
                     /\ w[id][c] = chunk[i].set[c]
    BY <2>1 DEF Given
  <2>4. \A k \in K : u[id][k] = table[id][k]
    <3> SUFFICES ASSUME NEW k \in K PROVE u[id][k] = table[id][k]
      OBVIOUS
    <3>1. \A i \in 1 .. m : k \notin DOMAIN rows[i].set
      OBVIOUS
    <3> QED BY <2>2, <3>1 DEF Hits
  <2>5. ASSUME NEW i \in 1 .. p, NEW c \in Columns
        PROVE  Hits(chunk[i], u[id], c) <=> Hits(rows[m + i], table[id], c)
    <3>1. m + i \in 1 .. m + p /\ chunk[i] = rows[m + i]
      OBVIOUS
    <3>2. DOMAIN rows[m + i].key = K
      BY <3>1
    <3> QED BY <2>4, <3>1, <3>2 DEF Hits
  <2>6. ASSUME NEW i \in 1 .. m + p, NEW j \in 1 .. m + p, NEW c \in Columns,
               Hits(rows[i], table[id], c), Hits(rows[j], table[id], c)
        PROVE  i = j
    <3>1. rows[i].key \in [K -> Values] /\ rows[j].key \in [K -> Values]
      OBVIOUS
    <3>2. \A k \in K : rows[i].key[k] = rows[j].key[k]
      BY <2>6, <3>1 DEF Hits
    <3>3. rows[i].key = rows[j].key
      BY <3>1, <3>2
    <3> QED BY <3>3
  <2>7. ASSUME NEW c \in Columns
        PROVE  \/ /\ w[id][c] = table[id][c]
                  /\ \A i \in 1 .. m + p : ~Hits(rows[i], table[id], c)
               \/ \E i \in 1 .. m + p :
                     /\ Hits(rows[i], table[id], c)
                     /\ w[id][c] = rows[i].set[c]
                     /\ \A j \in 1 .. i - 1 : ~Hits(rows[j], table[id], c)
    <3>1. CASE \E i \in 1 .. p : Hits(chunk[i], u[id], c) /\ w[id][c] = chunk[i].set[c]
      <4>1. PICK i \in 1 .. p : Hits(chunk[i], u[id], c) /\ w[id][c] = chunk[i].set[c]
        BY <3>1
      <4> DEFINE k == m + i
      <4>2. k \in 1 .. m + p /\ Hits(rows[k], table[id], c) /\ w[id][c] = rows[k].set[c]
        BY <2>5, <4>1
      <4> HIDE DEF k
      <4>3. \A j \in 1 .. k - 1 : j \in 1 .. m + p /\ j # k
        BY <4>2
      <4>4. \A j \in 1 .. k - 1 : ~Hits(rows[j], table[id], c)
        BY <2>6, <4>2, <4>3
      <4> QED BY <4>2, <4>4
    <3>2. CASE w[id][c] = u[id][c] /\ \A i \in 1 .. p : ~Hits(chunk[i], u[id], c)
      <4>1. ASSUME NEW i \in 1 .. m + p PROVE i \in 1 .. m \/ (i - m \in 1 .. p /\ i = m + (i - m))
        OBVIOUS
      <4>2. \A i \in 1 .. m + p : i \in 1 .. m \/ ~Hits(rows[i], table[id], c)
        BY <2>5, <3>2, <4>1
      <4>3. 1 .. m \subseteq 1 .. m + p
        OBVIOUS
      <4> QED BY <2>2, <3>2, <4>2, <4>3
    <3> QED BY <2>3, <3>1, <3>2
  <2> QED BY <2>1, <2>7
<1> QED BY <1>1, <1>2, <1>3 DEF Given

-------------------------------------------------------------------------------
(* Statements and what they make of a table. *)

\* A statement of a work: one chunk.
IsStep(s) ==
    /\ s.kind \in {"batch", "save", "upsert", "lock"}
    /\ Len(s.items) \in Nat \ {0}
    /\ DOMAIN s.items = 1 .. Len(s.items)
    /\ s.kind = "batch" => IsBatch(s.items)

\* PlainRows, of one statement.
PlainStep(s) == s.kind = "batch" => IsRefused(s) \/ Plain(s.items)

LEMMA SavedType ==
    ASSUME NEW entities, NEW t \in Table PROVE Saved(entities, t) \in Table
BY CallAssumption DEF Saved, Table

\* Statements make tables of tables.
LEMMA EffectType ==
    ASSUME NEW s, IsStep(s), NEW t \in Table
    PROVE  Effect(s, t) \in Table /\ Asked(t, s) \in Table
<1>1. CASE s.kind = "batch"
  <2>1. BatchChunk(s.items, t) \in Table
    <3>1. \A id \in Ids : BatchChunk(s.items, t)[id] \in Row \cup {NoRow}
      <4> SUFFICES ASSUME NEW id \in Ids PROVE BatchChunk(s.items, t)[id] \in Row \cup {NoRow}
        OBVIOUS
      <4>1. CASE t[id] = NoRow
        BY <4>1 DEF BatchChunk
      <4>2. CASE t[id] # NoRow
        BY <1>1, <4>2, ChunkMakesRows DEF IsStep
      <4> QED BY <4>1, <4>2
    <3> QED BY <3>1 DEF BatchChunk, Table
  <2>2. RowByRow(s.items, t) \in Table
    BY <1>1, RowByRowType DEF IsStep
  <2> QED BY <1>1, <2>1, <2>2 DEF Effect, Asked
<1>2. CASE s.kind # "batch"
  BY <1>2, SavedType DEF Effect, Asked, IsRefused
<1> QED BY <1>1, <1>2

\* A statement that is sent does what it is asked to.
LEMMA EffectIsAsked ==
    ASSUME NEW s, IsStep(s), PlainStep(s), IsSent(s), NEW t \in Table
    PROVE  Effect(s, t) = Asked(t, s)
<1>1. ~IsRefused(s)
  BY DEF IsSent
<1>2. CASE s.kind = "batch"
  <2>1. Plain(s.items) /\ KeyColumns(s.items) \subseteq Columns
    BY <1>1, <1>2 DEF PlainStep, IsRefused, Refused
  <2>2. BatchChunk(s.items, t) = RowByRow(s.items, t)
    BY <1>2, <2>1, ChunkIsRowByRow DEF IsStep
  <2> QED BY <1>1, <1>2, <2>2 DEF Effect, Asked
<1> QED BY <1>1, <1>2 DEF Asked

\* Run twice, as after an answer that was lost, it makes the same.
LEMMA EffectTwice ==
    ASSUME NEW s, IsStep(s), PlainStep(s), IsSent(s), NEW t \in Table
    PROVE  Effect(s, Effect(s, t)) = Effect(s, t)
<1>1. CASE s.kind = "batch"
  <2>1. Plain(s.items) /\ KeyColumns(s.items) \subseteq Columns
    BY <1>1 DEF PlainStep, IsSent, IsRefused, Refused
  <2>2. IsBatch(s.items) /\ SetColumns(s.items) \cap KeyColumns(s.items) = {}
    BY <1>1, <2>1 DEF IsStep, Plain
  <2> QED BY <1>1, <2>1, <2>2, ChunkTwice DEF Effect
<1>2. CASE s.kind = "lock"
  BY <1>2 DEF Effect
<1>3. CASE s.kind \notin {"batch", "lock"}
  <2>1. Effect(s, t) = Saved(s.items, t)
    BY <1>3 DEF Effect
  <2>2. Effect(s, Effect(s, t)) = Saved(s.items, Saved(s.items, t))
    BY <1>3 DEF Effect
  <2>3. \A id \in Ids : Saved(s.items, Saved(s.items, t))[id] = Saved(s.items, t)[id]
    BY DEF Saved
  <2>4. Saved(s.items, Saved(s.items, t)) = Saved(s.items, t)
    BY <2>3 DEF Saved
  <2> QED BY <2>1, <2>2, <2>4
<1> QED BY <1>1, <1>2, <1>3

\* One that is left out is asked for nothing.
LEMMA SkippedAsksNothing ==
    ASSUME NEW s, IsStep(s), IsSkipped(s), NEW t \in Table
    PROVE  Asked(t, s) = t
<1>1. s.kind = "batch" /\ SetColumns(s.items) = {} /\ ~IsRefused(s)
  BY DEF IsSkipped
<1>2. RowByRow(s.items, t) = t
  BY <1>1, NothingSet DEF IsStep
<1> QED BY <1>1, <1>2 DEF Asked

-------------------------------------------------------------------------------
(* The statements of a work. *)

\* PlainRows, of one call.
PlainCall(call) ==
    call.kind = "batch" =>
        \A chunk \in Range(Chunks(call.items, BatchSize)) : Refused(chunk) \/ Plain(chunk)

LEMMA StepsOfGood ==
    ASSUME NEW call, IsCall(call), NEW server
    PROVE  /\ StepsOf(call, server) \in Seq(Range(StepsOf(call, server)))
           /\ \A s \in Range(StepsOf(call, server)) : IsStep(s) /\ (PlainCall(call) => PlainStep(s))
<1> DEFINE n == Size(call, server)
           items == call.items
           chunks == Chunks(items, n)
           ss == StepsOf(call, server)
           r == (Len(items) + n - 1) \div n
<1>1. n \in Nat \ {0} /\ items \in Seq(Range(items)) /\ Len(items) \in Nat
  BY SizeAssumption DEF Size, IsCall
<1>2. call.kind = "batch" => n = BatchSize
  BY DEF Size
<1>3. r \in Nat
  <2> HIDE DEF n, items
  <2> QED BY <1>1, DivMod
<1>4. DOMAIN chunks = 1 .. r
  BY DEF Chunks
<1>5. ss = [k \in DOMAIN chunks |-> [kind |-> Kind(call), items |-> chunks[k]]]
  BY DEF StepsOf
<1> HIDE DEF n, r, chunks, ss
<1>6. ss \in Seq(Range(ss))
  <2>1. \A k \in 1 .. r : ss[k] \in Range(ss)
    BY <1>4, <1>5 DEF Range
  <2>2. ss = [k \in 1 .. r |-> ss[k]]
    BY <1>4, <1>5
  <2> QED BY <1>3, <2>1, <2>2
<1>7. ASSUME NEW k \in DOMAIN chunks PROVE IsStep(ss[k]) /\ (PlainCall(call) => PlainStep(ss[k]))
  <2> DEFINE chunk == chunks[k]
  <2>1. Len(chunk) \in 1 .. n /\ chunk \in Seq(Range(items))
    <3>1. k \in DOMAIN Chunks(items, n)
      BY DEF chunks
    <3>2. CutAt(Range(items), items, n, k)
      BY <1>1, <3>1, OneChunk
    <3> QED BY <3>2 DEF CutAt, chunks
  <2>2. ss[k].kind = Kind(call) /\ ss[k].items = chunk
    BY <1>5
  <2>3. Kind(call) \in {"batch", "save", "upsert", "lock"} /\ (Kind(call) = "batch" <=> call.kind = "batch")
    BY DEF Kind, IsCall
  <2> HIDE DEF chunk
  <2>4. Len(chunk) \in Nat \ {0} /\ DOMAIN chunk = 1 .. Len(chunk)
    BY <1>1, <2>1
  <2>5. ASSUME call.kind = "batch" PROVE IsBatch(chunk)
    <3>1. IsBatch(items)
      BY <2>5 DEF IsCall
    <3>2. \A i \in DOMAIN chunk : \E j \in DOMAIN items : chunk[i] = items[j]
      BY <2>1 DEF Range
    <3> QED BY <2>4, <3>1, <3>2 DEF IsBatch
  <2>6. ASSUME call.kind = "batch", PlainCall(call) PROVE Refused(chunk) \/ Plain(chunk)
    <3>1. chunk \in Range(Chunks(items, BatchSize))
      BY <1>2, <2>6 DEF chunk, chunks, Range
    <3> QED BY <2>6, <3>1 DEF PlainCall
  <2>7. IsStep(ss[k])
    BY <2>2, <2>3, <2>4, <2>5 DEF IsStep
  <2>8. PlainCall(call) => PlainStep(ss[k])
    BY <2>2, <2>3, <2>6 DEF PlainStep, IsRefused
  <2> QED BY <2>7, <2>8
<1>8. \A s \in Range(ss) : \E k \in DOMAIN chunks : s = ss[k]
  BY <1>5 DEF Range
<1> QED BY <1>6, <1>7, <1>8 DEF ss

StepSet(calls, server) == UNION {Range(StepsOf(calls[i], server)) : i \in DOMAIN calls}

LEMMA StepsGood ==
    ASSUME NEW calls, NEW n \in Nat, DOMAIN calls = 1 .. n, Len(calls) = n, NEW server,
           \A i \in 1 .. n : IsCall(calls[i])
    PROVE  /\ Steps(calls, server) \in Seq(StepSet(calls, server))
           /\ \A s \in StepSet(calls, server) : IsStep(s)
           /\ (\A i \in 1 .. n : PlainCall(calls[i])) => \A s \in StepSet(calls, server) : PlainStep(s)
<1> DEFINE seqs == [i \in DOMAIN calls |-> StepsOf(calls[i], server)]
           X == StepSet(calls, server)
<1>1. \A s \in X : \E i \in 1 .. n : s \in Range(StepsOf(calls[i], server))
  BY DEF StepSet
<1>2. \A s \in X : IsStep(s)
  BY <1>1, StepsOfGood
<1>3. (\A i \in 1 .. n : PlainCall(calls[i])) => \A s \in X : PlainStep(s)
  BY <1>1, StepsOfGood
<1>4. \A i \in 1 .. n : Range(StepsOf(calls[i], server)) \subseteq X
  BY DEF StepSet
<1>5. \A i \in 1 .. n : seqs[i] \in Seq(X)
  <2> HIDE DEF X
  <2>1. ASSUME NEW i \in 1 .. n PROVE StepsOf(calls[i], server) \in Seq(X)
    <3>1. StepsOf(calls[i], server) \in Seq(Range(StepsOf(calls[i], server)))
      BY StepsOfGood
    <3>2. Range(StepsOf(calls[i], server)) \subseteq X
      BY <1>4
    <3> QED BY <3>1, <3>2
  <2> QED BY <2>1
<1>6. seqs = [i \in 1 .. n |-> seqs[i]]
  OBVIOUS
<1>7. Steps(calls, server) = FlattenSeq(seqs)
  BY DEF Steps
<1> HIDE DEF seqs, X
<1>8. Len(seqs) = n
  BY <1>6
<1>9. Steps(calls, server) \in Seq(X)
  <2>1. CASE n = 0
    <3>1. FlattenSeq(seqs) = seqs
      BY <1>8, <2>1 DEF FlattenSeq
    <3>2. seqs \in Seq(X)
      BY <1>6, <2>1
    <3> QED BY <1>7, <3>1, <3>2
  <2>2. CASE n # 0
    <3>1. Joined(X, n, seqs)
      BY <1>5, <1>8, <2>2, FlattenSteps
    <3> QED BY <1>7, <2>2, <3>1 DEF Joined
  <2> QED BY <2>1, <2>2
<1> QED BY <1>2, <1>3, <1>9 DEF X

-------------------------------------------------------------------------------
(* The path of a work. *)

\* Each table on a path is what the next statement makes of the one before.
Goes(ss, t) ==
    /\ Path(ss, t) \in [1 .. Len(ss) + 1 -> Table]
    /\ Path(ss, t) \in Seq(Table) /\ Len(Path(ss, t)) = Len(ss) + 1
    /\ Path(ss, t)[1] = t
    /\ \A k \in 1 .. Len(ss) : Path(ss, t)[k + 1] = Asked(Path(ss, t)[k], ss[k])

LEMMA PathSteps ==
    ASSUME NEW ss, Len(ss) \in Nat, \A k \in 1 .. Len(ss) : IsStep(ss[k]), NEW t \in Table
    PROVE  Goes(ss, t)
<1> DEFINE n == Len(ss)
           next == [k \in 1 .. n |-> [u \in Table |-> Asked(u, ss[k])]]
           Made(f) == f = [k \in 1 .. n + 1 |-> IF k = 1 THEN t ELSE Asked(f[k - 1], ss[k - 1])]
<1>1. next \in [1 .. n -> [Table -> Table]]
  BY EffectType
<1>2. PICK g \in [0 .. n -> Table] : g[0] = t /\ \A k \in 1 .. n : g[k] = next[k][g[k - 1]]
  <2> HIDE DEF next
  <2>1. Lead(Table, t, n, next)
    BY <1>1, StepByStep
  <2> QED BY <2>1 DEF Lead
<1>3. Made([k \in 1 .. n + 1 |-> g[k - 1]])
  <2> DEFINE f == [k \in 1 .. n + 1 |-> g[k - 1]]
  <2>1. ASSUME NEW k \in 1 .. n + 1
        PROVE  f[k] = IF k = 1 THEN t ELSE Asked(f[k - 1], ss[k - 1])
    <3>1. CASE k = 1
      BY <1>2, <3>1
    <3>2. CASE k # 1
      <4>1. k - 1 \in 1 .. n /\ k - 1 \in 1 .. n + 1 /\ (k - 1) - 1 \in 0 .. n
        BY <3>2
      <4>2. g[k - 1] = next[k - 1][g[(k - 1) - 1]]
        BY <1>2, <4>1
      <4>3. g[k - 1] = Asked(g[(k - 1) - 1], ss[k - 1])
        BY <4>1, <4>2
      <4> QED BY <3>2, <4>1, <4>3
    <3> QED BY <3>1, <3>2
  <2> QED BY <2>1
<1> DEFINE p == CHOOSE f : Made(f)
<1>4. Made(p)
  BY <1>3
<1>5. Path(ss, t) = p
  BY DEF Path
<1>6. p[1] = t /\ \A k \in 1 .. n : p[k + 1] = Asked(p[k], ss[k])
  <2> HIDE DEF p
  <2>1. 1 \in 1 .. n + 1
    OBVIOUS
  <2>2. p[1] = t
    BY <1>4, <2>1
  <2>3. ASSUME NEW k \in 1 .. n PROVE p[k + 1] = Asked(p[k], ss[k])
    <3>1. k + 1 \in 1 .. n + 1 /\ k + 1 # 1 /\ (k + 1) - 1 = k
      OBVIOUS
    <3> QED BY <1>4, <3>1
  <2> QED BY <2>2, <2>3
<1>7. DOMAIN p = 1 .. n + 1 /\ p = [k \in 1 .. n + 1 |-> p[k]]
  <2> HIDE DEF p
  <2> QED BY <1>4
<1> HIDE DEF p
<1> DEFINE S == {k \in Nat : k <= n => p[k + 1] \in Table}
<1>8. 0 \in S
  BY <1>6
<1>9. ASSUME NEW k \in Nat, k \in S PROVE k + 1 \in S
  <2> SUFFICES ASSUME k + 1 <= n PROVE p[(k + 1) + 1] \in Table
    OBVIOUS
  <2>1. k + 1 \in 1 .. n /\ p[k + 1] \in Table
    BY <1>9
  <2> QED BY <1>6, <2>1, EffectType
<1>10. Nat \subseteq S
  <2> HIDE DEF S
  <2> QED BY <1>8, <1>9, Induction
<1>11. ASSUME NEW k \in 1 .. n + 1 PROVE p[k] \in Table
  <2>1. k - 1 \in Nat /\ k - 1 <= n /\ (k - 1) + 1 = k
    OBVIOUS
  <2>2. k - 1 \in S
    BY <1>10, <2>1
  <2> QED BY <2>1, <2>2
<1>12. p \in [1 .. n + 1 -> Table]
  BY <1>7, <1>11
<1>13. p \in Seq(Table) /\ Len(p) = n + 1
  BY <1>12
<1> QED BY <1>5, <1>6, <1>12, <1>13 DEF Goes

-------------------------------------------------------------------------------
(* What a work makes, however it is cut. *)

\* The table that statements ss lead to.
Result(ss, table) == Path(ss, table)[Len(ss) + 1]

\* In u, made of t, the first m items are saved.
SavedUpTo(items, m, t, u) ==
    \A id \in Ids : u[id] = IF \E i \in 1 .. m : items[i].id = id THEN NewRow ELSE t[id]

\* Entities are saved chunk by chunk.
LEMMA SavedOnward ==
    ASSUME NEW items, NEW chunk, NEW m \in Nat, NEW p \in Nat, DOMAIN chunk = 1 .. p,
           \A i \in 1 .. p : chunk[i] = items[m + i],
           NEW t, NEW u, SavedUpTo(items, m, t, u)
    PROVE  SavedUpTo(items, m + p, t, Saved(chunk, u))
<1> SUFFICES ASSUME NEW id \in Ids
             PROVE  Saved(chunk, u)[id] =
                       IF \E i \in 1 .. m + p : items[i].id = id THEN NewRow ELSE t[id]
  BY DEF SavedUpTo
<1>1. ASSUME NEW i \in 1 .. m + p PROVE i \in 1 .. m \/ (i - m \in 1 .. p /\ m + (i - m) = i)
  OBVIOUS
<1>2. \A i \in 1 .. p : m + i \in 1 .. m + p
  OBVIOUS
<1>3. 1 .. m \subseteq 1 .. m + p
  OBVIOUS
<1>4. (\E i \in 1 .. m + p : items[i].id = id) <=>
         (\E i \in 1 .. m : items[i].id = id) \/ (\E i \in 1 .. p : chunk[i].id = id)
  BY <1>1, <1>2, <1>3
<1>5. Saved(chunk, u)[id] = IF \E i \in 1 .. p : chunk[i].id = id THEN NewRow ELSE u[id]
  BY DEF Saved
<1> QED BY <1>4, <1>5 DEF SavedUpTo

\* The statements of a call and the places of its items in them.
Placed(call, server) ==
    LET ss == StepsOf(call, server)
        Before(k) == UpTo(call.items, Size(call, server), k)
    IN /\ Len(ss) \in Nat /\ DOMAIN ss = 1 .. Len(ss)
       /\ Before(0) = 0 /\ Before(Len(ss)) = Len(call.items)
       /\ \A k \in 0 .. Len(ss) : Before(k) \in 0 .. Len(call.items)
       /\ \A k \in 1 .. Len(ss) :
             /\ IsStep(ss[k]) /\ (PlainCall(call) => PlainStep(ss[k]))
             /\ ss[k].kind = Kind(call)
             /\ Len(ss[k].items) \in Nat \ {0}
             /\ DOMAIN ss[k].items = 1 .. Len(ss[k].items)
             /\ Before(k - 1) + Len(ss[k].items) = Before(k)
             /\ \A i \in 1 .. Len(ss[k].items) : ss[k].items[i] = call.items[Before(k - 1) + i]

LEMMA StepsOfPlaces ==
    ASSUME NEW call, IsCall(call), NEW server PROVE Placed(call, server)
<1> DEFINE n == Size(call, server)
           items == call.items
           chunks == Chunks(items, n)
           ss == StepsOf(call, server)
<1>1. n \in Nat \ {0} /\ items \in Seq(Range(items))
  BY SizeAssumption DEF Size, IsCall
<1>2. ss = [k \in DOMAIN chunks |-> [kind |-> Kind(call), items |-> chunks[k]]]
  BY DEF StepsOf
<1>3. \A s \in Range(ss) : IsStep(s) /\ (PlainCall(call) => PlainStep(s))
  BY StepsOfGood
<1> HIDE DEF n, ss
<1>4. /\ Len(chunks) \in Nat /\ DOMAIN chunks = 1 .. Len(chunks)
      /\ UpTo(items, n, 0) = 0 /\ UpTo(items, n, Len(chunks)) = Len(items)
      /\ \A k \in 0 .. Len(chunks) : UpTo(items, n, k) \in 0 .. Len(items)
      /\ \A k \in 1 .. Len(chunks) :
            /\ chunks[k] \in Seq(Range(items)) /\ Len(chunks[k]) \in Nat \ {0}
            /\ UpTo(items, n, k - 1) + Len(chunks[k]) = UpTo(items, n, k)
            /\ \A i \in 1 .. Len(chunks[k]) : chunks[k][i] = items[UpTo(items, n, k - 1) + i]
  <2> HIDE DEF items
  <2> QED BY <1>1, ChunkPlaces
<1> HIDE DEF chunks
<1>5. DOMAIN ss = 1 .. Len(chunks) /\ Len(ss) = Len(chunks)
  BY <1>2, <1>4
<1>6. ASSUME NEW k \in 1 .. Len(chunks)
      PROVE  /\ IsStep(ss[k]) /\ (PlainCall(call) => PlainStep(ss[k]))
             /\ ss[k].kind = Kind(call) /\ ss[k].items = chunks[k]
             /\ DOMAIN chunks[k] = 1 .. Len(chunks[k])
  <2>1. ss[k] \in Range(ss)
    BY <1>5 DEF Range
  <2>2. ss[k].kind = Kind(call) /\ ss[k].items = chunks[k]
    BY <1>2, <1>4
  <2>3. DOMAIN chunks[k] = 1 .. Len(chunks[k])
    BY <1>4
  <2> QED BY <1>3, <2>1, <2>2, <2>3
<1> HIDE DEF items
<1>7. /\ Len(ss) \in Nat /\ DOMAIN ss = 1 .. Len(ss)
      /\ UpTo(items, n, 0) = 0 /\ UpTo(items, n, Len(ss)) = Len(items)
      /\ \A k \in 0 .. Len(ss) : UpTo(items, n, k) \in 0 .. Len(items)
      /\ \A k \in 1 .. Len(ss) :
            /\ IsStep(ss[k]) /\ (PlainCall(call) => PlainStep(ss[k]))
            /\ ss[k].kind = Kind(call)
            /\ Len(ss[k].items) \in Nat \ {0}
            /\ DOMAIN ss[k].items = 1 .. Len(ss[k].items)
            /\ UpTo(items, n, k - 1) + Len(ss[k].items) = UpTo(items, n, k)
            /\ \A i \in 1 .. Len(ss[k].items) : ss[k].items[i] = items[UpTo(items, n, k - 1) + i]
  BY <1>4, <1>5, <1>6
<1> QED BY <1>7 DEF ss, n, items, Placed

LEMMA SaveCall ==
    ASSUME NEW call, IsCall(call), call.kind \notin {"batch", "lock"}, NEW server, NEW t \in Table
    PROVE  Result(StepsOf(call, server), t) = AskedWhole(t, call)
<1> DEFINE ss == StepsOf(call, server)
           Before(k) == UpTo(call.items, Size(call, server), k)
           items == call.items
           p == Path(ss, t)
<1>1. /\ Len(ss) \in Nat
      /\ Before(0) = 0 /\ Before(Len(ss)) = Len(items)
      /\ \A k \in 0 .. Len(ss) : Before(k) \in 0 .. Len(items)
      /\ \A k \in 1 .. Len(ss) :
            /\ IsStep(ss[k])
            /\ ss[k].kind = Kind(call)
            /\ Len(ss[k].items) \in Nat \ {0}
            /\ DOMAIN ss[k].items = 1 .. Len(ss[k].items)
            /\ Before(k - 1) + Len(ss[k].items) = Before(k)
            /\ \A i \in 1 .. Len(ss[k].items) : ss[k].items[i] = items[Before(k - 1) + i]
  <2>1. Placed(call, server)
    BY StepsOfPlaces
  <2> QED BY <2>1 DEF Placed
<1>2. Kind(call) \notin {"batch", "lock"}
  BY DEF Kind
<1>3. Len(items) \in Nat /\ DOMAIN items = 1 .. Len(items)
  BY DEF IsCall
<1> HIDE DEF ss, Before, items
<1>4. p[1] = t /\ \A k \in 1 .. Len(ss) : p[k + 1] = Asked(p[k], ss[k])
  BY <1>1, PathSteps DEF Goes
<1> HIDE DEF p
<1> DEFINE Is(k) == SavedUpTo(items, Before(k), t, p[k + 1])
           S == {k \in Nat : k <= Len(ss) => Is(k)}
<1>5. 0 \in S
  BY <1>1, <1>4 DEF SavedUpTo
<1>6. ASSUME NEW k \in Nat, k \in S PROVE k + 1 \in S
  <2> SUFFICES ASSUME k + 1 <= Len(ss) PROVE Is(k + 1)
    OBVIOUS
  <2> DEFINE c == ss[k + 1].items
  <2>1. k \in 0 .. Len(ss) /\ k + 1 \in 1 .. Len(ss) /\ (k + 1) - 1 = k
    BY <1>1
  <2>2. Is(k)
    BY <1>6, <2>1
  <2>3. /\ Before(k) \in Nat /\ Len(c) \in Nat /\ DOMAIN c = 1 .. Len(c)
        /\ Before(k) + Len(c) = Before(k + 1)
        /\ \A i \in 1 .. Len(c) : c[i] = items[Before(k) + i]
    BY <1>1, <1>3, <2>1
  <2>4. p[(k + 1) + 1] = Saved(c, p[k + 1])
    <3>1. Asked(p[k + 1], ss[k + 1]) = Saved(c, p[k + 1])
      BY <1>1, <1>2, <2>1 DEF Asked, Effect, IsRefused
    <3> QED BY <1>4, <2>1, <3>1
  <2> HIDE DEF c
  <2>5. SavedUpTo(items, Before(k) + Len(c), t, Saved(c, p[k + 1]))
    BY <2>2, <2>3, SavedOnward
  <2> QED BY <2>3, <2>4, <2>5
<1> HIDE DEF S
<1>7. Len(ss) \in S
  BY <1>1, <1>5, <1>6, Induction
<1>8. SavedUpTo(items, Len(items), t, p[Len(ss) + 1])
  BY <1>1, <1>7 DEF S
<1>9. p[Len(ss) + 1] \in Table
  BY <1>1, PathSteps DEF p, Goes
<1>10. p[Len(ss) + 1] = [id \in Ids |->
          IF \E i \in 1 .. Len(items) : items[i].id = id THEN NewRow ELSE t[id]]
  BY <1>8, <1>9 DEF Table, SavedUpTo
<1>11. AskedWhole(t, call) = Saved(items, t)
  BY DEF AskedWhole, Effect, items
<1> QED BY <1>3, <1>10, <1>11 DEF Saved, Result, p, ss

LEMMA LockCall ==
    ASSUME NEW call, IsCall(call), call.kind = "lock", NEW server, NEW t \in Table
    PROVE  Result(StepsOf(call, server), t) = AskedWhole(t, call)
<1> DEFINE ss == StepsOf(call, server)
           p == Path(ss, t)
<1>1. Len(ss) \in Nat /\ \A k \in 1 .. Len(ss) : IsStep(ss[k]) /\ ss[k].kind = Kind(call)
  <2>1. Placed(call, server)
    BY StepsOfPlaces
  <2> QED BY <2>1 DEF Placed
<1>2. Kind(call) = "lock"
  BY DEF Kind
<1> HIDE DEF ss
<1>3. p[1] = t /\ \A k \in 1 .. Len(ss) : p[k + 1] = Asked(p[k], ss[k])
  BY <1>1, PathSteps DEF Goes
<1> HIDE DEF p
<1>4. \A k \in 1 .. Len(ss) : p[k + 1] = p[k]
  BY <1>1, <1>2, <1>3 DEF Asked, Effect, IsRefused
<1> DEFINE S == {k \in Nat : k <= Len(ss) => p[k + 1] = t}
<1>5. 0 \in S
  BY <1>3
<1>6. ASSUME NEW k \in Nat, k \in S PROVE k + 1 \in S
  <2> SUFFICES ASSUME k + 1 <= Len(ss) PROVE p[(k + 1) + 1] = t
    OBVIOUS
  <2>1. k + 1 \in 1 .. Len(ss) /\ p[k + 1] = t
    BY <1>1, <1>6
  <2> QED BY <1>4, <2>1
<1> HIDE DEF S
<1>7. Len(ss) \in S
  BY <1>1, <1>5, <1>6, Induction
<1>8. p[Len(ss) + 1] = t
  BY <1>1, <1>7 DEF S
<1>9. AskedWhole(t, call) = t
  BY DEF AskedWhole, Effect
<1> QED BY <1>8, <1>9 DEF Result, p, ss

LEMMA BatchCall ==
    ASSUME NEW call, IsCall(call), PlainCall(call), OneByOne(call), call.kind = "batch",
           NEW server, \A s \in Range(StepsOf(call, server)) : ~IsRefused(s), NEW t \in Table
    PROVE  Result(StepsOf(call, server), t) = AskedWhole(t, call)
<1> DEFINE ss == StepsOf(call, server)
           Before(k) == UpTo(call.items, Size(call, server), k)
           rows == call.items
           len == Len(rows)
           p == Path(ss, t)
<1>1. /\ Len(ss) \in Nat /\ DOMAIN ss = 1 .. Len(ss)
      /\ Before(0) = 0 /\ Before(Len(ss)) = len
      /\ \A k \in 0 .. Len(ss) : Before(k) \in 0 .. len
      /\ \A k \in 1 .. Len(ss) :
            /\ IsStep(ss[k]) /\ PlainStep(ss[k]) /\ ss[k].kind = "batch"
            /\ Len(ss[k].items) \in Nat \ {0}
            /\ DOMAIN ss[k].items = 1 .. Len(ss[k].items)
            /\ Before(k - 1) + Len(ss[k].items) = Before(k)
            /\ \A i \in 1 .. Len(ss[k].items) : ss[k].items[i] = rows[Before(k - 1) + i]
  <2>1. Placed(call, server) /\ Kind(call) = "batch"
    BY StepsOfPlaces DEF Kind
  <2> QED BY <2>1 DEF Placed
<1>2. len \in Nat /\ DOMAIN rows = 1 .. len /\ IsBatch(rows)
  BY DEF IsCall
<1>3. \A i, j \in 1 .. len : DOMAIN rows[i].key = DOMAIN rows[j].key
  BY <1>2 DEF OneByOne, Range
<1>4. \A i, j \in 1 .. len : rows[i].key = rows[j].key => i = j
  BY <1>2 DEF OneByOne
<1>5. \A k \in 1 .. Len(ss) : ~IsRefused(ss[k])
  BY <1>1 DEF Range
<1>6. AskedWhole(t, call) = RowByRow(rows, t)
  BY DEF AskedWhole
<1> HIDE DEF ss, Before, rows
<1>7. p[1] = t /\ \A k \in 1 .. Len(ss) : p[k + 1] = Asked(p[k], ss[k])
  <2>1. Len(ss) \in Nat /\ \A k \in 1 .. Len(ss) : IsStep(ss[k])
    BY <1>1
  <2> QED BY <2>1, PathSteps DEF Goes
<1>8. p \in [1 .. Len(ss) + 1 -> Table]
  <2>1. Len(ss) \in Nat /\ \A k \in 1 .. Len(ss) : IsStep(ss[k])
    BY <1>1
  <2> QED BY <2>1, PathSteps DEF Goes
<1> HIDE DEF p
<1> DEFINE K == IF len = 0 THEN {} ELSE DOMAIN rows[1].key
<1>9. ASSUME NEW k \in 1 .. Len(ss), NEW i \in 1 .. Len(ss[k].items)
      PROVE  /\ K \subseteq Columns
             /\ ss[k].items[i].key \in [K -> Values]
             /\ DOMAIN ss[k].items[i].set \cap K = {}
  <2> DEFINE c == ss[k].items
  <2>1. Plain(c) /\ KeyColumns(c) \subseteq Columns
    BY <1>1, <1>5 DEF PlainStep, IsRefused, Refused
  <2>2. IsBatch(c) /\ i \in DOMAIN c /\ 1 \in DOMAIN c
    BY <1>1 DEF IsStep
  <2>3. Before(k - 1) + 1 \in 1 .. len /\ c[1] = rows[Before(k - 1) + 1]
    <3>1. k - 1 \in 0 .. Len(ss) /\ k \in 0 .. Len(ss)
      OBVIOUS
    <3>2. Before(k - 1) \in Nat /\ Before(k) <= len /\ Len(c) >= 1
      BY <1>1, <3>1
    <3> QED BY <1>1, <3>2
  <2> HIDE DEF c
  <2>4. KeyColumns(c) = K
    BY <1>2, <1>3, <2>3 DEF KeyColumns
  <2>5. c[i].key \in [K -> Values] /\ DOMAIN c[i].set \cap K = {}
    <3> HIDE DEF K
    <3>1. DOMAIN c[i].key = K /\ SetColumns(c) \cap K = {}
      BY <2>1, <2>2, <2>4 DEF Plain
    <3>2. c[i].key \in [DOMAIN c[i].key -> Values]
      BY <2>2 DEF IsBatch
    <3>3. DOMAIN c[i].set \subseteq SetColumns(c)
      BY <2>2 DEF SetColumns
    <3> QED BY <3>1, <3>2, <3>3
  <2> QED BY <2>1, <2>4, <2>5 DEF c
<1> HIDE DEF K
<1> DEFINE Row1(i) == rows[i].key \in [K -> Values] /\ DOMAIN rows[i].set \cap K = {}
           S == {k \in Nat : k <= Len(ss) =>
                    /\ Given(rows, 1, Before(k), t, p[k + 1])
                    /\ \A i \in 1 .. Before(k) : Row1(i)}
<1>10. 0 \in S
  <2>1. Given(rows, 1, 0, t, t)
    BY DEF Given, Table
  <2> QED BY <1>1, <1>7, <2>1
<1>11. ASSUME NEW k \in Nat, k \in S PROVE k + 1 \in S
  <2> SUFFICES ASSUME k + 1 <= Len(ss)
               PROVE  /\ Given(rows, 1, Before(k + 1), t, p[(k + 1) + 1])
                      /\ \A i \in 1 .. Before(k + 1) : Row1(i)
    OBVIOUS
  <2> DEFINE c == ss[k + 1].items
             m == Before(k)
             q == Len(c)
             u == p[k + 1]
  <2>1. k \in 0 .. Len(ss) /\ k + 1 \in 0 .. Len(ss) /\ k + 1 \in 1 .. Len(ss) /\ (k + 1) - 1 = k
    BY <1>1
  <2>2. Given(rows, 1, m, t, u) /\ \A i \in 1 .. m : Row1(i)
    BY <1>11, <2>1
  <2>3. /\ m \in Nat /\ q \in Nat \ {0} /\ DOMAIN c = 1 .. q
        /\ m + q = Before(k + 1) /\ m + q <= len
        /\ \A i \in 1 .. q : c[i] = rows[m + i]
    BY <1>1, <2>1
  <2>4. IsBatch(c) /\ ~IsRefused(ss[k + 1]) /\ ss[k + 1].kind = "batch"
    BY <1>1, <1>5, <2>1 DEF IsStep
  <2>5. \A i \in 1 .. q : K \subseteq Columns /\ c[i].key \in [K -> Values] /\ DOMAIN c[i].set \cap K = {}
    BY <1>9, <2>1
  <2>6. p[(k + 1) + 1] = RowByRow(c, u) /\ u \in Table
    BY <1>7, <1>8, <2>1, <2>4 DEF Asked
  <2> HIDE DEF c, m, q, u
  <2>7. K \in SUBSET Columns
    <3>1. 1 \in 1 .. q
      BY <2>3
    <3> QED BY <2>5, <3>1
  <2>8. Given(c, 1, q, u, RowByRow(c, u))
    <3>1. \A i \in 1 .. q : DOMAIN c[i].key = K /\ DOMAIN c[i].set \cap K = {}
      BY <2>5
    <3>2. q \in Nat /\ Len(c) = q
      BY <2>3 DEF q
    <3> QED BY <2>3, <2>4, <2>6, <2>7, <3>1, <3>2, RowByRowGives
  <2>9. \A i \in 1 .. m + q : Row1(i)
    <3> SUFFICES ASSUME NEW i \in 1 .. m + q PROVE Row1(i)
      OBVIOUS
    <3>1. CASE i \in 1 .. m
      BY <2>2, <3>1
    <3>2. CASE i \notin 1 .. m
      <4>1. i - m \in 1 .. q /\ m + (i - m) = i
        BY <2>3, <3>2
      <4>2. c[i - m] = rows[i]
        BY <2>3, <4>1
      <4> QED BY <2>5, <4>1, <4>2
    <3> QED BY <3>1, <3>2
  <2>10. \A i, j \in 1 .. m + q : rows[i].key = rows[j].key => i = j
    BY <1>2, <1>4, <2>3
  <2>11. Given(rows, 1, m + q, t, RowByRow(c, u))
    BY <2>2, <2>3, <2>7, <2>8, <2>9, <2>10, GivenOnward
  <2> QED BY <2>3, <2>6, <2>9, <2>11
<1> HIDE DEF S
<1>12. Len(ss) \in S
  BY <1>1, <1>10, <1>11, Induction
<1>13. Given(rows, 1, len, t, p[Len(ss) + 1]) /\ \A i \in 1 .. len : Row1(i)
  BY <1>1, <1>12 DEF S
<1>14. K \in SUBSET Columns
  <2>1. CASE len = 0
    BY <2>1 DEF K
  <2>2. CASE len # 0
    <3>1. Len(ss) # 0
      BY <1>1, <2>2
    <3>2. 1 \in 1 .. Len(ss)
      BY <1>1, <3>1
    <3>3. 1 \in 1 .. Len(ss[1].items)
      BY <1>1, <3>2
    <3> QED BY <1>9, <3>2, <3>3
  <2> QED BY <2>1, <2>2
<1>15. Given(rows, 1, len, t, RowByRow(rows, t))
  <2>1. \A i \in 1 .. len : DOMAIN rows[i].key = K /\ DOMAIN rows[i].set \cap K = {}
    BY <1>13
  <2> QED BY <1>2, <1>14, <2>1, RowByRowGives
<1>16. p[Len(ss) + 1] = RowByRow(rows, t)
  BY <1>2, <1>13, <1>15, GivenOnce
<1> QED BY <1>6, <1>16 DEF Result, p, ss, rows

\* The statements of a call make what the call asks for.
LEMMA WholeCall ==
    ASSUME NEW call, IsCall(call), PlainCall(call), OneByOne(call),
           NEW server, \A s \in Range(StepsOf(call, server)) : ~IsRefused(s), NEW t \in Table
    PROVE  Result(StepsOf(call, server), t) = AskedWhole(t, call)
BY BatchCall, SaveCall, LockCall

\* Statements a and then b lead where b leads from where a has led.
LEMMA ResultOnward ==
    ASSUME NEW X, \A s \in X : IsStep(s), NEW a \in Seq(X), NEW b \in Seq(X), NEW t \in Table
    PROVE  Result(a \o b, t) = Result(b, Result(a, t)) /\ Result(a, t) \in Table
<1> DEFINE m == Len(a)
           n == Len(b)
           c == a \o b
           p == Path(c, t)
           q == Path(a, t)
           r == Path(b, Result(a, t))
<1>1. /\ m \in Nat /\ n \in Nat /\ Len(c) = m + n
      /\ \A k \in 1 .. m : c[k] = a[k]
      /\ \A k \in 1 .. n : c[m + k] = b[k]
      /\ \A k \in 1 .. m : IsStep(a[k])
      /\ \A k \in 1 .. n : IsStep(b[k])
  OBVIOUS
<1>2. \A k \in 1 .. m + n : IsStep(c[k])
  <2> SUFFICES ASSUME NEW k \in 1 .. m + n PROVE IsStep(c[k])
    OBVIOUS
  <2> HIDE DEF c, m, n
  <2>1. CASE k \in 1 .. m
    BY <1>1, <2>1
  <2>2. CASE k \notin 1 .. m
    <3>1. k - m \in 1 .. n /\ m + (k - m) = k
      BY <1>1, <2>2
    <3>2. c[k] = b[k - m] /\ IsStep(b[k - m])
      BY <1>1, <3>1
    <3> QED BY <3>2
  <2> QED BY <2>1, <2>2
<1>3. /\ q[1] = t /\ \A k \in 1 .. m : q[k + 1] = Asked(q[k], a[k])
      /\ q \in [1 .. m + 1 -> Table]
  <2>1. Goes(a, t)
    BY <1>1, PathSteps
  <2> QED BY <2>1 DEF Goes
<1>4. Result(a, t) = q[m + 1] /\ q[m + 1] \in Table
  BY <1>1, <1>3 DEF Result
<1>5. r[1] = q[m + 1] /\ \A k \in 1 .. n : r[k + 1] = Asked(r[k], b[k])
  <2>1. Result(a, t) \in Table
    BY <1>4
  <2>2. Goes(b, Result(a, t))
    BY <1>1, <2>1, PathSteps
  <2> QED BY <1>4, <2>2 DEF Goes
<1> HIDE DEF c, m, n
<1>6. p[1] = t /\ \A k \in 1 .. m + n : p[k + 1] = Asked(p[k], c[k])
  <2>1. Len(c) \in Nat /\ \A k \in 1 .. Len(c) : IsStep(c[k])
    BY <1>1, <1>2
  <2>2. Goes(c, t)
    BY <2>1, PathSteps
  <2> QED BY <1>1, <2>2 DEF Goes
<1> HIDE DEF p, q, r
<1> DEFINE S == {k \in Nat : k <= m => p[k + 1] = q[k + 1]}
<1>7. 0 \in S
  BY <1>3, <1>6
<1>8. ASSUME NEW k \in Nat, k \in S PROVE k + 1 \in S
  <2> SUFFICES ASSUME k + 1 <= m PROVE p[(k + 1) + 1] = q[(k + 1) + 1]
    OBVIOUS
  <2>1. k + 1 \in 1 .. m /\ k + 1 \in 1 .. m + n /\ p[k + 1] = q[k + 1]
    BY <1>1, <1>8
  <2> QED BY <1>1, <1>3, <1>6, <2>1
<1> HIDE DEF S
<1>9. m \in S
  BY <1>1, <1>7, <1>8, Induction
<1>10. p[m + 1] = q[m + 1]
  BY <1>1, <1>9 DEF S
<1> DEFINE U == {k \in Nat : k <= n => p[m + k + 1] = r[k + 1]}
<1>11. 0 \in U
  BY <1>1, <1>5, <1>10
<1>12. ASSUME NEW k \in Nat, k \in U PROVE k + 1 \in U
  <2> SUFFICES ASSUME k + 1 <= n PROVE p[m + (k + 1) + 1] = r[(k + 1) + 1]
    OBVIOUS
  <2> DEFINE j == m + (k + 1)
  <2>1. k + 1 \in 1 .. n /\ j \in 1 .. m + n /\ j = m + k + 1 /\ p[j] = r[k + 1]
    BY <1>1, <1>12
  <2>2. c[j] = b[k + 1]
    BY <1>1, <2>1
  <2> HIDE DEF j
  <2>3. p[j + 1] = r[(k + 1) + 1]
    BY <1>5, <1>6, <2>1, <2>2
  <2> QED BY <2>3 DEF j
<1> HIDE DEF U
<1>13. n \in U
  BY <1>1, <1>11, <1>12, Induction
<1>14. p[m + n + 1] = r[n + 1]
  BY <1>1, <1>13 DEF U
<1> QED BY <1>1, <1>4, <1>14 DEF Result, p, r, n, c

\* What the calls ask for, one after another.
AsksFor(calls, t, n) ==
    \E f \in [0 .. n -> Table] :
        /\ f[0] = t /\ \A i \in 1 .. n : f[i] = AskedWhole(f[i - 1], calls[i])
        /\ AllAsked(calls, t) = f[n]

LEMMA AllAskedSteps ==
    ASSUME NEW calls, NEW n \in Nat, Len(calls) = n, \A i \in 1 .. n : IsCall(calls[i]), NEW t \in Table
    PROVE  AsksFor(calls, t, n)
<1> DEFINE next == [i \in 1 .. n |-> [u \in Table |-> AskedWhole(u, calls[i])]]
           Made(f) == f = [i \in 0 .. n |-> IF i = 0 THEN t ELSE AskedWhole(f[i - 1], calls[i])]
<1>1. next \in [1 .. n -> [Table -> Table]]
  <2>1. ASSUME NEW i \in 1 .. n, NEW u \in Table PROVE AskedWhole(u, calls[i]) \in Table
    <3> DEFINE call == calls[i]
    <3>1. IsCall(call)
      OBVIOUS
    <3> HIDE DEF call
    <3>2. CASE call.kind = "batch"
      <4>1. DOMAIN call.items = 1 .. Len(call.items) /\ Len(call.items) \in Nat /\ IsBatch(call.items)
        BY <3>1, <3>2 DEF IsCall
      <4> QED BY <3>2, <4>1, RowByRowType DEF AskedWhole, call
    <3>3. CASE call.kind # "batch"
      BY <3>3, SavedType DEF AskedWhole, Effect, call
    <3> QED BY <3>2, <3>3
  <2> QED BY <2>1
<1>2. PICK g \in [0 .. n -> Table] : g[0] = t /\ \A k \in 1 .. n : g[k] = next[k][g[k - 1]]
  <2> HIDE DEF next
  <2>1. Lead(Table, t, n, next)
    BY <1>1, StepByStep
  <2> QED BY <2>1 DEF Lead
<1>3. \A i \in 1 .. n : g[i] = AskedWhole(g[i - 1], calls[i])
  <2>1. \A i \in 1 .. n : i - 1 \in 0 .. n
    OBVIOUS
  <2> QED BY <1>2, <2>1
<1>4. Made(g)
  <2>1. \A i \in 0 .. n : g[i] = IF i = 0 THEN t ELSE AskedWhole(g[i - 1], calls[i])
    BY <1>2, <1>3
  <2> QED BY <2>1
<1> DEFINE f == CHOOSE f : Made(f)
<1>5. Made(f)
  BY <1>4
<1>6. AllAsked(calls, t) = f[n]
  BY DEF AllAsked
<1> HIDE DEF f
<1>7. f[0] = t /\ \A i \in 1 .. n : f[i] = AskedWhole(f[i - 1], calls[i])
  <2>1. 0 \in 0 .. n /\ \A i \in 1 .. n : i \in 0 .. n /\ i # 0
    OBVIOUS
  <2> QED BY <1>5, <2>1
<1>8. DOMAIN f = 0 .. n /\ f = [i \in 0 .. n |-> f[i]]
  BY <1>5
<1> DEFINE S == {k \in Nat : k <= n => f[k] = g[k]}
<1>9. 0 \in S
  BY <1>2, <1>7
<1>10. ASSUME NEW k \in Nat, k \in S PROVE k + 1 \in S
  <2> SUFFICES ASSUME k + 1 <= n PROVE f[k + 1] = g[k + 1]
    OBVIOUS
  <2>1. k + 1 \in 1 .. n /\ (k + 1) - 1 = k /\ f[k] = g[k]
    BY <1>10
  <2> QED BY <1>3, <1>7, <2>1
<1> HIDE DEF S
<1>11. \A k \in 0 .. n : f[k] = g[k]
  <2>1. \A k \in 0 .. n : k \in S
    BY <1>9, <1>10, Induction
  <2> QED BY <2>1 DEF S
<1>12. f \in [0 .. n -> Table]
  BY <1>2, <1>8, <1>11
<1> QED BY <1>6, <1>7, <1>12 DEF AsksFor

Unrefused(ss) == \A k \in 1 .. Len(ss) : ~IsRefused(ss[k])

\* No statement of a work is refused: then they make what its calls ask for, if
\* these name no row twice.
LEMMA GoalIsResult ==
    ASSUME NEW calls, NEW n \in Nat, DOMAIN calls = 1 .. n, Len(calls) = n,
           \A i \in 1 .. n : IsCall(calls[i]) /\ PlainCall(calls[i]) /\ OneByOne(calls[i]),
           NEW server, NEW t \in Table, Unrefused(Steps(calls, server))
    PROVE  AllAsked(calls, t) = Result(Steps(calls, server), t)
<1> DEFINE seqs == [i \in DOMAIN calls |-> StepsOf(calls[i], server)]
           X == StepSet(calls, server)
<1>1. PICK g \in [0 .. n -> Table] :
         /\ g[0] = t /\ \A i \in 1 .. n : g[i] = AskedWhole(g[i - 1], calls[i])
         /\ AllAsked(calls, t) = g[n]
  <2>1. AsksFor(calls, t, n)
    BY AllAskedSteps
  <2> QED BY <2>1 DEF AsksFor
<1>2. \A s \in X : IsStep(s)
  BY StepsGood
<1>3. ASSUME NEW i \in 1 .. n PROVE StepsOf(calls[i], server) \in Seq(X)
  <2>1. StepsOf(calls[i], server) \in Seq(Range(StepsOf(calls[i], server)))
    BY StepsOfGood
  <2>2. Range(StepsOf(calls[i], server)) \subseteq X
    BY DEF StepSet
  <2> HIDE DEF X
  <2> QED BY <2>1, <2>2
<1>4. /\ Steps(calls, server) = FlattenSeq(seqs) /\ Len(seqs) = n
      /\ \A i \in 1 .. n : seqs[i] = StepsOf(calls[i], server)
  BY DEF Steps
<1> HIDE DEF seqs, X
<1>5. CASE n = 0
  <2>1. FlattenSeq(seqs) = seqs
    BY <1>4, <1>5 DEF FlattenSeq
  <2>2. Len(Steps(calls, server)) = 0
    BY <1>4, <1>5, <2>1
  <2>3. Goes(Steps(calls, server), t)
    BY <2>2, PathSteps
  <2>4. Result(Steps(calls, server), t) = t
    BY <2>2, <2>3 DEF Result, Goes
  <2> QED BY <1>1, <1>5, <2>4
<1>6. CASE n # 0
  <2>1. n \in Nat \ {0} /\ \A i \in 1 .. n : seqs[i] \in Seq(X)
    BY <1>3, <1>4, <1>6
  <2>2. Joined(X, n, seqs)
    BY <1>4, <2>1, FlattenSteps
  <2>3. PICK f \in [1 .. n -> Seq(X)] :
           /\ f[1] = seqs[1]
           /\ \A i \in 2 .. n : f[i] = f[i - 1] \o seqs[i]
           /\ FlattenSeq(seqs) = f[n]
    BY <2>2 DEF Joined
  <2>4. ASSUME NEW i \in 1 .. n, NEW u \in Table, Unrefused(seqs[i])
        PROVE  Result(seqs[i], u) = AskedWhole(u, calls[i])
    <3>1. \A s \in Range(seqs[i]) : ~IsRefused(s)
      <4>1. DOMAIN seqs[i] = 1 .. Len(seqs[i])
        BY <2>1
      <4> QED BY <2>4, <4>1 DEF Range, Unrefused
    <3> QED BY <1>4, <3>1, WholeCall
  <2>5. ASSUME NEW i \in 2 .. n, Unrefused(f[i])
        PROVE  Unrefused(f[i - 1]) /\ Unrefused(seqs[i])
    <3> DEFINE a == f[i - 1]
               b == seqs[i]
    <3>1. i - 1 \in 1 .. n /\ i \in 1 .. n
      OBVIOUS
    <3>2. a \in Seq(X) /\ b \in Seq(X) /\ f[i] = a \o b
      BY <2>1, <2>3, <3>1
    <3> HIDE DEF a, b
    <3>3. /\ Len(a) \in Nat /\ Len(b) \in Nat /\ Len(f[i]) = Len(a) + Len(b)
          /\ \A k \in 1 .. Len(a) : f[i][k] = a[k]
          /\ \A k \in 1 .. Len(b) : f[i][Len(a) + k] = b[k]
      <4>1. /\ Len(a) \in Nat /\ Len(b) \in Nat /\ Len(a \o b) = Len(a) + Len(b)
            /\ \A k \in 1 .. Len(a) : (a \o b)[k] = a[k]
            /\ \A k \in 1 .. Len(b) : (a \o b)[Len(a) + k] = b[k]
        <5>1. a \in Seq(X) /\ b \in Seq(X)
          BY <3>2
        <5> QED BY <5>1
      <4> QED BY <3>2, <4>1
    <3>4. Unrefused(a)
      <4>1. \A k \in 1 .. Len(a) : k \in 1 .. Len(f[i])
        BY <3>3
      <4> QED BY <2>5, <3>3, <4>1 DEF Unrefused
    <3>5. Unrefused(b)
      <4>1. \A k \in 1 .. Len(b) : Len(a) + k \in 1 .. Len(f[i])
        BY <3>3
      <4> QED BY <2>5, <3>3, <4>1 DEF Unrefused
    <3> QED BY <3>4, <3>5 DEF a, b
  <2> DEFINE S == {k \in Nat : k + 1 <= n =>
                      (Unrefused(f[k + 1]) => Result(f[k + 1], t) = g[k + 1])}
  <2>6. 0 \in S
    <3>1. 1 \in 1 .. n /\ g[1] = AskedWhole(t, calls[1])
      BY <1>1, <2>1
    <3> QED BY <2>3, <2>4, <3>1
  <2>7. ASSUME NEW k \in Nat, k \in S PROVE k + 1 \in S
    <3> DEFINE i == (k + 1) + 1
    <3> SUFFICES ASSUME i <= n, Unrefused(f[i]) PROVE Result(f[i], t) = g[i]
      OBVIOUS
    <3>1. i \in 2 .. n /\ i \in 1 .. n /\ i - 1 = k + 1 /\ k + 1 \in 1 .. n
      OBVIOUS
    <3>2. Unrefused(f[k + 1]) => Result(f[k + 1], t) = g[k + 1]
      BY <2>7, <3>1
    <3> HIDE DEF i
    <3>3. Unrefused(f[i - 1]) /\ Unrefused(seqs[i])
      BY <2>5, <3>1
    <3>4. Result(f[i - 1], t) = g[i - 1]
      BY <3>1, <3>2, <3>3
    <3>5. f[i - 1] \in Seq(X) /\ seqs[i] \in Seq(X) /\ f[i] = f[i - 1] \o seqs[i]
      BY <2>1, <2>3, <3>1
    <3>6. Result(f[i], t) = Result(seqs[i], Result(f[i - 1], t)) /\ Result(f[i - 1], t) \in Table
      <4> DEFINE a == f[i - 1]
                 b == seqs[i]
      <4>1. a \in Seq(X) /\ b \in Seq(X)
        BY <3>5
      <4> HIDE DEF a, b
      <4>2. Result(a \o b, t) = Result(b, Result(a, t)) /\ Result(a, t) \in Table
        BY <1>2, <4>1, ResultOnward
      <4> QED BY <3>5, <4>2 DEF a, b
    <3>7. Result(f[i], t) = AskedWhole(g[i - 1], calls[i])
      BY <2>4, <3>1, <3>3, <3>4, <3>6
    <3> QED BY <1>1, <3>1, <3>7
  <2> HIDE DEF S
  <2>8. n - 1 \in S
    <3>1. n - 1 \in Nat
      BY <2>1
    <3>2. Nat \subseteq S
      BY <2>6, <2>7, Induction
    <3> QED BY <3>1, <3>2
  <2>9. (n - 1) + 1 = n
    BY <2>1
  <2>10. Unrefused(f[n])
    BY <1>4, <2>3
  <2>11. Result(f[n], t) = g[n]
    BY <2>8, <2>9, <2>10 DEF S
  <2> QED BY <1>1, <1>4, <2>3, <2>11
<1> QED BY <1>5, <1>6

-------------------------------------------------------------------------------
(* The work that begins. *)

IsWork(calls) ==
    /\ Len(calls) \in Nat /\ DOMAIN calls = 1 .. Len(calls)
    /\ \A i \in 1 .. Len(calls) : IsCall(calls[i])

PlainWork(calls) == \A i \in 1 .. Len(calls) : PlainCall(calls[i])

LEMMA CallIsWork ==
    ASSUME NEW call \in WriteCalls
    PROVE  IsWork(<<call>>) /\ (PlainRows => PlainWork(<<call>>))
<1>1. IsCall(call) /\ (PlainRows => PlainCall(call))
  BY CallAssumption DEF PlainRows, PlainCall
<1>2. Len(<<call>>) = 1 /\ DOMAIN <<call>> = 1 .. 1 /\ <<call>>[1] = call
  OBVIOUS
<1>3. \A i \in 1 .. 1 : <<call>>[i] = call
  OBVIOUS
<1> QED BY <1>1, <1>2, <1>3 DEF IsWork, PlainWork

LEMMA FunctionIsWork ==
    ASSUME NEW calls \in Functions
    PROVE  IsWork(calls) /\ (PlainRows => PlainWork(calls))
<1>1. calls \in Seq(Range(calls)) /\ \A call \in Range(calls) : IsCall(call)
  BY CallAssumption
<1>2. PlainRows => \A call \in Range(calls) : PlainCall(call)
  BY DEF PlainRows, PlainCall
<1>3. Len(calls) \in Nat /\ DOMAIN calls = 1 .. Len(calls)
  BY <1>1
<1>4. \A i \in 1 .. Len(calls) : calls[i] \in Range(calls)
  BY <1>3 DEF Range
<1> QED BY <1>1, <1>2, <1>3, <1>4 DEF IsWork, PlainWork

\* What a work begins with.
LEMMA BeginSteps ==
    ASSUME NEW m, NEW s, NEW calls, IsWork(calls), Begin(m, s, calls)
    PROVE  /\ db \in Table
           /\ Len(steps') \in Nat /\ DOMAIN steps' = 1 .. Len(steps')
           /\ \A k \in 1 .. Len(steps') : IsStep(steps'[k]) /\ (PlainWork(calls) => PlainStep(steps'[k]))
           /\ Goes(steps', db) /\ path' = Path(steps', db)
           /\ goal' \in Table
           /\ PlainWork(calls) /\ Unrefused(steps') => goal' = path'[Len(path')]
<1> DEFINE server == s.server
           ss == Steps(calls, server)
           X == StepSet(calls, server)
           n == Len(calls)
<1>1. db \in Table
  BY CallAssumption DEF Begin
<1>2. /\ steps' = ss /\ path' = Path(ss, db)
      /\ goal' = IF \A call \in Range(calls) : OneByOne(call) THEN AllAsked(calls, db)
                 ELSE Path(ss, db)[Len(Path(ss, db))]
  BY DEF Begin
<1>3. n \in Nat /\ DOMAIN calls = 1 .. n /\ \A i \in 1 .. n : IsCall(calls[i])
  BY DEF IsWork
<1>4. /\ ss \in Seq(X)
      /\ \A st \in X : IsStep(st)
      /\ PlainWork(calls) => \A st \in X : PlainStep(st)
  BY <1>3, StepsGood DEF PlainWork
<1> HIDE DEF ss, X, server
<1>5. /\ Len(ss) \in Nat /\ DOMAIN ss = 1 .. Len(ss)
      /\ \A k \in 1 .. Len(ss) : IsStep(ss[k]) /\ (PlainWork(calls) => PlainStep(ss[k]))
  BY <1>4
<1>6. Goes(ss, db)
  BY <1>1, <1>5, PathSteps
<1>7. AllAsked(calls, db) \in Table
  <2>1. AsksFor(calls, db, n)
    BY <1>1, <1>3, AllAskedSteps
  <2> QED BY <1>3, <2>1 DEF AsksFor
<1>8. Path(ss, db)[Len(Path(ss, db))] = Result(ss, db) /\ Result(ss, db) \in Table
  BY <1>5, <1>6 DEF Goes, Result
<1>9. ASSUME PlainWork(calls), Unrefused(ss), \A call \in Range(calls) : OneByOne(call)
      PROVE  AllAsked(calls, db) = Result(ss, db)
  <2>1. \A i \in 1 .. n : IsCall(calls[i]) /\ PlainCall(calls[i]) /\ OneByOne(calls[i])
    BY <1>3, <1>9 DEF PlainWork, Range
  <2> QED BY <1>1, <1>3, <1>9, <2>1, GoalIsResult DEF ss
<1> QED BY <1>1, <1>2, <1>5, <1>6, <1>7, <1>8, <1>9

-------------------------------------------------------------------------------
(* Types. *)

StepsOK ==
    /\ Len(steps) \in Nat /\ DOMAIN steps = 1 .. Len(steps)
    /\ \A k \in 1 .. Len(steps) : IsStep(steps[k])
    /\ pc # "idle" => Len(path) = Len(steps) + 1

TypeInv == TypeOK /\ StepsOK

LEMMA InitType == Init => TypeInv
BY CallAssumption, SetupAssumption DEF Init, TypeInv, TypeOK, StepsOK

LEMMA BeginType ==
    ASSUME TypeInv, NEW m \in {"alone", "tx"}, NEW s \in Setups \cup TxSetups, NEW calls,
           IsWork(calls), Begin(m, s, calls)
    PROVE  TypeInv'
<1>1. /\ db \in Table /\ goal' \in Table
      /\ Len(steps') \in Nat /\ DOMAIN steps' = 1 .. Len(steps')
      /\ \A k \in 1 .. Len(steps') : IsStep(steps'[k])
      /\ Goes(steps', db) /\ path' = Path(steps', db)
  BY BeginSteps
<1>2. path' \in Seq(Table) /\ Len(path') = Len(steps') + 1
  BY <1>1 DEF Goes
<1>3. /\ db' = db /\ work' = db /\ mode' = m /\ setup' = s /\ conn' \in {"open", "none"}
      /\ pc' = "run" /\ step' = 1 /\ at' = 1 /\ attempt' = 0 /\ err' = "nil" /\ status' = "running"
  BY DEF Begin
<1>4. step' \in 1 .. Len(steps') + 1 /\ at' \in 1 .. Len(path')
  BY <1>1, <1>2, <1>3
<1>5. TypeOK'
  BY <1>1, <1>2, <1>3, <1>4 DEF TypeOK
<1> QED BY <1>1, <1>2, <1>5 DEF TypeInv, StepsOK

\* What a step of a work leaves of the types.
LEMMA EndType ==
    ASSUME TypeInv, NEW outcome \in {"nil", "failed", "panicked", "exited", "crashed"}, End(outcome),
           db' \in Table, at' \in 1 .. Len(path)
    PROVE  TypeInv'
<1>1. steps' = << >> /\ Len(steps') = 0 /\ DOMAIN steps' = {} /\ step' = 1 /\ attempt' = 0
  BY DEF End
<1>2. TypeOK'
  BY <1>1 DEF End, TypeInv, TypeOK
<1>3. StepsOK'
  BY <1>1 DEF End, StepsOK
<1> QED BY <1>2, <1>3 DEF TypeInv

LEMMA FailedType ==
    ASSUME TypeInv, pc = "run", NEW e \in Errors, Failed(e), db' \in Table, work' \in Table,
           at' \in 1 .. Len(path), conn' \in {"none", "open", "aborted", "gone", "broken", "ended"}
    PROVE  TypeInv'
<1>1. setup.attempts \in Nat /\ attempt \in Nat
  BY SetupAssumption DEF TypeInv, TypeOK, Setup
<1>2. attempt' \in Nat /\ (attempt' = 0 \/ attempt' < setup.attempts) /\ pc' \in {"run", "leave"}
  BY <1>1 DEF Failed, Retries, TypeInv, TypeOK
<1>3. UNCHANGED <<mode, setup, steps, step, status, path, goal>> /\ err' = e
  BY DEF Failed
<1>4. TypeOK'
  BY <1>2, <1>3 DEF TypeInv, TypeOK
<1>5. StepsOK'
  BY <1>2, <1>3 DEF TypeInv, StepsOK
<1> QED BY <1>4, <1>5 DEF TypeInv

LEMMA ProceedType ==
    ASSUME TypeInv, Ready, Proceed, db' \in Table, work' \in Table, at' \in 1 .. Len(path)
    PROVE  TypeInv'
<1>1. /\ UNCHANGED <<pc, conn, mode, setup, steps, status, path, goal>>
      /\ step' = step + 1 /\ attempt' = 0 /\ err' = "nil"
  BY DEF Proceed
<1>2. step' \in 1 .. Len(steps') + 1
  BY <1>1 DEF Ready, TypeInv, TypeOK, StepsOK
<1>3. TypeOK'
  BY <1>1, <1>2 DEF TypeInv, TypeOK
<1>4. StepsOK'
  BY <1>1 DEF TypeInv, StepsOK
<1> QED BY <1>3, <1>4 DEF TypeInv

LEMMA TakesEffectType ==
    ASSUME TypeInv, Ready, TakesEffect
    PROVE  db' \in Table /\ work' \in Table /\ at' \in 1 .. Len(path)
<1>1. step \in 1 .. Len(steps) /\ step + 1 \in 1 .. Len(path) /\ at \in 1 .. Len(path)
  BY DEF Ready, TypeInv, TypeOK, StepsOK
<1>2. IsStep(Current)
  BY <1>1 DEF TypeInv, StepsOK, Current
<1>3. db \in Table /\ work \in Table
  BY DEF TypeInv, TypeOK
<1>4. Effect(Current, db) \in Table /\ Effect(Current, work) \in Table
  BY <1>2, <1>3, EffectType
<1> QED BY <1>1, <1>3, <1>4 DEF TakesEffect

LEMMA NextType ==
    ASSUME TypeInv, [Next]_vars PROVE TypeInv'
<1>0. db \in Table /\ work \in Table /\ at \in 1 .. Len(path) /\ step \in 1 .. Len(steps) + 1
  BY DEF TypeInv, TypeOK
<1>1. ASSUME NEW s \in Setups, NEW call \in WriteCalls, Begin("alone", s, <<call>>) PROVE TypeInv'
  BY <1>1, CallIsWork, BeginType
<1>2. ASSUME NEW s \in TxSetups, NEW calls \in Functions, Begin("tx", s, calls) PROVE TypeInv'
  BY <1>2, FunctionIsWork, BeginType
<1>3. CASE BeginFails
  <2>1. TypeOK'
    BY <1>3 DEF BeginFails, history, TypeInv, TypeOK
  <2> QED BY <1>3, <2>1 DEF BeginFails, history, TypeInv, StepsOK
<1>4. CASE Skip
  <2>1. step + 1 \in 1 .. Len(path)
    BY <1>0, <1>4 DEF Skip, Ready, TypeInv, StepsOK
  <2>2. db' \in Table /\ work' \in Table /\ at' \in 1 .. Len(path) /\ Ready /\ Proceed
    BY <1>0, <1>4, <2>1 DEF Skip
  <2> QED BY <2>2, ProceedType
<1>5. CASE Refuse
  <2>1. TypeOK'
    BY <1>5 DEF Refuse, history, TypeInv, TypeOK
  <2> QED BY <1>5, <2>1 DEF Refuse, Ready, history, TypeInv, StepsOK
<1>6. CASE Execute
  BY <1>6, TakesEffectType, ProceedType DEF Execute, CanExecute
<1>7. CASE AnswerLost
  <2>1. Ready /\ TakesEffect /\ Failed("connection") /\ "connection" \in Errors
    BY <1>7 DEF AnswerLost, CanExecute, Errors
  <2>2. conn' \in {"none", "open", "aborted", "gone", "broken", "ended"} /\ pc = "run"
    BY <1>7 DEF AnswerLost, CanExecute, Ready, TypeInv, TypeOK
  <2> QED BY <2>1, <2>2, TakesEffectType, FailedType
<1>8. ASSUME NEW e \in Errors, Fails(e) PROVE TypeInv'
  <2>1. conn' \in {"none", "open", "aborted", "gone", "broken", "ended"}
    BY <1>8 DEF Fails, ConnAfter, TypeInv, TypeOK
  <2>2. pc = "run" /\ Failed(e) /\ db' = db /\ work' = work /\ at' = at
    BY <1>8 DEF Fails, Ready
  <2> QED BY <1>0, <2>1, <2>2, FailedType
<1>9. CASE ContextEnds
  <2>1. TypeOK'
    BY <1>9 DEF ContextEnds, history, TypeInv, TypeOK
  <2> QED BY <1>9, <2>1 DEF ContextEnds, history, TypeInv, StepsOK
<1>10. CASE Return \/ Panic \/ Goexit
  <2>1. PICK how \in {"leave", "panic", "exit"} : Leave(how)
    BY <1>10 DEF Return, Panic, Goexit
  <2>2. TypeOK'
    BY <2>1 DEF Leave, history, TypeInv, TypeOK
  <2> QED BY <2>1, <2>2 DEF Leave, history, TypeInv, StepsOK
<1>11. CASE LeaveAlone \/ Rollback
  <2>1. Outcome \in {"nil", "failed", "panicked", "exited", "crashed"}
    BY DEF Outcome
  <2>2. End(Outcome) /\ db' = db /\ at' = at
    BY <1>11 DEF LeaveAlone, Rollback
  <2> QED BY <1>0, <2>1, <2>2, EndType
<1>12. CASE Commit
  <2>1. db' \in Table /\ at' = step
    BY <1>0, <1>12 DEF Commit
  <2>2. at' \in 1 .. Len(path) /\ pc # "idle"
    BY <1>0, <1>12, <2>1 DEF Commit, Commits, TypeInv, StepsOK
  <2>3. CASE pc = "exit"
    BY <1>12, <2>1, <2>2, <2>3, EndType DEF Commit
  <2>4. CASE pc # "exit"
    <3>1. /\ pc' = "committed" /\ conn' = "none"
          /\ UNCHANGED <<work, mode, setup, steps, step, attempt, err, status, path, goal>>
      BY <1>12, <2>4 DEF Commit
    <3>2. TypeOK'
      BY <2>1, <2>2, <3>1 DEF TypeInv, TypeOK
    <3> QED BY <2>2, <3>1, <3>2 DEF TypeInv, StepsOK
  <2> QED BY <2>3, <2>4
<1>13. CASE CommitFails \/ Committed \/ Crash
  <2>1. PICK outcome \in {"nil", "failed", "panicked", "exited", "crashed"} : End(outcome)
    BY <1>13 DEF CommitFails, Committed, Crash
  <2>2. db' = db /\ at' = at
    BY <1>13 DEF CommitFails, Committed, Crash
  <2> QED BY <1>0, <2>1, <2>2, EndType
<1>14. CASE UNCHANGED vars
  <2>1. TypeOK'
    BY <1>14 DEF vars, TypeInv, TypeOK
  <2> QED BY <1>14, <2>1 DEF vars, TypeInv, StepsOK
<1> QED
  BY <1>1, <1>2, <1>3, <1>4, <1>5, <1>6, <1>7, <1>8, <1>9, <1>10, <1>11, <1>12, <1>13, <1>14
  DEF Next, Run

\* Every variable has its type, and no statement is tried more often than the
\* policy of its repository says (run), whatever the calls and the tables.
THEOREM TxTypeCorrect == Spec => []TypeOK
<1>1. TypeInv /\ [Next]_vars => TypeInv'
  BY NextType
<1>2. TypeInv => TypeOK
  BY DEF TypeInv
<1> QED BY InitType, <1>1, <1>2, PTL DEF Spec

-------------------------------------------------------------------------------
(* Nothing before the commit. *)

Active == pc \in {"run", "leave", "panic", "exit"}

\* What the work inside a transaction may rely on.
InTx ==
    /\ setup \in TxSetups
    /\ conn \in {"open", "aborted", "gone", "broken", "ended"}
    /\ conn = "gone" => pc = "leave" /\ err # "nil"
    /\ db = path[1] /\ at = 1
    /\ conn = "open" /\ step = 1 => work = db

IInv ==
    /\ pc \in {"idle", "run", "leave", "panic", "exit", "committed"}
    /\ step \in Nat \ {0}
    /\ attempt \in Nat
    /\ mode = "tx" /\ Active => InTx
    /\ NothingBeforeCommit

-------------------------------------------------------------------------------
(* A transaction that is gone. *)

\* Under such a policy, after a deadlock of MySQL the function leaves.
LEMMA DeadlockLeaves ==
    ASSUME SafePolicies, setup \in TxSetups, attempt \in Nat, Failed("deadlock"),
           setup.server # "postgres"
    PROVE  pc' = "leave"
<1>1. setup.attempts \in Nat
  BY SetupAssumption DEF Setup
<1>2. ~Retries("deadlock")
  BY <1>1 DEF SafePolicies, Retries
<1> QED BY <1>2 DEF Failed

\* An attempt that fails leaves InTx as it was.
LEMMA FailsInTx ==
    ASSUME SafePolicies, IInv, NEW e \in Errors, Fails(e), mode = "tx"
    PROVE  InTx'
<1>1. InTx /\ pc = "run" /\ attempt \in Nat
  BY DEF Fails, Ready, IInv, Active
<1>2. err' = e /\ e # "nil"
  BY DEF Fails, Failed, Errors
<1>3. UNCHANGED <<db, work, at, setup, step, path>>
  BY DEF Fails, Failed
<1>4. conn \in {"open", "aborted", "broken", "ended"}
  BY <1>1 DEF InTx
<1>5. conn' \in {"open", "aborted", "gone", "broken", "ended"} /\ (conn' = "open" => conn = "open")
  BY <1>4 DEF Fails, ConnAfter
<1>6. ASSUME conn' = "gone" PROVE pc' = "leave"
  <2>1. e = "deadlock" /\ setup.server # "postgres"
    BY <1>4, <1>6 DEF Fails, ConnAfter
  <2> QED BY <1>1, <2>1, DeadlockLeaves DEF Fails, InTx
<1> QED BY <1>1, <1>2, <1>3, <1>5, <1>6 DEF InTx

-------------------------------------------------------------------------------
(* The invariant. *)

LEMMA InitIInv == Init => IInv
BY DEF Init, IInv, Active, NothingBeforeCommit

\* The work ends: only Commit changes the database.
LEMMA EndIInv ==
    ASSUME IInv, NEW STATE outcome, End(outcome), UNCHANGED <<db, at>> PROVE IInv'
BY DEF End, IInv, Active, NothingBeforeCommit

\* A call that begins finds the database as it was.
LEMMA BeginIInv ==
    ASSUME IInv, NEW m \in {"alone", "tx"}, NEW s \in Setups \cup TxSetups, NEW calls,
           m = "tx" => s \in TxSetups, IsWork(calls), Begin(m, s, calls)
    PROVE  IInv'
<1>1. path'[1] = db
  BY BeginSteps DEF Goes
<1>2. db' = db /\ at' = 1 /\ mode' = m /\ setup' = s /\ work' = db /\ pc' = "run"
  BY DEF Begin
<1>3. conn' = IF m = "tx" THEN "open" ELSE "none"
  BY DEF Begin
<1>4. step' = 1 /\ attempt' = 0
  BY DEF Begin
<1>5. NothingBeforeCommit'
  BY <1>1, <1>2 DEF NothingBeforeCommit
<1>6. mode' = "tx" => InTx'
  BY <1>1, <1>2, <1>3, <1>4 DEF InTx
<1> QED BY <1>2, <1>4, <1>5, <1>6 DEF IInv

\* A statement that takes effect does so in the open transaction.
LEMMA ExecuteIInv ==
    ASSUME IInv, CanExecute, TakesEffect, Proceed PROVE IInv'
<1>1. pc = "run" /\ pc' = pc /\ mode' = mode /\ step' = step + 1 /\ attempt' = 0
  BY DEF CanExecute, Ready, Proceed
<1>2. mode = "tx" => InTx /\ conn = "open"
  BY <1>1 DEF IInv, Active, InTx, CanExecute
<1>3. mode = "tx" => UNCHANGED <<db, at, conn, path, setup>>
  BY <1>2 DEF TakesEffect, Proceed
<1>4. step' \in Nat \ {0} /\ step' # 1
  BY <1>1 DEF IInv
<1>5. mode = "tx" => InTx'
  BY <1>1, <1>2, <1>3, <1>4 DEF InTx
<1>6. NothingBeforeCommit'
  BY <1>1, <1>5 DEF NothingBeforeCommit, InTx
<1> QED BY <1>1, <1>4, <1>5, <1>6 DEF IInv

\* Nothing happens to the database but that the attempt has failed.
LEMMA FailsIInv ==
    ASSUME SafePolicies, IInv, NEW e \in Errors, Fails(e) PROVE IInv'
<1>1. mode' = mode /\ step' = step /\ UNCHANGED <<db, at, path>>
  BY DEF Fails, Failed
<1>2. pc' \in {"run", "leave"} /\ attempt' \in Nat
  BY DEF Fails, Failed, Ready, IInv
<1>3. mode = "tx" => InTx'
  BY FailsInTx
<1> QED BY <1>1, <1>2, <1>3 DEF IInv, NothingBeforeCommit

\* An answer can be lost only outside an open transaction: work that is alone.
LEMMA AnswerLostIInv ==
    ASSUME IInv, AnswerLost PROVE IInv'
<1>1. mode # "tx"
  BY DEF AnswerLost, CanExecute, Ready, IInv, Active, InTx
<1>2. mode' = mode /\ step' = step
  BY DEF AnswerLost, Failed
<1>3. pc' \in {"run", "leave"} /\ attempt' \in Nat
  BY DEF AnswerLost, Failed, CanExecute, Ready, IInv
<1> QED BY <1>1, <1>2, <1>3 DEF IInv, NothingBeforeCommit

\* A commit of nothing but the beginning leaves the database as it was.
LEMMA CommitIInv ==
    ASSUME IInv, Commit PROVE IInv'
<1>1. mode = "tx" /\ Active /\ InTx
  BY DEF Commit, Commits, IInv, Active
<1>2. conn # "gone"
  BY <1>1 DEF Commit, Commits, InTx
<1>3. db' = work /\ at' = step
  BY <1>2 DEF Commit
<1>4. mode' = mode /\ path' = path /\ pc' \in {"idle", "committed"}
      /\ step' \in Nat \ {0} /\ attempt' \in Nat
  BY DEF Commit, End, IInv
<1>5. at' = 1 => db' = path'[1]
  BY <1>1, <1>2, <1>3, <1>4 DEF Commit, InTx
<1> QED BY <1>4, <1>5 DEF IInv, Active, NothingBeforeCommit

\* Steps that leave the database and the work alone.
LEMMA OtherIInv ==
    ASSUME IInv, Skip \/ Refuse \/ ContextEnds \/ Return \/ Panic \/ Goexit \/ BeginFails
    PROVE  IInv'
<1>1. CASE Skip
  <2>1. step' = step + 1 /\ attempt' = 0 /\ UNCHANGED <<db, work, conn, mode, setup, pc, path>>
    BY <1>1 DEF Skip, Proceed
  <2>2. pc = "run" /\ (mode = "tx" => at' = at)
    BY <1>1 DEF Skip, Ready
  <2>3. mode = "tx" => conn # "gone"
    BY <2>2 DEF IInv, Active, InTx
  <2>4. step' \in Nat \ {0} /\ step' # 1
    BY <2>1 DEF IInv
  <2>5. mode = "tx" => InTx'
    BY <2>1, <2>2, <2>3, <2>4 DEF IInv, Active, InTx
  <2> QED BY <2>1, <2>2, <2>4, <2>5 DEF IInv, NothingBeforeCommit, InTx
<1>2. CASE Refuse
  BY <1>2 DEF Refuse, history, Ready, IInv, Active, InTx, NothingBeforeCommit
<1>3. CASE ContextEnds
  BY <1>3 DEF ContextEnds, history, IInv, Active, InTx, NothingBeforeCommit
<1>4. CASE Return \/ Panic \/ Goexit
  BY <1>4 DEF Return, Panic, Goexit, Leave, history, IInv, Active, InTx, NothingBeforeCommit
<1>5. CASE BeginFails
  BY <1>5 DEF BeginFails, history, IInv, Active, NothingBeforeCommit
<1> QED BY <1>1, <1>2, <1>3, <1>4, <1>5

LEMMA NextIInv ==
    ASSUME SafePolicies, IInv, [Next]_vars PROVE IInv'
<1>1. ASSUME NEW s \in Setups, NEW call \in WriteCalls, Begin("alone", s, <<call>>) PROVE IInv'
  BY <1>1, CallIsWork, BeginIInv
<1>2. ASSUME NEW s \in TxSetups, NEW calls \in Functions, Begin("tx", s, calls) PROVE IInv'
  BY <1>2, FunctionIsWork, BeginIInv
<1>3. CASE BeginFails \/ ContextEnds \/ Panic \/ Goexit \/ Skip \/ Refuse \/ Return
  BY <1>3, OtherIInv
<1>4. CASE Execute
  BY <1>4, ExecuteIInv DEF Execute
<1>5. CASE AnswerLost
  BY <1>5, AnswerLostIInv
<1>6. ASSUME NEW e \in Errors, Fails(e) PROVE IInv'
  BY <1>6, FailsIInv
<1>7. CASE LeaveAlone
  BY <1>7, EndIInv DEF LeaveAlone
<1>8. CASE Rollback
  BY <1>8, EndIInv DEF Rollback
<1>9. CASE Commit
  BY <1>9, CommitIInv
<1>10. CASE CommitFails
  BY <1>10, EndIInv DEF CommitFails
<1>11. CASE Committed
  BY <1>11, EndIInv DEF Committed
<1>12. CASE Crash
  BY <1>12, EndIInv DEF Crash
<1>13. CASE UNCHANGED vars
  BY <1>13 DEF vars, IInv, Active, InTx, NothingBeforeCommit
<1> QED
  BY <1>1, <1>2, <1>3, <1>4, <1>5, <1>6, <1>7, <1>8, <1>9, <1>10, <1>11, <1>12, <1>13
  DEF Next, Run

\* "Transactional runs fn in a transaction, rolling back on error or panic":
\* before the commit the database is what it was, whatever fails and is tried
\* again, on every policy that does not repeat a statement after a deadlock
\* on MySQL.
THEOREM NothingUncommitted ==
    ASSUME SafePolicies PROVE Spec => []NothingBeforeCommit
<1>1. IInv /\ [Next]_vars => IInv'
  BY NextIInv
<1>2. IInv => NothingBeforeCommit
  BY DEF IInv
<1> QED BY InitIInv, <1>1, <1>2, PTL DEF Spec
-------------------------------------------------------------------------------
(* Whole or a prefix. *)

\* The work follows its path: alone the database is where the next statement
\* begins, or where it ends if its answer was lost; inside a transaction it is
\* the open transaction that is there, the database at the beginning.
OnPath ==
    /\ status = "running"
    /\ \A k \in 1 .. Len(steps) : PlainStep(steps[k]) /\ path[k + 1] = Asked(path[k], steps[k])
    /\ \A k \in 1 .. step - 1 : ~IsRefused(steps[k])
    /\ Unrefused(steps) => goal = path[Len(path)]
    /\ pc \in {"leave", "committed"} /\ err = "nil" => step = Len(steps) + 1
    /\ mode = "alone" =>
          /\ pc # "committed" /\ conn = "none"
          /\ at = step \/ (at = step + 1 /\ step <= Len(steps) /\ IsSent(steps[step]))
    /\ mode = "tx" /\ conn = "open" => work = path[step]
    /\ pc = "committed" => mode = "tx" /\ err = "nil" /\ at = Len(path)

Follows ==
    /\ db = path[at]
    /\ IF pc = "idle" THEN status # "running" ELSE OnPath
    /\ NilMeansAll

PathInv == TypeInv /\ IInv /\ Follows

WholeStep == [Whole!Next]_(Whole!vars)

LEMMA InitPath == Init => Follows /\ Whole!Init
<1> SUFFICES ASSUME Init PROVE Follows /\ Whole!Init
  OBVIOUS
<1>1. db \in Table
  BY CallAssumption DEF Init
<1> QED BY <1>1 DEF Init, Follows, NilMeansAll, Whole!Init

LEMMA BeginPath ==
    ASSUME PathInv, NEW m \in {"alone", "tx"}, NEW s, NEW calls, IsWork(calls), PlainWork(calls),
           Begin(m, s, calls)
    PROVE  Follows' /\ WholeStep
<1>1. /\ Len(steps') \in Nat
      /\ \A k \in 1 .. Len(steps') : PlainStep(steps'[k])
      /\ Goes(steps', db) /\ path' = Path(steps', db)
      /\ Unrefused(steps') => goal' = path'[Len(path')]
  BY BeginSteps
<1>2. /\ path' \in Seq(Table) /\ path'[1] = db
      /\ \A k \in 1 .. Len(steps') : path'[k + 1] = Asked(path'[k], steps'[k])
  BY <1>1 DEF Goes
<1>3. /\ pc = "idle" /\ pc' = "run" /\ mode' = m /\ step' = 1 /\ at' = 1 /\ err' = "nil"
      /\ status' = "running" /\ work' = db /\ db' = db
      /\ conn' = IF m = "tx" THEN "open" ELSE "none"
  BY DEF Begin
<1>4. OnPath'
  BY <1>1, <1>2, <1>3 DEF OnPath, Unrefused
<1>5. Follows'
  BY <1>2, <1>3, <1>4 DEF Follows, NilMeansAll
<1>6. status # "running"
  BY <1>3 DEF PathInv, Follows
<1>7. (mode' = "tx") \in BOOLEAN
  OBVIOUS
<1>8. Whole!Begin /\ db' = path'[at']
  BY <1>2, <1>3, <1>6, <1>7 DEF Whole!Begin
<1>9. Whole!Next
  BY <1>8 DEF Whole!Next
<1> QED BY <1>5, <1>9 DEF WholeStep

\* The work ends where it is.
LEMMA EndPath ==
    ASSUME PathInv, pc # "idle",
           NEW outcome \in {"nil", "failed", "panicked", "exited", "crashed"}, End(outcome),
           UNCHANGED <<db, at>>,
           outcome = "nil" => db = goal /\ at = Len(path),
           outcome = "panicked" /\ mode = "tx" => at = 1
    PROVE  Follows' /\ WholeStep
<1>1. /\ pc' = "idle" /\ status' = outcome /\ mode' = mode /\ path' = path /\ goal' = goal
      /\ db' = db /\ at' = at
  BY DEF End
<1>2. db = path[at] /\ status = "running" /\ Len(path) \in Nat /\ at \in 1 .. Len(path)
  BY DEF PathInv, Follows, OnPath, TypeInv, TypeOK
<1>3. Follows'
  BY <1>1, <1>2 DEF Follows, NilMeansAll
<1>4. db' = path'[at'] /\ (mode' = "tx") = (mode = "tx")
  BY <1>1, <1>2
<1>5. Whole!Succeed \/ Whole!Fail \/ Whole!Panic \/ Whole!Exit
  <2>1. CASE outcome = "nil"
    BY <1>1, <1>2, <1>4, <2>1 DEF Whole!Succeed
  <2>2. CASE outcome \in {"failed", "crashed"}
    BY <1>1, <1>2, <1>4, <2>2 DEF Whole!Fail
  <2>3. CASE outcome = "panicked"
    BY <1>1, <1>2, <1>4, <2>3 DEF Whole!Panic
  <2>4. CASE outcome = "exited"
    <3>1. at' \in at .. Len(path)
      BY <1>1, <1>2
    <3> QED BY <1>1, <1>2, <1>4, <2>4, <3>1 DEF Whole!Exit
  <2> QED BY <2>1, <2>2, <2>3, <2>4
<1>6. Whole!Next
  BY <1>4, <1>5 DEF Whole!Next
<1> QED BY <1>3, <1>6 DEF WholeStep

\* Nothing is left to do, and nothing was refused.
LEMMA AllDone ==
    ASSUME PathInv, pc \in {"leave", "committed"}, err = "nil"
    PROVE  step = Len(steps) + 1 /\ goal = path[Len(path)] /\ Len(path) = step
<1>1. OnPath /\ Len(path) = Len(steps) + 1 /\ Len(steps) \in Nat
  BY DEF PathInv, Follows, TypeInv, StepsOK
<1>2. step = Len(steps) + 1
  BY <1>1 DEF OnPath
<1>3. Unrefused(steps)
  BY <1>1, <1>2 DEF OnPath, Unrefused
<1> QED BY <1>1, <1>2, <1>3 DEF OnPath

\* Alone a statement takes the database to the next table of the path, or
\* leaves it there.
LEMMA AdvanceWhole ==
    ASSUME PathInv, Ready, mode = "alone", at' = step + 1, db' = path[step + 1],
           UNCHANGED <<path, mode, status>>
    PROVE  WholeStep
<1>1. /\ OnPath /\ db = path[at] /\ Len(path) = Len(steps) + 1 /\ Len(steps) \in Nat
      /\ step \in 1 .. Len(steps)
  BY DEF PathInv, Follows, TypeInv, TypeOK, StepsOK, Ready
<1>2. CASE at = step
  <2>1. at < Len(path) /\ ~(mode = "tx") /\ at' = at + 1
    BY <1>1, <1>2
  <2>2. Whole!Advance
    BY <1>1, <2>1 DEF Whole!Advance, OnPath
  <2>3. db' = path'[at']
    OBVIOUS
  <2> QED BY <2>2, <2>3 DEF Whole!Next, WholeStep
<1>3. CASE at # step
  <2>1. at = step + 1
    BY <1>1, <1>3 DEF OnPath
  <2>2. at' = at /\ db' = db
    BY <1>1, <2>1
  <2> QED BY <2>2 DEF WholeStep, Whole!vars
<1> QED BY <1>2, <1>3

\* What a statement does that takes effect.
LEMMA TakesEffectOnPath ==
    ASSUME PathInv, CanExecute, TakesEffect
    PROVE  /\ mode = "tx" => conn = "open" /\ work' = path[step + 1] /\ UNCHANGED <<db, at>>
           /\ mode = "alone" => conn = "none" /\ db' = path[step + 1] /\ at' = step + 1
<1>1. /\ OnPath /\ db = path[at] /\ step \in 1 .. Len(steps) /\ pc = "run" /\ IsSent(Current)
      /\ Len(path) = Len(steps) + 1 /\ Len(steps) \in Nat /\ path \in Seq(Table)
  BY DEF PathInv, Follows, TypeInv, TypeOK, StepsOK, CanExecute, Ready
<1>2. IsStep(Current) /\ PlainStep(Current) /\ path[step + 1] = Asked(path[step], Current)
  BY <1>1 DEF PathInv, TypeInv, StepsOK, OnPath, Current
<1>3. path[step] \in Table
  BY <1>1
<1>4. Effect(Current, path[step]) = path[step + 1]
  BY <1>1, <1>2, <1>3, EffectIsAsked
<1>5. Effect(Current, path[step + 1]) = path[step + 1]
  BY <1>1, <1>2, <1>3, <1>4, EffectTwice
<1>6. ASSUME mode = "tx"
      PROVE  conn = "open" /\ work' = path[step + 1] /\ UNCHANGED <<db, at>>
  <2>1. InTx
    BY <1>1, <1>6 DEF PathInv, IInv, Active
  <2>2. conn = "open"
    BY <1>1, <2>1 DEF InTx, CanExecute
  <2>3. work = path[step]
    BY <1>1, <1>6, <2>2 DEF OnPath
  <2> QED BY <1>4, <2>2, <2>3 DEF TakesEffect
<1>7. ASSUME mode = "alone"
      PROVE  conn = "none" /\ db' = path[step + 1] /\ at' = step + 1
  <2>1. conn = "none" /\ (at = step \/ at = step + 1)
    BY <1>1, <1>7 DEF OnPath
  <2>2. db' = Effect(Current, db) /\ at' = step + 1
    BY <1>7, <2>1 DEF TakesEffect
  <2> QED BY <1>1, <1>4, <1>5, <2>1, <2>2
<1> QED BY <1>6, <1>7

\* The statement has succeeded: the path up to the next.
LEMMA ProceedOnPath ==
    ASSUME PathInv, Ready, Proceed, ~IsRefused(Current),
           mode = "alone" => at' = step + 1,
           mode = "tx" /\ conn = "open" => work' = path[step + 1]
    PROVE  OnPath'
<1>1. OnPath /\ pc = "run" /\ step \in 1 .. Len(steps) /\ Len(steps) \in Nat /\ mode \in {"alone", "tx"}
  BY DEF PathInv, Follows, TypeInv, TypeOK, StepsOK, Ready
<1>2. /\ UNCHANGED <<pc, conn, mode, setup, steps, status, path, goal>>
      /\ step' = step + 1 /\ err' = "nil"
  BY DEF Proceed
<1>3. \A k \in 1 .. step' - 1 : ~IsRefused(steps[k])
  <2>1. \A k \in 1 .. step' - 1 : k \in 1 .. step - 1 \/ k = step
    BY <1>1, <1>2
  <2> QED BY <1>1, <2>1 DEF OnPath, Current
<1> QED BY <1>1, <1>2, <1>3 DEF OnPath, Unrefused

LEMMA ExecutePath ==
    ASSUME PathInv, Execute PROVE Follows' /\ WholeStep
<1>1. CanExecute /\ TakesEffect /\ Proceed /\ Ready /\ ~IsRefused(Current)
  BY DEF Execute, CanExecute, IsSent
<1>2. /\ mode = "tx" => work' = path[step + 1] /\ UNCHANGED <<db, at>>
      /\ mode = "alone" => db' = path[step + 1] /\ at' = step + 1
  BY <1>1, TakesEffectOnPath
<1>3. OnPath'
  BY <1>1, <1>2, ProceedOnPath
<1>4. UNCHANGED <<pc, mode, status, path, goal>> /\ pc = "run" /\ db = path[at] /\ mode \in {"alone", "tx"}
  BY <1>1 DEF Proceed, Ready, PathInv, Follows, TypeInv, TypeOK
<1>5. db' = path'[at']
  BY <1>2, <1>4
<1>6. Follows'
  BY <1>3, <1>4, <1>5 DEF Follows, NilMeansAll, OnPath
<1>7. ASSUME mode = "alone" PROVE WholeStep
  BY <1>1, <1>2, <1>4, <1>7, AdvanceWhole
<1>8. ASSUME mode = "tx" PROVE WholeStep
  BY <1>2, <1>4, <1>8 DEF WholeStep, Whole!vars
<1> QED BY <1>4, <1>6, <1>7, <1>8

LEMMA SkipPath ==
    ASSUME PathInv, Skip PROVE Follows' /\ WholeStep
<1>1. Ready /\ Proceed /\ IsSkipped(Current) /\ ~IsRefused(Current) /\ ~IsSent(Current)
  BY DEF Skip, IsSkipped, IsSent
<1>2. /\ OnPath /\ db = path[at] /\ step \in 1 .. Len(steps) /\ pc = "run"
      /\ Len(path) = Len(steps) + 1 /\ Len(steps) \in Nat /\ path \in Seq(Table)
      /\ mode \in {"alone", "tx"}
  BY <1>1 DEF PathInv, Follows, TypeInv, TypeOK, StepsOK, Ready
<1>3. IsStep(Current) /\ path[step + 1] = Asked(path[step], Current) /\ path[step] \in Table
  BY <1>2 DEF PathInv, TypeInv, StepsOK, OnPath, Current
<1>4. path[step + 1] = path[step]
  BY <1>1, <1>3, SkippedAsksNothing
<1>5. db' = db /\ work' = work /\ at' = IF mode = "alone" THEN step + 1 ELSE at
  BY DEF Skip
<1>6. mode = "alone" => at = step
  BY <1>1, <1>2 DEF OnPath, Current
<1>7. mode = "alone" => db' = path[step + 1] /\ at' = step + 1
  BY <1>2, <1>4, <1>5, <1>6
<1>8. mode = "tx" /\ conn = "open" => work' = path[step + 1]
  BY <1>2, <1>4, <1>5 DEF OnPath
<1>9. OnPath'
  BY <1>1, <1>7, <1>8, ProceedOnPath
<1>10. UNCHANGED <<pc, mode, status, path, goal>>
  BY <1>1 DEF Proceed
<1>11. Follows'
  BY <1>2, <1>5, <1>7, <1>9, <1>10 DEF Follows, NilMeansAll, OnPath
<1>12. ASSUME mode = "alone" PROVE WholeStep
  BY <1>1, <1>7, <1>10, <1>12, AdvanceWhole
<1>13. ASSUME mode = "tx" PROVE WholeStep
  BY <1>5, <1>10, <1>13 DEF WholeStep, Whole!vars
<1> QED BY <1>2, <1>11, <1>12, <1>13

\* An attempt has failed: the work stays where it is on the path.
LEMMA FailedOnPath ==
    ASSUME PathInv, pc = "run", NEW e \in Errors, Failed(e),
           mode = "alone" => /\ conn' = "none"
                             /\ \/ at' = at
                                \/ at' = step + 1 /\ step <= Len(steps) /\ IsSent(steps[step]),
           mode = "tx" /\ conn' = "open" => conn = "open" /\ work' = work
    PROVE  OnPath'
<1>1. OnPath /\ mode \in {"alone", "tx"}
  BY DEF PathInv, Follows, TypeInv, TypeOK
<1>2. UNCHANGED <<mode, setup, steps, step, status, path, goal>> /\ err' = e /\ pc' \in {"run", "leave"}
  BY DEF Failed
<1>3. e # "nil"
  BY DEF Errors
<1> QED BY <1>1, <1>2, <1>3 DEF OnPath, Unrefused

LEMMA AnswerLostPath ==
    ASSUME PathInv, AnswerLost PROVE Follows' /\ WholeStep
<1>1. /\ CanExecute /\ TakesEffect /\ Ready /\ IsSent(Current) /\ pc = "run" /\ conn # "open"
      /\ Failed("connection") /\ "connection" \in Errors
      /\ conn' = IF conn = "gone" THEN "broken" ELSE conn
  BY DEF AnswerLost, CanExecute, Ready, Errors
<1>2. mode = "alone" /\ conn = "none" /\ db' = path[step + 1] /\ at' = step + 1
  <2>1. mode \in {"alone", "tx"}
    BY DEF PathInv, TypeInv, TypeOK
  <2> QED BY <1>1, <2>1, TakesEffectOnPath
<1>3. conn' = "none" /\ step <= Len(steps) /\ IsSent(steps[step])
  BY <1>1, <1>2 DEF Ready, Current
<1>4. OnPath'
  BY <1>1, <1>2, <1>3, FailedOnPath
<1>5. UNCHANGED <<mode, status, path, goal>> /\ pc' \in {"run", "leave"}
  BY <1>1 DEF Failed
<1>6. Follows'
  BY <1>2, <1>4, <1>5 DEF Follows, NilMeansAll, OnPath
<1> QED BY <1>1, <1>2, <1>5, <1>6, AdvanceWhole

LEMMA FailsPath ==
    ASSUME PathInv, NEW e \in Errors, Fails(e) PROVE Follows' /\ WholeStep
<1>1. /\ pc = "run" /\ OnPath /\ db = path[at] /\ Failed(e) /\ conn' = ConnAfter(e)
      /\ UNCHANGED <<db, work, at>>
  BY DEF Fails, Ready, PathInv, Follows
<1>2. mode = "alone" => conn' = "none"
  BY <1>1 DEF OnPath, ConnAfter
<1>3. mode = "tx" /\ conn' = "open" => conn = "open"
  BY <1>1 DEF ConnAfter
<1>4. OnPath'
  BY <1>1, <1>2, <1>3, FailedOnPath
<1>5. UNCHANGED <<mode, status, path, goal>> /\ pc' \in {"run", "leave"}
  BY <1>1 DEF Failed
<1>6. Follows'
  BY <1>1, <1>4, <1>5 DEF Follows, NilMeansAll, OnPath
<1> QED BY <1>1, <1>5, <1>6 DEF WholeStep, Whole!vars

LEMMA LeaveAlonePath ==
    ASSUME PathInv, LeaveAlone PROVE Follows' /\ WholeStep
<1>1. /\ mode = "alone" /\ pc \in {"leave", "panic", "exit"} /\ UNCHANGED <<db, at>> /\ End(Outcome)
      /\ Outcome \in {"nil", "failed", "panicked", "exited", "crashed"}
  BY DEF LeaveAlone, Outcome
<1>2. OnPath /\ db = path[at]
  BY <1>1 DEF PathInv, Follows
<1>3. ASSUME Outcome = "nil" PROVE db = goal /\ at = Len(path)
  <2>1. pc = "leave" /\ err = "nil"
    BY <1>1, <1>3 DEF Outcome
  <2>2. step = Len(steps) + 1 /\ goal = path[Len(path)] /\ Len(path) = step
    BY <2>1, AllDone
  <2>3. at = step
    <3>1. Len(steps) \in Nat
      BY DEF PathInv, TypeInv, StepsOK
    <3> QED BY <1>1, <1>2, <2>2, <3>1 DEF OnPath
  <2> QED BY <1>2, <2>2, <2>3
<1> QED BY <1>1, <1>3, EndPath

LEMMA RollbackPath ==
    ASSUME PathInv, Rollback PROVE Follows' /\ WholeStep
<1>1. /\ mode = "tx" /\ RollsBack /\ UNCHANGED <<db, at>> /\ End(Outcome) /\ pc # "idle"
      /\ Outcome \in {"failed", "panicked"}
  BY DEF Rollback, RollsBack, Outcome
<1>2. at = 1
  BY <1>1 DEF RollsBack, PathInv, IInv, Active, InTx
<1> QED BY <1>1, <1>2, EndPath

\* COMMIT takes the database to where the transaction is: the end of the path,
\* unless Goexit ended the function.
LEMMA CommitPath ==
    ASSUME PathInv, Commit PROVE Follows' /\ WholeStep
<1>1. mode = "tx" /\ Commits /\ pc \in {"leave", "exit"} /\ (pc = "leave" => err = "nil")
  BY DEF Commit, Commits
<1>2. InTx /\ OnPath /\ path \in Seq(Table) /\ step \in 1 .. Len(path) /\ Len(path) \in Nat
  BY <1>1 DEF PathInv, Follows, TypeInv, TypeOK, StepsOK, IInv, Active
<1>3. conn = "open" /\ db' = work
  BY <1>1, <1>2 DEF Commit, InTx
<1>4. at = 1 /\ at' = step /\ path' = path /\ mode' = mode /\ goal' = goal
  BY <1>2 DEF Commit, End, InTx
<1>5. db' = path'[at']
  BY <1>1, <1>2, <1>3, <1>4 DEF OnPath
<1>6. CASE pc = "exit"
  <2>1. pc' = "idle" /\ status' = "exited"
    BY <1>6 DEF Commit, End
  <2>2. at' \in at .. Len(path)
    BY <1>2, <1>4
  <2>3. Whole!Exit
    BY <1>2, <1>4, <2>1, <2>2 DEF Whole!Exit, OnPath
  <2>4. Follows'
    BY <1>5, <2>1 DEF Follows, NilMeansAll
  <2>5. WholeStep
    BY <1>5, <2>3 DEF WholeStep, Whole!Next
  <2> QED BY <2>4, <2>5
<1>7. CASE pc = "leave"
  <2>1. /\ pc' = "committed" /\ conn' = "none"
        /\ UNCHANGED <<work, mode, setup, steps, step, attempt, err, status, path, goal>>
    BY <1>7 DEF Commit
  <2>2. step = Len(steps) + 1 /\ Len(path) = step
    BY <1>1, <1>7, AllDone
  <2>3. OnPath'
    BY <1>1, <1>2, <1>4, <1>7, <2>1, <2>2 DEF OnPath, Unrefused
  <2>4. Follows'
    BY <1>2, <1>5, <2>1, <2>3 DEF Follows, NilMeansAll, OnPath
  <2>5. WholeStep
    <3>1. CASE Len(path) = 1
      <4>1. db' = db /\ at' = at
        BY <1>2, <1>4, <1>5, <2>2, <3>1 DEF InTx
      <4> QED BY <2>1, <4>1 DEF WholeStep, Whole!vars
    <3>2. CASE Len(path) # 1
      <4>1. at < Len(path) /\ at' = Len(path) /\ status = "running"
        BY <1>2, <1>4, <2>2, <3>2 DEF OnPath
      <4>2. Whole!Advance
        BY <1>1, <2>1, <4>1 DEF Whole!Advance
      <4> QED BY <1>5, <4>2 DEF WholeStep, Whole!Next
    <3> QED BY <3>1, <3>2
  <2> QED BY <2>4, <2>5
<1> QED BY <1>1, <1>6, <1>7

LEMMA CommitFailsPath ==
    ASSUME PathInv, CommitFails PROVE Follows' /\ WholeStep
<1> DEFINE outcome == IF pc = "exit" THEN "exited" ELSE "failed"
<1>1. End(outcome) /\ UNCHANGED <<db, at>> /\ outcome \in {"exited", "failed"} /\ pc # "idle"
  BY DEF CommitFails, Commits
<1> HIDE DEF outcome
<1> QED BY <1>1, EndPath

LEMMA CommittedPath ==
    ASSUME PathInv, Committed PROVE Follows' /\ WholeStep
<1>1. pc = "committed" /\ UNCHANGED <<db, at>>
  BY DEF Committed
<1>2. OnPath /\ db = path[at] /\ at = Len(path) /\ err = "nil"
  BY <1>1 DEF PathInv, Follows, OnPath
<1>3. db = goal
  BY <1>1, <1>2, AllDone
<1>4. PICK outcome \in {"nil", "failed"} : End(outcome)
  BY DEF Committed
<1> QED BY <1>1, <1>2, <1>3, <1>4, EndPath

\* Steps that leave the path, and the place on it, alone.
LEMMA OtherPath ==
    ASSUME PathInv, Refuse \/ ContextEnds \/ Return \/ Panic \/ Goexit \/ BeginFails \/ Crash
    PROVE  Follows' /\ WholeStep
<1>1. CASE Refuse
  <2>1. OnPath' /\ pc = "run" /\ pc' = "leave"
    BY <1>1 DEF Refuse, Ready, history, PathInv, Follows, OnPath, Unrefused
  <2>2. UNCHANGED <<db, path, at, mode, status, goal>>
    BY <1>1 DEF Refuse, history
  <2> QED BY <2>1, <2>2 DEF PathInv, Follows, NilMeansAll, WholeStep, Whole!vars
<1>2. CASE ContextEnds
  <2>1. UNCHANGED <<db, work, mode, steps, step, pc, err, path, at, mode, status, goal>> /\ pc # "idle"
    BY <1>2 DEF ContextEnds, history
  <2>2. OnPath'
    BY <1>2, <2>1 DEF ContextEnds, PathInv, Follows, OnPath, Unrefused
  <2> QED BY <2>1, <2>2 DEF PathInv, Follows, NilMeansAll, WholeStep, Whole!vars
<1>3. CASE Return \/ Panic \/ Goexit
  <2>1. /\ UNCHANGED <<db, work, conn, mode, steps, step, err, path, at, mode, status, goal>>
        /\ pc = "run" /\ pc' \in {"leave", "panic", "exit"}
    BY <1>3 DEF Return, Panic, Goexit, Leave, history
  <2>2. pc' = "leave" => step > Len(steps)
    BY <1>3 DEF Return, Panic, Goexit, Leave
  <2>3. step \in 1 .. Len(steps) + 1 /\ Len(steps) \in Nat
    BY DEF PathInv, TypeInv, TypeOK, StepsOK
  <2>4. OnPath'
    BY <2>1, <2>2, <2>3 DEF PathInv, Follows, OnPath, Unrefused
  <2> QED BY <2>1, <2>4 DEF PathInv, Follows, NilMeansAll, WholeStep, Whole!vars
<1>4. CASE BeginFails
  <2>1. /\ UNCHANGED <<db, path, at, mode, goal, pc>> /\ pc = "idle" /\ status' = "failed"
        /\ db = path[at] /\ status # "running"
    BY <1>4 DEF BeginFails, history, PathInv, Follows
  <2>2. Whole!Refuse /\ db' = path'[at']
    BY <2>1 DEF Whole!Refuse
  <2> QED BY <2>1, <2>2 DEF Follows, NilMeansAll, WholeStep, Whole!Next
<1>5. CASE Crash
  <2>1. End("crashed") /\ UNCHANGED <<db, at>> /\ pc # "idle"
    BY <1>5 DEF Crash
  <2> QED BY <2>1, EndPath
<1> QED BY <1>1, <1>2, <1>3, <1>4, <1>5

LEMMA NextPath ==
    ASSUME SafePolicies, PlainRows, PathInv, [Next]_vars
    PROVE  PathInv' /\ WholeStep
<1>0. TypeInv' /\ IInv'
  BY NextType, NextIInv DEF PathInv
<1>1. ASSUME NEW s \in Setups, NEW call \in WriteCalls, Begin("alone", s, <<call>>)
      PROVE  Follows' /\ WholeStep
  BY <1>1, CallIsWork, BeginPath
<1>2. ASSUME NEW s \in TxSetups, NEW calls \in Functions, Begin("tx", s, calls)
      PROVE  Follows' /\ WholeStep
  BY <1>2, FunctionIsWork, BeginPath
<1>3. CASE Refuse \/ ContextEnds \/ Return \/ Panic \/ Goexit \/ BeginFails \/ Crash
  <2>1. Follows' /\ WholeStep
    BY <1>3, OtherPath
  <2> QED BY <1>0, <2>1 DEF PathInv
<1>4. ASSUME Skip \/ Execute \/ AnswerLost PROVE Follows' /\ WholeStep
  BY <1>4, SkipPath, ExecutePath, AnswerLostPath
<1>5. ASSUME NEW e \in Errors, Fails(e) PROVE Follows' /\ WholeStep
  BY <1>5, FailsPath
<1>6. ASSUME LeaveAlone \/ Rollback \/ Commit \/ CommitFails \/ Committed PROVE Follows' /\ WholeStep
  BY <1>0, <1>6, LeaveAlonePath, RollbackPath, CommitPath, CommitFailsPath, CommittedPath
<1>7. CASE UNCHANGED vars
  <2>1. UNCHANGED <<db, work, conn, mode, setup, steps, step, attempt, pc, err, status, path, at, goal>>
    BY <1>7 DEF vars
  <2>2. OnPath' = OnPath
    BY <2>1 DEF OnPath, Unrefused
  <2>3. Follows'
    BY <2>1, <2>2 DEF PathInv, Follows, NilMeansAll
  <2>4. WholeStep
    BY <2>1 DEF WholeStep, Whole!vars
  <2> QED BY <1>0, <2>3, <2>4 DEF PathInv
<1> QED BY <1>0, <1>1, <1>2, <1>3, <1>4, <1>5, <1>6, <1>7 DEF Next, Run, PathInv

LEMMA PathInvariance ==
    ASSUME SafePolicies, PlainRows PROVE Spec => []PathInv
<1>1. Init => PathInv
  BY InitType, InitIInv, InitPath DEF PathInv
<1>2. PathInv /\ [Next]_vars => PathInv'
  BY NextPath
<1> QED BY <1>1, <1>2, PTL DEF Spec

\* Work of several statements is whole or, outside a transaction, a prefix: the
\* database goes along the tables its statements ask for, one statement or one
\* transaction at a time, whatever fails, is lost and is tried again (saveAll,
\* SaveAllUpsert, BatchUpdate, Transactional).
THEOREM TxWholeOrPrefix ==
    ASSUME SafePolicies, PlainRows PROVE Spec => WholeOrPrefix
<1>1. Init => Whole!Init
  BY InitPath
<1>2. PathInv /\ [Next]_vars => [Whole!Next]_(Whole!vars)
  BY NextPath DEF WholeStep
<1> QED BY <1>1, <1>2, PathInvariance, PTL DEF Spec, WholeOrPrefix, Whole!Spec

\* A caller that gets nil finds the table that all of its calls ask for: chunks
\* leave out no row, write none that was not asked for, and a statement that was
\* tried again changes nothing more.
THEOREM TxNilMeansAll ==
    ASSUME SafePolicies, PlainRows PROVE Spec => []NilMeansAll
<1>1. PathInv => NilMeansAll
  BY DEF PathInv, Follows
<1> QED BY <1>1, PathInvariance, PTL
===============================================================================
