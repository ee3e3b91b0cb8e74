----------------------------- MODULE MCTransaction -----------------------------
(* Instances of Transaction for TLC. *)
EXTENDS Transaction

\* k and w are key columns (product and warehouse), a and b are set.
Product(k, w, a) == [k |-> k, w |-> w, a |-> a, b |-> 0]

FourIds == 1 .. 4

Stock == (1 :> Product(1, 1, 0)) @@ (2 :> Product(1, 2, 0)) @@ (3 :> Product(2, 1, 0)) @@ (4 :> NoRow)

TwoTables == {Stock, [Stock EXCEPT ![4] = Product(2, 2, 0)]}

Fresh == Product(2, 2, 1)

Batch(rows) == [kind |-> "batch", items |-> rows]
Entities(ids) == [i \in DOMAIN ids |-> [id |-> ids[i]]]
Save(ids) == [kind |-> "save", items |-> Entities(ids)]
SaveNoKeys(ids) == [kind |-> "saveNoKeys", items |-> Entities(ids)]
Upsert(ids) == [kind |-> "upsert", items |-> Entities(ids)]
Lock(id) == [kind |-> "lock", items |-> Entities(<<id>>)]

Both(k, w) == [k |-> k, w |-> w]
Sets(key, set) == [key |-> key, set |-> set]

\* Three rows in two chunks, each with values of its own.
Distinct ==
    Batch(<<Sets(Both(1, 1), [a |-> 1]), Sets(Both(2, 1), [a |-> 2, b |-> 1]),
            Sets(Both(1, 2), [b |-> 2])>>)

\* One key several times: within a chunk and in the next, with other columns.
Repeated ==
    Batch(<<Sets(Both(1, 1), [a |-> 1]), Sets(Both(1, 1), [a |-> 2, b |-> 2]),
            Sets(Both(1, 1), [b |-> 1])>>)

\* Five rows in three chunks; values that go there and back.
Long ==
    Batch(<<Sets(Both(1, 1), [a |-> 1]), Sets(Both(1, 2), [a |-> 2]), Sets(Both(1, 1), [a |-> 2]),
            Sets(Both(2, 1), [b |-> 1]), Sets(Both(1, 2), [a |-> 0])>>)

\* A key that names two rows, one that names none, and a row that sets nothing.
Partial == Batch(<<Sets([k |-> 1], [a |-> 2]), Sets([k |-> 0], [b |-> 1]), Sets([k |-> 2], << >>)>>)

\* The second chunk is refused: a key column is missing, a property unknown.
MissingKey ==
    Batch(<<Sets(Both(1, 1), [a |-> 1]), Sets(Both(2, 1), << >>),
            Sets(Both(1, 2), [a |-> 1]), Sets([k |-> 1], [a |-> 2])>>)
Unknown == Batch(<<Sets(Both(1, 1), [a |-> 1]), Sets(Both(1, 2), [b |-> 1]),
                   Sets(Both(1, 1), [nope |-> 1])>>)

\* Thirteen parameters fit into a statement: the second chunk has sixteen.
Wide == Batch(<<Sets(Both(1, 1), [a |-> 1, b |-> 1]), Sets(Both(1, 2), << >>),
                Sets(Both(2, 1), [a |-> 2, b |-> 2]), Sets(Both(1, 2), [a |-> 2, b |-> 2])>>)

Calls ==
   {Distinct, Repeated, Long, Partial, MissingKey, Unknown, Wide,
    Save(<<4>>), Save(<<4, 1>>), SaveNoKeys(<<4, 1, 2>>), Upsert(<<2, 4, 1>>)}

Works ==
    {<<Save(<<4>>), Lock(1), Repeated>>, <<Distinct, Save(<<4>>)>>, <<Lock(1), MissingKey>>,
     <<Upsert(<<1, 4>>), Long, Lock(4)>>, <<SaveNoKeys(<<4, 1>>), Unknown>>}

Server(name, attempts, writes, retryable) ==
    [server |-> name, attempts |-> attempts, writes |-> writes, retryable |-> retryable]

IsDeadlock == {"deadlock", "timeout"}
IsTransient == IsDeadlock \cup {"connection"}

AllSetups ==
    {Server("mysql", 1, FALSE, {}), Server("mysql", 3, TRUE, IsTransient),
     Server("postgres", 2, FALSE, {"deadlock"})}

\* Policies that do not run a statement again after a deadlock on MySQL.
SafeSetups ==
    {Server("mysql", 1, FALSE, {}), Server("mysql", 2, TRUE, {"timeout", "connection"}),
     Server("postgres", 2, TRUE, IsTransient)}

DeadlockRetried == {Server("mysql", 2, FALSE, IsDeadlock)}

\* The instance is one that the theorems speak of.
ASSUME InstanceAssumption == PlainRows /\ (TxSetups = SafeSetups => SafePolicies)
===============================================================================
