# A verification of go-db-manager

The repository is a Go library that gives a struct a Spring-Data-like
repository: methods are derived from names, SQL is rendered for MySQL, Postgres
and SQLite, and statements run with hooks, retry, a read cache, a read replica
and transactions. This directory holds TLA+ modules translated from its source,
the TLC configurations that check them and proofs checked by TLAPS.

## Inventory

| component | code | state | operations | interacts with |
|---|---|---|---|---|
| Read cache, replica routing, `WithTx` copies | `jpa/jpa.go` 128-185, 294-334, 396-445 | the `CacheStore` (key, rows, expiry); which `Executor` a copy is bound to; whether it has a replica | `query`, `scalar`, `execute`, `InvalidateCache`, `reader`, `WithTx`; `MemoryCache` Get/Set/Clear | every read and write of the repository; one store is shared by all copies and goroutines |
| Statement execution | `jpa/jpa.go` 205-285, 348-394 | per call: attempt, done functions of the hooks, error, context | `run`, `once`, `isRead`, hooks (`Timeout`, `Metrics`, slow log) | all operations that touch the database go through `run` |
| Entity writes | `jpa/jpa.go` 747-1019 | rows; the entity in the caller's memory (key, version) | `Save*`, `SaveAllUpsert`, `Update`, `DeleteBy*`, `FindByID...` | `execute` (clears the cache) or, for inserts, `run` alone |
| Transactions | `jpa/jpa.go` 1284-1304 | the `sql.Tx`, what it has written | `Transactional` | copies made with `WithTx`; retry goes on inside |
| Batch updates and chunks | `jpa/jpa.go` 842-966, 1021-1172 | rows | `SaveAll`, `SaveAllUpsert`, `BatchUpdate`, `batchChunk`, `Chunk` | `execute` or `run`, once per 500 rows |
| Paging and scrolling | `jpa/jpa.go` 650-700, 1400-1628 | the caller's `ScrollPosition` | `PageBy`, `SliceBy`, `WindowBy`, `WindowWhere`, `SelectPage/Window/Slice` | `query`, `scalar`; rows change between requests |
| WHERE and statement generation | `sqlgen/sqlgen.go`, `jpa/jpa.go` 449-502 | none | `Build`, `where`, `cond`, `keyset`, `Cond` rendering, the request's filter | parser's tree, entity's metadata |
| Method name parser | `parser/parser.go` | none | `Parse` | its tree is cached per repository |
| Entity metadata, scanning | `entity/entity.go` | cache of metadata | `Of`, `ScanTargets`, `ScanAll`, `scanInt` | rows of the driver |
| Parameter binding | `sqlgen/sqlgen.go` 415-467, 661-694 | none | `Named`, `Positional` | declared queries |
| Generator | `cmd/jpagen/main.go` | none | `run`, `body` | writes Go text |

Behaviours that are hard, and what must hold:

* **Cache.** A query reads the store, runs its statement and stores the rows in
  three steps; a write clears the store key by key and then runs its statement;
  a transaction does so long before it commits; a replica lags. Nothing older
  than a completed Clear may survive it, a result may only be stale if its query
  overlapped a write or the write took a path that does not clear, and no
  staleness may outlast the ttl.
* **Retry.** Attempts, backoff and cancellation race; an answer may be lost
  after its write took effect. Writes are repeated only when allowed, hooks see
  each attempt once and nested, no rows of a failed attempt are left in a
  result, calls end.
* **Optimistic locking.** Two writers that loaded one version: no update may be
  lost; other paths (upsert, batch, soft delete) do not look at the version.
* **Transactions.** Error, panic, `Goexit` and retries inside `fn`: all or nothing.
* **Batches.** A chunk that fails after others succeeded, or is run again after a
  lost answer; duplicate keys; a chunk with too many parameters. The rows
  written are a prefix of what was asked for, and nil means all of them.
* **Names.** A token of the parser inside a property's word; the number of
  arguments; keywords that are the end of others. One tree for each name.
* **Scanning.** One `[]byte` may be digits or bits; a field may be narrower than
  its column. A number that fits is read back.
* **Scrolling.** Rows come and go between windows: a row that stays is seen once.
* **WHERE.** A filter (tenant, soft delete, keyset) must restrict every
  alternative of an Or method.

`PROJECT.json` lists each hazard with its line and the property that covers it,
or the reason why none does. A property that exempts the failure a hazard is
about is not listed as covering it: upserts and lost answers in `EntityStore`,
`Goexit` in `Transaction` and NULL in the sort keys of a scroll are exempted by
name.

## Modules

* `CacheKey` - how a query's key is built from its text and arguments.
* `CachedRepository` - the repository as goroutines share it: cache, replica,
  transactions, over an abstract database.
* `MCCachedRepository` - the queries and the programs of its runs.
* `CachedRepositoryProofs` - theorems about it.
* `Statement` - one call of `run` under hooks, retry and cancellation.
* `StatementProofs` - theorems about it.
* `EntityStore` - one goroutine's entities in memory against the rows that
  other goroutines change; `MCEntityStore` is its instance for TLC.
* `EntityStoreProofs` - theorems about it.
* `BatchUpdates` - chunks, and what one statement of `BatchUpdate` does to a table.
* `Transaction` - writes of several statements, alone or in `Transactional`, with
  retry; `MCTransaction` is its instance for TLC.
* `WholeOrPrefix` - what a caller is promised of them, which `Transaction` refines.
* `TransactionProofs` - theorems about `BatchUpdates` and `Transaction`.
* `SqlText` - pieces of a condition and how sqlgen joins them.
* `SqlKeyset` - the boundary of a window, rendered with them.
* `LikePattern` - patterns for LIKE, escaped, and what LIKE matches.
* `WhereClause` - criteria, `Cond` trees and filter rendered with these.
* `MethodName` - the parser of method names.
* `NameSpelling` - the other way: how a name is spelled from what it means, and
  which spellings say one thing only. `MethodNameProofs` - theorems about both.
* `RowScan` - what the driver hands over, coerced into an entity's field.
* `DerivedQuery` - calls of derived methods, of operations by key and of `Cond`
  queries on a table of tenants, from the name to the fields of the entities;
  `MCDerivedQuery` is its instance for TLC.
* `DerivedQueryProofs` - theorems about it and the other modules it is built from.
* `Scrolling` - walks by windows, slices and pages over a table that others
  change; `MCScrolling` is its instance for TLC.
* `ScrollingProofs` - theorems about its windows, slices and pages.
* `StepLemmas` - facts about steps and sequences of any length that the proofs share.

### CachedRepository

A client is a goroutine. Its call is cut at each operation of the store and at
each statement, since other goroutines can act between any two of them:

| action | code |
|---|---|
| `Hit`, `Miss`, `Lapsed` + `Evict` | `store.Get` in `query`: `Lapsed` is `MemoryCache` seeing an expired entry, `Evict` its `Delete`, which removes whatever is stored by then |
| `Fetch`, `FetchFails` | the statement of `query`; the executor is `Reader` |
| `Fill` | `store.Set` |
| `LockedQuery`, `Scalar` | reads that use no cache |
| `Execute`, `Visit`, `ExecuteStatement`/`ExecuteFails` | `execute`: `Clear`, key by key, then the statement |
| `InvalidateCache`, `Visit` | `InvalidateCache` |
| `Save` | `saveAll`, which runs its INSERT without `execute` |
| `Begin`, `Commit`, `Rollback` | `Transactional` with a `WithTx` copy |
| `Expire` | time passes the entry's expiry |
| `Replicate`, `ExternalWrite` | the environment |

The contents of a query's result are the number of the last write that changed
its rows. A statement is atomic; a transaction's writes are visible to itself,
lock their rows for other writers, and become visible on commit; the replica
applies commits in order. The locks of `FOR UPDATE` reads are not kept to the
end of the transaction: that allows more interleavings, not fewer. Retry inside
`query` is in `Statement`; here a failed statement is one that failed for good.
A result carries three history fields (`missed`, `skipped`, `overlap`) that no
guard reads; they say which writes the result has missed since it was read and
which clearing calls ran between its statement and its `Set`.

What surrounds the repository is `program`, which the initial state chooses from
`Programs` and no step changes: the queries that are issued, whether New was
given a replica, whether there are transactions, and a bound on the writes that
take effect. So one run checks several set-ups, and a theorem holds of any
mixture of them. Two goroutines are enough to put any step of one call between
any two of another's. With two queries a Clear can be half done, and one write
can change one result or both; two writes allow a stale result to be overwritten
by another. With a replica no unlocked read comes from the primary but those in
transactions, so `Coherent` is of the set-up without one.

### Statement

Calls of one repository share no state that `run` or `once` write, so one
goroutine that calls again and again is enough; next to it only the
cancellation of its context happens. Four callers stand for all users of
`run`: `query` replaces its result in each attempt, `SelectScalars` appends to
one over all attempts, `EachBy` hands rows to a callback, `execute` changes the
database. A write can be applied and its answer lost. Errors are what
`Retryable` says of them. A panic (a hook's Before or done function, callback,
`Scan`, driver, `Retryable`) leaves through `run` without calling the done
functions that are left, as the code does. `comments` says whether the
repository puts a comment before the text, which `isRead` then does not
recognise; `Comments` are the set-ups a behaviour can begin with.

### EntityStore

A row is its version, the number of the write that made its contents, and
whether it is live. An entity in memory is its key, the version it counts and
whether it was deleted softly, next to two history fields no guard reads: the
write its contents come from, and the kinds of writes to its row since that the
goroutine does not know of.

| action | code |
|---|---|
| `Find` | `FindByID`, `FindBy`: contents and version are copied |
| `NewEntity`, `Save` | an entity of the program, `Save`/`saveAll` |
| `SaveAllUpsert` | the upsert, which overwrites the version column too |
| `Update`, `UpdateUnanswered` | `UPDATE ... WHERE pk AND version`, its version raised in memory; the answer may be lost, then memory is not raised |
| `BatchUpdate` | one row of `batchChunk`, which ignores the version |
| `SoftDelete`, `HardDelete` | `DELETE` as Build renders it |
| `Begin`, `Commit`, `Rollback` | `Transactional` |

Statements that match no row change nothing and are left out, except where
`Update` answers `ErrOptimisticLock`. Reads see committed rows and the
transaction's own; a write of a row another transaction has written waits. The
cache is left out: `CachedRepository` has it, and an entity from the cache is
one that was found earlier.

### Transaction and BatchUpdates

The work is a sequence of calls, cut into statements as `saveAll`,
`SaveAllUpsert` and `BatchUpdate` cut them (`Chunks`; one row a statement where
the server does not return generated keys). Alone it is one call; inside
`Transactional` the function makes several.

| action | code |
|---|---|
| `Begin`, `BeginFails` | the call, or `BeginTx` and `fn`'s calls on a copy |
| `Skip`, `Refuse` | `batchChunk` with nothing to set, or with an error before any statement |
| `Execute`, `AnswerLost`, `Fails(e)` | one attempt of `run`; `Failed` decides whether another follows |
| `ContextEnds` | `database/sql` rolls back when the context of `BeginTx` ends |
| `Return`, `Panic`, `Goexit` | how the work leaves |
| `LeaveAlone` | the call returns |
| `Rollback`, `Commit`, `CommitFails`, `Committed` | the deferred function of `Transactional`; the answer of `COMMIT` may be lost |
| `Crash` | the program dies, its transaction with it |

The database is external: what an error leaves of a transaction (`ConnAfter`)
differs between Postgres, which refuses everything until the rollback, and
MySQL, which goes on except after a deadlock, when the transaction is gone and
the connection commits every statement by itself. Rows of a batch name columns
and values; the model's batches set no key columns, for MySQL reads the values
of earlier assignments of one `SET` and the other servers do not.

`WholeOrPrefix` is the abstract specification: the statements lead the database
along a path of tables, one by one outside a transaction and from end to end in
one step inside. `Transaction` states the mapping with `INSTANCE WholeOrPrefix
WITH atomic <- (mode = "tx")`; `path` and `at` are history variables that no
guard reads. A batch's path is made by `RowByRow`, which applies rows one by one
and knows no CASE, so the refinement also says that the statement does what
the rows ask for.

### MethodName, WhereClause, LikePattern, RowScan and DerivedQuery

`MethodName` reads a name as pieces, so that a token can be one word, end one,
or begin one (`Topics` is "Top" "ics", `OrderId` is "Or" "der" "Id"). `Parse`,
`SplitToken`, `ParsePart` and `ParseOrder` follow the functions of that name,
with their errors as `NoTree`; where the code loops over a text, a function gives
what is read up to each piece.

`NameSpelling` is the grammar that package `parser` documents, from the tree to the
name: `NameOf` spells a subject, criteria with one of the keywords of their
operator or none, sort keys, and the words of IgnoreCase; `GivenOf` lists the
arguments; `MeansOf` says what is asked for, and knows nothing of pieces.
`IsSpelling` holds of spellings that can be read in one way only: no token of the
parser is a word of its own where it would be taken for one (inside a word it may
stand anywhere), no other keyword on another property spells the same criterion,
no beginning of a sort key is a property with a direction after it. Names with
underscores are left to the runs.

`SqlText` keeps of a text what its meaning depends on: without its outermost
parentheses a condition is a sequence of alternatives, each true, false or
unknown on the row at hand. `JoinAnd` joins the last alternative of one text
with the first of the next, which is what SQL reads. `WhereClause` renders
each kind of criterion and `Cond` to such a text, raw conditions with their
named parameters included, and joins them in the order and with the parentheses
of `Build`; `LikePattern` escapes operands as `EscapeLike` does and matches as
the server's LIKE with a backslash as escape character. `RowScan` coerces what
the driver hands over - digits, bits, integers, NULL - into Boolean and integer
fields as `scanInt` and `Scan` do, at the width of the field.

`DerivedQuery` puts them together. A call has a name, arguments and, kept apart,
what it means; `Derive` parses the name, binds the arguments and renders the
clause; `Select`, `DeleteSoft` and `DeleteHard` run it; `ScanAll` reads the rows
into fields; `Refuse` is an error of `Build`. Operations by key
(`FindByID` to `DeleteAllByID`) are calls of the method `pkMethod` makes up. The
rows a statement takes are compared with `Wanted`, which evaluates the request
operator by operator and knows nothing of names, texts or patterns: what equality
with nil, lists, limits and the operators for texts mean is written a second time
(`EqualTo`, `OneOf`, `Inside`, `TextMeets`); comparisons of order are SQL's on both
sides. A delete is also compared with itself run again (`TakenAgainOnlyByOr`).
Errors that depend on what is not here - an unknown property in a `Cond`, more
arguments than the dialect takes - are left out. ORDER BY,
LIMIT and locks are left out; counting and existence take the rows that
finding takes. `Cond` trees are built from `SimpleConds` by And, Or and Not,
`MaxDepth` levels with the filter's (4 on the instance); Not of a nil `Cond`, which
the code would call through, is left out. Texts are sequences of `Characters`,
five on the instance: a letter in both cases and the three special ones.

### Scrolling

A program walks through the rows that match a query and others insert, delete
and change rows between its statements.

| action | code |
|---|---|
| `Window`, `NextPosition` | `window` (`WindowBy`, `WindowWhere`) and `SelectWindow`: one row more than the size is fetched, the position is the last row handed out |
| `Slice` | `SliceBy`, `SelectSlice`: LIMIT size+1 OFFSET page*size |
| `PageFind`, `PageCount` | `PageBy`, `PageWhere`, `SelectPage`: the rows, and in a second statement their count |
| `Insert`, `Delete`, `Change` | other programs |

ORDER BY with NULL as least or greatest value, LIMIT and OFFSET are external.
Sort orders end in the key, which `ScrollPosition`'s comment asks for. The
position after an empty window is the start again: a walk is over there. The
histories `stays`, `seen`, `again`, `lost`, `gained` and `nullKey` are read by no
guard. Rows that begin to match are inserted, so the rest of the clause needs no
place here; `DerivedQuery` has it, and `SeveralAlternativesEscape` says that the
boundary does not restrict a method with Or.

## Runs

| run | shows |
|---|---|
| `cache` | two goroutines; two queries and two writes without transactions, or one query and a write with transactions and a replica; ttl: `ClearIsABarrier`, `SkippedOnlyIfOverlapping`, `Coherent` and, under fairness, `EventuallyFreshHits` |
| `cache_key` | violation: two lists of arguments that are written alike share an entry, and a query is given the rows of the other |
| `cache_tx_read` | violation: a read in a transaction is answered from the shared cache |
| `statement` | three hooks (one of them without done), three attempts, two rows, with and without a comment: nesting, repetition, which statements are retried, results, cancellation, termination |
| `statement_rows` | violation: rows of a failed attempt are given to the caller again |
| `entities` | two goroutines, one row, every kind of write, transactions, four writes: `NoLostUpdate`, `ConflictMeansChange` |
| `entities_rollback` | violation: after a rolled-back `Update` the entity's version is ahead, and a later `Update` wipes out another goroutine's |
| `transaction` | eleven calls alone and five functions in transactions on both kinds of server, with and without retry: the refinement `WholeOrPrefix`, `NothingBeforeCommit`, `NilMeansAll` and, under fairness, `CallsEnd` |
| `transaction_retry` | violation: a statement retried after a deadlock of MySQL is kept although `Transactional` reports an error |
| `derived_query` | every keyword, names with tokens in their words, operations by key, operands special to LIKE, `Cond` trees of two levels, filters, keysets, ways of the driver: `NamesAreReadAsSpelled`, `TakesWhatIsAsked`, `OrMissesNothing`, `TakenAgainOnlyByOr`, `ReadsBack` |
| `derived_query_filter` | violation: a method with Or takes rows the filter excludes |
| `scrolling` | windows, slices and pages of one or two rows while two changes happen: `WindowsDoNotRepeat`, `WindowsMissNothing`, `OffsetsMissOnlyAfterLoss`, `OffsetsRepeatOnlyAfterGain` and, under fairness, `WalksEnd` |

Three hooks are the fewest of which one is between two others and one returns
no done function; three attempts have a first, a middle and a last one; two
rows can fail before, between and after.

In `entities` one row is enough: a statement names one key, and versions of
different rows never meet. Four writes allow an update, a rollback, another
goroutine's update and the update that loses it. In `transaction` chunks are of
two rows (`BatchSize`), so the calls make one to three statements, the last of
them full or not, and with thirteen parameters (`MaxParams`) one of them has a
chunk that fits before one that does not; three attempts are a first, a middle
and a last one; `Tables` bounds the tables in which work begins, not those it
makes. Integers of the driver have one or two bytes (`WordBytes`): the byte
order, the sign and the cut to a narrower field show with two. In
`derived_query` a clause is
evaluated row by row, so a table of one row, taken over all rows of two keys,
two tenants and three values (NULL is one), shows what a table of many would;
two levels of `Cond` put And in Or, Or in And and both under Not. In
`scrolling` three rows with a size of one or two make walks of one to three
steps whose last one is full, short or empty; two changes can delete a row and
bring it back, or let a loss and a gain meet in one walk.

### Fairness

`CachedRepository!FairSpec`: a goroutine inside a call goes on (`WF` of
`Step(c)`: the code has no lock to wait for, the scheduler is fair); a function
given to `Transactional` makes finitely many calls and returns (`SF` of
`End(c)`, which is disabled while a call is in progress); time passes (`WF` of
`Expire(k)`); the replica applies what it is sent (`WF` of `Replicate`).
`Statement!FairSpec`: hooks, statements and timers end (`WF` of `Run`);
nothing makes the context end.
`Transaction!FairSpec`: statements are answered and functions return (`WF` of
`Run`); panics, `Goexit`, crashes and ends of contexts need not happen.
`Scrolling!FairSpec`: a program asks for more as long as there is more (`WF` of
`GoesOn`: a loop over `HasNext`); others need not stop, but their changes are
bounded by `MaxChanges`, and rows that are inserted ahead of a walk forever do
keep it going.

## Proofs

`CachedRepositoryProofs` proves for all sets of clients, queries and programs, with
or without replica and transactions, and whatever queries share a key, that
`Spec` implies always `TypeOK`, `ClearIsABarrier`, `SkippedOnlyIfOverlapping` and
`Coherent`. The only assumptions are those of `ConstantsAssumption`: `None` is not
a query or a result, programs issue queries, the bounds are numbers.
`SkippedOnlyIfOverlapping` is about results read from the primary or in a
transaction: a query that begins after a write and reads a replica that lags
misses the write without overlapping it, and what ends that is the ttl
(`EventuallyFreshHits`).

None of the three safety properties is inductive: a `Fill` stores what is in
the goroutine's hands, so the same must hold of results in flight.
`IInv` adds

* `CallInv` - what the position in a call says of the rest (a result is in
  hand exactly between `Fetch` and `Fill`, a write has cleared every key, a
  goroutine outside a transaction has no uncommitted writes);
* `InFlightInv` - a result in flight knows every clearing call in progress;
* `ResultInv` - coherence and overlap of results in flight as well as cached.

The proof has one lemma for each action or group of actions; the writes share
two lemmas that say what `MissBypass` and `MissExecute` do to a result.

`EntityStoreProofs` proves, for all sets of goroutines and keys and any number
of writes, `TypeOK`, `NoLostUpdate` and `ConflictMeansChange`. Every write
statement is one call of `Write`, so the lemmas are about `Write` and about the
entity it leaves in memory; each action then shows that its call is a sound
one. `IInv` adds

* `LockInv` - only transactions have uncommitted changes, no two of one row;
* `PendingInv` - an uncommitted row is a later version than the committed one,
  unless a write that sets or keeps the version is among its changes;
* `HeldInv` - an entity that has missed versioned writes alone is not ahead of
  its row, and where it is not behind it has the row's contents;
* `StampInv` - contents are written once, so in rows, uncommitted changes and
  memory the same contents have the same version.

`NoLostUpdate` follows from `HeldInv`, `ConflictMeansChange` from `StampInv`;
`PendingInv` is what `HeldInv` needs when a transaction commits.
`ConflictMeansChange` says less than `ErrOptimisticLock` does ("concurrently"): after an
`Update` of the entity that was rolled back, or whose answer was lost, the row
has other contents than the entity comes from though no other goroutine changed it.

`ScrollingProofs` proves, for all keys and values, sort orders of any length,
sizes and numbers of changes, with NULL first or last, that windows never hand
out a row twice (`ScrollSeesOnce`) and miss none that stays (`ScrollSeesAll`).
A position cuts the rows in two: `BehindInv` says that what was seen is behind
it, `AheadInv` that what was not is ahead of it, NULL aside. A window moves the
position to its last row, and three lemmas about the clause of a boundary carry
both over: it takes neither the row it was made from nor one before it, it takes
every later row without NULL, and it is transitive. `ConstantsAssumption` only
gives the constants their types, and `NullAssumption` keeps NULL apart from the
numbers.

It proves the same of slices and pages: `OffsetsMiss` and
`OffsetsRepeat`. A row's place is the number of rows before it. A row that no
inserted or changed one has pushed back is not found behind the slices it was in
(`RepeatInv`), one that no deleted or changed one has pulled forward is not found
before those it was not in (`MissInv`). A step by the program moves the boundary
from `Offset` to `Offset` plus size, and the rows up to it are the first rows of
all (`SkippedAndHanded`); where a slice has no next one they are all rows, and
where the count of `PageBy` has no next page there is no place beyond
(`PagesOfRows`).

`StatementProofs` proves, for any number of hooks, attempts and rows and every
policy, all safety properties of the run: `TypeOK`, `HooksNest`,
`WriteAtMostOnce`, `AnswerOfLastAttempt`, `CancelEndsRetries`,
`QueryRowsOfOneAttempt` and `ReadsEligible`, which with a comment before the text
says that a read is run once. `IInv` says how
far the history has come at each place of the call:

* `Counted`, `Failures` - an attempt that runs has as many errors before it as
  its number says, all of them retryable;
* `Waits` - a wait begins only while the context is alive, so one attempt at most
  begins after it has ended;
* `Stacked`, `Told` - the done functions still to be called are those of the
  outer hooks, innermost last, and each is one error short of the others.

`TransactionProofs` is first about `BatchUpdates`, for all tables, batches and chunk sizes:
chunks leave out no item, repeat none and keep the order (`ChunksKeepItems`); one
UPDATE makes of a table what the rows of its chunk ask for one by one, if they
have the same key columns and set others (`ChunkIsRowByRow`): both sides give a
column the value of the first row that hits it (`Given`), and only one table has
that (`GivenOnce`); a batch that sets none of its key columns does the same when
it is applied again (`ChunkTwice`), which is why a chunk may be retried after a lost
answer.

Then it proves four things of `Transaction`, for all tables, calls,
functions and chunk sizes. `TxTypeCorrect` is `TypeOK` and assumes nothing but the
types of the constants (`CallAssumption`, `SetupAssumption`).
`NothingUncommitted` says that nothing of a transaction is in the database before it
commits, assuming `SafePolicies`: no policy used in a transaction on MySQL retries
after a deadlock. `transaction_retry` shows that the assumption is needed. `IInv`
says that a connection whose transaction is gone is used for nothing but the
rollback.

`TxWholeOrPrefix` is the refinement of `WholeOrPrefix`, and `TxNilMeansAll` is
`NilMeansAll`. They assume `SafePolicies` and `PlainRows`: in a batch statement that is
sent all rows have the same key columns and set none of them. The code does not
check that, and without it one UPDATE is not what its rows ask for one by one (see
"What the code does not do"); what a program loses that sends such rows is not
modelled. `InstanceAssumption` of `MCTransaction` has TLC evaluate both on the
instance. `PathInv` is inductive: alone the database is on the path of the work at
the statement that is next, or one further if its answer was lost, and inside a
transaction the open transaction is there while the database is at the beginning
(`OnPath`). A statement that is sent takes it one table on (`EffectIsAsked`), one
that is run twice stays (`EffectTwice`), one with nothing to set asks for nothing
(`SkippedAsksNothing`); each action then maps to a step of `WholeOrPrefix` or to none.
For `NilMeansAll` the end of the path has to be what the calls ask for uncut:
`WholeCall` shows it of one call - rows in chunks, entities, locks - and
`GoalIsResult` joins the calls.

`DerivedQueryProofs` is about `DerivedQuery` and the modules it is built from, for all
tables, texts of any length, `Cond` trees of any depth, filters, boundaries and calls:

* Texts: if each part of a clause has at most one alternative, the clause selects
  a row exactly if each part does (`OneAlternativeRestricts`); if the criteria have
  two or more, each but the last selects rows whatever the other parts say
  (`SeveralAlternativesEscape`). The second is why a filter does not restrict a
  method with Or.
* Patterns: what `EscapeLike` makes of a text, with `%` after it, before it or around
  it, matches the texts that begin with it, end with it or contain it and no other
  (`PatternMatches`), with IgnoreCase as without (`FoldedMatches`); so each
  criterion says what its operator promises (`PartSays`). So it does without texts:
  comparing with nil is asking for NULL (`EqualSays`), a list with NULL in it rules
  nothing out and an empty one everything (`WithinSays`), a limit that is NULL leaves
  the other in force (`BetweenSays`).
* `CondBinds`: the text of a `Cond` tree is one alternative whose truth is the
  tree's, whatever stands next to it. And, Or and Not put parentheses where they
  are needed, and leave out what has no text. The proof is an induction over
  trees: `CondLevels` shows that `CondTrees` are built level by level,
  `TreeRecursion` that a function defined along them is there.
* Boundaries and criteria: the clause of a window's position takes the rows after
  it (`KeysetSelects`), criteria take the rows they ask for (`CriteriaSay`).

Then, of the specification: `QueryTypeCorrect` is `TypeOK`; `TakesExactly` is
`TakesWhatIsAsked`, that a statement without Or in its criteria takes exactly the
rows that are asked for; `OrTakesAll` is `OrMissesNothing`, that one with Or takes
them and perhaps more; `DeletesAreDone` is `TakenAgainOnlyByOr`: a row that a soft
delete has marked meets the soft delete's condition no more, so what takes it again
is an alternative to which the condition is not put (`TakesHidden`);
`NumbersAreReadBack` is `ReadsBack`. Its
lemmas say that a number's digits, written by division and read by multiplication,
give the number back (`DecimalIsRead`), that so do its bits (`ByteIsRead`,
`TwoBytesAreRead`), and that a field keeps what it can hold (`CutKeeps`), whatever
the width of words; `Misread` names what the theorem does not cover.
`TakesExactly`, `OrTakesAll` and `DeletesAreDone` assume
`[]NamesAreReadAsSpelled`: what a name means is a constant of the instance, and
a method may be given any. That the parser gets it right is proved from the
grammar, by `MethodNameProofs`, for all entities and for names with any number of
words, alternatives, parts, sort keys and arguments:

* `SplitJoined` - what is joined by a token is cut there and nowhere else. A
  segment ends where the next one begins, so the proof keeps, for each place of
  the text, the segments that are complete and how much of the last is read.
* `PartIsRead`, `CriteriaAreRead` - a criterion gives its property and its operator,
  since the first keyword that leaves a property is the one that was spelled.
* `KeysAreRead`, `LimitIsRead` - sort keys and the limit are read back.
* `NameIsRead` - `Parse(NameOf(sp)) = TreeOf(sp)`: subject, criteria and order are
  cut from each other where they were joined.
* `SpelledIsUnderstood` - with the arguments, each part is given its own: the sums
  by which the code counts them (`Totals`) are the places at which `GivenOf` put
  them. So `Understood(CallOf(sp)) = MeansOf(sp)`.

From it, of the specification: `SpelledNamesAreRead` says of every call that spells
what it means that it is read so, whatever the other methods; `NamesAreRead` is
`NamesAreReadAsSpelled`, assuming `WellSpelled`, that all methods and operations by
key are spelled. `SpelledTakesExactly`, `SpelledOrTakesAll` and
`SpelledDeletesAreDone` then assume `WellSpelled` alone. `SpellingAssumption` of
`MCDerivedQuery` has TLC evaluate that the methods of `derived_query` are spelled,
those with underscores and those that cannot be read aside (`OddCalls`). The
assumptions on the constants - `NameAssumption`, `CharacterAssumption`,
`CondAssumption`, `WordAssumption`, `QueryAssumption` - give types: words have two bytes or more,
arguments fit their columns, sort columns hold
numbers, conditions and filters are trees of at most `MaxDepth` levels (the
theorems hold for every `MaxDepth`).

Paths, joined sequences, patterns and trees are of any size. The library's
induction takes an operator as parameter, but one over a set does not: `Induction`
in `StepLemmas` says that a set of numbers that has 0 and with a number the next
has all, and `StepByStep` that steps on a set can be made one after another, so that a
recursive function is there and does what its definition says.

Left to TLC: `EventuallyFreshHits`, both `CallsEnd` and `WalksEnd` (liveness), and of
`NamesAreReadAsSpelled` the names with underscores and those that are errors.

## What the code does not do

Places where source or documentation promise what the code does not do are in
`PROJECT.json` under `findings`:

* reads inside a transaction share the cache with everybody;
* argument lists that print alike share an entry of the cache, so a program that
  makes such queries is given the rows of another;
* `SelectScalars` and `EachBy` repeat rows when an attempt is retried;
* an `Update` that is rolled back leaves the raised version in memory;
* filter, window boundary and soft delete restrict only the last alternative of
  a method with Or;
* a statement that a policy repeats after a deadlock of MySQL runs outside the
  transaction, which the deadlock has ended, and stays when `fn` fails.

No run shows these, but they are worth knowing:

* Cache: `Save` and `SaveAll` clear nothing; the slice in the cache is handed to
  every caller.
* Statements: with `WithComments` none begins with a keyword of `isRead` any more,
  and reads, which `RetryPolicy` calls always eligible, are not retried:
  `ReadsEligible` states what the code does with and without comments.
* Deletes: a soft delete by a method with Or marks rows again that are marked
  already (`TakenAgainOnlyByOr` names them).
* Entities: upserts set a version that may have been there before, and a lost
  answer leaves the version in memory behind; the next `Update` can then overwrite
  another change, or report a conflict that nobody made, respectively.
* Transactions: a function that leaves by `Goexit` commits what it has done.
* Batches: rows with different key columns are matched by those of the first row
  of their chunk; rows without any make a condition without text, which no server
  runs (batches here have keys); `SaveAll` does not look at the parameter limit.
* Scanning (strings of the driver and the word false are not modelled): a narrow field is cut without an error and NULL becomes zero, though
  a comment speaks of what `database/sql` does; bits that read as digits are
  taken for digits; two bytes of bits holding 1 are no Boolean true; unsigned
  text beyond a signed 64-bit integer fails. `ReadsBack` leaves these out by
  name (`Misread`).
* Names: `Topics` in a subject sets a limit of 1; "By" inside a word ends the
  subject; the limit means nothing to counting, existence and deletion;
  IgnoreCase means nothing to In, LessThan and others.
* LIKE: SQLite knows no escape character unless told, whatever `EscapeLike`'s
  comment says; `Containing` of nil looks for "<nil>".
* Conditions: `And()`, `Or()` and `Not` of them have no text, so `DeleteWhere` of a
  list of conditions that turned out empty deletes every row; a colon in quotes
  in a raw condition is taken for a parameter.
* Operations by key: `FindAllByID` asks for the method of the key's name followed
  by "In"; where that spells another property, it reads that one.
* Scrolling: the position after an empty window is the start; `PageBy` with a sort
  or a limit among its arguments fails its count.

## Plan

Done: `CachedRepository`, `Statement`, `EntityStore`, `BatchUpdates`, `Transaction`,
`SqlText`, `SqlKeyset`, `LikePattern`, `WhereClause`, `MethodName`, `RowScan`,
`NameSpelling`, `DerivedQuery`, `Scrolling`, with proofs about all of them. Left, in this
order:

1. An abstract iterator over a changing set that the windows of `Scrolling`
   refine, and a compare-and-set register that `EntityStore` refines where only
   `Update` writes.
2. Entities as objects that goroutines share, for the slice in the cache.

## Not modelled

* The generator `jpagen`: a batch program over Go's syntax trees without state of
  its own; its output is text, and what is generated calls what is modelled.
* Quoting of identifiers and placeholders of the dialects: text.
* `Positional` and the search for names in a declared query's text: the errors
  of binding are in `WhereClause`, finding a colon in a text is scanning.
* Reading struct tags by reflection, times (the standard library parses them), and
  `Explain` and `Verify`, which run one statement and format what comes back.
* The examples, mocks and integration program, which use the library.
