------------------------------- MODULE Transaction -------------------------------
(***************************************************************************)
(* Writes of several statements, alone or inside Transactional             *)
(* (jpa/jpa.go), on a repository whose RetryPolicy runs statements again:  *)
(* which of them have taken effect when the caller learns the outcome.     *)
(*                                                                         *)
(* Work is a sequence of calls: BatchUpdate ("batch"), SaveAll of entities *)
(* with a generated key ("save"), SaveAllNoKeys ("saveNoKeys"),            *)
(* SaveAllUpsert ("upsert") and a find that locks its rows ("lock").       *)
(* Alone it is one call; inside Transactional the function makes its calls *)
(* on a WithTx copy and returns their first error.  The hooks, the backoff *)
(* and the context of one statement are in the module Statement; here an   *)
(* attempt succeeds, fails, or succeeds and its answer is lost.            *)
(*                                                                         *)
(* The database is external.  After an error Postgres refuses everything   *)
(* up to the rollback.  MySQL takes back the statement alone, but all of   *)
(* the transaction after a deadlock (1213), and runs what follows on the   *)
(* same connection as statements that commit by themselves.  A connection  *)
(* that breaks takes its transaction with it; when the context ends,       *)
(* database/sql rolls back.  No other client writes to the rows.           *)
(***************************************************************************)
EXTENDS BatchUpdates

CONSTANTS
    Tables,       \* bound: contents of the database in which work begins
    NewRow,       \* what the statements of SaveAll and SaveAllUpsert store
    WriteCalls,   \* calls made alone
    Functions,    \* what the functions given to Transactional do: sequences of calls
    Setups,       \* databases and policies of the repositories used alone
    TxSetups      \* those of the repositories whose copies are bound to transactions

Errors == {"fatal", "timeout", "deadlock", "connection"}

Setup ==
    [server : {"mysql", "postgres"}, attempts : Nat, writes : BOOLEAN, retryable : SUBSET Errors]

ASSUME SetupAssumption == Setups \subseteq Setup /\ TxSetups \subseteq Setup

IsCall(call) ==
    /\ call.kind \in {"batch", "save", "saveNoKeys", "upsert", "lock"}
    /\ call.items \in Seq(Range(call.items))
    /\ call.kind = "batch" => IsBatch(call.items)

ASSUME CallAssumption ==
    /\ Tables \subseteq Table
    /\ NewRow \in Row
    /\ \A call \in WriteCalls : IsCall(call)
    /\ \A calls \in Functions : calls \in Seq(Range(calls)) /\ \A call \in Range(calls) : IsCall(call)

VARIABLES
    db,       \* committed table
    work,     \* the table as the open transaction sees it
    conn,     \* the connection's transaction
    mode,     \* "alone" or "tx"
    setup,    \* database and policy in use
    steps,    \* statements of the work
    step,     \* the one that is next
    attempt,  \* i of the loop in run
    pc,       \* where the work is
    err,      \* error so far
    status,   \* what the caller knows of the outcome
    \* history
    path,     \* the tables the work leads through, that at its beginning first
    at,       \* the place on it: 1 + number of steps whose effect is in db
    goal      \* the table that all of the work makes, however it is cut

vars == <<db, work, conn, mode, setup, steps, step, attempt, pc, err, status, path, at, goal>>
history == <<path, at, goal>>

-------------------------------------------------------------------------------
(* Statements. *)

\* Rows in one statement: SaveAll on MySQL, which does not return generated
\* keys, inserts one by one.
Size(call, server) == IF call.kind = "save" /\ server = "mysql" THEN 1 ELSE BatchSize

\* SaveAll and SaveAllNoKeys run the same statements.
Kind(call) == IF call.kind = "saveNoKeys" THEN "save" ELSE call.kind

\* The statements of a call: kind and items, one chunk each.
StepsOf(call, server) ==
    LET chunks == Chunks(call.items, Size(call, server))
    IN [k \in DOMAIN chunks |-> [kind |-> Kind(call), items |-> chunks[k]]]

Steps(calls, server) == FlattenSeq([i \in DOMAIN calls |-> StepsOf(calls[i], server)])

IsRefused(s) == s.kind = "batch" /\ Refused(s.items)

\* batchChunk of rows that set nothing returns 0, nil.
IsSkipped(s) == s.kind = "batch" /\ ~IsRefused(s) /\ SetColumns(s.items) = {}

IsSent(s) == ~IsRefused(s) /\ ~IsSkipped(s)

\* An INSERT of a unique key that is there fails; an upsert updates the row.
Clashes(s, table) == s.kind = "save" /\ \E i \in DOMAIN s.items : table[s.items[i].id] # NoRow

Saved(entities, table) ==
    [id \in Ids |-> IF \E i \in DOMAIN entities : entities[i].id = id THEN NewRow ELSE table[id]]

Effect(s, table) ==
    IF s.kind = "batch" THEN BatchChunk(s.items, table)
    ELSE IF s.kind = "lock" THEN table
    ELSE Saved(s.items, table)

\* What a statement is asked to make of a table.
Asked(table, s) ==
    IF IsRefused(s) THEN table
    ELSE IF s.kind = "batch" THEN RowByRow(s.items, table)
    ELSE Effect(s, table)

\* The tables that statements ss, one after another, are asked to make.
Path(ss, table) ==
    LET tables[k \in 1 .. Len(ss) + 1] ==
            IF k = 1 THEN table ELSE Asked(tables[k - 1], ss[k - 1])
    IN tables

\* No two rows of a batch name one row.
OneByOne(call) ==
    call.kind = "batch" =>
        /\ \A r, s \in Range(call.items) : DOMAIN r.key = DOMAIN s.key
        /\ \A i, j \in DOMAIN call.items : call.items[i].key = call.items[j].key => i = j

\* What a call is asked to make of a table, not cut into statements.
AskedWhole(table, call) ==
    IF call.kind = "batch" THEN RowByRow(call.items, table) ELSE Effect(call, table)

AllAsked(calls, table) ==
    LET tables[i \in 0 .. Len(calls)] ==
            IF i = 0 THEN table ELSE AskedWhole(tables[i - 1], calls[i])
    IN tables[Len(calls)]

Current == steps[step]

\* The table that a statement of the work reads and changes.
Seen == IF conn = "open" THEN work ELSE db

-------------------------------------------------------------------------------
(* The calls. *)

Begin(m, s, calls) ==
    /\ pc = "idle"
    /\ db \in Tables
    /\ pc' = "run"
    /\ mode' = m
    /\ setup' = s
    /\ steps' = Steps(calls, s.server)
    /\ step' = 1
    /\ attempt' = 0
    /\ err' = "nil"
    /\ status' = "running"
    /\ work' = db
    /\ conn' = IF m = "tx" THEN "open" ELSE "none"
    /\ path' = Path(steps', db)
    /\ at' = 1
    /\ goal' = IF \A call \in Range(calls) : OneByOne(call) THEN AllAsked(calls, db)
               ELSE path'[Len(path')]
    /\ UNCHANGED db

BeginFails ==
    /\ pc = "idle"
    /\ status' = "failed"
    /\ UNCHANGED <<db, work, conn, mode, setup, steps, step, attempt, pc, err, history>>

Ready == pc = "run" /\ step <= Len(steps)

\* The statement has succeeded: on to the next.
Proceed ==
    /\ step' = step + 1
    /\ attempt' = 0
    /\ err' = "nil"
    /\ UNCHANGED <<pc, conn, mode, setup, steps, status, path, goal>>

Skip ==
    /\ Ready
    /\ IsSkipped(Current)
    /\ at' = IF mode = "alone" THEN step + 1 ELSE at
    /\ Proceed
    /\ UNCHANGED <<db, work>>

Refuse ==
    /\ Ready
    /\ IsRefused(Current)
    /\ err' = "refused"
    /\ pc' = "leave"
    /\ UNCHANGED <<db, work, conn, mode, setup, steps, step, attempt, status, history>>

CanExecute ==
    /\ Ready
    /\ IsSent(Current)
    /\ conn \in {"none", "open", "gone"}
    /\ ~Clashes(Current, Seen)

\* Mutant of TakesEffect: the copy keeps the pool.
TakesEffectOnPool ==
    /\ db' = Effect(Current, db)
    /\ at' = IF mode = "alone" THEN step + 1 ELSE at
    /\ UNCHANGED work

\* Outside an open transaction a statement commits by itself.
TakesEffect ==
    IF conn = "open"
    THEN work' = Effect(Current, work) /\ UNCHANGED <<db, at>>
    ELSE /\ db' = Effect(Current, db)
         /\ at' = IF mode = "alone" THEN step + 1 ELSE at
         /\ UNCHANGED work

Execute == CanExecute /\ TakesEffect /\ Proceed

\* Mutant of Retries: one attempt too many.
RetriesOnceMore(e) ==
    /\ e \in setup.retryable
    /\ setup.writes \/ Current.kind = "lock"
    /\ attempt < setup.attempts

\* run tries again: reads always, writes when the policy says so.
Retries(e) ==
    /\ e \in setup.retryable
    /\ setup.writes \/ Current.kind = "lock"
    /\ attempt + 1 < setup.attempts

Failed(e) ==
    /\ err' = e
    /\ \/ Retries(e) /\ attempt' = attempt + 1 /\ UNCHANGED pc
       \/ ~Retries(e) /\ pc' = "leave" /\ UNCHANGED attempt
    /\ UNCHANGED <<mode, setup, steps, step, status, path, goal>>

\* The statement took effect and its answer is lost; the next attempt finds
\* another connection, unless it is bound to this one.
AnswerLost ==
    /\ CanExecute
    /\ conn # "open"
    /\ TakesEffect
    /\ Failed("connection")
    /\ conn' = IF conn = "gone" THEN "broken" ELSE conn

\* The errors a statement can meet.
Possible(e) ==
    \/ conn \in {"none", "open", "gone"} /\ (Clashes(Current, Seen) => e = "fatal")
    \/ conn \in {"aborted", "ended"} /\ e = "fatal"
    \/ conn = "broken" /\ e = "connection"

\* What an error leaves of the connection's transaction.
ConnAfter(e) ==
    IF conn = "open"
    THEN IF e = "connection" THEN "broken"
         ELSE IF setup.server = "postgres" THEN "aborted"
         ELSE IF e = "deadlock" THEN "gone" ELSE "open"
    ELSE IF conn = "gone" /\ e = "connection" THEN "broken" ELSE conn

Fails(e) ==
    /\ Ready
    /\ IsSent(Current)
    /\ Possible(e)
    /\ conn' = ConnAfter(e)
    /\ Failed(e)
    /\ UNCHANGED <<db, work, at>>

\* The context given to BeginTx ends.
ContextEnds ==
    /\ mode = "tx"
    /\ pc \in {"run", "leave"}
    /\ conn \in {"open", "aborted", "gone"}
    /\ conn' = "ended"
    /\ UNCHANGED <<db, work, mode, setup, steps, step, attempt, pc, err, status, history>>

Leave(how) ==
    /\ pc = "run"
    /\ pc' = how
    /\ UNCHANGED <<db, work, conn, mode, setup, steps, step, attempt, err, status, history>>

\* All calls are made and the function returns nil.
Return == step > Len(steps) /\ err = "nil" /\ Leave("leave")

Panic == Leave("panic")

\* runtime.Goexit, t.FailNow of a test for instance.
Goexit == Leave("exit")

Outcome ==
    IF pc = "panic" THEN "panicked"
    ELSE IF pc = "exit" THEN "exited"
    ELSE IF err = "nil" THEN "nil" ELSE "failed"

End(outcome) ==
    /\ pc' = "idle"
    /\ conn' = "none"
    /\ status' = outcome
    /\ work' = db'
    /\ steps' = << >>
    /\ step' = 1
    /\ attempt' = 0
    /\ err' = "nil"
    /\ UNCHANGED <<mode, setup, path, goal>>

LeaveAlone ==
    /\ mode = "alone"
    /\ pc \in {"leave", "panic", "exit"}
    /\ UNCHANGED <<db, at>>
    /\ End(Outcome)

-------------------------------------------------------------------------------
(* The deferred function of Transactional. *)

\* Mutant of RollsBack: a panic is not looked at.
RollsBackOnError == pc = "leave" /\ err # "nil"

RollsBack == pc = "panic" \/ (pc = "leave" /\ err # "nil")

\* After Goexit recover returns nil and err is nil.
Commits == pc = "exit" \/ (pc = "leave" /\ err = "nil")

\* The answer of Rollback is not looked at.
Rollback ==
    /\ mode = "tx"
    /\ RollsBack
    /\ UNCHANGED <<db, at>>
    /\ End(Outcome)

\* Where nothing is open any more, COMMIT is of nothing.
Commit ==
    /\ mode = "tx"
    /\ Commits
    /\ \/ conn = "open" /\ db' = work
       \/ conn = "gone" /\ UNCHANGED db
    /\ at' = step
    /\ IF pc = "exit" THEN End("exited")
       ELSE /\ pc' = "committed"
            /\ conn' = "none"
            /\ UNCHANGED <<work, mode, setup, steps, step, attempt, err, status, path, goal>>

CommitFails ==
    /\ mode = "tx"
    /\ Commits
    /\ UNCHANGED <<db, at>>
    /\ End(IF pc = "exit" THEN "exited" ELSE "failed")

\* The answer of Commit arrives or is lost.
Committed ==
    /\ pc = "committed"
    /\ UNCHANGED <<db, at>>
    /\ \E outcome \in {"nil", "failed"} : End(outcome)

\* The program dies; an open transaction dies with its connection.
Crash ==
    /\ pc # "idle"
    /\ UNCHANGED <<db, at>>
    /\ End("crashed")

-------------------------------------------------------------------------------
Init ==
    /\ db \in Tables
    /\ work = db
    /\ conn = "none"
    /\ mode = "alone"
    /\ setup \in Setups
    /\ steps = << >>
    /\ step = 1
    /\ attempt = 0
    /\ pc = "idle"
    /\ err = "nil"
    /\ status = "none"
    /\ path = <<db>>
    /\ at = 1
    /\ goal = db

\* The work goes on.
Run ==
    \/ Skip \/ Refuse \/ Execute \/ AnswerLost
    \/ \E e \in Errors : Fails(e)
    \/ Return
    \/ LeaveAlone
    \/ Rollback \/ Commit \/ CommitFails \/ Committed

Next ==
    \/ \E s \in Setups, call \in WriteCalls : Begin("alone", s, <<call>>)
    \/ \E s \in TxSetups, calls \in Functions : Begin("tx", s, calls)
    \/ BeginFails
    \/ Run
    \/ ContextEnds \/ Panic \/ Goexit \/ Crash

Spec == Init /\ [][Next]_vars

\* Statements end with an answer or an error, and functions return.
FairSpec == Spec /\ WF_vars(Run)
-------------------------------------------------------------------------------
(* What the theorems assume of the program. *)

\* No repository used in transactions runs statements again after a deadlock
\* that has rolled its transaction back.
SafePolicies ==
    \A s \in TxSetups : s.server # "postgres" /\ s.attempts > 1 => "deadlock" \notin s.retryable

\* In each statement of a batch that is sent the rows have the same key columns,
\* and they set other columns.
PlainRows ==
    \A call \in WriteCalls \cup UNION {Range(calls) : calls \in Functions} :
        call.kind = "batch" =>
            \A chunk \in Range(Chunks(call.items, BatchSize)) : Refused(chunk) \/ Plain(chunk)

-------------------------------------------------------------------------------
(* Properties. *)

\* Every variable has its type, and no statement is tried more often than the
\* policy says.
TypeOK ==
    /\ db \in Table /\ work \in Table /\ path \in Seq(Table) /\ goal \in Table
    /\ conn \in {"none", "open", "aborted", "gone", "broken", "ended"}
    /\ mode \in {"alone", "tx"}
    /\ setup \in Setups \cup TxSetups
    /\ step \in 1 .. Len(steps) + 1
    /\ at \in 1 .. Len(path)
    /\ attempt \in Nat /\ (attempt = 0 \/ attempt < setup.attempts)
    /\ pc \in {"idle", "run", "leave", "panic", "exit", "committed"}
    /\ err \in Errors \cup {"nil", "refused"}
    /\ status \in {"none", "running", "nil", "failed", "panicked", "exited", "crashed"}

\* "Transactional runs fn in a transaction, rolling back on error or panic":
\* as long as it has not committed, whatever has failed and been tried again,
\* the database is what it was.
NothingBeforeCommit == mode = "tx" /\ at = 1 => db = path[1]

Whole == INSTANCE WholeOrPrefix WITH atomic <- (mode = "tx")

\* The work is whole or, outside a transaction, a prefix: chunks that fail
\* leave those before them, a chunk tried again after a lost answer changes
\* nothing more, each row of a batch gets its own values, and Transactional
\* commits everything or nothing unless Goexit ends the function.
WholeOrPrefix == Whole!Spec

\* nil means that everything is written: chunks leave out no row and write
\* none that was not asked for, whatever was tried again.
NilMeansAll == status = "nil" => db = goal

\* Every call ends, and with it the transaction: none is left open.
CallsEnd == pc # "idle" ~> (pc = "idle" /\ conn = "none")
===============================================================================
