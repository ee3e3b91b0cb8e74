------------------------------- MODULE Statement -------------------------------
(***************************************************************************)
(* How a Repository runs one statement (jpa/jpa.go, run and once): the     *)
(* hooks around every attempt, the attempts the RetryPolicy allows, the    *)
(* backoff between them and the caller's context.                          *)
(*                                                                         *)
(* Calls of one repository share no state that run or once write, so one   *)
(* goroutine making one call after another is enough, each with one of the *)
(* repositories; what happens next to it is the cancellation of its        *)
(* context.  Four callers of run that do     *)
(* different things with the rows stand for all of them:                   *)
(*                                                                         *)
(*    query          replaces its result in every attempt,                 *)
(*    SelectScalars  appends to one result over all attempts,              *)
(*    EachBy         hands each row to a callback as it arrives,           *)
(*    execute        returns no rows and changes the database.             *)
(*                                                                         *)
(* An error is abstracted to what the policy's Retryable says of it.       *)
(***************************************************************************)
EXTENDS Integers, Sequences

CONSTANTS
    Hooks,        \* number of hooks; the first registered is the outermost
    Silent,       \* hooks whose Before returns a nil done
    Attempts,     \* RetryPolicy.Attempts; 0 or 1 stands for no policy too
    RetryWrites,  \* RetryPolicy.Writes
    Comments,     \* whether a repository was built WithComments: the choices
    RowCount      \* bound: rows a read returns

ASSUME ConstantsAssumption ==
    /\ Hooks \in Nat /\ Silent \subseteq 1 .. Hooks
    /\ Attempts \in Nat /\ RowCount \in Nat
    /\ RetryWrites \in BOOLEAN /\ Comments \subseteq BOOLEAN /\ Comments # {}

Ops == {"query", "SelectScalars", "EachBy", "execute"}
Errors == {"retryable", "fatal"}
Outcomes == Errors \cup {"nil"}

VARIABLES
    pc,         \* where the call is
    op,         \* the caller of run
    comments,   \* whether its repository writes comments
    attempt,    \* i of the loop in run
    hook,       \* hooks whose Before has run in this attempt
    dones,      \* done functions once has collected, in order
    row,        \* rows delivered in this attempt
    err,        \* error of the attempt
    got,        \* rows the caller has been given, in order
    cancelled,  \* whether the caller's context is done
    reply,      \* error the call returned
    \* history
    outcomes,   \* error of each attempt so far
    seen,       \* errors each hook's done functions were called with
    applied,    \* times the database applied the statement
    late        \* attempts started with the context done

vars == <<pc, op, comments, attempt, hook, dones, row, err, got, cancelled, reply,
          outcomes, seen, applied, late>>
history == <<outcomes, seen, applied, late>>

MaxAttempts == IF Attempts > 1 THEN Attempts ELSE 1

-------------------------------------------------------------------------------
(* The loop of run.                                                        *)

\* isRead looks at the start of the text, which is the comment if c.
IsRead(o, c) == ~c /\ o # "execute"

\* Mutant of Limit: every statement is retried.
LimitForAll(o, c) == MaxAttempts

\* Mutant of Limit: the last attempt is forgotten.
LimitLessOne(o, c) ==
    IF Attempts > 2 /\ (RetryWrites \/ IsRead(o, c)) THEN Attempts - 1 ELSE 1

Limit(o, c) == IF Attempts > 1 /\ (RetryWrites \/ IsRead(o, c)) THEN Attempts ELSE 1

\* Mutant of LastAttempt: the bound is off by one.
PastLastAttempt == attempt = Limit(op, comments)

LastAttempt == attempt = Limit(op, comments) - 1

\* Mutant of GiveUp: any error is retried.
GiveUpOnlyAtLimit == err = "nil" \/ LastAttempt \/ cancelled

\* Mutant of GiveUp: the context is not asked.
GiveUpIgnoringContext == err = "nil" \/ LastAttempt \/ err = "fatal"

\* run returns after this attempt.
GiveUp == err = "nil" \/ LastAttempt \/ err = "fatal" \/ cancelled

\* What an attempt starts from.
BeginAttempt(lateBefore) ==
    /\ pc' = "before"
    /\ hook' = 0
    /\ dones' = <<>>
    /\ row' = 0
    /\ err' = "nil"
    /\ late' = IF cancelled' THEN lateBefore + 1 ELSE lateBefore

\* A call of run of any repository; the context may be done already.
Start(o) ==
    /\ pc \in {"idle", "panicked"}
    /\ op' = o
    /\ comments' \in Comments
    /\ attempt' = 0
    /\ cancelled' \in BOOLEAN
    /\ BeginAttempt(0)
    /\ got' = <<>>
    /\ reply' = "none"
    /\ outcomes' = <<>>
    /\ seen' = [h \in 1 .. Hooks |-> <<>>]
    /\ applied' = 0

Cancel ==
    /\ pc \notin {"idle", "panicked"}
    /\ ~cancelled
    /\ cancelled' = TRUE
    /\ UNCHANGED <<pc, op, comments, attempt, hook, dones, row, err, got, reply, history>>

Decide ==
    /\ pc = "decide"
    /\ IF GiveUp
       THEN pc' = "idle" /\ reply' = err
       ELSE pc' = "backoff" /\ UNCHANGED reply
    /\ UNCHANGED <<op, comments, attempt, hook, dones, row, err, got, cancelled, history>>

\* Mutant of TimerFires: the wait has no timer.
NoTimer ==
    /\ pc = "backoff"
    /\ cancelled
    /\ pc' = "idle"
    /\ reply' = "ctx"
    /\ UNCHANGED <<op, comments, attempt, hook, dones, row, err, got, cancelled, history>>

\* The wait of select ends with the timer ...
TimerFires ==
    /\ pc = "backoff"
    /\ attempt' = attempt + 1
    /\ UNCHANGED <<op, comments, got, cancelled, reply, outcomes, seen, applied>>
    /\ BeginAttempt(late)

\* ... or with the context; when both are ready either may be taken.
WaitCancelled ==
    /\ pc = "backoff"
    /\ cancelled
    /\ pc' = "idle"
    /\ reply' = "ctx"
    /\ UNCHANGED <<op, comments, attempt, hook, dones, row, err, got, cancelled, history>>

-------------------------------------------------------------------------------
(* One attempt: once.                                                      *)

\* Before of the next hook, in order of registration; a nil done is dropped.
Before ==
    /\ pc = "before"
    /\ hook < Hooks
    /\ hook' = hook + 1
    /\ dones' = IF hook + 1 \in Silent THEN dones ELSE Append(dones, hook + 1)
    /\ UNCHANGED <<pc, op, comments, attempt, row, err, got, cancelled, reply, history>>

AllBefore ==
    /\ pc = "before"
    /\ hook = Hooks
    /\ pc' = "statement"
    /\ UNCHANGED <<op, comments, attempt, hook, dones, row, err, got, cancelled, reply, history>>

\* The statement and the function that reads its rows end with e.
Finish(e) ==
    /\ err' = e
    /\ outcomes' = Append(outcomes, e)
    /\ pc' = "dones"
    /\ UNCHANGED <<op, comments, attempt, hook, dones, cancelled, reply, seen, late>>

\* The next row arrives and is scanned: SelectScalars appends it to the result
\* it returns, EachBy calls the callback, query collects it for later.
Deliver ==
    /\ pc = "statement"
    /\ op # "execute"
    /\ row < RowCount
    /\ row' = row + 1
    /\ got' = IF op = "query" THEN got ELSE Append(got, row + 1)
    /\ UNCHANGED <<pc, op, comments, attempt, hook, dones, err, cancelled, reply, history>>

\* Mutant of Collected: query, too, adds to what it has.
CollectedAlso(rows) == rows \o [r \in 1 .. row |-> r]

\* What query holds after an attempt: the rows read, and none of those of an
\* earlier attempt.  A failed Scan gives up the rows read.
Collected(rows) == [r \in 1 .. row |-> r]

\* The rows end, or the connection or a scan fails, at any row.  A query that
\* fails before there are rows to scan leaves what it has as it is.
ReadEnds(e) ==
    /\ pc = "statement"
    /\ op # "execute"
    /\ e = "nil" => row = RowCount
    /\ \/ op = "query" /\ got' = Collected(got)
       \/ op = "query" /\ e # "nil" /\ got' = <<>>
       \/ op = "query" /\ e # "nil" /\ row = 0 /\ UNCHANGED got
       \/ op # "query" /\ UNCHANGED got
    /\ Finish(e)
    /\ UNCHANGED <<row, applied>>

\* The callback of EachBy returns an error for the row it was given.
CallbackFails(e) ==
    /\ pc = "statement"
    /\ op = "EachBy"
    /\ row > 0
    /\ Finish(e)
    /\ UNCHANGED <<row, got, applied>>

\* The write is applied and answered, is applied and the answer is lost, or
\* fails without effect.
WriteEnds(e, effect) ==
    /\ pc = "statement"
    /\ op = "execute"
    /\ e = "nil" => effect = 1
    /\ applied' = applied + effect
    /\ Finish(e)
    /\ UNCHANGED <<row, got>>

\* A Before, the callback, a Scan method or the driver, a done function or
\* Retryable panics: the panic leaves run, and no (other) done function is
\* called.
Panic ==
    /\ \/ pc = "before" /\ hook < Hooks
       \/ pc = "statement"
       \/ pc = "dones" /\ dones # <<>>
       \/ pc = "decide" /\ err # "nil" /\ ~LastAttempt
    /\ pc' = "panicked"
    /\ UNCHANGED <<op, comments, attempt, hook, dones, row, err, got, cancelled, reply, history>>

\* Mutant of Done: the done functions run in the order of the Before calls.
DoneInOrder ==
    /\ pc = "dones"
    /\ dones # <<>>
    /\ seen' = [seen EXCEPT ![Head(dones)] = Append(@, err)]
    /\ dones' = Tail(dones)
    /\ UNCHANGED <<pc, op, comments, attempt, hook, row, err, got, cancelled, reply,
                   outcomes, applied, late>>

\* The done functions run in reverse.
Done ==
    /\ pc = "dones"
    /\ dones # <<>>
    /\ seen' = [seen EXCEPT ![dones[Len(dones)]] = Append(@, err)]
    /\ dones' = SubSeq(dones, 1, Len(dones) - 1)
    /\ UNCHANGED <<pc, op, comments, attempt, hook, row, err, got, cancelled, reply,
                   outcomes, applied, late>>

AllDone ==
    /\ pc = "dones"
    /\ dones = <<>>
    /\ pc' = "decide"
    /\ UNCHANGED <<op, comments, attempt, hook, dones, row, err, got, cancelled, reply, history>>

-------------------------------------------------------------------------------
Init ==
    /\ pc = "idle"
    /\ op = "query" /\ comments \in Comments
    /\ attempt = 0 /\ hook = 0 /\ dones = <<>> /\ row = 0
    /\ err = "nil" /\ got = <<>> /\ cancelled = FALSE /\ reply = "none"
    /\ outcomes = <<>>
    /\ seen = [h \in 1 .. Hooks |-> <<>>]
    /\ applied = 0 /\ late = 0

\* The call goes on.
Run ==
    \/ Before \/ AllBefore
    \/ Deliver
    \/ \E e \in Outcomes : ReadEnds(e)
    \/ \E e \in Errors : CallbackFails(e)
    \/ \E e \in Outcomes, effect \in 0 .. 1 : WriteEnds(e, effect)
    \/ Done \/ AllDone
    \/ Decide
    \/ TimerFires \/ WaitCancelled

Next ==
    \/ \E o \in Ops : Start(o)
    \/ Run
    \/ Cancel
    \/ Panic

Spec == Init /\ [][Next]_vars

\* Hooks, statements and timers all end: the goroutine goes on.
FairSpec == Spec /\ WF_vars(Run)

-------------------------------------------------------------------------------
(* Properties.                                                             *)

Returned == pc = "idle" /\ reply # "none"

\* Every variable has its type and stays within its bound; an attempt's number
\* is below the number of attempts.
TypeOK ==
    /\ pc \in {"idle", "before", "statement", "dones", "decide", "backoff", "panicked"}
    /\ op \in Ops /\ comments \in Comments
    /\ attempt \in 0 .. MaxAttempts - 1
    /\ hook \in 0 .. Hooks
    /\ dones \in Seq(1 .. Hooks) /\ Len(dones) <= hook
    /\ row \in 0 .. RowCount
    /\ err \in Outcomes
    /\ got \in Seq(1 .. RowCount)
    /\ cancelled \in BOOLEAN
    /\ reply \in Outcomes \cup {"none", "ctx"}
    /\ outcomes \in Seq(Outcomes)
    /\ seen \in [1 .. Hooks -> Seq(Outcomes)]
    /\ applied \in 0 .. MaxAttempts
    /\ late \in 0 .. MaxAttempts

\* Hooks nest: what a hook's done functions were told is a prefix of what
\* those of the hooks inside it were told, which is a prefix of what happened;
\* and when a call returns, each has been told of every attempt, once.
HooksNest ==
    \A h \in 1 .. Hooks \ Silent :
        /\ seen[h] = SubSeq(outcomes, 1, Len(seen[h]))
        /\ \A g \in h .. Hooks \ Silent : Len(seen[h]) <= Len(seen[g])
        /\ Returned => seen[h] = outcomes

\* A write reaches the database at most once per call, however its attempts
\* fail, unless the policy says writes may be repeated.
WriteAtMostOnce == ~RetryWrites => applied <= 1

\* An attempt follows only an attempt that failed with a retryable error, and
\* a call's answer is that of its last attempt, unless the wait for another
\* one was cancelled.
AnswerOfLastAttempt ==
    /\ Len(outcomes) <= MaxAttempts
    /\ \A i \in 1 .. Len(outcomes) - 1 : outcomes[i] = "retryable"
    /\ Returned => \/ reply = outcomes[Len(outcomes)]
                   \/ reply = "ctx" /\ cancelled /\ outcomes[Len(outcomes)] = "retryable"

\* Once the caller's context is done at most one more attempt starts.
CancelEndsRetries == late <= 1

\* A query that succeeds returns the rows of one attempt: nothing is left over
\* of an attempt that failed half way.
QueryRowsOfOneAttempt ==
    Returned /\ op = "query" /\ reply = "nil" => got = [r \in 1 .. RowCount |-> r]

\* A call that fails with a retryable error, its context alive, has used up the
\* attempts of the policy if its statement is eligible, and one if not.  A read
\* is eligible unless its repository writes comments: run puts the comment
\* before the keyword that isRead looks for.
ReadsEligible ==
    Returned /\ reply = "retryable" /\ ~cancelled
        => Len(outcomes) = IF RetryWrites \/ (op # "execute" /\ ~comments)
                           THEN MaxAttempts ELSE 1

\* A call ends.
CallsEnd == pc # "idle" ~> pc \in {"idle", "panicked"}

-------------------------------------------------------------------------------
(* What the documentation says and the code does not do.                   *)

\* "SelectScalars scans the first column of every row", "EachBy streams a
\* derived find row by row", "fn returning an error stops the iteration": the
\* rows given to the caller are the rows of the result, each once.
RowsGivenOnce ==
    op \in {"SelectScalars", "EachBy"} => got = [r \in 1 .. Len(got) |-> r]
===============================================================================
