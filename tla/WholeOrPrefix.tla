------------------------------ MODULE WholeOrPrefix ------------------------------
(***************************************************************************)
(* What a caller is promised of writes that take several statements.  The  *)
(* statements, run one after another, lead the database along a path of    *)
(* tables.  Outside a transaction the database goes along it table by      *)
(* table and stays where the work fails; inside one it goes from the first *)
(* to the last in one step or not at all.  The answer is nil only at the   *)
(* end of the path.                                                        *)
(***************************************************************************)
EXTENDS Integers, Sequences

CONSTANT Table  \* contents the database can have

VARIABLES
    db,      \* contents of the database
    path,    \* what the work leads it through, the present table first
    at,      \* the place on the path that the database has reached
    atomic,  \* whether the work is one transaction
    status   \* answer of the work, or "running"

vars == <<db, path, at, atomic, status>>

Init ==
    /\ db \in Table
    /\ path = <<db>>
    /\ at = 1
    /\ atomic = FALSE
    /\ status = "none"

Begin ==
    /\ status # "running"
    /\ status' = "running"
    /\ path' \in Seq(Table)
    /\ at' = 1
    /\ atomic' \in BOOLEAN
    /\ db' = db

Advance ==
    /\ status = "running"
    /\ at < Len(path)
    /\ at' = IF atomic THEN Len(path) ELSE at + 1
    /\ UNCHANGED <<path, atomic, status>>

Succeed ==
    /\ status = "running"
    /\ at = Len(path)
    /\ status' = "nil"
    /\ UNCHANGED <<path, at, atomic>>

\* An error, or a crash: an answer that is lost can follow the last step.
Fail ==
    /\ status = "running"
    /\ status' \in {"failed", "crashed"}
    /\ UNCHANGED <<path, at, atomic>>

\* Work that cannot begin.
Refuse ==
    /\ status # "running"
    /\ status' = "failed"
    /\ UNCHANGED <<path, at, atomic>>

Panic ==
    /\ status = "running"
    /\ atomic => at = 1
    /\ status' = "panicked"
    /\ UNCHANGED <<path, at, atomic>>

\* runtime.Goexit ends the goroutine of the work: there is no error, and a
\* transaction is committed as far as it has come.
Exit ==
    /\ status = "running"
    /\ at' \in at .. Len(path)
    /\ status' = "exited"
    /\ UNCHANGED <<path, atomic>>

Next ==
    /\ Begin \/ Advance \/ Succeed \/ Fail \/ Refuse \/ Panic \/ Exit
    /\ db' = path'[at']

Spec == Init /\ [][Next]_vars
===============================================================================
