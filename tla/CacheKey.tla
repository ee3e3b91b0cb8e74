------------------------------- MODULE CacheKey -------------------------------
(***************************************************************************)
(* The key under which a repository stores the result of a query:          *)
(*                                                                         *)
(*     key = q.SQL + fmt.Sprint(q.Args)               (jpa/jpa.go:399)     *)
(*                                                                         *)
(* fmt.Sprint of a slice writes its elements separated by one space, so    *)
(* what the key keeps of the arguments is the sequence of the words in     *)
(* them.  An argument is modelled as the sequence of its words ("New York" *)
(* is <<"New", "York">>) and a query as a record with its statement text,  *)
(* a model value or string, and its arguments.                             *)
(***************************************************************************)
EXTENDS Sequences, SequencesExt

\* fmt.Sprint of the argument slice: the boundary between two arguments and
\* a space inside one of them are written alike.
Sprint(args) == FlattenSeq(args)

CacheKey(q) == <<q.sql, Sprint(q.args)>>
===============================================================================
