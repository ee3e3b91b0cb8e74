------------------------------- MODULE SqlText -------------------------------
(***************************************************************************)
(* The text of a condition, as far as its meaning depends on it: SQL's AND *)
(* binds tighter than OR, so without its outermost parentheses a text is a *)
(* sequence of alternatives, each with a truth value on the row at hand.   *)
(* Pieces of text are joined and put in parentheses the way sqlgen does;   *)
(* what the result means is SQL's business.                                *)
(***************************************************************************)
EXTENDS SequencesExt

-------------------------------------------------------------------------------
(* SQL: comparisons with NULL are neither true nor false. *)

Truth == {"T", "U", "F"}

Truly(b) == IF b THEN "T" ELSE "F"

Conj(S) == IF "F" \in S THEN "F" ELSE IF "U" \in S THEN "U" ELSE "T"

Disj(S) == IF "T" \in S THEN "T" ELSE IF "U" \in S THEN "U" ELSE "F"

Neg(v) == CASE v = "T" -> "F" [] v = "F" -> "T" [] OTHER -> "U"

\* The alternatives of a text; one without any is the empty string.
Text == Seq(Truth)

Empty == << >>

Meaning(t) == Disj(Range(t))

-------------------------------------------------------------------------------
(* What sqlgen does with texts. *)

\* Mutant of Paren: no parentheses.
NoParen(t) == t

Paren(t) == << Meaning(t) >>

JoinOr(s, t) == s \o t

\* " AND " between two texts: it takes the last alternative of one and the
\* first of the other.
JoinAnd(s, t) == Front(s) \o << Conj({Last(s), Head(t)}) >> \o Tail(t)

\* Parts without text are not joined.
AndAlso(s, t) == IF s = Empty THEN t ELSE IF t = Empty THEN s ELSE JoinAnd(s, t)

\* The parts of a WHERE clause, joined by AND: the method's criteria, a
\* Cond, the boundary of a keyset, the filter of the soft delete.
Where(criteria, cond, keyset, soft) ==
    AndAlso(AndAlso(AndAlso(criteria, cond), keyset), soft)

\* A statement with the WHERE clause t, or without one, takes the row.
Selects(t) == t = Empty \/ Meaning(t) = "T"
===============================================================================
