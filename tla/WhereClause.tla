----------------------------- MODULE WhereClause -----------------------------
(***************************************************************************)
(* The WHERE clause of a statement: the criteria of a method, Cond trees,  *)
(* the request's filter, the boundary of a keyset and the soft delete,     *)
(* each rendered to a text for one row (see SqlText).                      *)
(*                                                                         *)
(* A row is a record of columns; a value is a number, a text or Null.  Nil *)
(* is Go's untyped nil, which some operators look for; typed nil pointers  *)
(* and invalid sql.Null values are bound as Null.  Names of properties are *)
(* resolved; lists of values are sets.                                     *)
(***************************************************************************)
EXTENDS LikePattern

CONSTANTS
    Nil,    \* the untyped nil
    NoCond, \* no condition: a nil Cond
    SimpleConds, \* Conds that contain no others
    MaxDepth     \* bound: how deep Conds are in one another

ASSUME CondAssumption ==
    /\ \A c \in SimpleConds :
          c.kind \in {"cmp", "in", "notIn", "isNull", "notNull", "between", "raw"}
    /\ MaxDepth \in Nat

-------------------------------------------------------------------------------
(* Operators of SQL. *)

Bound(v) == IF v = Nil THEN Null ELSE v

InValues(x, vals) ==
    IF vals # {} /\ x = Null THEN "U"
    ELSE Disj({Compare(x, "=", v) : v \in vals})

-------------------------------------------------------------------------------
(* Texts of single conditions. *)

\* "=" and "<>" with nil are IS NULL and IS NOT NULL; other operators bind it.
Comparison(x, op, v) ==
    CASE op = "="  /\ v = Nil -> Truly(x = Null)
      [] op = "<>" /\ v = Nil -> Truly(x # Null)
      [] op = "LIKE"          -> Like(x, Bound(v))
      [] op = "NOT LIKE"      -> Neg(Like(x, Bound(v)))
      [] OTHER                -> Compare(x, op, Bound(v))

\* Mutant of Within: nothing is bound for nil.
WithinKnown(x, vals) == IF vals = {} THEN "F" ELSE InValues(x, vals \ {Nil})

\* IN of no values is 1=0, NOT IN of none 1=1.
Within(x, vals) == IF vals = {} THEN "F" ELSE InValues(x, {Bound(v) : v \in vals})

Between(x, lo, hi) == Conj({Compare(x, ">=", Bound(lo)), Compare(x, "<=", Bound(hi))})

Comparing ==
    [Equals |-> "=", Not |-> "<>", LessThan |-> "<", LessThanEqual |-> "<=",
     GreaterThan |-> ">", GreaterThanEqual |-> ">="]

\* IgnoreCase compares upper cases, where the operator is for texts.
FoldCase(p, v) == IF p.ic /\ v # Nil THEN Upper(v) ELSE v

\* One part of a method's criteria, with its arguments.
PartOf(row, p) ==
    LET x == row[p.prop]
    IN CASE p.op \in {"Equals", "Not"} ->
                Comparison(FoldCase(p, x), Comparing[p.op], FoldCase(p, p.args[1]))
         [] p.op \in DOMAIN Comparing \ {"Equals", "Not"} ->
                Compare(x, Comparing[p.op], Bound(p.args[1]))
         [] p.op \in Patterns ->
                LET v == Like(FoldCase(p, x), FoldCase(p, Bound(Pattern(p.op, p.args[1]))))
                IN IF p.op \in {"NotLike", "NotContaining"} THEN Neg(v) ELSE v
         [] p.op = "IsNull"    -> Truly(x = Null)
         [] p.op = "IsNotNull" -> Truly(x # Null)
         [] p.op = "True"      -> Compare(x, "=", 1)
         [] p.op = "False"     -> Compare(x, "=", 0)
         [] p.op = "In"        -> Within(x, p.args[1])
         [] p.op = "NotIn"     -> Neg(Within(x, p.args[1]))
         [] p.op = "Between"   -> Between(x, p.args[1], p.args[2])

\* The criteria: a sequence of alternatives, each a sequence of parts.  Two or
\* more alternatives are put in parentheses each, but not together.
Criteria(row, or) ==
    [i \in DOMAIN or |-> Conj({PartOf(row, or[i][j]) : j \in DOMAIN or[i]})]

-------------------------------------------------------------------------------
(* Cond trees. *)

AndOf(conds) == [kind |-> "and", conds |-> conds]

OrOf(conds) == [kind |-> "or", conds |-> conds]

\* Named: the text of a raw Cond, its parts' arguments put in by name.
Named(or, params) ==
    [i \in DOMAIN or |-> [j \in DOMAIN or[i] |->
        [or[i][j] EXCEPT !.args = [k \in DOMAIN @ |-> params[@[k]]]]]]

\* Conds with no more than k others on the way to what is simple; Not has a
\* Cond in it.
CondsTo[k \in Nat] ==
    IF k = 0 THEN {NoCond} \cup SimpleConds
    ELSE CondsTo[k - 1]
         \cup [kind : {"and", "or"}, conds : Seq(CondsTo[k - 1])]
         \cup [kind : {"not"}, cond : CondsTo[k - 1] \ {NoCond}]

CondTrees == CondsTo[MaxDepth]

\* Rendering ends in an error: a parameter of a raw Cond is missing, or is a
\* list without values.
Fails(cond) ==
    LET fails[c \in CondTrees] ==
            IF c = NoCond THEN FALSE
            ELSE \/ c.kind \in {"and", "or"} /\ \E i \in DOMAIN c.conds : fails[c.conds[i]]
                 \/ c.kind = "not" /\ fails[c.cond]
                 \/ /\ c.kind = "raw"
                    /\ \E part \in Range(FlattenSeq(c.or)) : \E name \in Range(part.args) :
                          \/ name \notin DOMAIN c.params
                          \/ part.op \in {"In", "NotIn"} /\ c.params[name] = {}
    IN fails[cond]

\* logic.render: two or more texts are put in parentheses.  Parts that are nil
\* or have no text are skipped.
Logic(op, texts) ==
    LET joined[k \in 0 .. Len(texts)] ==
            IF k = 0 THEN Empty
            ELSE IF op = "or" THEN JoinOr(joined[k - 1], texts[k]) ELSE AndAlso(joined[k - 1], texts[k])
        all == joined[Len(texts)]
    IN IF \E i, j \in DOMAIN texts : i # j /\ Empty \notin {texts[i], texts[j]}
       THEN Paren(all) ELSE all

Negated(t) == IF t = Empty THEN Empty ELSE << Neg(Meaning(t)) >>

Simple(row, c) ==
    CASE c.kind = "cmp"     -> << Comparison(row[c.prop], c.op, c.val) >>
      [] c.kind = "in"      -> << Within(row[c.prop], c.vals) >>
      [] c.kind = "notIn"   -> << Neg(Within(row[c.prop], c.vals)) >>
      [] c.kind = "isNull"  -> << Truly(row[c.prop] = Null) >>
      [] c.kind = "notNull" -> << Truly(row[c.prop] # Null) >>
      [] c.kind = "between" -> << Between(row[c.prop], c.lo, c.hi) >>
      [] c.kind = "raw"     -> Paren(Criteria(row, Named(c.or, c.params)))

Render(row, cond) ==
    LET text[c \in CondTrees] ==
            IF c = NoCond THEN Empty
            ELSE IF c.kind = "not" THEN Negated(text[c.cond])
            ELSE IF c.kind \in {"and", "or"}
                 THEN Logic(c.kind, [i \in DOMAIN c.conds |-> text[c.conds[i]]])
            ELSE Simple(row, c)
    IN text[cond]

-------------------------------------------------------------------------------
(* The request: its filter and the statement's clause. *)

\* jpa.WithFilter: a context's filter cond, on top of the one it has.
Filtered(prev, cond) == IF prev = NoCond THEN cond ELSE AndOf(<<prev, cond>>)

\* Repository.withFilter: the Cond of a statement.
WithFilter(cond, filter) ==
    IF filter = NoCond THEN cond
    ELSE IF cond = NoCond THEN filter
    ELSE AndOf(<<cond, filter>>)

\* The clause of a request for one row.  The filter of the soft delete is the
\* entity's own text; here it is a single condition.
Clause(row, req) ==
    Where(Criteria(row, req.or), Render(row, WithFilter(req.cond, req.filter)),
          KeysetOf(row, req.keyset), IF req.all THEN Empty ELSE << Truly(row.live) >>)

Takes(row, req) == Selects(Clause(row, req))
===============================================================================
