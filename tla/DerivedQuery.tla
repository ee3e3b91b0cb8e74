----------------------------- MODULE DerivedQuery -----------------------------
(***************************************************************************)
(* Calls of derived methods and of Cond queries on a table whose rows      *)
(* belong to tenants, from the method's name to the fields of the entities *)
(* found: which rows the statement takes, next to those that the name, the *)
(* Cond, the context's filter and the soft delete ask for.  What ORDER BY  *)
(* and LIMIT do to the rows is in Scrolling.                               *)
(* A name's tree is kept by the repository; it is always the same, so the  *)
(* model reads the name in every call.                                     *)
(***************************************************************************)
EXTENDS WhereClause, MethodName, RowScan

CONSTANTS
    Rows,     \* bound: rows the table can have
    MaxRows,  \* bound: number of rows
    Methods,  \* calls of methods: a name, arguments and what the name means
    Conds,    \* arguments of FindWhere, CountWhere, ExistsWhere, DeleteWhere
    Filters,  \* filters of the contexts
    Keysets,  \* boundaries of the windows asked for
    Fields,   \* types of the entity's field for column n
    Pk,       \* the entity's primary key, in words
    Ids       \* keys, and lists of them, that callers have

VARIABLES
    rows,  \* the table: a set of rows
    last   \* the call in progress: how far it is and what it has brought

vars == <<rows, last>>

-------------------------------------------------------------------------------
(* What a caller can ask for. *)

\* Rows that the table can have: those of the program, marked or not.
Stored == Rows \cup {[row EXCEPT !.live = FALSE] : row \in Rows}

\* The tree's parts with the arguments, each part taking as many as it needs.
WithArgs(or, args) ==
    [i \in DOMAIN or |-> [j \in DOMAIN or[i] |->
        LET p      == or[i][j]
            before == OrArgs(or)[i - 1] + PartArgs(or[i])[j - 1]
        IN [prop |-> p.prop, op |-> p.op, ic |-> p.ic,
            args |-> SubSeq(args, before + 1, before + p.n)]]]

\* What Build makes of a call: an error if the name cannot be read or the
\* number of arguments is not that of its parts.
Understood(call) ==
    LET tree == Parse(call.name)
    IN IF tree = NoTree \/ Len(call.given) # NumArgs(tree) THEN NoTree
       ELSE [tree EXCEPT !.or = WithArgs(@, call.given)]

\* pkMethod: the method that an operation by key calls.
PkMethod(prefix) == <<prefix, "By">> \o Pk

\* FindByID, ExistsByID and DeleteByID; FindAllByID and DeleteAllByID.
ByKey ==
    LET means(verb, op, arg) ==
            [verb |-> Verbs[verb], distinct |-> FALSE, limit |-> 0, order |-> << >>,
             or   |-> << <<[prop |-> Column(Pk), op |-> op, args |-> <<arg>>, ic |-> FALSE]>> >>]
    IN {[name |-> PkMethod(verb), given |-> <<id>>, means |-> means(verb, "Equals", id)] :
            verb \in {"Find", "Exists", "Delete"}, id \in Ids}
       \cup {[name |-> PkMethod(verb) \o <<"In">>, given |-> <<ids>>, means |-> means(verb, "In", ids)] :
                verb \in {"Find", "Delete"}, ids \in SUBSET Ids}

Operators ==
    DOMAIN Comparing \cup Patterns
    \cup {"IsNull", "IsNotNull", "True", "False", "In", "NotIn", "Between"}

TextOperators == {"StartingWith", "EndingWith", "Containing", "NotContaining"}

\* Operators for texts are used on columns of texts.
FitsColumn(p) ==
    /\ p.op \in Operators
    /\ p.op \in TextOperators =>
          /\ p.args[1] \in Strings
          /\ \A row \in Stored : row[p.prop] = Null \/ row[p.prop] \in Strings

ASSUME QueryAssumption ==
    /\ {Null, Nil} \cap Strings = {}
    /\ \A row \in Rows : /\ row = [c \in DOMAIN row |-> row[c]]
                         /\ {"id", "live"} \subseteq DOMAIN row /\ row.live \in BOOLEAN
    /\ \A call \in Methods \cup ByKey : call.means # NoTree =>
          LET or == call.means.or
          IN or \in Seq(Range(or)) /\ \A i \in DOMAIN or : \A p \in Range(or[i]) : FitsColumn(p)
    /\ \A c \in Conds \cup {NoCond}, f \in Filters :
          {c, f, WithFilter(c, f)} \subseteq CondTrees /\ NoCond # AndOf(<<c, f>>)
    /\ \A keyset \in Keysets : keyset \in Seq(Range(keyset))
    /\ \A keyset \in Keysets : \A key \in Range(keyset), row \in Stored :
          {key.val, row[key.prop]} \subseteq Int \cup {Null}
    /\ \A row \in Stored : "n" \in DOMAIN row /\ row.n \in Int \cup {Null}
    /\ Fields \subseteq Field

Requests(verbs, or, means, conds, keysets, all) ==
    [verb : verbs, or : {or}, means : {means}, cond : conds, filter : Filters,
     keyset : keysets, all : all]

\* FindBy, CountBy, ExistsBy, DeleteBy; all is IncludingDeleted.
DerivedRequests ==
    Requests({last.tree.verb}, last.tree.or, last.call.means.or, {NoCond}, {<< >>}, BOOLEAN)

\* WindowBy, of a method that finds.
DerivedWindows ==
    Requests({last.tree.verb} \cap {"find"}, last.tree.or, last.call.means.or,
             {NoCond}, Keysets, {FALSE})

\* FindWhere and DeleteWhere.  CountWhere and ExistsWhere take what FindWhere does.
CondRequests == Requests({"find", "delete"}, << >>, << >>, Conds, {<< >>}, BOOLEAN)

\* WindowWhere.
CondWindows == Requests({"find"}, << >>, << >>, Conds, Keysets, {FALSE})

Taken(req) == {row \in rows : Takes(row, req)}

Idle == [verb |-> "none"]

Statement(req) ==
    /\ ~Fails(WithFilter(req.cond, req.filter))
    /\ last' = [verb |-> req.verb, req |-> req, took |-> Taken(req)]

-------------------------------------------------------------------------------
(* The name. *)

Derive(call) ==
    /\ last = Idle
    /\ last' = [verb |-> "read", call |-> call, tree |-> Understood(call)]
    /\ UNCHANGED rows

CanRun == last.verb = "read" /\ last.tree # NoTree

-------------------------------------------------------------------------------
(* Statements. *)

Select(req) ==
    /\ req.verb # "delete"
    /\ Statement(req)
    /\ UNCHANGED rows

\* Mutant of DeleteSoft: rows are marked and stay visible.
DeleteSoftKeeps(req) ==
    /\ req.verb = "delete" /\ ~req.all
    /\ Statement(req)
    /\ rows' = rows

\* Mutant of DeleteSoft: the row is there twice.
DeleteSoftCopies(req) ==
    /\ req.verb = "delete" /\ ~req.all
    /\ Statement(req)
    /\ rows' = rows \cup {[row EXCEPT !.live = FALSE] : row \in Taken(req)}

\* DELETE of an entity with SoftDelete is an UPDATE.
DeleteSoft(req) ==
    /\ req.verb = "delete" /\ ~req.all
    /\ Statement(req)
    /\ rows' = (rows \ Taken(req)) \cup {[row EXCEPT !.live = FALSE] : row \in Taken(req)}

DeleteHard(req) ==
    /\ req.verb = "delete" /\ req.all
    /\ Statement(req)
    /\ rows' = rows \ Taken(req)

\* Build ends in an error, and no statement is run.  So it is with a Cond that
\* names an unknown property and with more arguments than the dialect takes:
\* the columns here are resolved and the statements are small.
Refuse(req) ==
    /\ Fails(WithFilter(req.cond, req.filter))
    /\ last' = [verb |-> "refused", req |-> req]
    /\ UNCHANGED rows

\* Rows found without a condition become entities; the driver hands over
\* column n in one of its ways, the entity's field is of one of its types.
ScanAll(field, via) ==
    /\ last.verb = "find"
    /\ last.req.cond = NoCond /\ last.req.filter = NoCond
    /\ last.req.or = << >> /\ last.req.keyset = << >> /\ last.req.all
    /\ \A row \in last.took : row.n = Null \/ Holds(via, row.n)
    /\ last' = [verb |-> "scanned", field |-> field, via |-> via,
                got |-> [row \in last.took |->
                    Scan(field, IF row.n = Null THEN [type |-> "nil"] ELSE Source(via, row.n))]]
    /\ UNCHANGED rows

\* The call returns to the program.
Return ==
    /\ last # Idle
    /\ last' = Idle
    /\ UNCHANGED rows

Init ==
    /\ rows \in {table \in UNION {{Range(t) : t \in [1 .. k -> Rows]} : k \in 0 .. MaxRows} :
                    \A r, s \in table : r.id = s.id => r = s}
    /\ last = Idle

Run(req) == Select(req) \/ DeleteSoft(req) \/ DeleteHard(req) \/ Refuse(req)

Next ==
    \/ \E call \in Methods \cup ByKey : Derive(call)
    \/ CanRun /\ \E req \in DerivedRequests : Run(req)
    \/ CanRun /\ \E req \in DerivedWindows : Select(req)
    \/ last = Idle /\ \E req \in CondRequests : Run(req)
    \/ last = Idle /\ \E req \in CondWindows : Select(req)
    \/ \E field \in Fields, via \in {"binary", "text", "bit8", "bit16"} : ScanAll(field, via)
    \/ Return

Spec == Init /\ [][Next]_vars

-------------------------------------------------------------------------------
(* What a request asks for. *)

\* What the operators say of a value x, without texts.  Equal to nil is what is
\* NULL, and with any other operator nil is NULL.
EqualTo(x, v) ==
    IF v = Nil THEN Truly(x = Null)
    ELSE IF Null \in {x, v} THEN "U" ELSE Truly(x = v)

\* NULL is not known to be outside a list, nor is anything outside a list with
\* NULL in it; but nothing is in an empty list.
OneOf(x, vals) ==
    IF x # Null /\ x \in vals \ {Nil} THEN "T"
    ELSE IF vals = {} \/ (x # Null /\ vals \cap {Null, Nil} = {}) THEN "F"
    ELSE "U"

\* A limit excludes what is beyond it, whatever the other limit is.
Inside(x, lo, hi) ==
    IF \/ Null \notin {x, Bound(lo)} /\ ~(x = lo \/ x > lo)
       \/ Null \notin {x, Bound(hi)} /\ ~(x = hi \/ x < hi) THEN "F"
    ELSE IF Null \in {x, Bound(lo), Bound(hi)} THEN "U"
    ELSE "T"

\* Its negation, if it is negated.
Unless(negated, v) == IF negated THEN Neg(v) ELSE v

\* The truth value of a Cond that contains no others.
SimpleMeans(row, c) ==
    CASE c.kind = "cmp" /\ c.op \in {"=", "<>"} -> Unless(c.op = "<>", EqualTo(row[c.prop], c.val))
      [] c.kind \in {"in", "notIn"} -> Unless(c.kind = "notIn", OneOf(row[c.prop], c.vals))
      [] c.kind = "between" -> Inside(row[c.prop], c.lo, c.hi)
      [] OTHER -> Simple(row, c)[1]

\* Neither true nor false nor unknown: nothing is asked.
Absent == "absent"

Joint(op, vs) == IF vs = {} THEN Absent ELSE IF op = "and" THEN Conj(vs) ELSE Disj(vs)

\* The truth value of a Cond, operator by operator.
Value(row, cond) ==
    LET value[c \in CondTrees] ==
            IF c = NoCond THEN Absent
            ELSE IF c.kind = "not"
                 THEN IF value[c.cond] = Absent THEN Absent ELSE Neg(value[c.cond])
            ELSE IF c.kind \in {"and", "or"}
                 THEN Joint(c.kind, {value[c.conds[i]] : i \in DOMAIN c.conds} \ {Absent})
            ELSE SimpleMeans(row, c)
    IN value[cond]

Asks(row, c) == Value(row, c) \in {"T", Absent}

\* Text t contains s at place k.
At(s, t, k) == k + Len(s) - 1 <= Len(t) /\ SubSeq(t, k, k + Len(s) - 1) = s

\* What the operators for texts say, without patterns.
TextMeets(op, t, s) ==
    CASE op = "StartingWith" -> At(s, t, 1)
      [] op = "EndingWith"   -> Len(s) <= Len(t) /\ At(s, t, Len(t) - Len(s) + 1)
      [] op \in {"Containing", "NotContaining"} ->
            (op = "Containing") = (\E k \in 1 .. Len(t) + 1 : At(s, t, k))

\* The truth value of one part.
PartMeans(row, p) ==
    LET x == row[p.prop]
    IN CASE p.op \in TextOperators ->
                IF x = Null THEN "U"
                ELSE Truly(TextMeets(p.op, FoldCase(p, x), FoldCase(p, p.args[1])))
         [] p.op \in {"Equals", "Not"} ->
                Unless(p.op = "Not", EqualTo(FoldCase(p, x), FoldCase(p, p.args[1])))
         [] p.op \in {"In", "NotIn"} -> Unless(p.op = "NotIn", OneOf(x, p.args[1]))
         [] p.op = "Between" -> Inside(x, p.args[1], p.args[2])
         [] OTHER -> PartOf(row, p)

Meets(row, parts) == \A j \in DOMAIN parts : PartMeans(row, parts[j]) = "T"

MeetsCriteria(row, or) == or = << >> \/ \E i \in DOMAIN or : Meets(row, or[i])

\* A row is after a boundary if it is at the first sort key in which they
\* differ; a row or a boundary with NULL up to there has no place.
After(row, keyset) ==
    LET key(i)  == row[keyset[i].prop]
        old(i)  == keyset[i].val
        differs == {i \in DOMAIN keyset : Null \in {key(i), old(i)} \/ key(i) # old(i)}
        first   == CHOOSE i \in differs : \A j \in differs : i <= j
    IN keyset # << >> =>
          /\ differs # {}
          /\ Null \notin {key(first), old(first)}
          /\ IF keyset[first].desc THEN key(first) < old(first) ELSE key(first) > old(first)

Wanted(row, req) ==
    /\ MeetsCriteria(row, req.means)
    /\ Asks(row, req.cond)
    /\ Asks(row, req.filter)
    /\ After(row, req.keyset)
    /\ row.live \/ req.all

OneAlternative(req) == Len(req.means) <= 1

-------------------------------------------------------------------------------
(* Properties. *)

Ran(call) == call.verb \in Range(Verbs)

\* The table is a set of rows with distinct keys; a statement takes rows.
TypeOK ==
    /\ rows \subseteq Stored
    /\ \A r, s \in rows : r.id = s.id => r = s
    /\ last.verb \in {"none", "read", "refused", "scanned"} \cup Range(Verbs)
    /\ Ran(last) => last.took \subseteq Stored

\* A name is read as it is spelled, whatever tokens are in the words of its
\* properties: one tree for all spellings of an operator, and none for a name
\* that is misspelled or has other arguments.
NamesAreReadAsSpelled == last.verb = "read" => last.tree = last.call.means

\* A Cond query, and a method whose name has no Or, takes the rows that are
\* asked for: every operator binds, and the filter, the keyset and the soft
\* delete restrict the whole of it.
TakesWhatIsAsked ==
    [][Ran(last') /\ OneAlternative(last'.req)
          => last'.took = {row \in rows : Wanted(row, last'.req)}]_vars

\* A method with Or takes every row that is asked for, and none that does not
\* meet its criteria.
OrMissesNothing ==
    [][Ran(last') =>
         /\ {row \in rows : Wanted(row, last'.req)} \subseteq last'.took
         /\ \A row \in last'.took : MeetsCriteria(row, last'.req.means)]_vars

\* A delete leaves nothing for the same request to take, but for one case: the
\* soft delete is put to the last alternative of a method with Or only, so that
\* a row which meets an earlier one is taken again, marked as it is.  A delete
\* that ignores the soft delete, and one without Or, leaves nothing at all.
TakenAgainOnlyByOr ==
    last.verb = "delete" =>
        \A row \in Taken(last.req) :
            /\ ~last.req.all /\ ~row.live
            /\ \E i \in 1 .. Len(last.req.means) - 1 : Meets(row, last.req.means[i])

\* A number whose bits are the text of another, bits of several bytes in a
\* Boolean field, and a text beyond the widest signed integer.
Misread(field, via, n) ==
    \/ via \in {"bit8", "bit16"} /\ field.kind # "bool" /\ IsNumber(Source(via, n).value)
    \/ via = "bit16" /\ field.kind = "bool"
    \/ via = "text" /\ ~IsSigned(n, WordBytes)

\* A number that its field can hold is read back, however the driver hands it
\* over; NULL is nothing in a pointer.
ReadsBack ==
    last.verb = "scanned" => \A row \in DOMAIN last.got :
        /\ row.n = Null /\ last.field.pointer => last.got[row] = NilPointer
        /\ row.n # Null /\ Fits(last.field, row.n) /\ ~Misread(last.field, last.via, row.n)
              => last.got[row] = InField(last.field, row.n)

-------------------------------------------------------------------------------
(* What the documentation says and the code does not do. *)

\* WithFilter "ANDs cond into every derived/Cond query": every row a
\* statement takes meets the filter.
FilterRestricts ==
    [][Ran(last') => \A row \in last'.took : Asks(row, last'.req.filter)]_vars
===============================================================================
