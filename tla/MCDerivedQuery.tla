---------------------------- MODULE MCDerivedQuery ----------------------------
(* Instances of DerivedQuery for TLC. *)
EXTENDS NameSpelling

\* Properties that have tokens of the parser in them: OrderIn (column n) begins
\* with Or and ends in In, Description (column s) begins with Desc.
PropertyOf ==
    [n |-> <<"Or", "der", "In">>, s |-> <<"Desc", "ription">>, id |-> <<"Id">>, tenant |-> <<"And", "roid">>]

PrimaryKey == PropertyOf.id

Properties == [seg \in {PropertyOf[c] : c \in DOMAIN PropertyOf} |->
                  CHOOSE c \in DOMAIN PropertyOf : PropertyOf[c] = seg]

Continuing == {"der", "ription", "roid", "ics", "tes"}

Numbers == [n \in {"0", "5"} |-> IF n = "5" THEN 5 ELSE 0]

-------------------------------------------------------------------------------
(* Names, spelled from what they mean. *)

Applied(prop, op, args) == [prop |-> prop, op |-> op, args |-> args, ic |-> FALSE]

On(op, args) == Applied("n", op, args)

\* Each operator, on column n.
Parts ==
    {On(op, <<v>>) : op \in DOMAIN Comparing, v \in {1, Nil}}
    \cup {On(op, << >>) : op \in {"IsNull", "IsNotNull", "True", "False"}}
    \cup {On(op, <<vals>>) : op \in {"In", "NotIn"}, vals \in {{}, {0}, {1, Nil}}}
    \cup {On("Between", <<0, 1>>)}

\* Each operator for texts, with operands that are special to LIKE.
TextParts ==
    [prop : {"s"}, op : Patterns, args : {<<s>> : s \in {<<"a">>, <<"%">>, <<"\\", "_">>}}, ic : BOOLEAN]
    \cup [prop : {"s"}, op : {"Equals", "Not"}, args : {<< <<"a", "%">> >>}, ic : BOOLEAN]
    \cup [prop : {"s"}, op : {"Like", "NotLike"}, args : {<<Nil>>}, ic : {FALSE}]

FewParts == {On("Equals", <<1>>), On("LessThan", <<1>>), On("IsNull", << >>)}

\* A part that is spelled with a keyword or none.
Spelt(p, keyword) ==
    [words |-> PropertyOf[p.prop], keyword |-> keyword, args |-> p.args,
     ignore |-> IF p.ic THEN <<"Ignoring", "Case">> ELSE << >>]

\* With the first keyword of its operator.
Canonical(p) == Spelt(p, Keywords[Min({k \in DOMAIN Keywords : Keywords[k].op = p.op})])

Spelling(verb, or) ==
    [verb |-> verb, before |-> << >>, limit |-> << >>, after |-> << >>,
     or |-> or, all |-> << >>, keys |-> << >>]

\* A call, or NoTree if its name could be read in another way.
Spelled(sp) == IF IsSpelling(sp) THEN CallOf(sp) ELSE NoTree

\* A method with every keyword, and with none.
Spellings ==
    UNION {{Spelled(Spelling("Find", << <<Spelt(p, Keywords[k])>> >>)) :
               p \in {q \in Parts \cup TextParts : q.op = Keywords[k].op}} : k \in DOMAIN Keywords}
    \cup {Spelled(Spelling("Find", << <<Spelt(p, Bare)>> >>)) :
              p \in {q \in Parts \cup TextParts : q.op = "Equals"}}

\* Methods that find and that delete.
Combined ==
    LET few == {Canonical(p) : p \in FewParts}
    IN {Spelled(Spelling(verb, or)) : verb \in {"Search", "Delete"},
           or \in {<< <<p, q>> >> : p, q \in few} \cup {<< <<p>>, <<q>> >> : p, q \in few}
                  \cup {<< <<p>>, <<q, r>> >> : p, q, r \in few}}

One == << <<Spelt(On("Equals", <<1>>), Bare)>> >>

Limited(verb, limit, after) == [Spelling(verb, One) EXCEPT !.limit = limit, !.after = after]

By(prop, dir) == [words |-> PropertyOf[prop], dir |-> dir]

Sorted(keys) == [Spelling("Find", One) EXCEPT !.keys = keys]

\* Subjects, orders, and IgnoreCase for all parts.
Special ==
    {Spelled(sp) : sp \in
        {[Spelling("Find", << >>) EXCEPT !.after = <<"All">>],
         Limited("Read", <<"Top", "5">>, << >>), Limited("Get", <<"Top", "0">>, << >>),
         Limited("Count", << >>, <<"Distinct">>), Limited("Exists", <<"Top">>, <<"ics">>),
         [Spelling("Remove", << >>) EXCEPT !.limit = <<"First">>, !.keys = <<By("s", <<"Asc">>)>>],
         Sorted(<<By("s", <<"Desc">>), By("n", << >>)>>),
         Sorted(<<By("n", <<"Asc">>), By("id", <<"Desc">>)>>)}}
    \cup {Spelled([Spelling("Find", << <<Spelt(Applied("s", "Equals", << <<"a">> >>), Bare),
                                         Canonical(Applied("s", "Not", << <<"A">> >>))>> >>)
                      EXCEPT !.all = <<"All", "Ignore", "Case">>])}

\* Operations by key.
KeyCalls ==
    {Spelled(Spelling(verb, << <<Spelt(Applied("id", "Equals", <<id>>), Bare)>> >>)) :
        verb \in {"Find", "Exists", "Delete"}, id \in Ids}
    \cup {Spelled(Spelling(verb, << <<Spelt(Applied("id", "In", <<ids>>), Keyword(<<"In">>, "In", 1))>> >>)) :
             verb \in {"Find", "Delete"}, ids \in SUBSET Ids}

SpelledCalls == Spellings \cup Combined \cup Special

\* These calls and the operations by key are what WellSpelled says.
ASSUME SpellingAssumption == NoTree \notin SpelledCalls /\ ByKey = KeyCalls

Means(verb, or, order) ==
    [verb |-> verb, distinct |-> FALSE, limit |-> 0, or |-> or, order |-> order]

\* Names with underscores, and names that say nothing.
OddCalls ==
    {[name |-> <<"Find", "By", "Or", "der", "In", "Or", "der", "By", "And", "roid", "_", "Desc">>,
      given |-> <<1>>,
      means |-> Means("find", << <<On("Equals", <<1>>)>> >>, <<[prop |-> "tenant", desc |-> TRUE]>>)],
     [name |-> <<"Find", "By", "Or", "der", "In", "In", "And", "And", "roid", "_">>,
      given |-> <<{0}, 1>>,
      means |-> Means("find", << <<On("In", <<{0}>>), Applied("tenant", "Equals", <<1>>)>> >>, << >>)]}
    \cup {[name |-> name, given |-> <<1>>, means |-> NoTree] :
            name \in {<<"Find", "By", "Nope">>, <<"Save", "By", "Id">>, <<"Find", "By", "And">>,
                      <<"Find", "By", "Id", "And">>, <<"Find", "By", "In">>, <<"Find", "All">>,
                      <<"Find", "By", "Id", "Between">>, <<"Find", "By", "tes", "By", "Id">>,
                      <<"Find", "By", "Id", "Or", "der", "By", "Nope", "Desc">>}}

Calls == SpelledCalls \cup OddCalls

-------------------------------------------------------------------------------
(* Cond trees. *)

Cmp(prop, op, v) == [kind |-> "cmp", prop |-> prop, op |-> op, val |-> v]

\* RawCond("n IS NULL OR n = :v AND ...", params), with a list if there is one.
Raw(params) ==
    [kind |-> "raw", params |-> params,
     or   |-> << <<On("IsNull", << >>)>>,
                 <<On("Equals", <<"v">>)>> \o
                 IF "list" \in DOMAIN params THEN <<On("In", <<"list">>)>> ELSE << >> >>]

Leaves ==
    {Cmp("n", "=", 0), Cmp("n", "<>", Nil), Cmp("n", ">", 0),
     [kind |-> "in", prop |-> "n", vals |-> {}],
     [kind |-> "notIn", prop |-> "n", vals |-> {0}],
     [kind |-> "isNull", prop |-> "n"], [kind |-> "notNull", prop |-> "n"],
     [kind |-> "between", prop |-> "n", lo |-> 0, hi |-> 0],
     Raw([v |-> 1]), Raw([w |-> 1]), Raw([v |-> 1, list |-> {}])}

FewConds == {NoCond, Cmp("n", "=", 0), Cmp("n", ">", 0), AndOf(<< >>)}

Pairs(conds) == {AndOf(<<c, d>>) : c, d \in conds} \cup {OrOf(<<c, d>>) : c, d \in conds}

Nots(conds) == {[kind |-> "not", cond |-> c] : c \in conds \ {NoCond}}

\* Leaves, and trees of up to two levels.
Trees ==
    {NoCond} \cup Leaves \cup Nots(Leaves) \cup Pairs(FewConds) \cup Nots(Pairs(FewConds))
    \cup {AndOf(<<c, d>>) : c \in Pairs(FewConds \ {AndOf(<< >>)}), d \in FewConds}
    \cup {OrOf(<<c, d>>) : c \in FewConds, d \in Pairs(FewConds \ {AndOf(<< >>)})}

\* Filters are on top of the Conds of callers.
SimpleOnes == Leaves \cup {Cmp("n", "=", 0), Cmp("n", "=", 1), Cmp("n", ">", 0), Cmp("tenant", "=", 1)}

OfTenant == Cmp("tenant", "=", 1)

Contexts ==
    {NoCond, OfTenant, Filtered(OfTenant, OrOf(<<Cmp("n", "=", 0), Cmp("n", "=", 1)>>))}

Key(prop, desc, v) == [prop |-> prop, desc |-> desc, val |-> v]

Boundaries ==
    {<<Key("id", FALSE, 1)>>, <<Key("n", TRUE, 1), Key("id", FALSE, 1)>>,
     <<Key("n", FALSE, 0), Key("id", TRUE, 2)>>, <<Key("n", FALSE, Null), Key("id", FALSE, 1)>>}

-------------------------------------------------------------------------------
(* Rows. *)

Alphabet == {"a", "A", "%", "_", "\\"}

Texts == {Null, << >>, <<"a">>, <<"A">>, <<"a", "%">>, <<"A", "_">>, <<"\\", "_">>, <<"\\", "a", "_">>}

RowOf(n, s) == [id |-> 1, tenant |-> 1, n |-> n, s |-> s, live |-> TRUE]

\* Bytes of 49 and 12337 are the digits 1 and 01.
TableRows ==
    [id : {1, 2}, tenant : {1, 2}, n : {Null, 0, 1}, s : {<< >>}, live : BOOLEAN]
    \cup {RowOf(0, s) : s \in Texts}
    \cup {RowOf(n, << >>) : n \in {-129, -1, 49, 200, 255, 256, 12337, 40000}}

IntFields ==
    [kind : {"int", "uint"}, bytes : {1, 2}, pointer : BOOLEAN]
    \cup [kind : {"bool"}, bytes : {1}, pointer : BOOLEAN]
===============================================================================
