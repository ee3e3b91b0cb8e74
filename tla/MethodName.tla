------------------------------ MODULE MethodName ------------------------------
(***************************************************************************)
(* The parser of method names (parser/parser.go).                          *)
(*                                                                         *)
(* A name is a sequence of pieces: words as the parser's tokens cut them,  *)
(* so that a token is one piece or several.  A piece either begins with an *)
(* upper-case letter or is in Lower and continues the one before: Topics   *)
(* is "Top" "ics", OrderId is "Or" "der" "Id", Top5 is "Top" "5".          *)
(* Properties are resolved against an entity's metadata, as repositories   *)
(* do; a property is written in one spelling, underscores aside.           *)
(***************************************************************************)
EXTENDS Integers, SequencesExt

CONSTANTS
    Lower,    \* pieces that continue a word
    Number,   \* pieces of digits, with their values
    ColumnOf, \* the entity's properties, with their columns
    NoTree    \* the name or a part of it cannot be read

-------------------------------------------------------------------------------
(* Words. *)

\* ResolveProperty does not look at underscores.
Plain(seg) == SelectSeq(seg, LAMBDA p : p # "_")

Resolves(seg) == Plain(seg) \in DOMAIN ColumnOf

Column(seg) == ColumnOf[Plain(seg)]

From(s, i) == SubSeq(s, i, Len(s))

\* strings.TrimSuffix.
Trim(s, suffix) == IF IsSuffix(suffix, s) THEN SubSeq(s, 1, Len(s) - Len(suffix)) ELSE s

\* Either of two suffixes, one after the other.
TrimBoth(s, suffixes) == Trim(Trim(s, suffixes[1]), suffixes[2])

\* The place of the first piece of a set, or the place behind the end.
First(s, pieces) == Min({i \in DOMAIN s : s[i] \in pieces} \cup {Len(s) + 1})

Capital(p) == p \notin Lower /\ p \notin DOMAIN Number /\ p # "_"

\* Mutant of Cuts: a token within a word cuts it, too.
CutsWords(s, i, tok) == s[i] = tok

\* A token cuts if it is a word of its own.
Cuts(s, i, tok) == s[i] = tok /\ (i < Len(s) => s[i + 1] \notin Lower)

\* The segments with the next piece: a token that cuts ends the last segment,
\* unless it is the first piece of it.
NextPiece(segments, s, i, tok) ==
    IF Cuts(s, i, tok) /\ Last(segments) # << >> THEN Append(segments, << >>)
    ELSE Append(Front(segments), Append(Last(segments), s[i]))

SplitToken(s, tok) ==
    LET segments[i \in 0 .. Len(s)] ==
            IF i = 0 THEN << << >> >> ELSE NextPiece(segments[i - 1], s, i, tok)
    IN segments[Len(s)]

-------------------------------------------------------------------------------
(* Operators. *)

Keyword(name, op, args) == [name |-> name, op |-> op, args |-> args]

\* Spellings of an operator, the longest first.
Is(words, op, args) ==
    <<Keyword(<<"Is">> \o words, op, args), Keyword(words, op, args)>>

\* Keywords and Canonical, in the order of Keywords.
Keywords ==
    Is(<<"Not", "Null">>, "IsNotNull", 0) \o Is(<<"Null">>, "IsNull", 0)
    \o Is(<<"Not", "In">>, "NotIn", 1) \o Is(<<"In">>, "In", 1)
    \o Is(<<"Not", "Like">>, "NotLike", 1) \o Is(<<"Like">>, "Like", 1)
    \o Is(<<"Starting", "With">>, "StartingWith", 1)
    \o <<Keyword(<<"Starts", "With">>, "StartingWith", 1)>>
    \o Is(<<"Ending", "With">>, "EndingWith", 1)
    \o <<Keyword(<<"Ends", "With">>, "EndingWith", 1)>>
    \o Is(<<"Not", "Containing">>, "NotContaining", 1)
    \o <<Keyword(<<"Not", "Contains">>, "NotContaining", 1)>>
    \o Is(<<"Containing">>, "Containing", 1) \o <<Keyword(<<"Contains">>, "Containing", 1)>>
    \o Is(<<"Between">>, "Between", 2)
    \o Is(<<"Before">>, "LessThan", 1) \o Is(<<"After">>, "GreaterThan", 1)
    \o Is(<<"Less", "Than", "Equal">>, "LessThanEqual", 1)
    \o Is(<<"Less", "Than">>, "LessThan", 1)
    \o Is(<<"Greater", "Than", "Equal">>, "GreaterThanEqual", 1)
    \o Is(<<"Greater", "Than">>, "GreaterThan", 1)
    \o Is(<<"True">>, "True", 0) \o Is(<<"False">>, "False", 0)
    \o Is(<<"Not">>, "Not", 1)
    \o <<Keyword(<<"Is">>, "Equals", 1), Keyword(<<"Equals">>, "Equals", 1)>>

IgnoreCase == << <<"Ignore", "Case">>, <<"Ignoring", "Case">> >>

AllIgnoreCase == << <<"All", "Ignore", "Case">>, <<"All", "Ignoring", "Case">> >>

Part(prop, op, args, ic) == [prop |-> prop, op |-> op, n |-> args, ic |-> ic]

\* A segment that is a property is one, whatever it ends in; otherwise the
\* first keyword that leaves a property is the operator.
ParsePart(segment) ==
    LET bare == TrimBoth(segment, IgnoreCase)
        seg  == Trim(bare, <<"_">>)
        prop(k) == Trim(Trim(seg, Keywords[k].name), <<"_">>)
        ks   == {k \in DOMAIN Keywords : IsSuffix(Keywords[k].name, seg) /\ Resolves(prop(k))}
        kw   == Keywords[Min(ks)]
    IN IF Resolves(seg) THEN Part(Column(seg), "Equals", 1, bare # segment)
       ELSE IF ks = {} THEN NoTree
       ELSE Part(Column(prop(Min(ks))), kw.op, kw.args, bare # segment)

ParseCriteria(pieces) ==
    LET ors == SplitToken(pieces, "Or")
    IN [i \in DOMAIN ors |->
           LET ands == SplitToken(ors[i], "And")
           IN [j \in DOMAIN ands |-> ParsePart(ands[j])]]

-------------------------------------------------------------------------------
(* The order. *)

\* Where a direction ends the first sort key of a text.
Directions(s) ==
    {i \in 2 .. Len(s) :
        /\ s[i] \in {"Asc", "Desc"}
        /\ i < Len(s) => Capital(s[i + 1])
        /\ Resolves(SubSeq(s, 1, i - 1))}

\* One sort key more.  What is left without a direction is one, ascending.
NextKey(state) ==
    LET rest == state.rest
        i    == Min(Directions(rest))
    IN IF rest = << >> THEN state
       ELSE IF Directions(rest) = {}
            THEN [keys |-> Append(state.keys, [prop |-> rest, desc |-> FALSE]), rest |-> << >>]
       ELSE [keys |-> Append(state.keys, [prop |-> SubSeq(rest, 1, i - 1), desc |-> rest[i] = "Desc"]),
             rest |-> From(rest, i + 1)]

\* A key takes at least one piece.
ParseOrder(s) ==
    LET state[k \in 0 .. Len(s)] ==
            IF k = 0 THEN [keys |-> << >>, rest |-> s] ELSE NextKey(state[k - 1])
    IN state[Len(s)].keys

-------------------------------------------------------------------------------
(* The name. *)

Verbs ==
    [Find |-> "find", Read |-> "find", Get |-> "find", Query |-> "find", Search |-> "find",
     Stream |-> "find", Count |-> "count", Exists |-> "exists",
     Delete |-> "delete", Remove |-> "delete"]

\* What is read from a part of a name, and from a name.
ReadPart ==
    [prop : Range(ColumnOf), op : {"Equals"} \cup {Keywords[k].op : k \in DOMAIN Keywords},
     n : Nat, ic : BOOLEAN]
ReadTree ==
    [verb : Range(Verbs), distinct : BOOLEAN, limit : Nat, or : Seq(Seq(ReadPart)),
     order : Seq([prop : Range(ColumnOf), desc : BOOLEAN])]

ASSUME NameAssumption ==
    /\ Number \in [DOMAIN Number -> Nat]
    /\ NoTree \notin ReadPart \cup ReadTree

\* First or Top with a number, 1 without one; wherever it stands.
LimitOf(subject) ==
    LET i == First(subject, {"First", "Top"})
        n == IF i < Len(subject) /\ subject[i + 1] \in DOMAIN Number
             THEN Number[subject[i + 1]] ELSE 0
    IN IF i > Len(subject) THEN 0 ELSE IF n > 0 THEN n ELSE 1

\* The place of OrderBy in the predicate.
OrderAt(s) ==
    Min({i \in DOMAIN s : i + 2 <= Len(s) /\ SubSeq(s, i, i + 2) = <<"Or", "der", "By">>}
        \cup {Len(s) + 1})

Tree(verb, subject, or, order) ==
    [verb     |-> verb,
     distinct |-> "Distinct" \in Range(subject),
     limit    |-> LimitOf(subject),
     or       |-> or,
     order    |-> [i \in DOMAIN order |-> [prop |-> Column(order[i].prop), desc |-> order[i].desc]]]

\* The tree of a name, or NoTree: an error.
Parse(name) ==
    IF name = << >> \/ name[1] \notin DOMAIN Verbs THEN NoTree
    ELSE LET rest      == Tail(name)
             by        == First(rest, {"By"})
             predicate == From(rest, by + 1)
             at        == OrderAt(predicate)
             text      == SubSeq(predicate, 1, at - 1)
             criteria  == TrimBoth(text, AllIgnoreCase)
             parts     == IF criteria = << >> THEN << >> ELSE ParseCriteria(criteria)
             or        == [i \in DOMAIN parts |-> [j \in DOMAIN parts[i] |->
                              [parts[i][j] EXCEPT !.ic = @ \/ criteria # text]]]
             order     == ParseOrder(From(predicate, at + 3))
         IN IF \/ NoTree \in UNION {Range(parts[i]) : i \in DOMAIN parts}
               \/ \E i \in DOMAIN order : ~Resolves(order[i].prop)
            THEN NoTree
            ELSE Tree(Verbs[name[1]], SubSeq(rest, 1, by - 1), or, order)

\* The sums of the first numbers.
Totals(ns) ==
    LET total[k \in 0 .. Len(ns)] == IF k = 0 THEN 0 ELSE total[k - 1] + ns[k]
    IN total

\* The arguments that the first parts take, and the first alternatives.
PartArgs(parts) == Totals([j \in DOMAIN parts |-> parts[j].n])
OrArgs(or) == Totals([i \in DOMAIN or |-> PartArgs(or[i])[Len(or[i])]])

\* Tree.NumArgs.
NumArgs(tree) == OrArgs(tree.or)[Len(tree.or)]
===============================================================================
