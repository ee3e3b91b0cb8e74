----------------------------- MODULE NameSpelling -----------------------------
(***************************************************************************)
(* How a derived method's name is spelled from what it means: the grammar  *)
(* that package parser documents, from the tree to the name.  Parse goes   *)
(* the other way.                                                          *)
(*                                                                         *)
(* A spelling has the fields                                               *)
(*   verb, before, limit, after   the subject, with First or Top and a     *)
(*                                number in limit, or neither              *)
(*   or                           alternatives of parts, each with the     *)
(*                                words of its property, its keyword, the  *)
(*                                words of IgnoreCase and its arguments    *)
(*   all                          the words of AllIgnoreCase, or none      *)
(*   keys                         sort keys, with the words of their       *)
(*                                property and of their direction          *)
(* Names are without underscores.                                          *)
(***************************************************************************)
EXTENDS DerivedQuery

\* A property without a keyword.
Bare == Keyword(<< >>, "Equals", 1)

OrderBy == <<"Or", "der", "By">>

JoinedBy(segments, tok) ==
    LET joined[k \in 1 .. Len(segments)] ==
            IF k = 1 THEN segments[k] ELSE joined[k - 1] \o <<tok>> \o segments[k]
    IN IF segments = << >> THEN << >> ELSE joined[Len(segments)]

-------------------------------------------------------------------------------
(* The name of a spelling. *)

Subject(sp) == sp.before \o sp.limit \o sp.after

Stem(p) == p.words \o p.keyword.name
Segment(p) == Stem(p) \o p.ignore

Alternative(parts) == JoinedBy([j \in DOMAIN parts |-> Segment(parts[j])], "And")
CriteriaText(sp) == JoinedBy([i \in DOMAIN sp.or |-> Alternative(sp.or[i])], "Or")

SortKey(key) == key.words \o key.dir
SortKeys(keys) == FlattenSeq([k \in DOMAIN keys |-> SortKey(keys[k])])

Predicate(sp) ==
    CriteriaText(sp) \o sp.all
    \o IF sp.keys = << >> THEN << >> ELSE OrderBy \o SortKeys(sp.keys)

NameOf(sp) ==
    <<sp.verb>> \o Subject(sp)
    \o IF sp.or = << >> /\ sp.keys = << >> THEN << >> ELSE <<"By">> \o Predicate(sp)

-------------------------------------------------------------------------------
(* What a spelling means. *)

LimitIs(limit) ==
    IF limit = << >> THEN 0
    ELSE IF Len(limit) = 2 /\ Number[limit[2]] > 0 THEN Number[limit[2]] ELSE 1

PartIs(p, all) ==
    [prop |-> Column(p.words), op |-> p.keyword.op, args |-> p.args,
     ic   |-> p.ignore # << >> \/ all # << >>]

MeansOf(sp) ==
    [verb     |-> Verbs[sp.verb],
     distinct |-> "Distinct" \in Range(Subject(sp)),
     limit    |-> LimitIs(sp.limit),
     or       |-> [i \in DOMAIN sp.or |->
                      [j \in DOMAIN sp.or[i] |-> PartIs(sp.or[i][j], sp.all)]],
     order    |-> [k \in DOMAIN sp.keys |->
                      [prop |-> Column(sp.keys[k].words), desc |-> sp.keys[k].dir = <<"Desc">>]]]

\* The arguments, one part after another.
GivenOf(sp) ==
    FlattenSeq([i \in DOMAIN sp.or |->
                   FlattenSeq([j \in DOMAIN sp.or[i] |-> sp.or[i][j].args])])

CallOf(sp) == [name |-> NameOf(sp), given |-> GivenOf(sp), means |-> MeansOf(sp)]

-------------------------------------------------------------------------------
(* Spellings that say one thing only. *)

IsSubject(sp) ==
    /\ sp.before \in Seq(Range(sp.before)) /\ sp.after \in Seq(Range(sp.after))
    /\ \/ sp.limit = << >> /\ {"First", "Top"} \cap Range(sp.after) = {}
       \/ sp.limit \in {<<"First">>, <<"Top">>}
          /\ (sp.after # << >> => sp.after[1] \notin DOMAIN Number)
       \/ sp.limit \in {<<word, n>> : word \in {"First", "Top"}, n \in DOMAIN Number}
    /\ {"First", "Top"} \cap Range(sp.before) = {}
    /\ "By" \notin Range(Subject(sp))

\* The words are a property's, alone or with a keyword, and no property is
\* spelled the same with another keyword or none.
IsStem(p) ==
    /\ p.words \in Seq(Range(p.words)) \ {<< >>}
    /\ Resolves(p.words)
    /\ "_" \notin Range(Stem(p))
    /\ \/ p.keyword = Bare
       \/ /\ p.keyword \in Range(Keywords)
          /\ ~Resolves(Stem(p))
          /\ \A n \in 0 .. Len(Stem(p)), k \in DOMAIN Keywords :
                Resolves(SubSeq(Stem(p), 1, n)) /\ SubSeq(Stem(p), 1, n) \o Keywords[k].name = Stem(p)
                    => Keywords[k] = p.keyword

\* And and Or are in other words only, and the property does not end in the
\* words of IgnoreCase.
IsPart(p) ==
    /\ IsStem(p)
    /\ p.ignore \in Range(IgnoreCase) \cup {<< >>}
    /\ \A suffix \in Range(IgnoreCase) : ~IsSuffix(suffix, Stem(p))
    /\ Segment(p)[1] \notin Lower
    /\ \A i \in DOMAIN Segment(p) :
          Segment(p)[i] \in {"And", "Or"} => i < Len(Segment(p)) /\ Segment(p)[i + 1] \in Lower
    /\ p.args \in Seq(Range(p.args)) /\ Len(p.args) = p.keyword.args

IsCriteria(sp) ==
    /\ sp.or \in Seq(Range(sp.or))
    /\ \A parts \in Range(sp.or) : parts \in Seq(Range(parts)) \ {<< >>}
    /\ \A parts \in Range(sp.or) : \A p \in Range(parts) : IsPart(p)
    /\ sp.all \in Range(AllIgnoreCase) \cup {<< >>}
    /\ sp.or = << >> => sp.all = << >>
    /\ \A suffix \in Range(AllIgnoreCase) : ~IsSuffix(suffix, CriteriaText(sp))
    /\ OrderAt(CriteriaText(sp) \o sp.all) > Len(CriteriaText(sp) \o sp.all)

\* No beginning of the words is a property with a direction after it; only the
\* last key can be without a direction.
IsOrder(keys) ==
    /\ keys \in Seq(Range(keys))
    /\ \A k \in DOMAIN keys :
          LET words == keys[k].words
          IN /\ words \in Seq(Range(words)) \ {<< >>}
             /\ Resolves(words)
             /\ Capital(words[1])
             /\ \A i \in 2 .. Len(words) :
                   words[i] \in {"Asc", "Desc"} => ~Resolves(SubSeq(words, 1, i - 1))
             /\ keys[k].dir \in {<<"Asc">>, <<"Desc">>} \cup (IF k = Len(keys) THEN {<< >>} ELSE {})

IsSpelling(sp) ==
    /\ sp.verb \in DOMAIN Verbs
    /\ IsSubject(sp)
    /\ IsCriteria(sp)
    /\ IsOrder(sp.keys)

-------------------------------------------------------------------------------

\* Methods and operations by key mean what their names and arguments spell.
WellSpelled == \A call \in Methods \cup ByKey : \E sp : IsSpelling(sp) /\ call = CallOf(sp)
===============================================================================
