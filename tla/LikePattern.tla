------------------------------ MODULE LikePattern ------------------------------
(***************************************************************************)
(* Texts and LIKE.  A text is a sequence of characters: "%", "_" and "\\"  *)
(* are special to LIKE, and "A" is the upper case of "a"; any other        *)
(* character behaves like one of the two without the other.                *)
(*                                                                         *)
(* LIKE itself is external: case matters and a backslash escapes the       *)
(* character after it, as on Postgres.                                     *)
(***************************************************************************)
EXTENDS SqlKeyset

CONSTANT Characters  \* of texts

ASSUME CharacterAssumption == {"A", "%", "_", "\\"} \subseteq Characters

Strings == Seq(Characters)

Upper(x) ==
    IF x = Null THEN Null ELSE [i \in DOMAIN x |-> IF x[i] = "a" THEN "A" ELSE x[i]]

-------------------------------------------------------------------------------
(* What sqlgen makes of an operand. *)

\* Mutant of EscapeLike: the escape character is not escaped.
EscapeLikeWildcards(s) ==
    FlattenSeq([i \in DOMAIN s |-> IF s[i] \in {"%", "_"} THEN <<"\\", s[i]>> ELSE <<s[i]>>])

\* Special characters are escaped, the escape character too.
EscapeLike(s) ==
    FlattenSeq([i \in DOMAIN s |-> IF s[i] \in {"%", "_", "\\"} THEN <<"\\", s[i]>> ELSE <<s[i]>>])

Patterns == {"Like", "NotLike", "StartingWith", "EndingWith", "Containing", "NotContaining"}

\* The pattern of an operator with operand s.
Pattern(op, s) ==
    CASE op \in {"Like", "NotLike"}             -> s
      [] op = "StartingWith"                    -> EscapeLike(s) \o <<"%">>
      [] op = "EndingWith"                      -> <<"%">> \o EscapeLike(s)
      [] op \in {"Containing", "NotContaining"} -> <<"%">> \o EscapeLike(s) \o <<"%">>

-------------------------------------------------------------------------------
(* The server. *)

\* Matching from place j of the pattern: the places of the text whose rest is
\* matched, the end among them.
Matches(text, pattern) ==
    LET from[j \in 1 .. Len(pattern) + 1] ==
            LET escapes == pattern[j] = "\\" /\ j < Len(pattern)
                at      == IF escapes THEN j + 1 ELSE j
                next    == from[at + 1]
            IN IF j > Len(pattern) THEN {Len(text) + 1}
               ELSE IF pattern[j] = "%" THEN {i \in 1 .. Len(text) + 1 : \E k \in next : i <= k}
               ELSE {i \in 1 .. Len(text) : /\ text[i] = pattern[at] \/ (pattern[at] = "_" /\ ~escapes)
                                            /\ i + 1 \in next}
    IN 1 \in from[1]

Like(x, pattern) == IF Null \in {x, pattern} THEN "U" ELSE Truly(Matches(x, pattern))
===============================================================================
