-------------------------- MODULE DerivedQueryProofs --------------------------
(***************************************************************************)
(* Proofs about DerivedQuery.                                              *)
(***************************************************************************)
EXTENDS MethodNameProofs

-------------------------------------------------------------------------------
(* Texts. *)

\* A text that can be joined by AND without parentheses.
Single(t) == t \in Text /\ Len(t) <= 1

\* A disjunction is true when one of its members is.
LEMMA DisjTrue ==
    ASSUME NEW S PROVE Disj(S) = "T" <=> "T" \in S
BY DEF Disj

\* A conjunction of two truth values is true when both are, and it is one.
LEMMA ConjPair ==
    ASSUME NEW v \in Truth, NEW w \in Truth
    PROVE  /\ Conj({v, w}) = "T" <=> v = "T" /\ w = "T"
           /\ Conj({v, w}) \in Truth
BY DEF Conj, Truth

\* A text means true when one of its alternatives is true.
LEMMA MeaningTrue ==
    ASSUME NEW t \in Text
    PROVE  Meaning(t) = "T" <=> \E i \in 1 .. Len(t) : t[i] = "T"
<1>1. Range(t) = {t[i] : i \in 1 .. Len(t)}
  BY DEF Text, Range
<1> QED BY <1>1, DisjTrue DEF Meaning

\* A row is selected by a text that is empty or has a true alternative.
LEMMA SelectsTrue ==
    ASSUME NEW t \in Text
    PROVE  Selects(t) <=> Len(t) = 0 \/ \E i \in 1 .. Len(t) : t[i] = "T"
<1>1. t = Empty <=> Len(t) = 0
  BY DEF Empty, Text
<1> QED BY <1>1, MeaningTrue DEF Selects

\* A text of at most one alternative has none or one.
LEMMA NoneOrOne ==
    ASSUME NEW t, Single(t)
    PROVE  Len(t) = 0 \/ Len(t) = 1
<1> DEFINE n == Len(t)
<1>1. n \in Nat /\ n <= 1
  BY LenProperties DEF Single, Text
<1> HIDE DEF n
<1>2. n = 0 \/ n = 1
  BY <1>1
<1> QED BY <1>2 DEF n

\* All alternatives but the last.
LEMMA FrontOfText ==
    ASSUME NEW s \in Text, Len(s) >= 1
    PROVE  /\ Front(s) \in Text /\ Len(Front(s)) = Len(s) - 1
           /\ \A i \in 1 .. Len(s) - 1 : Front(s)[i] = s[i]
<1> DEFINE n == Len(s)
           f == SubSeq(s, 1, n - 1)
<1>1. n \in Nat /\ n >= 1 /\ s \in Seq(Truth)
  BY LenProperties DEF Text
<1>2. \A i \in 1 .. n : s[i] \in Truth
  BY <1>1, ElementOfSeq
<1> HIDE DEF n
<1>3. 1 \in Int /\ n - 1 \in Int /\ \A i \in 1 .. n - 1 : s[i] \in Truth
  BY <1>1, <1>2
<1>4. /\ f \in Seq(Truth)
      /\ Len(f) = IF 1 <= n - 1 THEN (n - 1) - 1 + 1 ELSE 0
      /\ \A i \in 1 .. (n - 1) - 1 + 1 : f[i] = s[1 + i - 1]
  BY <1>3, SubSeqProperties
<1> HIDE DEF f
<1>5. Len(f) = n - 1 /\ \A i \in 1 .. n - 1 : f[i] = s[i]
  BY <1>1, <1>4
<1>6. f = Front(s)
  BY DEF f, n, Front
<1> QED BY <1>4, <1>5, <1>6 DEF Text, n

\* AND with a single text changes the last alternative, and no other.
LEMMA AndAlsoLast ==
    ASSUME NEW s \in Text, Len(s) >= 1, NEW t, Single(t),
           NEW st, st = AndAlso(s, t)
    PROVE  /\ st \in Text /\ Len(st) = Len(s)
           /\ \A i \in 1 .. Len(s) - 1 : st[i] = s[i]
           /\ st[Len(s)] = "T" <=> s[Len(s)] = "T" /\ Selects(t)
<1>1. t \in Text /\ s # Empty
  BY DEF Single, Empty, Text
<1>2. CASE Len(t) = 0
  <2>1. t = Empty
    BY <1>1, <1>2 DEF Text, Empty
  <2>2. st = s
    BY <1>1, <2>1 DEF AndAlso
  <2> QED BY <1>1, <2>1, <2>2 DEF Selects, Text
<1>3. CASE Len(t) = 1
  <2>1. t # Empty /\ Tail(t) = << >> /\ Head(t) = t[1] /\ t[1] \in Truth
    <3>1. t \in Seq(Truth) /\ t # << >>
      BY <1>1, <1>3, EmptySeq DEF Text, Truth
    <3>2. Tail(t) \in Seq(Truth) /\ Len(Tail(t)) = 0
      BY <1>3, <3>1, HeadTailProperties
    <3>3. Tail(t) = << >>
      BY <3>2, EmptySeq
    <3>4. t[1] \in Truth
      BY <1>3, <3>1, ElementOfSeq
    <3> QED BY <3>1, <3>3, <3>4 DEF Empty
  <2> DEFINE v == Conj({s[Len(s)], t[1]})
             f == Front(s)
  <2>2. s[Len(s)] \in Truth
    BY DEF Text
  <2>3. v \in Truth /\ (v = "T" <=> s[Len(s)] = "T" /\ t[1] = "T")
    BY <2>1, <2>2, ConjPair
  <2>4. st = f \o << v >> \o << >>
    BY <1>1, <2>1 DEF AndAlso, JoinAnd, Last
  <2>5. f \in Seq(Truth) /\ Len(f) = Len(s) - 1 /\ \A i \in 1 .. Len(s) - 1 : f[i] = s[i]
    BY FrontOfText DEF Text
  <2>6. Selects(t) <=> t[1] = "T"
    <3>1. Len(t) = 0 \/ (\E i \in 1 .. Len(t) : t[i] = "T") <=> t[1] = "T"
      BY <1>3
    <3> QED BY <1>1, <3>1, SelectsTrue, Zenon
  <2> HIDE DEF v, f
  <2>7. /\ st \in Seq(Truth) /\ Len(st) = Len(s)
        /\ \A i \in 1 .. Len(s) - 1 : st[i] = s[i]
        /\ st[Len(s)] = v
    BY <2>3, <2>4, <2>5 DEF Text
  <2> QED BY <2>3, <2>6, <2>7 DEF Text
<1>4. Len(t) = 0 \/ Len(t) = 1
  BY NoneOrOne
<1> QED BY <1>2, <1>3, <1>4, Zenon

\* Texts without OR stay without, and each of them restricts the whole.
LEMMA AndAlsoSingle ==
    ASSUME NEW s, Single(s), NEW t, Single(t)
    PROVE  /\ Single(AndAlso(s, t))
           /\ Selects(AndAlso(s, t)) <=> Selects(s) /\ Selects(t)
<1>1. CASE s = Empty
  BY <1>1 DEF AndAlso, Selects
<1>2. CASE s # Empty
  <2>1. s \in Text /\ Len(s) = 1
    BY <1>2, NoneOrOne DEF Single, Text, Empty
  <2> DEFINE st == AndAlso(s, t)
  <2>2. st \in Text /\ Len(st) = 1 /\ (st[1] = "T" <=> s[1] = "T" /\ Selects(t))
    BY <2>1, AndAlsoLast
  <2> HIDE DEF st
  <2>3. Selects(st) <=> st[1] = "T"
    BY <2>2, SelectsTrue
  <2>4. Selects(s) <=> s[1] = "T"
    BY <2>1, SelectsTrue
  <2> QED BY <2>2, <2>3, <2>4 DEF Single, st
<1> QED BY <1>1, <1>2

\* A method without Or, or no method: a row is selected when the criteria,
\* the Cond with the filter, the keyset and the soft delete all select it.
THEOREM OneAlternativeRestricts ==
    ASSUME NEW criteria, NEW cond, NEW keyset, NEW soft,
           Single(criteria), Single(cond), Single(keyset), Single(soft)
    PROVE  Selects(Where(criteria, cond, keyset, soft)) <=>
              Selects(criteria) /\ Selects(cond) /\ Selects(keyset) /\ Selects(soft)
<1> DEFINE a == AndAlso(criteria, cond)
           b == AndAlso(a, keyset)
<1>1. Single(a) /\ (Selects(a) <=> Selects(criteria) /\ Selects(cond))
  BY AndAlsoSingle
<1>2. Single(b) /\ (Selects(b) <=> Selects(a) /\ Selects(keyset))
  BY <1>1, AndAlsoSingle
<1>3. Selects(AndAlso(b, soft)) <=> Selects(b) /\ Selects(soft)
  BY <1>2, AndAlsoSingle
<1> QED BY <1>1, <1>2, <1>3 DEF Where

\* A method with Or: a row is selected by any alternative but the last on its
\* own, whatever the Cond, the filter, the keyset and the soft delete say of
\* it; they restrict the last one.
THEOREM SeveralAlternativesEscape ==
    ASSUME NEW criteria \in Text, Len(criteria) >= 2,
           NEW cond, NEW keyset, NEW soft, Single(cond), Single(keyset), Single(soft)
    PROVE  Selects(Where(criteria, cond, keyset, soft)) <=>
              \/ \E i \in 1 .. Len(criteria) - 1 : criteria[i] = "T"
              \/ /\ criteria[Len(criteria)] = "T"
                 /\ Selects(cond) /\ Selects(keyset) /\ Selects(soft)
<1> DEFINE n == Len(criteria)
           a == AndAlso(criteria, cond)
           b == AndAlso(a, keyset)
           c == AndAlso(b, soft)
<1>1. n \in Nat /\ n >= 2
  BY DEF Text
<1>2. /\ a \in Text /\ Len(a) = n /\ \A i \in 1 .. n - 1 : a[i] = criteria[i]
      /\ a[n] = "T" <=> criteria[n] = "T" /\ Selects(cond)
  BY AndAlsoLast, <1>1
<1> HIDE DEF a
<1>3. /\ b \in Text /\ Len(b) = n /\ \A i \in 1 .. n - 1 : b[i] = a[i]
      /\ b[n] = "T" <=> a[n] = "T" /\ Selects(keyset)
  <2>1. Len(a) >= 1
    BY <1>1, <1>2
  <2>2. /\ b \in Text /\ Len(b) = Len(a) /\ \A i \in 1 .. Len(a) - 1 : b[i] = a[i]
        /\ b[Len(a)] = "T" <=> a[Len(a)] = "T" /\ Selects(keyset)
    <3>1. a \in Text
      BY <1>2
    <3> QED BY <2>1, <3>1, AndAlsoLast
  <2>3. Len(a) = n
    BY <1>2
  <2> HIDE DEF b, n
  <2> QED BY <2>2, <2>3
<1> HIDE DEF b
<1>4. /\ c \in Text /\ Len(c) = n /\ \A i \in 1 .. n - 1 : c[i] = b[i]
      /\ c[n] = "T" <=> b[n] = "T" /\ Selects(soft)
  <2>1. Len(b) >= 1
    BY <1>1, <1>3
  <2>2. /\ c \in Text /\ Len(c) = Len(b) /\ \A i \in 1 .. Len(b) - 1 : c[i] = b[i]
        /\ c[Len(b)] = "T" <=> b[Len(b)] = "T" /\ Selects(soft)
    <3>1. b \in Text
      BY <1>3
    <3> QED BY <2>1, <3>1, AndAlsoLast
  <2>3. Len(b) = n
    BY <1>3
  <2> HIDE DEF c, n
  <2> QED BY <2>2, <2>3
<1> HIDE DEF c, n
<1>5. Selects(c) <=> (\E i \in 1 .. n - 1 : c[i] = "T") \/ c[n] = "T"
  <2>1. Selects(c) <=> \E i \in 1 .. n : c[i] = "T"
    BY <1>1, <1>4, SelectsTrue
  <2> QED BY <1>1, <2>1
<1>6. (\E i \in 1 .. n - 1 : c[i] = "T") <=> \E i \in 1 .. n - 1 : criteria[i] = "T"
  BY <1>2, <1>3, <1>4
<1>7. c = Where(criteria, cond, keyset, soft)
  BY DEF a, b, c, Where
<1> QED BY <1>2, <1>3, <1>4, <1>5, <1>6, <1>7 DEF n

-------------------------------------------------------------------------------
(* LIKE. *)

\* What is matched from place j of the pattern, from what is from later places.
Reads(text, pattern, from, j) ==
    LET escapes == pattern[j] = "\\" /\ j < Len(pattern)
        at      == IF escapes THEN j + 1 ELSE j
        next    == from[at + 1]
    IN IF j > Len(pattern) THEN {Len(text) + 1}
       ELSE IF pattern[j] = "%" THEN {i \in 1 .. Len(text) + 1 : \E k \in next : i <= k}
       ELSE {i \in 1 .. Len(text) : /\ text[i] = pattern[at] \/ (pattern[at] = "_" /\ ~escapes)
                                    /\ i + 1 \in next}

Matchings(text, pattern) == [1 .. Len(pattern) + 1 -> SUBSET (1 .. Len(text) + 1)]

HasMatching(text, pattern) ==
    \E from \in Matchings(text, pattern) :
        /\ \A j \in 1 .. Len(pattern) + 1 : from[j] = Reads(text, pattern, from, j)
        /\ Matches(text, pattern) = (1 \in from[1])

LEMMA ReadsFurther ==
    ASSUME NEW text \in Strings, NEW pattern \in Strings,
           NEW j \in 1 .. Len(pattern) + 1, NEW f, NEW g,
           \A l \in 1 .. Len(pattern) + 1 : l > j => f[l] = g[l]
    PROVE  /\ Reads(text, pattern, f, j) \in SUBSET (1 .. Len(text) + 1)
           /\ Reads(text, pattern, f, j) = Reads(text, pattern, g, j)
<1> DEFINE n == Len(text)
           p == Len(pattern)
           at == IF pattern[j] = "\\" /\ j < p THEN j + 1 ELSE j
<1>1. n \in Nat /\ p \in Nat
  BY DEF Strings
<1>2. j <= p => f[at + 1] = g[at + 1]
  <2>1. j <= p => at + 1 \in 1 .. p + 1 /\ at + 1 > j
    BY <1>1
  <2> HIDE DEF at
  <2> QED BY <2>1
<1>3. Reads(text, pattern, f, j) \in SUBSET (1 .. n + 1)
  <2>1. 1 .. n \in SUBSET (1 .. n + 1) /\ n + 1 \in 1 .. n + 1
    BY <1>1
  <2> DEFINE next == f[at + 1]
             many == {i \in 1 .. n + 1 : \E k \in next : i <= k}
             one  == {i \in 1 .. n : /\ text[i] = pattern[at] \/ (pattern[at] = "_" /\ ~(pattern[j] = "\\" /\ j < p))
                                     /\ i + 1 \in next}
  <2>2. Reads(text, pattern, f, j) = {n + 1} \/ Reads(text, pattern, f, j) = many
          \/ Reads(text, pattern, f, j) = one
    BY DEF Reads
  <2>3. many \in SUBSET (1 .. n + 1) /\ one \in SUBSET (1 .. n) /\ {n + 1} \in SUBSET (1 .. n + 1)
    BY <2>1
  <2> HIDE DEF many, one, n
  <2> QED BY <2>1, <2>2, <2>3
<1>4. CASE j > p
  BY <1>3, <1>4 DEF Reads
<1>5. CASE ~(j > p)
  <2>1. j <= p
    BY <1>1, <1>5
  <2>2. Reads(text, pattern, f, j) = Reads(text, pattern, g, j)
    BY <1>2, <2>1, <1>5 DEF Reads
  <2> QED BY <1>3, <2>2
<1> QED BY <1>4, <1>5

LEMMA MatchingExists ==
    ASSUME NEW text \in Strings, NEW pattern \in Strings
    PROVE  HasMatching(text, pattern)
<1> DEFINE p == Len(pattern)
           T == Matchings(text, pattern)
           Since(d, f) == \A j \in 1 .. p + 1 : j + d > p => f[j] = Reads(text, pattern, f, j)
           S == {d \in Nat : \E f \in T : Since(d, f)}
<1>1. p \in Nat
  BY DEF Strings
<1>2. ASSUME NEW f, NEW j \in 1 .. p + 1
      PROVE  Reads(text, pattern, f, j) \in SUBSET (1 .. Len(text) + 1)
  BY ReadsFurther
<1>3. \E f \in T : Since(0, f)
  <2> DEFINE f == [j \in 1 .. p + 1 |-> {Len(text) + 1}]
  <2>1. f \in T
    <3>1. {Len(text) + 1} \in SUBSET (1 .. Len(text) + 1)
      BY DEF Strings
    <3> QED BY <3>1 DEF Matchings
  <2>2. Since(0, f)
    <3> SUFFICES ASSUME NEW j \in 1 .. p + 1, j + 0 > p PROVE f[j] = Reads(text, pattern, f, j)
      OBVIOUS
    <3>1. j > p /\ f[j] = {Len(text) + 1}
      BY <1>1
    <3> HIDE DEF f
    <3> QED BY <3>1 DEF Reads
  <2> HIDE DEF f
  <2> QED BY <2>1, <2>2
<1>4. ASSUME NEW d \in Nat, NEW f \in T, Since(d, f) PROVE \E g \in T : Since(d + 1, g)
  <2> DEFINE g == [j \in 1 .. p + 1 |-> IF j + d > p THEN f[j] ELSE Reads(text, pattern, f, j)]
  <2>1. g \in T
    BY <1>2 DEF Matchings
  <2>2. \A j \in 1 .. p + 1 : g[j] = IF j + d > p THEN f[j] ELSE Reads(text, pattern, f, j)
    OBVIOUS
  <2> HIDE DEF g
  <2>3. ASSUME NEW j \in 1 .. p + 1, j + (d + 1) > p
        PROVE  g[j] = Reads(text, pattern, g, j)
    <3>1. \A l \in 1 .. p + 1 : l > j => f[l] = g[l]
      BY <1>1, <2>2, <2>3
    <3>2. Reads(text, pattern, f, j) = Reads(text, pattern, g, j)
      BY <3>1, ReadsFurther
    <3>3. g[j] = Reads(text, pattern, f, j)
      BY <1>4, <2>2
    <3> QED BY <3>2, <3>3
  <2> QED BY <2>1, <2>3
<1>5. Nat \subseteq S
  <2>1. 0 \in S
    BY <1>3
  <2>2. ASSUME NEW d \in Nat, d \in S PROVE d + 1 \in S
    <3>1. PICK f \in T : Since(d, f)
      BY <2>2
    <3>2. \E g \in T : Since(d + 1, g)
      <4> HIDE DEF T, Since
      <4> QED BY <1>4, <3>1
    <3> HIDE DEF T, Since
    <3> QED BY <3>2
  <2> HIDE DEF S
  <2> QED BY <2>1, <2>2, Induction
<1>6. PICK f \in T : Since(p, f)
  <2>1. p \in S
    <3> HIDE DEF S
    <3> QED BY <1>1, <1>5
  <2> QED BY <2>1
<1> DEFINE Made(h) == h = [j \in 1 .. Len(pattern) + 1 |-> Reads(text, pattern, h, j)]
           from == CHOOSE h : Made(h)
<1>7. Made(f)
  <2>1. \A j \in 1 .. p + 1 : j + p > p
    BY <1>1
  <2>2. \A j \in 1 .. p + 1 : f[j] = Reads(text, pattern, f, j)
    BY <1>6, <2>1
  <2> QED BY <2>2 DEF Matchings
<1>8. Made(from)
  <2> HIDE DEF Made
  <2>1. \E h : Made(h)
    BY <1>7
  <2> QED BY <2>1, Zenon
<1>9. Matches(text, pattern) = (1 \in from[1])
  BY DEF Matches, Reads
<1> HIDE DEF from
<1>10. from \in T
  BY <1>2, <1>8 DEF Matchings
<1>11. \A j \in 1 .. p + 1 : from[j] = Reads(text, pattern, from, j)
  BY <1>8
<1> QED BY <1>9, <1>10, <1>11 DEF HasMatching

Special == {"%", "_", "\\"}

\* EscapeLike, character by character: ends[k] is where the first k end.
EscapesEach(s, esc) ==
    \E ends \in [0 .. Len(s) -> Nat] :
        /\ ends[0] = 0 /\ ends[Len(s)] = Len(esc)
        /\ \A k \in 1 .. Len(s) :
              IF s[k] \in Special
              THEN /\ ends[k] = ends[k - 1] + 2
                   /\ esc[ends[k - 1] + 1] = "\\" /\ esc[ends[k - 1] + 2] = s[k]
              ELSE ends[k] = ends[k - 1] + 1 /\ esc[ends[k - 1] + 1] = s[k]
        /\ \A k \in 0 .. Len(s) : ends[k] <= Len(esc)

LEMMA EscapeSteps ==
    ASSUME NEW s \in Strings
    PROVE  EscapeLike(s) \in Strings /\ EscapesEach(s, EscapeLike(s))
<1> DEFINE n == Len(s)
           seqs == [i \in DOMAIN s |->
                       IF s[i] \in {"%", "_", "\\"} THEN <<"\\", s[i]>> ELSE <<s[i]>>]
           esc == EscapeLike(s)
<1>1. n \in Nat /\ DOMAIN s = 1 .. n /\ \A i \in 1 .. n : s[i] \in Characters
  BY DEF Strings
<1>2. Len(seqs) = n /\ esc = FlattenSeq(seqs)
  <2>1. Len(seqs) = n
    BY <1>1
  <2> QED BY <2>1 DEF EscapeLike
<1>3. \A i \in 1 .. n : /\ seqs[i] = IF s[i] \in Special THEN <<"\\", s[i]>> ELSE <<s[i]>>
                        /\ seqs[i] \in Strings
  <2>1. ASSUME NEW i \in 1 .. n
        PROVE  seqs[i] = IF s[i] \in Special THEN <<"\\", s[i]>> ELSE <<s[i]>>
    BY <1>1 DEF Special
  <2>2. ASSUME NEW i \in 1 .. n PROVE <<"\\", s[i]>> \in Strings /\ <<s[i]>> \in Strings
    <3>1. ASSUME NEW c \in Characters, NEW d \in Characters
          PROVE  <<c, d>> \in Seq(Characters) /\ <<d>> \in Seq(Characters)
      OBVIOUS
    <3>2. "\\" \in Characters
      BY CharacterAssumption
    <3>3. s[i] \in Characters
      BY <1>1
    <3> QED BY <3>1, <3>2, <3>3 DEF Strings
  <2> HIDE DEF seqs
  <2>3. ASSUME NEW i \in 1 .. n PROVE seqs[i] \in Strings
    <3>1. seqs[i] = <<"\\", s[i]>> \/ seqs[i] = <<s[i]>>
      BY <2>1
    <3> QED BY <2>2, <3>1
  <2> QED BY <2>1, <2>3
<1> HIDE DEF seqs, esc
<1>4. CASE n = 0
  <2>1. esc = << >>
    <3>1. seqs = << >>
      <4>1. s = << >>
        BY <1>4 DEF Strings
      <4> QED BY <4>1 DEF seqs
    <3> QED BY <1>2, <1>4, <3>1 DEF FlattenSeq
  <2>2. esc \in Strings /\ Len(esc) = 0
    BY <2>1 DEF Strings
  <2>3. EscapesEach(s, esc)
    <3> DEFINE ends == [k \in 0 .. Len(s) |-> 0]
    <3>1. ends \in [0 .. Len(s) -> Nat] /\ ends[0] = 0 /\ ends[Len(s)] = Len(esc)
      BY <1>4, <2>2
    <3>2. \A k \in 0 .. Len(s) : ends[k] <= Len(esc)
      BY <2>2
    <3>3. 1 .. Len(s) = {}
      BY <1>4
    <3> HIDE DEF ends
    <3> QED BY <3>1, <3>2, <3>3 DEF EscapesEach
  <2> QED BY <2>2, <2>3 DEF esc
<1>5. CASE n # 0
  <2>1. Joined(Characters, n, seqs)
    BY <1>1, <1>2, <1>3, <1>5, FlattenSteps DEF Strings
  <2>2. PICK f \in [1 .. n -> Strings] :
           /\ f[1] = seqs[1]
           /\ \A i \in 2 .. n : f[i] = f[i - 1] \o seqs[i]
           /\ esc = f[n]
    BY <2>1, <1>2 DEF Joined, Strings
  <2> DEFINE ends == [k \in 0 .. n |-> IF k = 0 THEN 0 ELSE Len(f[k])]
  <2>3. /\ ends \in [0 .. n -> Nat] /\ ends[0] = 0 /\ ends[n] = Len(esc)
        /\ \A k \in 1 .. n : ends[k] = Len(f[k])
    BY <1>1, <1>5, <2>2 DEF Strings
  <2> HIDE DEF ends
  \* One character more.
  <2>4. ASSUME NEW k \in 1 .. n
        PROVE  /\ ends[k] = ends[k - 1] + Len(seqs[k])
               /\ \A i \in 1 .. Len(seqs[k]) : f[k][ends[k - 1] + i] = seqs[k][i]
               /\ k > 1 => \A i \in 1 .. ends[k - 1] : f[k][i] = f[k - 1][i]
    <3>1. CASE k = 1
      BY <1>1, <1>3, <2>2, <2>3, <3>1 DEF Strings
    <3>2. CASE k # 1
      <4>1. k \in 2 .. n /\ k - 1 \in 1 .. n
        BY <3>2
      <4>2. f[k] = f[k - 1] \o seqs[k] /\ f[k - 1] \in Seq(Characters) /\ seqs[k] \in Seq(Characters)
        BY <1>3, <2>2, <4>1 DEF Strings
      <4>3. ends[k] = Len(f[k]) /\ ends[k - 1] = Len(f[k - 1])
        BY <2>3, <4>1
      <4> DEFINE a == f[k - 1]
                 b == seqs[k]
      <4>4. /\ Len(a \o b) = Len(a) + Len(b)
            /\ \A i \in 1 .. Len(b) : (a \o b)[Len(a) + i] = b[i]
            /\ \A i \in 1 .. Len(a) : (a \o b)[i] = a[i]
        <5> HIDE DEF a, b
        <5>1. a \in Seq(Characters) /\ b \in Seq(Characters)
          BY <4>2 DEF a, b
        <5> QED BY <5>1
      <4> QED BY <4>2, <4>3, <4>4
    <3> QED BY <3>1, <3>2
  \* What has been joined stays.
  <2> DEFINE Stays(k, d) == k + d <= n => \A i \in 1 .. ends[k] : f[k + d][i] = f[k][i] /\ i <= ends[k + d]
  <2>5. ASSUME NEW k \in 1 .. n, NEW d \in Nat, Stays(k, d) PROVE Stays(k, d + 1)
    <3> SUFFICES ASSUME k + (d + 1) <= n, NEW i \in 1 .. ends[k]
                 PROVE  f[k + (d + 1)][i] = f[k][i] /\ i <= ends[k + (d + 1)]
      OBVIOUS
    <3> DEFINE l == k + (d + 1)
    <3>1. l \in 1 .. n /\ l > 1 /\ l - 1 = k + d /\ k + d \in 1 .. n /\ k + d <= n
      BY <1>1
    <3>2. f[k + d][i] = f[k][i] /\ i <= ends[k + d]
      BY <2>5, <3>1
    <3> HIDE DEF l
    <3>3. ends[l] = ends[l - 1] + Len(seqs[l]) /\ \A h \in 1 .. ends[l - 1] : f[l][h] = f[l - 1][h]
      BY <2>4, <3>1
    <3>4. ends[l - 1] \in Nat /\ Len(seqs[l]) \in Nat /\ ends[k] \in Nat
      BY <1>3, <2>3, <3>1 DEF Strings
    <3>5. i \in 1 .. ends[l - 1]
      BY <3>1, <3>2, <3>4
    <3>6. f[l][i] = f[k][i] /\ i <= ends[l]
      BY <3>1, <3>2, <3>3, <3>4, <3>5
    <3> QED BY <3>6 DEF l
  <2>6. ASSUME NEW k \in 1 .. n PROVE \A i \in 1 .. ends[k] : esc[i] = f[k][i] /\ i <= Len(esc)
    <3> DEFINE S == {d \in Nat : Stays(k, d)}
    <3>1. 0 \in S
      BY <2>3
    <3>2. \A d \in Nat : d \in S => d + 1 \in S
      <4> HIDE DEF Stays
      <4> QED BY <2>5
    <3>3. Nat \subseteq S
      <4> HIDE DEF S
      <4> QED BY <3>1, <3>2, Induction
    <3>4. n - k \in Nat /\ k + (n - k) = n
      BY <1>1
    <3>5. Stays(k, n - k)
      <4> HIDE DEF Stays
      <4> QED BY <3>3, <3>4
    <3>6. \A i \in 1 .. ends[k] : f[n][i] = f[k][i] /\ i <= ends[n]
      BY <1>1, <3>4, <3>5
    <3> QED BY <2>2, <2>3, <3>6
  <2>7. ASSUME NEW k \in 1 .. n
        PROVE  IF s[k] \in Special
               THEN /\ ends[k] = ends[k - 1] + 2
                    /\ esc[ends[k - 1] + 1] = "\\" /\ esc[ends[k - 1] + 2] = s[k]
               ELSE ends[k] = ends[k - 1] + 1 /\ esc[ends[k - 1] + 1] = s[k]
    <3>1. ends[k - 1] \in Nat
      BY <2>3
    <3>2. \A i \in 1 .. Len(seqs[k]) : esc[ends[k - 1] + i] = seqs[k][i]
      <4>1. Len(seqs[k]) \in Nat
        BY <1>3 DEF Strings
      <4>2. \A i \in 1 .. Len(seqs[k]) : ends[k - 1] + i \in 1 .. ends[k]
        BY <2>4, <3>1, <4>1
      <4> QED BY <2>4, <2>6, <4>2
    <3>3. CASE s[k] \in Special
      <4>1. seqs[k] = <<"\\", s[k]>>
        BY <1>3, <3>3
      <4>2. Len(seqs[k]) = 2 /\ seqs[k][1] = "\\" /\ seqs[k][2] = s[k]
        BY <4>1
      <4>3. ends[k] = ends[k - 1] + 2
        BY <2>4, <4>2
      <4>4. esc[ends[k - 1] + 1] = "\\" /\ esc[ends[k - 1] + 2] = s[k]
        <5>1. 1 \in 1 .. Len(seqs[k]) /\ 2 \in 1 .. Len(seqs[k])
          BY <4>2
        <5> QED BY <3>2, <4>2, <5>1
      <4> QED BY <3>3, <4>3, <4>4
    <3>4. CASE s[k] \notin Special
      <4>1. seqs[k] = <<s[k]>>
        BY <1>3, <3>4
      <4>2. Len(seqs[k]) = 1 /\ seqs[k][1] = s[k]
        BY <4>1
      <4>3. ends[k] = ends[k - 1] + 1
        BY <2>4, <4>2
      <4>4. esc[ends[k - 1] + 1] = s[k]
        <5>1. 1 \in 1 .. Len(seqs[k])
          BY <4>2
        <5> QED BY <3>2, <4>2, <5>1
      <4> QED BY <3>4, <4>3, <4>4
    <3> QED BY <3>3, <3>4
  <2>8. esc \in Strings
    BY <1>1, <1>5, <2>2
  <2>9. \A k \in 0 .. n : ends[k] <= Len(esc)
    <3>1. ASSUME NEW k \in 1 .. n PROVE ends[k] <= Len(esc)
      <4>1. ends[k] \in Nat /\ Len(esc) \in Nat
        BY <2>3, <2>8 DEF Strings
      <4>2. ends[k] # 0 => ends[k] \in 1 .. ends[k]
        BY <4>1
      <4> QED BY <2>6, <4>1, <4>2
    <3>2. Len(esc) \in Nat
      BY <2>8 DEF Strings
    <3> QED BY <2>3, <3>1, <3>2
  <2>10. EscapesEach(s, esc)
    BY <2>3, <2>7, <2>9 DEF EscapesEach
  <2> QED BY <2>8, <2>10 DEF esc
<1> QED BY <1>4, <1>5

\* The pattern has esc after place o.
HasAt(pattern, o, esc) == \A p \in 1 .. Len(esc) : pattern[o + p] = esc[p]

\* In what esc is to s: the places where the rest of a text begins with s and
\* what follows matches.
LEMMA EscapedRun ==
    ASSUME NEW text \in Strings, NEW pattern \in Strings, NEW s \in Strings, NEW esc \in Strings,
           NEW o \in Nat, EscapesEach(s, esc), o + Len(esc) <= Len(pattern), HasAt(pattern, o, esc),
           NEW from \in Matchings(text, pattern),
           \A j \in 1 .. Len(pattern) + 1 : from[j] = Reads(text, pattern, from, j)
    PROVE  \A i \in 1 .. Len(text) + 1 :
              i \in from[o + 1] <=> /\ \A l \in 1 .. Len(s) : i + l - 1 <= Len(text) /\ text[i + l - 1] = s[l]
                                    /\ i + Len(s) \in from[o + Len(esc) + 1]
<1> DEFINE n == Len(text)
           q == Len(pattern)
<1>2. PICK ends \in [0 .. Len(s) -> Nat] :
        /\ ends[0] = 0 /\ ends[Len(s)] = Len(esc)
        /\ \A k \in 1 .. Len(s) :
              IF s[k] \in Special
              THEN /\ ends[k] = ends[k - 1] + 2
                   /\ esc[ends[k - 1] + 1] = "\\" /\ esc[ends[k - 1] + 2] = s[k]
              ELSE ends[k] = ends[k - 1] + 1 /\ esc[ends[k - 1] + 1] = s[k]
        /\ \A k \in 0 .. Len(s) : ends[k] <= Len(esc)
  BY DEF EscapesEach
<1>3. n \in Nat /\ q \in Nat /\ Len(s) \in Nat /\ Len(esc) \in Nat
  BY DEF Strings
<1>4. /\ o + Len(esc) <= q
      /\ \A p \in 1 .. Len(esc) : pattern[o + p] = esc[p]
      /\ \A j \in 1 .. q + 1 : from[j] = Reads(text, pattern, from, j)
      /\ \A j \in 1 .. q + 1 : from[j] \in SUBSET (1 .. n + 1)
  <2>1. \A j \in 1 .. q + 1 : from[j] \in SUBSET (1 .. n + 1)
    BY DEF Matchings
  <2>2. \A p \in 1 .. Len(esc) : pattern[o + p] = esc[p]
    BY DEF HasAt
  <2> QED BY <2>1, <2>2
<1> HIDE DEF n, q
<1>10. \A k \in 0 .. Len(s) : ends[k] \in Nat /\ ends[k] <= Len(esc)
  BY <1>2
<1>11. ASSUME NEW k \in 1 .. Len(s)
       PROVE  ends[k - 1] \in Nat /\ ends[k] \in Nat /\ ends[k] <= Len(esc)
  <2>1. k - 1 \in 0 .. Len(s) /\ k \in 0 .. Len(s)
    BY <1>3
  <2> QED BY <1>10, <2>1
<1>12. o + Len(esc) <= q
  BY <1>4
\* One character of s.
<1>5. ASSUME NEW k \in 1 .. Len(s), NEW i \in 1 .. n + 1
      PROVE  i \in from[o + ends[k - 1] + 1] <=>
                i <= n /\ text[i] = s[k] /\ i + 1 \in from[o + ends[k] + 1]
  <2> DEFINE j == o + ends[k - 1] + 1
  <2>1. ends[k - 1] \in Nat /\ ends[k] \in Nat /\ ends[k] <= Len(esc)
    BY <1>11
  <2>2. CASE s[k] \in Special
    <3>1. ends[k] = ends[k - 1] + 2 /\ esc[ends[k - 1] + 1] = "\\" /\ esc[ends[k - 1] + 2] = s[k]
      BY <1>2, <2>2
    <3>2. ends[k - 1] + 1 \in 1 .. Len(esc) /\ ends[k - 1] + 2 \in 1 .. Len(esc)
      BY <1>3, <2>1, <3>1
    <3>3. /\ pattern[j] = "\\" /\ pattern[j + 1] = s[k]
          /\ j \in 1 .. q + 1 /\ j < q /\ (j + 1) + 1 = o + ends[k] + 1
      <4>1. pattern[o + (ends[k - 1] + 1)] = "\\" /\ pattern[o + (ends[k - 1] + 2)] = s[k]
        BY <1>4, <3>1, <3>2
      <4>2. o + (ends[k - 1] + 1) = j /\ o + (ends[k - 1] + 2) = j + 1
        BY <2>1
      <4>3. j \in 1 .. q + 1 /\ j < q /\ (j + 1) + 1 = o + ends[k] + 1
        <5> DEFINE a == ends[k - 1]
                   b == ends[k]
                   e == Len(esc)
        <5>1. a \in Nat /\ b \in Nat /\ e \in Nat /\ q \in Nat /\ b <= e /\ o + e <= q
          BY <1>3, <1>12, <2>1
        <5>2. b = a + 2
          BY <3>1
        <5> HIDE DEF a, b, e
        <5>3. o + a + 1 \in 1 .. q + 1 /\ o + a + 1 < q /\ (o + a + 1) + 2 = o + b + 1
          BY <5>1, <5>2
        <5> QED BY <5>1, <5>3 DEF a, b
      <4> HIDE DEF j
      <4> QED BY <4>1, <4>2, <4>3
    <3> HIDE DEF j
    <3>4. from[j] = {h \in 1 .. n : text[h] = s[k] /\ h + 1 \in from[o + ends[k] + 1]}
      <4>1. ~(j > q) /\ pattern[j] # "%"
        BY <1>3, <3>3
      <4>2. from[j] = Reads(text, pattern, from, j)
        BY <1>4, <3>3
      <4> QED BY <3>3, <4>1, <4>2 DEF Reads, n, q
    <3> QED BY <1>3, <3>4 DEF j
  <2>3. CASE s[k] \notin Special
    <3>1. ends[k] = ends[k - 1] + 1 /\ esc[ends[k - 1] + 1] = s[k]
      BY <1>2, <2>3
    <3>2. ends[k - 1] + 1 \in 1 .. Len(esc)
      BY <1>3, <2>1, <3>1
    <3>3. pattern[j] = s[k] /\ j \in 1 .. q + 1 /\ j <= q /\ j + 1 = o + ends[k] + 1
      <4>1. pattern[o + (ends[k - 1] + 1)] = s[k]
        BY <1>4, <3>1, <3>2
      <4>2. o + (ends[k - 1] + 1) = j
        BY <2>1
      <4>3. j \in 1 .. q + 1 /\ j <= q /\ j + 1 = o + ends[k] + 1
        <5> DEFINE a == ends[k - 1]
                   b == ends[k]
                   e == Len(esc)
        <5>1. a \in Nat /\ b \in Nat /\ e \in Nat /\ q \in Nat /\ b <= e /\ o + e <= q
          BY <1>3, <1>12, <2>1
        <5>2. b = a + 1
          BY <3>1
        <5> HIDE DEF a, b, e
        <5>3. o + a + 1 \in 1 .. q + 1 /\ o + a + 1 <= q /\ (o + a + 1) + 1 = o + b + 1
          BY <5>1, <5>2
        <5> QED BY <5>1, <5>3 DEF a, b
      <4> HIDE DEF j
      <4> QED BY <4>1, <4>2, <4>3
    <3> HIDE DEF j
    <3>4. from[j] = {h \in 1 .. n : text[h] = s[k] /\ h + 1 \in from[o + ends[k] + 1]}
      <4>1. pattern[j] # "%" /\ pattern[j] # "\\" /\ pattern[j] # "_"
        BY <2>3, <3>3 DEF Special
      <4>3. ~(j > q)
        BY <1>3, <3>3
      <4>2. from[j] = Reads(text, pattern, from, j)
        BY <1>4, <3>3
      <4> QED BY <3>3, <4>1, <4>2, <4>3 DEF Reads, n, q
    <3> QED BY <1>3, <3>4 DEF j
  <2> QED BY <2>2, <2>3
<1> DEFINE Goes(k) == \A i \in 1 .. n + 1 :
               i \in from[o + 1] <=> /\ \A l \in 1 .. k : i + l - 1 <= n /\ text[i + l - 1] = s[l]
                                     /\ i + k \in from[o + ends[k] + 1]
           S == {k \in Nat : k <= Len(s) => Goes(k)}
<1>6. 0 \in S
  BY <1>2, <1>3
<1>7. ASSUME NEW k \in Nat, k \in S PROVE k + 1 \in S
  <2> SUFFICES ASSUME k + 1 <= Len(s), NEW i \in 1 .. n + 1
               PROVE  i \in from[o + 1] <=>
                         /\ \A l \in 1 .. k + 1 : i + l - 1 <= n /\ text[i + l - 1] = s[l]
                         /\ i + (k + 1) \in from[o + ends[k + 1] + 1]
    OBVIOUS
  <2>1. i \in from[o + 1] <=> /\ \A l \in 1 .. k : i + l - 1 <= n /\ text[i + l - 1] = s[l]
                              /\ i + k \in from[o + ends[k] + 1]
    <3>1. k <= Len(s)
      BY <1>3
    <3>2. Goes(k)
      <4> HIDE DEF Goes
      <4> QED BY <1>7, <3>1
    <3> QED BY <3>2
  <2>2. k + 1 \in 1 .. Len(s) /\ (k + 1) - 1 = k
    BY <1>3
  <2>3. i + k \in 1 .. n + 1 =>
           (i + k \in from[o + ends[k] + 1] <=>
               i + k <= n /\ text[i + k] = s[k + 1] /\ (i + k) + 1 \in from[o + ends[k + 1] + 1])
    BY <1>5, <2>2
  <2>4. i + k \in from[o + ends[k] + 1] => i + k \in 1 .. n + 1
    <3>1. o + ends[k] + 1 \in 1 .. q + 1
      <4>1. k \in 0 .. Len(s)
        BY <1>3, <2>2
      <4>2. ends[k] \in Nat /\ ends[k] <= Len(esc)
        BY <1>10, <4>1
      <4> QED BY <1>3, <1>12, <4>2
    <3> QED BY <1>4, <3>1
  <2>5. (\A l \in 1 .. k + 1 : i + l - 1 <= n /\ text[i + l - 1] = s[l]) <=>
           /\ \A l \in 1 .. k : i + l - 1 <= n /\ text[i + l - 1] = s[l]
           /\ i + k <= n /\ text[i + k] = s[k + 1]
    <3>1. i + (k + 1) - 1 = i + k
      BY <1>3
    <3>2. \A l \in 1 .. k + 1 : l \in 1 .. k \/ l = k + 1
      OBVIOUS
    <3>3. k + 1 \in 1 .. k + 1 /\ \A l \in 1 .. k : l \in 1 .. k + 1
      OBVIOUS
    <3> QED BY <3>1, <3>2, <3>3
  <2>6. (i + k) + 1 = i + (k + 1) /\ (i + k <= n => i + k \in 1 .. n + 1)
    BY <1>3
  <2> QED BY <2>1, <2>3, <2>4, <2>5, <2>6
<1>8. Nat \subseteq S
  <2> HIDE DEF S
  <2> QED BY <1>6, <1>7, Induction
<1>9. Goes(Len(s))
  <2>1. Len(s) \in S
    <3> HIDE DEF S
    <3> QED BY <1>3, <1>8
  <2> QED BY <1>3, <2>1
<1> QED BY <1>2, <1>9 DEF n

\* The rest of the text at place i begins with s.
Begins(s, text, i) == \A l \in 1 .. Len(s) : i + l - 1 <= Len(text) /\ text[i + l - 1] = s[l]

LEMMA BeginsAt ==
    ASSUME NEW s \in Strings, NEW text \in Strings, NEW i \in 1 .. Len(text) + 1
    PROVE  /\ At(s, text, i) <=> Begins(s, text, i)
           /\ Begins(s, text, i) => i + Len(s) \in 1 .. Len(text) + 1
<1> DEFINE n == Len(text)
           m == Len(s)
           part == SubSeq(text, i, i + m - 1)
<1>1. n \in Nat /\ m \in Nat /\ text \in Seq(Characters) /\ s \in Seq(Characters)
  BY DEF Strings
<1>2. Begins(s, text, i) => i + m - 1 <= n
  <2>1. CASE m = 0
    BY <1>1, <2>1
  <2>2. CASE m # 0
    <3>1. m \in 1 .. m
      BY <1>1, <2>2
    <3> QED BY <3>1 DEF Begins
  <2> QED BY <2>1, <2>2
<1>3. ASSUME i + m - 1 <= n PROVE part = s <=> Begins(s, text, i)
  <2>1. part \in Seq(Characters) /\ Len(part) = m /\ \A l \in 1 .. m : part[l] = text[i + l - 1]
    BY <1>1, <1>3
  <2>2. \A l \in 1 .. m : i + l - 1 <= n
    BY <1>1, <1>3
  <2> HIDE DEF part, n, m
  <2>3. part = s <=> \A l \in 1 .. m : part[l] = s[l]
    <3>1. s \in Seq(Characters) /\ Len(s) = m
      BY <1>1 DEF m
    <3>2. (\A l \in 1 .. m : part[l] = s[l]) => part = s
      BY <2>1, <3>1, SeqEqual
    <3> QED BY <3>2
  <2> QED BY <2>1, <2>2, <2>3 DEF Begins, n, m
<1>4. At(s, text, i) <=> i + m - 1 <= n /\ part = s
  BY DEF At
<1>5. i + m - 1 <= n => i + m \in 1 .. n + 1
  BY <1>1
<1> HIDE DEF part, n, m
<1> QED BY <1>2, <1>3, <1>4, <1>5 DEF n, m

\* Where the pattern has come to its end, and to one "%" before its end.
LEMMA LastReads ==
    ASSUME NEW text \in Strings, NEW pattern \in Strings,
           NEW from \in Matchings(text, pattern),
           \A j \in 1 .. Len(pattern) + 1 : from[j] = Reads(text, pattern, from, j)
    PROVE  /\ from[Len(pattern) + 1] = {Len(text) + 1}
           /\ Len(pattern) > 0 /\ pattern[Len(pattern)] = "%" =>
                 from[Len(pattern)] = 1 .. Len(text) + 1
           /\ Len(pattern) > 0 /\ pattern[1] = "%" =>
                 (1 \in from[1] <=> \E i \in 1 .. Len(text) + 1 : i \in from[2])
<1> DEFINE n == Len(text)
           p == Len(pattern)
<1>1. n \in Nat /\ p \in Nat
  BY DEF Strings
<1>2. from[p + 1] = {n + 1}
  <2>1. p + 1 > p /\ p + 1 \in 1 .. p + 1
    BY <1>1
  <2>2. from[p + 1] = Reads(text, pattern, from, p + 1)
    BY <2>1
  <2> QED BY <2>1, <2>2 DEF Reads
<1>3. ASSUME NEW j \in 1 .. p, pattern[j] = "%"
      PROVE  from[j] = {i \in 1 .. n + 1 : \E k \in from[j + 1] : i <= k}
  <2>1. j \in 1 .. p + 1 /\ ~(j > p)
    BY <1>1
  <2>2. from[j] = Reads(text, pattern, from, j)
    BY <2>1
  <2> QED BY <1>3, <2>1, <2>2 DEF Reads
<1>4. ASSUME p > 0, pattern[p] = "%" PROVE from[p] = 1 .. n + 1
  <2>1. p \in 1 .. p
    BY <1>1, <1>4
  <2>2. from[p] = {i \in 1 .. n + 1 : \E k \in from[p + 1] : i <= k}
    BY <1>3, <1>4, <2>1
  <2> HIDE DEF n, p
  <2> QED BY <1>1, <1>2, <2>2
<1>5. ASSUME p > 0, pattern[1] = "%"
      PROVE  1 \in from[1] <=> \E i \in 1 .. n + 1 : i \in from[2]
  <2>1. 1 \in 1 .. p /\ 2 \in 1 .. p + 1 /\ 1 \in 1 .. n + 1
    BY <1>1, <1>5
  <2>2. from[1] = {i \in 1 .. n + 1 : \E k \in from[1 + 1] : i <= k}
    BY <1>3, <1>5, <2>1
  <2>3. from[2] \in SUBSET (1 .. n + 1)
    BY <2>1 DEF Matchings
  <2> HIDE DEF n, p
  <2> QED BY <1>1, <2>1, <2>2, <2>3
<1> QED BY <1>2, <1>4, <1>5

\* Patterns of an operand, character by character escaped, match the texts that
\* begin with it, end with it and contain it.
LEMMA PatternMatches ==
    ASSUME NEW text \in Strings, NEW s \in Strings, NEW esc \in Strings, EscapesEach(s, esc)
    PROVE  /\ Matches(text, esc \o <<"%">>) <=> At(s, text, 1)
           /\ Matches(text, <<"%">> \o esc) <=>
                 Len(s) <= Len(text) /\ At(s, text, Len(text) - Len(s) + 1)
           /\ Matches(text, <<"%">> \o esc \o <<"%">>) <=>
                 \E i \in 1 .. Len(text) + 1 : At(s, text, i)
<1> DEFINE n == Len(text)
           e == Len(esc)
           m == Len(s)
<1>1. n \in Nat /\ e \in Nat /\ m \in Nat /\ esc \in Seq(Characters) /\ "%" \in Characters
  <2>1. "%" \in Characters
    BY CharacterAssumption
  <2> QED BY <2>1 DEF Strings
<1>2. Matches(text, esc \o <<"%">>) <=> At(s, text, 1)
  <2> DEFINE pattern == esc \o <<"%">>
  <2>1. /\ pattern \in Strings /\ Len(pattern) = e + 1 /\ pattern[e + 1] = "%"
        /\ HasAt(pattern, 0, esc)
    BY <1>1 DEF HasAt, Strings
  <2> HIDE DEF pattern
  <2>2. HasMatching(text, pattern)
    BY <2>1, MatchingExists
  <2>3. PICK from \in Matchings(text, pattern) :
          /\ \A j \in 1 .. Len(pattern) + 1 : from[j] = Reads(text, pattern, from, j)
          /\ Matches(text, pattern) = (1 \in from[1])
    BY <2>2 DEF HasMatching
  <2>4. from[e + 1] = 1 .. n + 1
    <3>1. Len(pattern) > 0 /\ pattern[Len(pattern)] = "%" => from[Len(pattern)] = 1 .. Len(text) + 1
      BY <2>1, <2>3, LastReads
    <3> QED BY <1>1, <2>1, <3>1
  <2>5. \A i \in 1 .. n + 1 : i \in from[0 + 1] <=> Begins(s, text, i) /\ i + m \in from[0 + e + 1]
    <3>1. 0 \in Nat /\ 0 + Len(esc) <= Len(pattern)
      BY <1>1, <2>1
    <3> QED BY <2>1, <2>3, <3>1, EscapedRun DEF Begins
  <2>6. 1 \in 1 .. n + 1 /\ 0 + 1 = 1 /\ 0 + e + 1 = e + 1
    BY <1>1
  <2>7. 1 \in from[1] <=> Begins(s, text, 1) /\ 1 + m \in 1 .. n + 1
    BY <2>4, <2>5, <2>6
  <2> QED BY <2>3, <2>6, <2>7, BeginsAt DEF pattern
<1>3. Matches(text, <<"%">> \o esc) <=> m <= n /\ At(s, text, n - m + 1)
  <2> DEFINE pattern == <<"%">> \o esc
  <2>1. /\ pattern \in Strings /\ Len(pattern) = e + 1 /\ pattern[1] = "%"
        /\ HasAt(pattern, 1, esc)
    BY <1>1 DEF HasAt, Strings
  <2> HIDE DEF pattern
  <2>2. HasMatching(text, pattern)
    BY <2>1, MatchingExists
  <2>3. PICK from \in Matchings(text, pattern) :
          /\ \A j \in 1 .. Len(pattern) + 1 : from[j] = Reads(text, pattern, from, j)
          /\ Matches(text, pattern) = (1 \in from[1])
    BY <2>2 DEF HasMatching
  <2>4. /\ from[1 + e + 1] = {n + 1}
        /\ 1 \in from[1] <=> \E i \in 1 .. n + 1 : i \in from[2]
    <3>1. /\ from[Len(pattern) + 1] = {Len(text) + 1}
          /\ Len(pattern) > 0 /\ pattern[1] = "%" =>
                 (1 \in from[1] <=> \E i \in 1 .. Len(text) + 1 : i \in from[2])
      BY <2>1, <2>3, LastReads
    <3>2. Len(pattern) + 1 = 1 + e + 1 /\ Len(pattern) > 0
      BY <1>1, <2>1
    <3> QED BY <2>1, <3>1, <3>2
  <2>5. \A i \in 1 .. n + 1 : i \in from[1 + 1] <=> Begins(s, text, i) /\ i + m \in from[1 + e + 1]
    <3>1. 1 \in Nat /\ 1 + Len(esc) <= Len(pattern)
      BY <1>1, <2>1
    <3> QED BY <2>1, <2>3, <3>1, EscapedRun DEF Begins
  <2>6. \A i \in 1 .. n + 1 : i \in from[2] <=> At(s, text, i) /\ i + m = n + 1
    BY <2>4, <2>5, BeginsAt
  <2>7. (\E i \in 1 .. n + 1 : i \in from[2]) <=> m <= n /\ At(s, text, n - m + 1)
    <3>1. ASSUME NEW i \in 1 .. n + 1, i \in from[2] PROVE m <= n /\ At(s, text, n - m + 1)
      <4>1. i = n - m + 1 /\ m <= n
        BY <1>1, <2>6, <3>1
      <4> QED BY <2>6, <3>1, <4>1
    <3>2. ASSUME m <= n, At(s, text, n - m + 1) PROVE n - m + 1 \in 1 .. n + 1 /\ n - m + 1 \in from[2]
      <4>1. n - m + 1 \in 1 .. n + 1 /\ (n - m + 1) + m = n + 1
        BY <1>1, <3>2
      <4> QED BY <2>6, <3>2, <4>1
    <3> QED BY <3>1, <3>2
  <2> QED BY <2>3, <2>4, <2>7 DEF pattern
<1>4. Matches(text, <<"%">> \o esc \o <<"%">>) <=> \E i \in 1 .. n + 1 : At(s, text, i)
  <2> DEFINE pattern == <<"%">> \o esc \o <<"%">>
  <2>1. /\ pattern \in Strings /\ Len(pattern) = e + 2 /\ pattern[1] = "%" /\ pattern[e + 2] = "%"
        /\ HasAt(pattern, 1, esc)
    BY <1>1 DEF HasAt, Strings
  <2> HIDE DEF pattern
  <2>2. HasMatching(text, pattern)
    BY <2>1, MatchingExists
  <2>3. PICK from \in Matchings(text, pattern) :
          /\ \A j \in 1 .. Len(pattern) + 1 : from[j] = Reads(text, pattern, from, j)
          /\ Matches(text, pattern) = (1 \in from[1])
    BY <2>2 DEF HasMatching
  <2>4. /\ from[1 + e + 1] = 1 .. n + 1
        /\ 1 \in from[1] <=> \E i \in 1 .. n + 1 : i \in from[2]
    <3>1. /\ Len(pattern) > 0 /\ pattern[Len(pattern)] = "%" => from[Len(pattern)] = 1 .. Len(text) + 1
          /\ Len(pattern) > 0 /\ pattern[1] = "%" =>
                 (1 \in from[1] <=> \E i \in 1 .. Len(text) + 1 : i \in from[2])
      BY <2>1, <2>3, LastReads
    <3>2. Len(pattern) = 1 + e + 1 /\ Len(pattern) > 0 /\ e + 2 = 1 + e + 1
      BY <1>1, <2>1
    <3> QED BY <2>1, <3>1, <3>2
  <2>5. \A i \in 1 .. n + 1 : i \in from[1 + 1] <=> Begins(s, text, i) /\ i + m \in from[1 + e + 1]
    <3>1. 1 \in Nat /\ 1 + Len(esc) <= Len(pattern)
      BY <1>1, <2>1
    <3> QED BY <2>1, <2>3, <3>1, EscapedRun DEF Begins
  <2>6. \A i \in 1 .. n + 1 : i \in from[2] <=> At(s, text, i)
    BY <2>4, <2>5, BeginsAt
  <2> QED BY <2>3, <2>4, <2>6 DEF pattern
<1> QED BY <1>2, <1>3, <1>4

-------------------------------------------------------------------------------
(* IgnoreCase. *)

LEMMA NotATextNull == \A x \in Strings : x # Null /\ x # Nil
<1>1. {Null, Nil} \cap Strings = {}
  BY QueryAssumption
<1> QED BY <1>1

LEMMA UpperText ==
    ASSUME NEW x \in Strings
    PROVE  /\ Upper(x) \in Strings /\ Len(Upper(x)) = Len(x)
           /\ \A i \in 1 .. Len(x) : Upper(x)[i] = IF x[i] = "a" THEN "A" ELSE x[i]
<1>1. x # Null
  BY NotATextNull
<1>2. "A" \in Characters
  BY CharacterAssumption
<1>3. Upper(x) = [i \in 1 .. Len(x) |-> IF x[i] = "a" THEN "A" ELSE x[i]]
  BY <1>1 DEF Upper, Strings
<1>4. Len(x) \in Nat /\ \A i \in 1 .. Len(x) : x[i] \in Characters
  BY DEF Strings
<1>5. \A i \in 1 .. Len(x) : (IF x[i] = "a" THEN "A" ELSE x[i]) \in Characters
  BY <1>2, <1>4
<1>6. Upper(x) \in [1 .. Len(x) -> Characters]
  BY <1>3, <1>5
<1>7. Upper(x) \in Seq(Characters) /\ Len(Upper(x)) = Len(x)
  <2> DEFINE u == Upper(x)
             n == Len(x)
  <2>1. u \in [1 .. n -> Characters] /\ n \in Nat
    BY <1>4, <1>6
  <2> HIDE DEF u, n
  <2>2. u \in Seq(Characters) /\ Len(u) = n
    BY <2>1
  <2> QED BY <2>2 DEF u, n
<1>8. \A i \in 1 .. Len(x) : Upper(x)[i] = IF x[i] = "a" THEN "A" ELSE x[i]
  BY <1>3
<1> QED BY <1>7, <1>8 DEF Strings

LEMMA UpperJoined ==
    ASSUME NEW x \in Strings, NEW y \in Strings
    PROVE  x \o y \in Strings /\ Upper(x \o y) = Upper(x) \o Upper(y)
<1> DEFINE u == Upper(x)
           v == Upper(y)
           w == Upper(x \o y)
           n == Len(x)
           m == Len(y)
<1>1. x \o y \in Strings /\ Len(x \o y) = n + m /\ n \in Nat /\ m \in Nat
  BY DEF Strings
<1>2. \A i \in 1 .. n + m : (x \o y)[i] = IF i <= n THEN x[i] ELSE y[i - n]
  BY DEF Strings
<1>3. /\ u \in Seq(Characters) /\ Len(u) = n /\ \A i \in 1 .. n : u[i] = IF x[i] = "a" THEN "A" ELSE x[i]
      /\ v \in Seq(Characters) /\ Len(v) = m /\ \A i \in 1 .. m : v[i] = IF y[i] = "a" THEN "A" ELSE y[i]
  BY UpperText DEF Strings
<1>4. /\ w \in Seq(Characters) /\ Len(w) = n + m
      /\ \A i \in 1 .. n + m : w[i] = IF (x \o y)[i] = "a" THEN "A" ELSE (x \o y)[i]
  BY <1>1, UpperText DEF Strings
<1> HIDE DEF u, v, w, n, m
<1>5. u \o v \in Seq(Characters) /\ Len(u \o v) = n + m
  BY <1>3
<1>6. \A i \in 1 .. n + m : (u \o v)[i] = IF i <= n THEN u[i] ELSE v[i - n]
  BY <1>3
<1>7. ASSUME NEW i \in 1 .. n + m PROVE w[i] = (u \o v)[i]
  <2>1. CASE i <= n
    <3>1. i \in 1 .. n
      BY <1>1, <2>1
    <3>2. (x \o y)[i] = x[i]
      BY <1>2, <2>1
    <3>3. w[i] = IF x[i] = "a" THEN "A" ELSE x[i]
      BY <1>4, <3>2
    <3>4. (u \o v)[i] = u[i]
      BY <1>6, <2>1
    <3> QED BY <1>3, <3>1, <3>3, <3>4
  <2>2. CASE ~(i <= n)
    <3>1. i - n \in 1 .. m
      BY <1>1, <2>2
    <3>2. (x \o y)[i] = y[i - n]
      BY <1>2, <2>2
    <3>3. w[i] = IF y[i - n] = "a" THEN "A" ELSE y[i - n]
      BY <1>4, <3>2
    <3>4. (u \o v)[i] = v[i - n]
      BY <1>6, <2>2
    <3> QED BY <1>3, <3>1, <3>3, <3>4
  <2> QED BY <2>1, <2>2
<1>8. w = u \o v
  BY <1>4, <1>5, <1>7, SeqEqual
<1> QED BY <1>1, <1>8 DEF u, v, w

\* Upper cases escape what the text itself does.
LEMMA UpperEscapes ==
    ASSUME NEW s \in Strings, NEW esc \in Strings, EscapesEach(s, esc)
    PROVE  EscapesEach(Upper(s), Upper(esc))
<1> DEFINE u == Upper(s)
           v == Upper(esc)
<1>1. PICK ends \in [0 .. Len(s) -> Nat] :
        /\ ends[0] = 0 /\ ends[Len(s)] = Len(esc)
        /\ \A k \in 1 .. Len(s) :
              IF s[k] \in Special
              THEN /\ ends[k] = ends[k - 1] + 2
                   /\ esc[ends[k - 1] + 1] = "\\" /\ esc[ends[k - 1] + 2] = s[k]
              ELSE ends[k] = ends[k - 1] + 1 /\ esc[ends[k - 1] + 1] = s[k]
        /\ \A k \in 0 .. Len(s) : ends[k] <= Len(esc)
  BY DEF EscapesEach
<1>2. /\ u \in Strings /\ Len(u) = Len(s)
      /\ \A i \in 1 .. Len(s) : u[i] = IF s[i] = "a" THEN "A" ELSE s[i]
      /\ v \in Strings /\ Len(v) = Len(esc)
      /\ \A i \in 1 .. Len(esc) : v[i] = IF esc[i] = "a" THEN "A" ELSE esc[i]
  BY UpperText
<1> HIDE DEF u, v
<1>3. ASSUME NEW k \in 1 .. Len(s)
      PROVE  IF u[k] \in Special
             THEN /\ ends[k] = ends[k - 1] + 2
                  /\ v[ends[k - 1] + 1] = "\\" /\ v[ends[k - 1] + 2] = u[k]
             ELSE ends[k] = ends[k - 1] + 1 /\ v[ends[k - 1] + 1] = u[k]
  <2>1. ends[k - 1] \in Nat /\ ends[k] \in Nat /\ ends[k] <= Len(esc) /\ Len(esc) \in Nat
    <3>1. k \in 0 .. Len(s) /\ k - 1 \in 0 .. Len(s) /\ Len(esc) \in Nat
      BY DEF Strings
    <3>2. \A l \in 0 .. Len(s) : ends[l] \in Nat /\ ends[l] <= Len(esc)
      BY <1>1
    <3> QED BY <3>1, <3>2
  <2>2. CASE s[k] \in Special
    <3>1. ends[k] = ends[k - 1] + 2 /\ esc[ends[k - 1] + 1] = "\\" /\ esc[ends[k - 1] + 2] = s[k]
      BY <1>1, <2>2
    <3>2. ends[k - 1] + 1 \in 1 .. Len(esc) /\ ends[k - 1] + 2 \in 1 .. Len(esc)
      BY <2>1, <3>1
    <3>3. s[k] # "a" /\ "\\" # "a"
      BY <2>2 DEF Special
    <3>4. u[k] = s[k] /\ v[ends[k - 1] + 1] = "\\" /\ v[ends[k - 1] + 2] = s[k]
      BY <1>2, <3>1, <3>2, <3>3
    <3> QED BY <2>2, <3>1, <3>4
  <2>3. CASE s[k] \notin Special
    <3>1. ends[k] = ends[k - 1] + 1 /\ esc[ends[k - 1] + 1] = s[k]
      BY <1>1, <2>3
    <3>2. ends[k - 1] + 1 \in 1 .. Len(esc)
      BY <2>1, <3>1
    <3>3. u[k] \notin Special
      BY <1>2, <2>3 DEF Special
    <3>4. v[ends[k - 1] + 1] = u[k]
      BY <1>2, <3>1, <3>2
    <3> QED BY <3>1, <3>3, <3>4
  <2> QED BY <2>2, <2>3
<1> QED BY <1>1, <1>2, <1>3 DEF EscapesEach, u, v

\* What an operator for texts matches, upper cases or not.
LEMMA FoldedMatches ==
    ASSUME NEW p, p.op \in TextOperators, NEW x \in Strings, NEW s \in Strings
    PROVE  LET pattern == FoldCase(p, Pattern(p.op, s))
               text == FoldCase(p, x)
           IN /\ pattern \in Strings /\ text \in Strings
              /\ p.op # "NotContaining" =>
                    (Matches(text, pattern) <=> TextMeets(p.op, text, FoldCase(p, s)))
              /\ p.op = "NotContaining" =>
                    (Matches(text, pattern) <=> ~TextMeets(p.op, text, FoldCase(p, s)))
<1> DEFINE Fold(y) == FoldCase(p, y)
           esc == EscapeLike(s)
           text == Fold(x)
           word == Fold(s)
           folded == Fold(esc)
<1>1. esc \in Strings /\ EscapesEach(s, esc)
  BY EscapeSteps
<1>2. <<"%">> \in Strings /\ Upper(<<"%">>) = <<"%">>
  <2>1. "%" \in Characters
    BY CharacterAssumption
  <2>2. <<"%">> \in Strings
    BY <2>1 DEF Strings
  <2> DEFINE one == <<"%">>
  <2>3. one \in Strings /\ Len(one) = 1 /\ one[1] = "%"
    BY <2>2
  <2> HIDE DEF one
  <2>4. Upper(one) \in Strings /\ Len(Upper(one)) = 1 /\ Upper(one)[1] = "%"
    BY <2>3, UpperText
  <2>5. Upper(one) = one
    BY <2>3, <2>4, SeqEqual DEF Strings
  <2> QED BY <2>2, <2>5 DEF one
<1>3. ASSUME NEW y \in Strings
      PROVE  Fold(y) \in Strings /\ Fold(y) = IF p.ic THEN Upper(y) ELSE y
  BY NotATextNull, UpperText DEF FoldCase
<1>4. ASSUME NEW y \in Strings, NEW z \in Strings PROVE y \o z \in Strings /\ Fold(y \o z) = Fold(y) \o Fold(z)
  <2>1. y \o z \in Strings /\ Upper(y \o z) = Upper(y) \o Upper(z)
    BY UpperJoined
  <2>2. /\ Fold(y) = IF p.ic THEN Upper(y) ELSE y
        /\ Fold(z) = IF p.ic THEN Upper(z) ELSE z
        /\ Fold(y \o z) = IF p.ic THEN Upper(y \o z) ELSE y \o z
    BY <1>3, <2>1
  <2> HIDE DEF Fold
  <2>3. CASE p.ic
    BY <2>1, <2>2, <2>3
  <2>4. CASE ~p.ic
    BY <2>1, <2>2, <2>4
  <2> QED BY <2>3, <2>4
<1>5. text \in Strings /\ word \in Strings /\ folded \in Strings /\ EscapesEach(word, folded)
  <2>1. text \in Strings /\ word \in Strings /\ folded \in Strings
    BY <1>1, <1>3
  <2>2. CASE p.ic
    <3>1. word = Upper(s) /\ folded = Upper(esc)
      BY <1>1, <1>3, <2>2
    <3> QED BY <1>1, <2>1, <3>1, UpperEscapes
  <2>3. CASE ~p.ic
    <3>1. word = s /\ folded = esc
      BY <1>1, <1>3, <2>3
    <3> QED BY <1>1, <2>1, <3>1
  <2> QED BY <2>1, <2>2, <2>3
<1>6. Fold(<<"%">>) = <<"%">>
  BY <1>2, <1>3
<1> HIDE DEF esc, Fold, text, word, folded
<1>7. /\ Matches(text, folded \o <<"%">>) <=> At(word, text, 1)
      /\ Matches(text, <<"%">> \o folded) <=>
            Len(word) <= Len(text) /\ At(word, text, Len(text) - Len(word) + 1)
      /\ Matches(text, <<"%">> \o folded \o <<"%">>) <=>
            \E i \in 1 .. Len(text) + 1 : At(word, text, i)
  BY <1>5, PatternMatches
<1>8. /\ esc \o <<"%">> \in Strings /\ Fold(esc \o <<"%">>) = folded \o <<"%">>
      /\ <<"%">> \o esc \in Strings /\ Fold(<<"%">> \o esc) = <<"%">> \o folded
      /\ <<"%">> \o esc \o <<"%">> \in Strings
      /\ Fold(<<"%">> \o esc \o <<"%">>) = <<"%">> \o folded \o <<"%">>
  <2>1. esc \in Strings /\ <<"%">> \in Strings /\ Fold(esc) = folded
    BY <1>1, <1>2 DEF folded
  <2>2. esc \o <<"%">> \in Strings /\ Fold(esc \o <<"%">>) = folded \o <<"%">>
    <3>1. esc \o <<"%">> \in Strings /\ Fold(esc \o <<"%">>) = Fold(esc) \o Fold(<<"%">>)
      BY <1>4, <2>1, Zenon
    <3> QED BY <1>6, <2>1, <3>1, Zenon
  <2>3. <<"%">> \o esc \in Strings /\ Fold(<<"%">> \o esc) = <<"%">> \o folded
    BY <1>4, <1>6, <2>1
  <2> DEFINE front == <<"%">> \o esc
  <2>4. front \in Strings /\ Fold(front) = <<"%">> \o folded
    BY <2>3
  <2> HIDE DEF front
  <2>5. front \o <<"%">> \in Strings /\ Fold(front \o <<"%">>) = <<"%">> \o folded \o <<"%">>
    BY <1>4, <1>6, <2>1, <2>4
  <2> QED BY <2>2, <2>3, <2>5 DEF front
<1> DEFINE pattern == Fold(Pattern(p.op, s))
<1>9. /\ pattern \in Strings
      /\ p.op # "NotContaining" => (Matches(text, pattern) <=> TextMeets(p.op, text, word))
      /\ p.op = "NotContaining" => (Matches(text, pattern) <=> ~TextMeets(p.op, text, word))
  <2>1. CASE p.op = "StartingWith"
    <3>1. pattern = folded \o <<"%">>
      BY <1>8, <2>1 DEF Pattern, esc
    <3>2. TextMeets(p.op, text, word) <=> At(word, text, 1)
      BY <2>1 DEF TextMeets
    <3> QED BY <1>3, <1>7, <1>8, <2>1, <3>1, <3>2 DEF Fold
  <2>2. CASE p.op = "EndingWith"
    <3>1. pattern = <<"%">> \o folded
      BY <1>8, <2>2 DEF Pattern, esc
    <3>2. TextMeets(p.op, text, word) <=> Len(word) <= Len(text) /\ At(word, text, Len(text) - Len(word) + 1)
      BY <2>2 DEF TextMeets
    <3> QED BY <1>3, <1>7, <1>8, <2>2, <3>1, <3>2
  <2>3. CASE p.op \in {"Containing", "NotContaining"}
    <3>1. pattern = <<"%">> \o folded \o <<"%">>
      BY <1>8, <2>3 DEF Pattern, esc
    <3>2. TextMeets(p.op, text, word) <=>
             ((p.op = "Containing") = (\E k \in 1 .. Len(text) + 1 : At(word, text, k)))
      BY <2>3 DEF TextMeets
    <3> QED BY <1>3, <1>7, <1>8, <2>3, <3>1, <3>2
  <2> QED BY <2>1, <2>2, <2>3 DEF TextOperators
<1> QED BY <1>5, <1>9 DEF Fold, text, word

\* What comparing with nil, lists and limits comes to.
LEMMA EqualSays ==
    ASSUME NEW x, NEW v
    PROVE  /\ Comparison(x, "=", v) = EqualTo(x, v)
           /\ Comparison(x, "<>", v) = Neg(EqualTo(x, v))
BY DEF Comparison, EqualTo, Compare, Bound, Truly, Neg

LEMMA WithinSays == ASSUME NEW x, NEW vals PROVE Within(x, vals) = OneOf(x, vals)
<1> DEFINE S == {Compare(x, "=", v) : v \in {Bound(v) : v \in vals}}
<1>1. CASE vals = {}
  BY <1>1 DEF Within, OneOf
<1>2. CASE vals # {} /\ x = Null
  <2>1. {Bound(v) : v \in vals} # {}
    BY <1>2
  <2> QED BY <1>2, <2>1 DEF Within, InValues, OneOf
<1>3. CASE vals # {} /\ x # Null
  <2>1. Within(x, vals) = Disj(S)
    BY <1>3 DEF Within, InValues
  <2>2. \A w : w \in S <=> \E v \in vals : w = Compare(x, "=", Bound(v))
    OBVIOUS
  <2>3. \A v : Compare(x, "=", Bound(v)) =
                 IF v = Nil \/ v = Null THEN "U" ELSE Truly(x = v)
    BY <1>3 DEF Compare, Bound
  <2> HIDE DEF S
  <2>4. "T" \in S <=> x \in vals \ {Nil}
    BY <1>3, <2>2, <2>3 DEF Truly
  <2>5. "U" \in S <=> vals \cap {Null, Nil} # {}
    BY <2>2, <2>3 DEF Truly
  <2> QED BY <1>3, <2>1, <2>4, <2>5 DEF Disj, OneOf
<1> QED BY <1>1, <1>2, <1>3

LEMMA BetweenSays == ASSUME NEW x, NEW lo, NEW hi PROVE Between(x, lo, hi) = Inside(x, lo, hi)
<1> DEFINE a == Compare(x, ">=", Bound(lo))
           b == Compare(x, "<=", Bound(hi))
<1>1. a = IF Null \in {x, Bound(lo)} THEN "U" ELSE Truly(x = lo \/ x > lo)
  BY DEF Compare, Bound
<1>2. b = IF Null \in {x, Bound(hi)} THEN "U" ELSE Truly(x = hi \/ x < hi)
  BY DEF Compare, Bound
<1> HIDE DEF a, b
<1> QED BY <1>1, <1>2 DEF Between, Conj, Inside, Truly, a, b

\* The operators that are not for texts.
LEMMA OthersSay ==
    ASSUME NEW row, NEW p, p.op \notin TextOperators
    PROVE  PartOf(row, p) = PartMeans(row, p)
<1>1. CASE p.op \in {"Equals", "Not"}
  <2>1. PartOf(row, p) = Comparison(FoldCase(p, row[p.prop]), Comparing[p.op], FoldCase(p, p.args[1]))
    BY <1>1 DEF PartOf, Comparing, Patterns
  <2>2. Comparing["Equals"] = "=" /\ Comparing["Not"] = "<>"
    BY DEF Comparing
  <2> QED BY <1>1, <2>1, <2>2, EqualSays DEF PartMeans, TextOperators, Unless
<1>2. CASE p.op \in {"In", "NotIn"}
  BY <1>2, WithinSays DEF PartOf, PartMeans, TextOperators, Unless, Comparing, Patterns
<1>3. CASE p.op = "Between"
  BY <1>3, BetweenSays DEF PartOf, PartMeans, TextOperators, Comparing, Patterns
<1>4. CASE p.op \notin {"Equals", "Not", "In", "NotIn", "Between"}
  BY <1>4 DEF PartMeans
<1> QED BY <1>1, <1>2, <1>3, <1>4

\* The pattern of a text is a text.
LEMMA PatternIsText ==
    ASSUME NEW op \in TextOperators, NEW s \in Strings
    PROVE  Pattern(op, s) \in Strings
<1> DEFINE esc == EscapeLike(s)
<1>1. esc \in Strings
  BY EscapeSteps
<1>2. <<"%">> \in Strings
  <2>1. "%" \in Characters
    BY CharacterAssumption
  <2> QED BY <2>1 DEF Strings
<1> HIDE DEF esc
<1>3. /\ esc \o <<"%">> \in Strings /\ <<"%">> \o esc \in Strings
      /\ <<"%">> \o esc \o <<"%">> \in Strings
  BY <1>1, <1>2 DEF Strings
<1> QED BY <1>3 DEF Pattern, TextOperators, esc

LEMMA TextMeans ==
    ASSUME NEW row, NEW p, p.op \in TextOperators
    PROVE  PartMeans(row, p) =
              IF row[p.prop] = Null THEN "U"
              ELSE Truly(TextMeets(p.op, FoldCase(p, row[p.prop]), FoldCase(p, p.args[1])))
<1>1. p.op \notin {"Equals", "Not", "In", "NotIn", "Between"}
  BY DEF TextOperators
<1> DEFINE text == TextMeets(p.op, FoldCase(p, row[p.prop]), FoldCase(p, p.args[1]))
           v == IF row[p.prop] = Null THEN "U" ELSE Truly(text)
           other == PartOf(row, p)
<1>2. PartMeans(row, p) =
         CASE p.op \in TextOperators -> v
           [] p.op \in {"Equals", "Not"} ->
                Unless(p.op = "Not", EqualTo(FoldCase(p, row[p.prop]), FoldCase(p, p.args[1])))
           [] p.op \in {"In", "NotIn"} -> Unless(p.op = "NotIn", OneOf(row[p.prop], p.args[1]))
           [] p.op = "Between" -> Inside(row[p.prop], p.args[1], p.args[2])
           [] OTHER -> other
  BY Zenon DEF PartMeans
<1> HIDE DEF v, other
<1>3. PartMeans(row, p) = v
  BY <1>1, <1>2
<1> QED BY <1>3 DEF v, text

\* One part of a method's criteria means what its operator says.
LEMMA PartSays ==
    ASSUME NEW row, NEW p,
           p.op \in TextOperators =>
              p.args[1] \in Strings /\ (row[p.prop] = Null \/ row[p.prop] \in Strings)
    PROVE  PartOf(row, p) = PartMeans(row, p)
<1>1. CASE p.op \notin TextOperators
  BY <1>1, OthersSay
<1>2. CASE p.op \in TextOperators
  <2> DEFINE x == row[p.prop]
             s == p.args[1]
             pattern == FoldCase(p, Pattern(p.op, s))
             v == Like(FoldCase(p, x), pattern)
  <2>1. PartOf(row, p) = IF p.op = "NotContaining" THEN Neg(v) ELSE v
    <3>1. Pattern(p.op, s) \in Strings
      BY <1>2, PatternIsText
    <3>2. Bound(Pattern(p.op, s)) = Pattern(p.op, s)
      BY <3>1, QueryAssumption DEF Bound
    <3> QED BY <1>2, <3>2 DEF PartOf, TextOperators, Patterns, Comparing
  <2>2. CASE x = Null
    <3>1. FoldCase(p, x) = Null
      BY <2>2 DEF FoldCase, Upper
    <3>2. v = "U" /\ Neg("U") = "U"
      BY <3>1 DEF Like, Neg
    <3>3. PartMeans(row, p) = "U"
      BY <1>2, <2>2, TextMeans
    <3> QED BY <2>1, <3>2, <3>3
  <2>3. CASE x # Null
    <3>1. x \in Strings /\ s \in Strings
      BY <1>2, <2>3
    <3> DEFINE text == FoldCase(p, x)
               b == TextMeets(p.op, text, FoldCase(p, s))
    <3>2. /\ pattern \in Strings /\ text \in Strings
          /\ p.op # "NotContaining" => (Matches(text, pattern) <=> b)
          /\ p.op = "NotContaining" => (Matches(text, pattern) <=> ~b)
      BY <1>2, <3>1, FoldedMatches
    <3>3. PartMeans(row, p) = Truly(b)
      BY <1>2, <2>3, TextMeans
    <3> HIDE DEF x, s, pattern, b, text
    <3>4. v = Truly(Matches(text, pattern))
      BY <3>2, NotATextNull DEF Like, text
    <3> HIDE DEF v
    <3> QED BY <2>1, <3>2, <3>3, <3>4 DEF Truly, Neg
  <2> QED BY <2>2, <2>3
<1> QED BY <1>1, <1>2

-------------------------------------------------------------------------------
(* Cond trees. *)

\* One more level of Conds.
Further(conds) ==
    conds \cup [kind : {"and", "or"}, conds : Seq(conds)] \cup [kind : {"not"}, cond : conds \ {NoCond}]

Basic == {NoCond} \cup SimpleConds

\* The levels up to n.
Levels(n, g) == g = [k \in 0 .. n |-> IF k = 0 THEN Basic ELSE Further(g[k - 1])]

HasLevels(n) == \E g : Levels(n, g)

LEMMA SomeLevels == ASSUME NEW n \in Nat PROVE HasLevels(n)
<1> DEFINE S == {k \in Nat : HasLevels(k)}
<1>1. 0 \in S
  <2>1. Levels(0, [k \in 0 .. 0 |-> Basic])
    <3> DEFINE g == [k \in 0 .. 0 |-> Basic]
    <3>1. g = [k \in 0 .. 0 |-> IF k = 0 THEN Basic ELSE Further(g[k - 1])]
      OBVIOUS
    <3> QED BY <3>1 DEF Levels
  <2> QED BY <2>1 DEF HasLevels
<1>2. ASSUME NEW m \in Nat, m \in S PROVE m + 1 \in S
  <2>1. PICK g : Levels(m, g)
    BY <1>2 DEF HasLevels
  <2> DEFINE h == [k \in 0 .. m + 1 |-> IF k = m + 1 THEN Further(g[m]) ELSE g[k]]
  <2>2. \A k \in 0 .. m : g[k] = IF k = 0 THEN Basic ELSE Further(g[k - 1])
    BY <2>1 DEF Levels
  <2>3. ASSUME NEW k \in 0 .. m + 1 PROVE h[k] = IF k = 0 THEN Basic ELSE Further(h[k - 1])
    <3>1. CASE k = 0
      <4>1. h[k] = g[k] /\ k \in 0 .. m
        BY <3>1
      <4> QED BY <2>2, <3>1, <4>1
    <3>2. CASE k = m + 1
      <4>1. k - 1 \in 0 .. m + 1 /\ k - 1 = m /\ k # 0 /\ m # m + 1
        BY <3>2
      <4>2. h[k] = Further(g[m]) /\ h[k - 1] = g[m]
        BY <3>2, <4>1
      <4> QED BY <4>1, <4>2
    <3>3. CASE k # 0 /\ k # m + 1
      <4>1. k \in 0 .. m /\ k - 1 \in 0 .. m + 1 /\ k - 1 # m + 1
        BY <3>3
      <4>2. h[k] = g[k] /\ h[k - 1] = g[k - 1]
        BY <3>3, <4>1
      <4> QED BY <2>2, <3>3, <4>1, <4>2
    <3> QED BY <3>1, <3>2, <3>3
  <2> HIDE DEF Further
  <2>4. h = [k \in 0 .. m + 1 |-> IF k = 0 THEN Basic ELSE Further(h[k - 1])]
    <3>1. h = [k \in 0 .. m + 1 |-> h[k]]
      OBVIOUS
    <3> HIDE DEF h
    <3> QED BY <2>3, <3>1
  <2>5. Levels(m + 1, h)
    BY <2>4 DEF Levels
  <2> QED BY <2>5 DEF HasLevels
<1> HIDE DEF S
<1>3. n \in S
  BY <1>1, <1>2, Induction
<1> QED BY <1>3 DEF S

LEMMA SameLevels ==
    ASSUME NEW n \in Nat, NEW m \in Nat, NEW g, NEW h, Levels(n, g), Levels(m, h)
    PROVE  \A k \in 0 .. n : k \in 0 .. m => g[k] = h[k]
<1> DEFINE S == {k \in Nat : k \in 0 .. n /\ k \in 0 .. m => g[k] = h[k]}
<1>1. \A k \in 0 .. n : g[k] = IF k = 0 THEN Basic ELSE Further(g[k - 1])
  BY DEF Levels
<1>2. \A k \in 0 .. m : h[k] = IF k = 0 THEN Basic ELSE Further(h[k - 1])
  BY DEF Levels
<1>3. 0 \in S
  BY <1>1, <1>2
<1>4. ASSUME NEW k \in Nat, k \in S PROVE k + 1 \in S
  <2> SUFFICES ASSUME k + 1 \in 0 .. n, k + 1 \in 0 .. m PROVE g[k + 1] = h[k + 1]
    OBVIOUS
  <2>1. k \in 0 .. n /\ k \in 0 .. m /\ (k + 1) - 1 = k /\ k + 1 # 0
    OBVIOUS
  <2>2. g[k] = h[k]
    BY <1>4, <2>1
  <2>3. g[k + 1] = Further(g[k])
    BY <1>1, <2>1
  <2>4. h[k + 1] = Further(h[k])
    BY <1>2, <2>1
  <2> QED BY <2>2, <2>3, <2>4
<1> HIDE DEF S
<1>5. Nat \subseteq S
  BY <1>3, <1>4, Induction
<1> QED BY <1>5 DEF S

\* Each level of Conds, from the one below.
LEMMA CondLevels ==
    /\ CondsTo[0] = Basic
    /\ \A k \in Nat : CondsTo[k + 1] = Further(CondsTo[k])
<1> DEFINE Body(f) == [k \in Nat |-> IF k = 0 THEN Basic ELSE Further(f[k - 1])]
           up(n) == CHOOSE g : Levels(n, g)
           f == [n \in Nat |-> up(n)[n]]
<1>1. ASSUME NEW n \in Nat PROVE Levels(n, up(n))
  <2>1. \E g : Levels(n, g)
    BY SomeLevels DEF HasLevels
  <2> QED BY <2>1, Zenon
<1> HIDE DEF up
<1>2. ASSUME NEW k \in Nat PROVE f[k] = IF k = 0 THEN Basic ELSE Further(f[k - 1])
  <2>1. \A i \in 0 .. k : up(k)[i] = IF i = 0 THEN Basic ELSE Further(up(k)[i - 1])
    BY <1>1 DEF Levels
  <2>2. k \in 0 .. k /\ f[k] = up(k)[k]
    OBVIOUS
  <2>3. CASE k = 0
    BY <2>1, <2>2, <2>3
  <2>4. CASE k # 0
    <3>1. k - 1 \in Nat /\ k - 1 \in 0 .. k /\ k - 1 \in 0 .. k - 1
      BY <2>4
    <3>2. up(k)[k - 1] = up(k - 1)[k - 1]
      <4>1. Levels(k, up(k)) /\ Levels(k - 1, up(k - 1))
        BY <1>1, <3>1
      <4> QED BY <3>1, <4>1, SameLevels
    <3>3. f[k - 1] = up(k - 1)[k - 1]
      BY <3>1
    <3> QED BY <2>1, <2>2, <2>4, <3>2, <3>3
  <2> QED BY <2>3, <2>4
<1>3. f = Body(f)
  <2>1. f = [k \in Nat |-> f[k]]
    OBVIOUS
  <2> HIDE DEF f
  <2> QED BY <1>2, <2>1
<1>4. CondsTo = CHOOSE g : g = Body(g)
  BY DEF CondsTo, Further, Basic
<1>5. CondsTo = Body(CondsTo)
  <2>1. \E g : g = Body(g)
    BY <1>3
  <2> HIDE DEF f, Body
  <2> QED BY <1>4, <2>1, Zenon
<1> HIDE DEF f
<1>6. \A k \in Nat : CondsTo[k] = IF k = 0 THEN Basic ELSE Further(CondsTo[k - 1])
  BY <1>5
<1>7. \A k \in Nat : k + 1 \in Nat /\ k + 1 # 0 /\ (k + 1) - 1 = k
  OBVIOUS
<1> QED BY <1>6, <1>7

Operands(c) == {c.conds[i] : i \in DOMAIN c.conds}

\* The Conds that c consists of.
Inner(c) ==
    IF c = NoCond \/ c.kind \notin {"and", "or", "not"} THEN {}
    ELSE IF c.kind = "not" THEN {c.cond} ELSE Operands(c)

LEMMA FurtherShapes ==
    ASSUME NEW conds, NEW c \in Further(conds)
    PROVE  \/ c \in conds
           \/ c.kind \in {"and", "or"} /\ c.conds \in Seq(conds) /\ Operands(c) \subseteq conds
           \/ c.kind = "not" /\ c.cond \in conds
<1>1. CASE c \in conds
  BY <1>1
<1>2. CASE c \in [kind : {"and", "or"}, conds : Seq(conds)]
  <2>1. c.kind \in {"and", "or"} /\ c.conds \in Seq(conds)
    BY <1>2
  <2> DEFINE s == c.conds
  <2>2. \A i \in DOMAIN s : s[i] \in conds
    <3>1. s \in Seq(conds)
      BY <2>1
    <3> HIDE DEF s
    <3> QED BY <3>1
  <2> QED BY <2>1, <2>2 DEF Operands
<1>3. CASE c \in [kind : {"not"}, cond : conds \ {NoCond}]
  BY <1>3
<1> QED BY <1>1, <1>2, <1>3 DEF Further

LEMMA BasicShapes ==
    ASSUME NEW c \in Basic PROVE Inner(c) = {}
BY CondAssumption DEF Basic, Inner

\* What a Cond consists of is on the level below.
LEMMA InnerBelow ==
    ASSUME NEW n \in Nat, NEW c \in CondsTo[n + 1]
    PROVE  Inner(c) \subseteq CondsTo[n]
<1> DEFINE S == {k \in Nat : \A d \in CondsTo[k + 1] : Inner(d) \subseteq CondsTo[k]}
<1>1. ASSUME NEW k \in Nat, NEW d \in CondsTo[k + 1]
      PROVE  d \in CondsTo[k] \/ Inner(d) \subseteq CondsTo[k]
  <2>1. d \in Further(CondsTo[k])
    BY CondLevels
  <2> QED BY <2>1, FurtherShapes DEF Inner
<1>2. 0 \in S
  <2>1. ASSUME NEW d \in CondsTo[0 + 1] PROVE Inner(d) \subseteq CondsTo[0]
    <3>1. d \in CondsTo[0] \/ Inner(d) \subseteq CondsTo[0]
      BY <1>1
    <3>2. d \in CondsTo[0] => Inner(d) = {}
      BY CondLevels, BasicShapes
    <3> QED BY <3>1, <3>2
  <2> QED BY <2>1
<1>3. ASSUME NEW k \in Nat, k \in S PROVE k + 1 \in S
  <2>1. ASSUME NEW d \in CondsTo[(k + 1) + 1] PROVE Inner(d) \subseteq CondsTo[k + 1]
    <3>1. d \in CondsTo[k + 1] \/ Inner(d) \subseteq CondsTo[k + 1]
      BY <1>1
    <3>2. d \in CondsTo[k + 1] => Inner(d) \subseteq CondsTo[k]
      BY <1>3
    <3>3. CondsTo[k] \subseteq CondsTo[k + 1]
      BY CondLevels DEF Further
    <3> QED BY <3>1, <3>2, <3>3
  <2> QED BY <2>1
<1> HIDE DEF S
<1>4. n \in S
  BY <1>2, <1>3, Induction
<1> QED BY <1>4 DEF S

LEMMA LevelsInTrees ==
    ASSUME NEW n \in Nat, n <= MaxDepth
    PROVE  CondsTo[n] \subseteq CondTrees
<1> DEFINE S == {k \in Nat : k <= MaxDepth => CondsTo[MaxDepth - k] \subseteq CondTrees}
<1>1. 0 \in S
  BY CondAssumption DEF CondTrees
<1>2. ASSUME NEW k \in Nat, k \in S PROVE k + 1 \in S
  <2> SUFFICES ASSUME k + 1 <= MaxDepth PROVE CondsTo[MaxDepth - (k + 1)] \subseteq CondTrees
    OBVIOUS
  <2> DEFINE j == MaxDepth - (k + 1)
  <2>1. j \in Nat /\ j + 1 = MaxDepth - k
    BY CondAssumption
  <2>2. CondsTo[j] \subseteq CondsTo[j + 1]
    BY <2>1, CondLevels DEF Further
  <2>3. CondsTo[MaxDepth - k] \subseteq CondTrees
    BY <1>2, CondAssumption
  <2> QED BY <2>1, <2>2, <2>3
<1> HIDE DEF S
<1>3. MaxDepth - n \in Nat /\ MaxDepth - (MaxDepth - n) = n /\ MaxDepth - n <= MaxDepth
  BY CondAssumption
<1>4. MaxDepth - n \in S
  BY <1>1, <1>2, <1>3, Induction
<1> QED BY <1>3, <1>4 DEF S

\* What holds of a Cond when it holds of what it consists of, holds of all.
LEMMA TreeInduction ==
    ASSUME NEW S, \A c \in CondTrees : Inner(c) \subseteq S => c \in S
    PROVE  CondTrees \subseteq S
<1> DEFINE L == {k \in Nat : k <= MaxDepth => CondsTo[k] \subseteq S}
<1>1. 0 \in L
  <2>1. ASSUME NEW c \in CondsTo[0] PROVE c \in S
    <3>1. c \in CondTrees /\ Inner(c) = {}
      BY LevelsInTrees, CondLevels, BasicShapes, CondAssumption
    <3> QED BY <3>1
  <2> QED BY <2>1
<1>2. ASSUME NEW k \in Nat, k \in L PROVE k + 1 \in L
  <2> SUFFICES ASSUME k + 1 <= MaxDepth, NEW c \in CondsTo[k + 1] PROVE c \in S
    OBVIOUS
  <2>1. c \in CondTrees
    BY LevelsInTrees
  <2>2. Inner(c) \subseteq CondsTo[k]
    BY InnerBelow
  <2>3. k <= MaxDepth
    BY CondAssumption
  <2> QED BY <1>2, <2>1, <2>2, <2>3
<1> HIDE DEF L
<1>3. MaxDepth \in L
  BY <1>1, <1>2, Induction, CondAssumption
<1> QED BY <1>3, CondAssumption DEF L, CondTrees

LEMMA CondShapes ==
    ASSUME NEW c \in CondTrees, c # NoCond
    PROVE  \/ c \in SimpleConds
           \/ c.kind \in {"and", "or"} /\ c.conds \in Seq(CondTrees)
           \/ c.kind = "not" /\ c.cond \in CondTrees
<1> DEFINE S == {k \in Nat : k <= MaxDepth => \A d \in CondsTo[k] :
                    \/ d \in Basic
                    \/ d.kind \in {"and", "or"} /\ d.conds \in Seq(CondTrees)
                    \/ d.kind = "not" /\ d.cond \in CondTrees}
<1>1. 0 \in S
  BY CondLevels
<1>2. ASSUME NEW k \in Nat, k \in S PROVE k + 1 \in S
  <2> SUFFICES ASSUME k + 1 <= MaxDepth, NEW d \in CondsTo[k + 1]
               PROVE  \/ d \in Basic
                      \/ d.kind \in {"and", "or"} /\ d.conds \in Seq(CondTrees)
                      \/ d.kind = "not" /\ d.cond \in CondTrees
    OBVIOUS
  <2>1. k <= MaxDepth
    BY CondAssumption
  <2>2. CondsTo[k] \subseteq CondTrees
    BY <2>1, LevelsInTrees
  <2>3. d \in Further(CondsTo[k])
    BY CondLevels
  <2>4. CASE d \in CondsTo[k]
    BY <1>2, <2>1, <2>4
  <2>5. CASE d.kind \in {"and", "or"} /\ d.conds \in Seq(CondsTo[k])
    <3> DEFINE s == d.conds
               T == CondsTo[k]
    <3>1. s \in Seq(T) /\ T \subseteq CondTrees
      BY <2>2, <2>5
    <3> HIDE DEF s, T
    <3>2. s \in Seq(CondTrees)
      BY <3>1
    <3> QED BY <2>5, <3>2 DEF s
  <2>6. CASE d.kind = "not" /\ d.cond \in CondsTo[k]
    BY <2>2, <2>6
  <2> QED BY <2>3, <2>4, <2>5, <2>6, FurtherShapes
<1> HIDE DEF S
<1>3. MaxDepth \in S
  BY <1>1, <1>2, Induction, CondAssumption
<1> QED BY <1>3, CondAssumption DEF S, CondTrees, Basic

\* A function on Conds made from what it is on their parts.
Fixed(T, F) == \E f \in [CondTrees -> T] : f = F[f]

\* It depends on nothing else.
ByParts(T, F) ==
    \A f, g \in [CondTrees -> T] : \A c \in CondTrees :
        (\A d \in Inner(c) : f[d] = g[d]) => F[f][c] = F[g][c]

LEMMA TreeRecursion ==
    ASSUME NEW T, T # {}, NEW F \in [[CondTrees -> T] -> [CondTrees -> T]], ByParts(T, F)
    PROVE  Fixed(T, F)
<1> DEFINE Fs == [CondTrees -> T]
           n == MaxDepth + 2
           next == [k \in 1 .. n |-> F]
<1>1. PICK v \in T : TRUE
  OBVIOUS
<1> DEFINE base == [c \in CondTrees |-> v]
<1>2. base \in Fs
  OBVIOUS
<1>3. n \in Nat /\ n = MaxDepth + 2 /\ MaxDepth \in Nat
  BY CondAssumption
<1> HIDE DEF Fs, n, base
<1>4. F \in [Fs -> Fs]
  BY DEF Fs
<1>5. next \in [1 .. n -> [Fs -> Fs]]
  BY <1>4
<1>6. Lead(Fs, base, n, next)
  <2> HIDE DEF next
  <2> QED BY <1>2, <1>3, <1>5, StepByStep
<1>7. PICK g \in [0 .. n -> Fs] : \A k \in 1 .. n : g[k] = F[g[k - 1]]
  <2>1. PICK g \in [0 .. n -> Fs] : \A k \in 1 .. n : g[k] = next[k][g[k - 1]]
    BY <1>6 DEF Lead
  <2>2. \A k \in 1 .. n : g[k] = F[g[k - 1]]
    BY <2>1
  <2> QED BY <2>2
<1> HIDE DEF next
<1> DEFINE S == {k \in Nat : k <= MaxDepth => \A c \in CondsTo[k] : g[k + 2][c] = g[k + 1][c]}
<1>8. ASSUME NEW k \in Nat, k <= MaxDepth
      PROVE  /\ g[k] \in Fs /\ g[k + 1] \in Fs
             /\ g[k + 1] = F[g[k]] /\ g[k + 2] = F[g[k + 1]]
  <2>1. /\ k \in 0 .. n /\ k + 1 \in 1 .. n /\ k + 2 \in 1 .. n
        /\ (k + 1) - 1 = k /\ (k + 2) - 1 = k + 1 /\ k + 1 \in 0 .. n
    BY <1>3, <1>8
  <2> QED BY <1>7, <2>1
<1>9. \A f, h \in Fs : \A c \in CondTrees :
         (\A d \in Inner(c) : f[d] = h[d]) => F[f][c] = F[h][c]
  BY DEF ByParts, Fs
<1>10. 0 \in S
  <2>1. ASSUME NEW c \in CondsTo[0] PROVE g[0 + 2][c] = g[0 + 1][c]
    <3>1. c \in CondTrees /\ Inner(c) = {}
      BY LevelsInTrees, CondLevels, BasicShapes, CondAssumption
    <3>2. 0 <= MaxDepth
      BY <1>3
    <3>3. g[0] \in Fs /\ g[0 + 1] \in Fs /\ g[0 + 1] = F[g[0]] /\ g[0 + 2] = F[g[0 + 1]]
      BY <1>8, <3>2
    <3> QED BY <1>9, <3>1, <3>3
  <2> QED BY <2>1
<1>11. ASSUME NEW k \in Nat, k \in S PROVE k + 1 \in S
  <2> SUFFICES ASSUME k + 1 <= MaxDepth, NEW c \in CondsTo[k + 1]
               PROVE  g[(k + 1) + 2][c] = g[(k + 1) + 1][c]
    OBVIOUS
  <2> DEFINE a == g[k + 1]
             b == g[k + 2]
  <2>1. c \in CondTrees /\ k <= MaxDepth
    BY <1>3, LevelsInTrees
  <2>2. \A d \in Inner(c) : b[d] = a[d]
    BY <1>11, <2>1, InnerBelow
  <2>3. /\ g[k + 1] \in Fs /\ g[(k + 1) + 1] \in Fs
        /\ g[(k + 1) + 1] = F[g[k + 1]] /\ g[(k + 1) + 2] = F[g[(k + 1) + 1]]
    BY <1>8
  <2>4. (k + 1) + 1 = k + 2
    OBVIOUS
  <2>5. a \in Fs /\ b \in Fs /\ b = F[a] /\ g[(k + 1) + 2] = F[b]
    BY <2>3, <2>4
  <2>6. F[b][c] = F[a][c]
    BY <1>9, <2>1, <2>2, <2>5
  <2> QED BY <2>4, <2>5, <2>6
<1> HIDE DEF S
<1>12. MaxDepth \in S
  BY <1>3, <1>10, <1>11, Induction
<1> DEFINE f == g[MaxDepth + 1]
<1>13. f \in Fs /\ g[MaxDepth + 2] = F[f] /\ F[f] \in Fs
  <2>1. MaxDepth <= MaxDepth
    BY <1>3
  <2>2. f \in Fs /\ g[MaxDepth + 2] = F[f]
    BY <1>3, <1>8, <2>1
  <2> QED BY <1>4, <2>2
<1>14. \A c \in CondTrees : F[f][c] = f[c]
  BY <1>3, <1>12, <1>13 DEF S, CondTrees
<1> HIDE DEF f
<1>15. f = F[f]
  BY <1>13, <1>14 DEF Fs
<1> QED BY <1>13, <1>15 DEF Fixed, Fs

-------------------------------------------------------------------------------
(* What the text of a Cond means. *)

Truths == Truth \cup {Absent}

\* The text of a truth value.
Shown(v) == IF v = Absent THEN Empty ELSE <<v>>

LEMMA ConjDisjIn ==
    ASSUME NEW S PROVE Conj(S) \in Truth /\ Disj(S) \in Truth
BY DEF Conj, Disj, Truth

LEMMA OfOne ==
    ASSUME NEW v \in Truth PROVE Conj({v}) = v /\ Disj({v}) = v
BY DEF Conj, Disj, Truth

LEMMA ConjFurther ==
    ASSUME NEW S, NEW v \in Truth PROVE Conj({Conj(S), v}) = Conj(S \cup {v})
BY DEF Conj, Truth

LEMMA ShownIs ==
    ASSUME NEW v \in Truth
    PROVE  /\ Shown(v) = <<v>> /\ Shown(v) # Empty
           /\ Shown(v) \in Text /\ Len(Shown(v)) = 1 /\ Shown(v)[1] = v
           /\ Meaning(Shown(v)) = v /\ Paren(Shown(v)) = Shown(v)
<1>1. v # Absent
  BY DEF Truth, Absent
<1>2. Shown(v) = <<v>>
  BY <1>1 DEF Shown
<1>3. <<v>> \in Text /\ Len(<<v>>) = 1 /\ <<v>>[1] = v
  BY DEF Text
<1>4. Range(<<v>>) = {v}
  BY <1>3 DEF Range
<1>5. Meaning(<<v>>) = v
  BY <1>4, OfOne DEF Meaning
<1>6. <<v>> # Empty
  BY DEF Empty
<1> QED BY <1>2, <1>3, <1>5, <1>6 DEF Paren

LEMMA NothingShown == Shown(Absent) = Empty /\ Empty \in Text
BY DEF Shown, Empty, Text

LEMMA ShownSingle == ASSUME NEW v \in Truths PROVE Single(Shown(v))
<1>1. CASE v = Absent
  <2>1. Empty \in Text /\ Len(Empty) = 0
    BY DEF Empty, Text
  <2> QED BY <1>1, <2>1, NothingShown DEF Single
<1>2. CASE v # Absent
  <2>1. v \in Truth
    BY <1>2 DEF Truths
  <2>2. Shown(v) \in Text /\ Len(Shown(v)) = 1
    BY <2>1, ShownIs
  <2> QED BY <2>2 DEF Single
<1> QED BY <1>1, <1>2

\* " AND " between two single conditions.
LEMMA TwoJoined ==
    ASSUME NEW v \in Truth, NEW w \in Truth
    PROVE  JoinAnd(Shown(v), Shown(w)) = Shown(Conj({v, w}))
<1> DEFINE s == Shown(v)
           t == Shown(w)
           x == Conj({v, w})
<1>1. x \in Truth
  BY ConjDisjIn
<1>2. /\ s \in Text /\ Len(s) = 1 /\ s[1] = v
      /\ t \in Text /\ Len(t) = 1 /\ t[1] = w /\ Head(t) = w
  <2>1. t = <<w>>
    BY ShownIs
  <2> QED BY <2>1, ShownIs
<1>3. Last(s) = v
  BY <1>2 DEF Last
<1> HIDE DEF s, t, x
<1>4. Front(s) \in Text /\ Len(Front(s)) = 0
  <2>1. s \in Text /\ Len(s) >= 1
    BY <1>2
  <2>2. Front(s) \in Text /\ Len(Front(s)) = Len(s) - 1
    BY <2>1, FrontOfText
  <2> QED BY <1>2, <2>2
<1>5. Front(s) = << >>
  BY <1>4 DEF Text
<1>6. Tail(t) = << >>
  <2>1. t \in Seq(Truth) /\ t # << >>
    BY <1>2 DEF Text
  <2>2. Tail(t) \in Seq(Truth) /\ Len(Tail(t)) = 0
    BY <1>2, <2>1, HeadTailProperties
  <2> QED BY <2>2, EmptySeq
<1>7. JoinAnd(s, t) = << >> \o <<x>> \o << >>
  BY <1>2, <1>3, <1>5, <1>6 DEF JoinAnd, x
<1>8. << >> \o <<x>> \o << >> = <<x>>
  OBVIOUS
<1>9. Shown(x) = <<x>>
  BY <1>1, ShownIs
<1> QED BY <1>7, <1>8, <1>9 DEF s, t, x

LEMMA OneMoreAnd ==
    ASSUME NEW S \in SUBSET Truth, NEW v \in Truths
    PROVE  AndAlso(Shown(Joint("and", S)), Shown(v)) = Shown(Joint("and", S \cup ({v} \ {Absent})))
<1>1. CASE v = Absent
  <2>1. S \cup ({v} \ {Absent}) = S
    BY <1>1
  <2> QED BY <1>1, <2>1, NothingShown DEF AndAlso
<1>2. CASE v # Absent
  <2>1. v \in Truth /\ S \cup ({v} \ {Absent}) = S \cup {v} /\ S \cup {v} # {}
    BY <1>2 DEF Truths
  <2>2. Joint("and", S \cup {v}) = Conj(S \cup {v})
    BY <2>1 DEF Joint
  <2>3. Shown(v) # Empty
    BY <2>1, ShownIs
  <2>4. CASE S = {}
    <3>1. Shown(Joint("and", S)) = Empty /\ S \cup {v} = {v}
      BY <2>4, NothingShown DEF Joint
    <3> QED BY <2>1, <2>2, <3>1, OfOne DEF AndAlso
  <2>5. CASE S # {}
    <3>1. Joint("and", S) = Conj(S) /\ Conj(S) \in Truth
      BY <2>5, ConjDisjIn DEF Joint
    <3>2. Shown(Conj(S)) # Empty
      BY <3>1, ShownIs
    <3>3. AndAlso(Shown(Conj(S)), Shown(v)) = JoinAnd(Shown(Conj(S)), Shown(v))
      BY <2>3, <3>2 DEF AndAlso
    <3>4. JoinAnd(Shown(Conj(S)), Shown(v)) = Shown(Conj({Conj(S), v}))
      BY <2>1, <3>1, TwoJoined
    <3>5. Conj({Conj(S), v}) = Conj(S \cup {v})
      BY <2>1, ConjFurther
    <3> QED BY <2>1, <2>2, <3>1, <3>3, <3>4, <3>5
  <2> QED BY <2>4, <2>5
<1> QED BY <1>1, <1>2

\* What logic.render has joined after k texts.
JoinedTo(op, texts, n, j) ==
    j = [k \in 0 .. n |->
            IF k = 0 THEN Empty
            ELSE IF op = "or" THEN JoinOr(j[k - 1], texts[k]) ELSE AndAlso(j[k - 1], texts[k])]

\* The values up to the k-th.
Upto(vs, k) == {vs[i] : i \in 1 .. k} \ {Absent}

LEMMA UptoNext ==
    ASSUME NEW n \in Nat, NEW vs \in [1 .. n -> Truths], NEW k \in Nat, k + 1 <= n
    PROVE  /\ Upto(vs, k) \in SUBSET Truth /\ vs[k + 1] \in Truths
           /\ Upto(vs, k + 1) = Upto(vs, k) \cup ({vs[k + 1]} \ {Absent})
<1>1. \A i \in 1 .. k + 1 : i \in 1 .. n
  OBVIOUS
<1>2. \A i \in 1 .. k + 1 : vs[i] \in Truths
  BY <1>1
<1>3. \A i : i \in 1 .. k + 1 <=> i \in 1 .. k \/ i = k + 1
  OBVIOUS
<1>4. k + 1 \in 1 .. k + 1 /\ \A i \in 1 .. k : i \in 1 .. k + 1
  OBVIOUS
<1>5. {vs[i] : i \in 1 .. k + 1} = {vs[i] : i \in 1 .. k} \cup {vs[k + 1]}
  BY <1>3
<1> QED BY <1>2, <1>4, <1>5 DEF Upto, Truths

LEMMA UptoNone == ASSUME NEW vs PROVE Upto(vs, 0) = {}
<1>1. \A i : i \notin 1 .. 0
  OBVIOUS
<1> QED BY <1>1 DEF Upto

LEMMA JoiningEnds ==
    ASSUME NEW op \in {"and", "or"}, NEW n \in Nat, NEW vs \in [1 .. n -> Truths]
    PROVE  \E j : JoinedTo(op, [i \in 1 .. n |-> Shown(vs[i])], n, j)
<1> DEFINE texts == [i \in 1 .. n |-> Shown(vs[i])]
           Step(k, u) == IF op = "or" THEN JoinOr(u, texts[k]) ELSE AndAlso(u, texts[k])
           next == [k \in 1 .. n |-> [u \in Text |-> Step(k, u)]]
<1>1. ASSUME NEW k \in 1 .. n, NEW u \in Text PROVE Step(k, u) \in Text
  <2> DEFINE t == texts[k]
  <2>1. t = Shown(vs[k]) /\ vs[k] \in Truths
    OBVIOUS
  <2>2. Single(t)
    BY <2>1, ShownSingle
  <2> HIDE DEF t
  <2>3. JoinOr(u, t) \in Text
    BY <2>2 DEF JoinOr, Single, Text
  <2>4. AndAlso(u, t) \in Text
    <3>1. CASE u = Empty
      BY <2>2, <3>1 DEF AndAlso, Single
    <3>2. CASE u # Empty
      <4>1. Len(u) >= 1
        BY <3>2 DEF Text, Empty
      <4> QED BY <2>2, <4>1, AndAlsoLast
    <3> QED BY <3>1, <3>2
  <2> QED BY <2>3, <2>4 DEF t
<1>2. next \in [1 .. n -> [Text -> Text]]
  <2> HIDE DEF Step
  <2> QED BY <1>1
<1>3. Lead(Text, Empty, n, next)
  <2> HIDE DEF next
  <2> QED BY <1>2, NothingShown, StepByStep
<1>4. PICK g \in [0 .. n -> Text] : g[0] = Empty /\ \A k \in 1 .. n : g[k] = next[k][g[k - 1]]
  BY <1>3 DEF Lead
<1>5. \A k \in 1 .. n : g[k] = Step(k, g[k - 1])
  <2> SUFFICES ASSUME NEW k \in 1 .. n PROVE g[k] = Step(k, g[k - 1])
    OBVIOUS
  <2>1. g[k - 1] \in Text
    <3>1. k - 1 \in 0 .. n
      OBVIOUS
    <3> QED BY <3>1
  <2> HIDE DEF Step
  <2> QED BY <1>4, <2>1
<1>6. g = [k \in 0 .. n |-> g[k]]
  OBVIOUS
<1>7. ASSUME NEW k \in 0 .. n
      PROVE  g[k] = IF k = 0 THEN Empty
                    ELSE IF op = "or" THEN JoinOr(g[k - 1], texts[k]) ELSE AndAlso(g[k - 1], texts[k])
  <2>1. k # 0 => k \in 1 .. n
    OBVIOUS
  <2> QED BY <1>4, <1>5, <2>1
<1> HIDE DEF texts
<1>8. JoinedTo(op, texts, n, g)
  BY <1>6, <1>7 DEF JoinedTo
<1> QED BY <1>8 DEF texts

\* AND of Conds.
LEMMA AndJoins ==
    ASSUME NEW n \in Nat, NEW vs \in [1 .. n -> Truths], NEW j,
           JoinedTo("and", [i \in 1 .. n |-> Shown(vs[i])], n, j)
    PROVE  j[n] = Shown(Joint("and", Upto(vs, n)))
<1> DEFINE S == {k \in Nat : k <= n => j[k] = Shown(Joint("and", Upto(vs, k)))}
<1>1. \A k \in 0 .. n : j[k] = IF k = 0 THEN Empty ELSE AndAlso(j[k - 1], Shown(vs[k]))
  <2> DEFINE texts == [i \in 1 .. n |-> Shown(vs[i])]
  <2>1. \A k \in 0 .. n : j[k] = IF k = 0 THEN Empty ELSE AndAlso(j[k - 1], texts[k])
    <3> HIDE DEF texts
    <3> QED BY DEF JoinedTo, texts
  <2>2. \A k \in 0 .. n : k # 0 => texts[k] = Shown(vs[k])
    OBVIOUS
  <2> QED BY <2>1, <2>2
<1>2. 0 \in S
  BY <1>1, UptoNone, NothingShown DEF Joint
<1>3. ASSUME NEW k \in Nat, k \in S PROVE k + 1 \in S
  <2> SUFFICES ASSUME k + 1 <= n PROVE j[k + 1] = Shown(Joint("and", Upto(vs, k + 1)))
    OBVIOUS
  <2>1. k + 1 \in 0 .. n /\ k + 1 # 0 /\ (k + 1) - 1 = k
    OBVIOUS
  <2>2. j[k + 1] = AndAlso(j[k], Shown(vs[k + 1]))
    BY <1>1, <2>1
  <2>3. j[k] = Shown(Joint("and", Upto(vs, k)))
    BY <1>3
  <2> QED BY <2>2, <2>3, UptoNext, OneMoreAnd
<1> HIDE DEF S
<1>4. n \in S
  BY <1>2, <1>3, Induction
<1> QED BY <1>4 DEF S

\* OR of Conds: the alternatives are the values, and a single value stands for
\* itself.
LEMMA OrJoins ==
    ASSUME NEW n \in Nat, NEW vs \in [1 .. n -> Truths], NEW j,
           JoinedTo("or", [i \in 1 .. n |-> Shown(vs[i])], n, j)
    PROVE  /\ j[n] \in Text /\ Range(j[n]) = Upto(vs, n)
           /\ (\A a, b \in 1 .. n : vs[a] # Absent /\ vs[b] # Absent => a = b)
                 => j[n] = Shown(Joint("or", Upto(vs, n)))
<1> DEFINE Lonely(k) == \A a, b \in 1 .. k : vs[a] # Absent /\ vs[b] # Absent => a = b
           Holds1(k) == /\ j[k] \in Text /\ Range(j[k]) = Upto(vs, k)
                        /\ Lonely(k) => j[k] = Shown(Joint("or", Upto(vs, k)))
           S == {k \in Nat : k <= n => Holds1(k)}
<1>1. \A k \in 0 .. n : j[k] = IF k = 0 THEN Empty ELSE j[k - 1] \o Shown(vs[k])
  <2> DEFINE texts == [i \in 1 .. n |-> Shown(vs[i])]
  <2>1. \A k \in 0 .. n : j[k] = IF k = 0 THEN Empty ELSE JoinOr(j[k - 1], texts[k])
    <3> HIDE DEF texts
    <3> QED BY DEF JoinedTo, texts
  <2>2. \A k \in 0 .. n : k # 0 => texts[k] = Shown(vs[k])
    OBVIOUS
  <2> QED BY <2>1, <2>2 DEF JoinOr
<1>2. 0 \in S
  <2>1. j[0] = Empty
    BY <1>1
  <2>2. Range(Empty) = {}
    BY DEF Range, Empty
  <2> QED BY <2>1, <2>2, UptoNone, NothingShown DEF Joint
<1>3. ASSUME NEW k \in Nat, k \in S PROVE k + 1 \in S
  <2> SUFFICES ASSUME k + 1 <= n PROVE Holds1(k + 1)
    OBVIOUS
  <2> DEFINE v == vs[k + 1]
             u == j[k]
             w == Shown(v)
             V == Upto(vs, k)
  <2>1. k + 1 \in 0 .. n /\ k + 1 # 0 /\ (k + 1) - 1 = k
    OBVIOUS
  <2>2. j[k + 1] = u \o w
    BY <1>1, <2>1
  <2>3. u \in Text /\ Range(u) = V /\ (Lonely(k) => u = Shown(Joint("or", V)))
    BY <1>3
  <2>4. V \in SUBSET Truth /\ v \in Truths /\ Upto(vs, k + 1) = V \cup ({v} \ {Absent})
    BY UptoNext
  <2>5. Lonely(k + 1) => Lonely(k) /\ (v # Absent => V = {})
    <3> SUFFICES ASSUME Lonely(k + 1) PROVE Lonely(k) /\ (v # Absent => V = {})
      OBVIOUS
    <3>1. \A a \in 1 .. k : a \in 1 .. k + 1 /\ a # k + 1
      OBVIOUS
    <3>2. k + 1 \in 1 .. k + 1
      OBVIOUS
    <3> QED BY <3>1, <3>2 DEF Upto
  <2>6. CASE v = Absent
    <3>1. w = << >> /\ V \cup ({v} \ {Absent}) = V
      BY <2>6, NothingShown DEF Empty
    <3>2. u \o << >> = u
      BY <2>3 DEF Text
    <3>3. j[k + 1] = u /\ Upto(vs, k + 1) = V
      BY <2>2, <2>4, <3>1, <3>2
    <3> HIDE DEF u, V
    <3> QED BY <2>3, <2>5, <3>3
  <2>7. CASE v # Absent
    <3>1. v \in Truth /\ V \cup ({v} \ {Absent}) = V \cup {v}
      BY <2>4, <2>7 DEF Truths
    <3>2. w = <<v>> /\ w \in Text
      BY <3>1, ShownIs
    <3> HIDE DEF u, w, V, Lonely, v
    <3>3. u \o w \in Text /\ Range(u \o w) = Range(u) \cup {v}
      <4>1. u \in Seq(Truth) /\ w \in Seq(Truth) /\ Len(w) = 1 /\ w[1] = v
        BY <2>3, <3>2 DEF Text
      <4>2. u \o w \in Seq(Truth)
        BY <4>1, ConcatProperties
      <4>3. Range(u \o w) = Range(u) \cup Range(w)
        BY <4>1, RangeConcatenation
      <4>4. Range(w) = {v}
        BY <4>1 DEF Range
      <4> QED BY <4>2, <4>3, <4>4 DEF Text
    <3>4. Lonely(k + 1) => u \o w = Shown(Joint("or", V \cup {v}))
      <4> SUFFICES ASSUME Lonely(k + 1) PROVE u \o w = Shown(Joint("or", V \cup {v}))
        OBVIOUS
      <4>1. V = {} /\ u = Shown(Joint("or", V))
        BY <2>3, <2>5, <2>7
      <4>2. u = << >>
        BY <4>1, NothingShown DEF Joint, Empty
      <4>3. u \o w = w
        BY <3>2, <4>2 DEF Text
      <4>4. Joint("or", {v}) = v
        BY <3>1, OfOne DEF Joint
      <4>5. V \cup {v} = {v}
        BY <4>1
      <4> QED BY <4>3, <4>4, <4>5 DEF w
    <3> QED BY <2>2, <2>3, <2>4, <3>1, <3>3, <3>4
  <2> QED BY <2>6, <2>7
<1> HIDE DEF S
<1>4. n \in S
  BY <1>2, <1>3, Induction
<1> QED BY <1>4 DEF S

\* logic.render of any number of Conds, some of them without text.
LEMMA LogicShows ==
    ASSUME NEW op \in {"and", "or"}, NEW n \in Nat, NEW vs \in [1 .. n -> Truths]
    PROVE  Logic(op, [i \in 1 .. n |-> Shown(vs[i])]) = Shown(Joint(op, Upto(vs, n)))
<1> DEFINE texts == [i \in 1 .. n |-> Shown(vs[i])]
           j == CHOOSE g : JoinedTo(op, texts, n, g)
           V == Upto(vs, n)
           Two == \E a, b \in 1 .. n : a # b /\ vs[a] # Absent /\ vs[b] # Absent
<1>1. JoinedTo(op, texts, n, j)
  <2>1. \E g : JoinedTo(op, texts, n, g)
    BY JoiningEnds
  <2> HIDE DEF texts
  <2> QED BY <2>1, Zenon
<1>2. DOMAIN texts = 1 .. n /\ Len(texts) = n
  <2>1. ASSUME NEW i \in 1 .. n PROVE Shown(vs[i]) \in Text
    BY NothingShown, ShownIs DEF Truths
  <2>2. texts \in [1 .. n -> Text]
    BY <2>1
  <2> HIDE DEF texts
  <2>3. texts \in Seq(Text)
    BY <2>2
  <2> QED BY <2>2, <2>3
<1>3. ASSUME NEW i \in 1 .. n PROVE texts[i] = Empty <=> vs[i] = Absent
  BY NothingShown, ShownIs DEF Truths
<1>4. Logic(op, texts) = IF Two THEN Paren(j[n]) ELSE j[n]
  <2>1. (\E a, b \in DOMAIN texts : a # b /\ Empty \notin {texts[a], texts[b]}) <=> Two
    BY <1>2, <1>3
  <2> HIDE DEF texts, Two
  <2>2. Logic(op, texts) =
          IF \E a, b \in DOMAIN texts : a # b /\ Empty \notin {texts[a], texts[b]}
          THEN Paren(j[n]) ELSE j[n]
    BY <1>2 DEF Logic, JoinedTo
  <2> QED BY <2>1, <2>2
<1>5. V \in SUBSET Truth /\ (Two => V # {})
  BY DEF Upto, Truths
<1>6. CASE op = "and"
  <2>1. j[n] = Shown(Joint("and", V))
    <3> HIDE DEF j
    <3> QED BY <1>1, <1>6, AndJoins
  <2>2. Two => Paren(j[n]) = j[n]
    <3> SUFFICES ASSUME Two PROVE Paren(j[n]) = j[n]
      OBVIOUS
    <3>1. Joint("and", V) \in Truth
      BY <1>5, ConjDisjIn DEF Joint
    <3> QED BY <2>1, <3>1, ShownIs
  <2> HIDE DEF j, texts, V, Two
  <2> QED BY <1>4, <1>6, <2>1, <2>2 DEF texts, V
<1>7. CASE op = "or"
  <2>1. /\ j[n] \in Text /\ Range(j[n]) = V
        /\ ~Two => j[n] = Shown(Joint("or", V))
    <3> HIDE DEF j
    <3>1. JoinedTo("or", texts, n, j)
      BY <1>1, <1>7
    <3>2. /\ j[n] \in Text /\ Range(j[n]) = V
          /\ (\A a, b \in 1 .. n : vs[a] # Absent /\ vs[b] # Absent => a = b)
                => j[n] = Shown(Joint("or", V))
      BY <3>1, OrJoins
    <3> QED BY <3>2
  <2>2. Two => Paren(j[n]) = Shown(Joint("or", V))
    <3> SUFFICES ASSUME Two PROVE Paren(j[n]) = Shown(Joint("or", V))
      OBVIOUS
    <3>1. Joint("or", V) = Disj(V) /\ Disj(V) \in Truth
      BY <1>5, ConjDisjIn DEF Joint
    <3>2. Paren(j[n]) = <<Disj(V)>>
      BY <2>1 DEF Paren, Meaning
    <3> QED BY <3>1, <3>2, ShownIs
  <2> HIDE DEF j, texts, V, Two
  <2> QED BY <1>4, <1>7, <2>1, <2>2 DEF texts, V
<1> QED BY <1>6, <1>7

LEMMA PartsAreTrees == ASSUME NEW c \in CondTrees PROVE Inner(c) \subseteq CondTrees
<1>1. CASE c = NoCond \/ c.kind \notin {"and", "or", "not"}
  BY <1>1 DEF Inner
<1>2. CASE c # NoCond /\ c.kind \in {"and", "or"}
  <2> DEFINE s == c.conds
  <2>1. s \in Seq(CondTrees)
    BY <1>2, CondShapes, CondAssumption
  <2>2. \A i \in DOMAIN s : s[i] \in CondTrees
    <3> HIDE DEF s
    <3> QED BY <2>1
  <2> QED BY <1>2, <2>2 DEF Inner, Operands
<1>3. CASE c # NoCond /\ c.kind = "not"
  BY <1>3, CondShapes, CondAssumption DEF Inner
<1> QED BY <1>1, <1>2, <1>3

\* The value of a Cond and its text, from those of the Conds it consists of.
ValueOf(row, value, c) ==
    IF c = NoCond THEN Absent
    ELSE IF c.kind = "not"
         THEN IF value[c.cond] = Absent THEN Absent ELSE Neg(value[c.cond])
    ELSE IF c.kind \in {"and", "or"}
         THEN Joint(c.kind, {value[c.conds[i]] : i \in DOMAIN c.conds} \ {Absent})
    ELSE SimpleMeans(row, c)

TextOf(row, text, c) ==
    IF c = NoCond THEN Empty
    ELSE IF c.kind = "not" THEN Negated(text[c.cond])
    ELSE IF c.kind \in {"and", "or"}
         THEN Logic(c.kind, [i \in DOMAIN c.conds |-> text[c.conds[i]]])
    ELSE Simple(row, c)

\* The value of a Cond without others is what its operator says.
LEMMA SimpleSays ==
    ASSUME NEW row, NEW c \in SimpleConds
    PROVE  Simple(row, c)[1] = SimpleMeans(row, c)
<1>1. CASE c.kind = "cmp" /\ c.op \in {"=", "<>"}
  BY <1>1, EqualSays DEF Simple, SimpleMeans, Unless
<1>2. CASE c.kind \in {"in", "notIn"}
  BY <1>2, WithinSays DEF Simple, SimpleMeans, Unless
<1>3. CASE c.kind = "between"
  BY <1>3, BetweenSays DEF Simple, SimpleMeans
<1>4. CASE ~(c.kind = "cmp" /\ c.op \in {"=", "<>"}) /\ c.kind \notin {"in", "notIn", "between"}
  BY <1>4 DEF SimpleMeans
<1> QED BY <1>1, <1>2, <1>3, <1>4

LEMMA SimpleIsOne ==
    ASSUME NEW row, NEW c \in SimpleConds
    PROVE  Simple(row, c)[1] \in Truth /\ Simple(row, c) = Shown(Simple(row, c)[1])
<1>1. \A x, op, y : Compare(x, op, y) \in Truth
  BY DEF Compare, Truly, Truth
<1>2. \A x, y : Like(x, y) \in Truth
  BY DEF Like, Truly, Truth
<1>3. \A v : Neg(v) \in Truth /\ Truly(v) \in Truth
  BY DEF Neg, Truly, Truth
<1>4. \A x, op, v : Comparison(x, op, v) \in Truth
  BY <1>1, <1>2, <1>3 DEF Comparison
<1>5. \A x, vals : Within(x, vals) \in Truth
  BY ConjDisjIn DEF Within, InValues, Truth
<1>6. \A x, lo, hi : Between(x, lo, hi) \in Truth
  BY ConjDisjIn DEF Between
<1>7. \A t : Paren(t) = <<Meaning(t)>> /\ Meaning(t) \in Truth
  BY ConjDisjIn DEF Paren, Meaning
<1>8. \E v \in Truth : Simple(row, c) = <<v>>
  <2>1. c.kind \in {"cmp", "in", "notIn", "isNull", "notNull", "between", "raw"}
    BY CondAssumption
  <2> QED BY <1>3, <1>4, <1>5, <1>6, <1>7, <2>1 DEF Simple
<1>9. PICK v \in Truth : Simple(row, c) = <<v>>
  BY <1>8
<1>10. Simple(row, c)[1] = v
  BY <1>9
<1> QED BY <1>9, <1>10, ShownIs

LEMMA ValueIsTruth ==
    ASSUME NEW row, NEW value, NEW c \in CondTrees, \A d \in Inner(c) : value[d] \in Truths
    PROVE  ValueOf(row, value, c) \in Truths
<1>1. CASE c = NoCond
  BY <1>1 DEF ValueOf, Truths
<1>2. CASE c # NoCond /\ c.kind \in {"and", "or"}
  <2> DEFINE V == {value[c.conds[i]] : i \in DOMAIN c.conds} \ {Absent}
  <2>1. ValueOf(row, value, c) = Joint(c.kind, V)
    BY <1>2 DEF ValueOf
  <2> HIDE DEF V
  <2> QED BY <2>1, ConjDisjIn DEF Joint, Truths
<1>3. CASE c # NoCond /\ c.kind = "not"
  BY <1>3 DEF ValueOf, Neg, Truths, Truth
<1>4. CASE c # NoCond /\ c.kind \notin {"and", "or", "not"}
  <2>1. c \in SimpleConds
    BY <1>4, CondShapes
  <2>2. ValueOf(row, value, c) = Simple(row, c)[1]
    BY <1>4, <2>1, SimpleSays DEF ValueOf
  <2> QED BY <2>1, <2>2, SimpleIsOne DEF Truths
<1> QED BY <1>1, <1>2, <1>3, <1>4

LEMMA TextShows ==
    ASSUME NEW row, NEW value, NEW text, NEW c \in CondTrees,
           \A d \in Inner(c) : value[d] \in Truths /\ text[d] = Shown(value[d])
    PROVE  TextOf(row, text, c) = Shown(ValueOf(row, value, c))
<1>1. CASE c = NoCond
  BY <1>1, NothingShown DEF ValueOf, TextOf
<1>2. CASE c # NoCond /\ c.kind \in {"and", "or"}
  <2> DEFINE conds == c.conds
             n == Len(conds)
             vs == [i \in 1 .. n |-> value[conds[i]]]
  <2>1. conds \in Seq(CondTrees)
    <3>1. c \notin SimpleConds
      BY <1>2, CondAssumption
    <3> QED BY <1>2, <3>1, CondShapes
  <2>2. n \in Nat /\ DOMAIN conds = 1 .. n
    <3> HIDE DEF conds
    <3> QED BY <2>1
  <2>3. \A i \in DOMAIN conds : conds[i] \in Inner(c)
    BY <1>2 DEF Inner, Operands
  <2> HIDE DEF conds, n
  <2>4. \A i \in 1 .. n : value[conds[i]] \in Truths /\ text[conds[i]] = Shown(value[conds[i]])
    BY <2>2, <2>3
  <2>5. vs \in [1 .. n -> Truths]
    BY <2>4
  <2>6. [i \in DOMAIN conds |-> text[conds[i]]] = [i \in 1 .. n |-> Shown(vs[i])]
    BY <2>2, <2>4
  <2>7. {value[conds[i]] : i \in DOMAIN conds} = {vs[i] : i \in 1 .. n}
    BY <2>2
  <2> HIDE DEF vs
  <2>8. Logic(c.kind, [i \in 1 .. n |-> Shown(vs[i])]) = Shown(Joint(c.kind, Upto(vs, n)))
    BY <1>2, <2>2, <2>5, LogicShows
  <2>9. TextOf(row, text, c) = Logic(c.kind, [i \in DOMAIN conds |-> text[conds[i]]])
    BY <1>2 DEF TextOf, conds
  <2>10. ValueOf(row, value, c) = Joint(c.kind, {value[conds[i]] : i \in DOMAIN conds} \ {Absent})
    BY <1>2 DEF ValueOf, conds
  <2> QED BY <2>6, <2>7, <2>8, <2>9, <2>10 DEF Upto
<1>3. CASE c # NoCond /\ c.kind = "not"
  <2> DEFINE v == value[c.cond]
  <2>1. c.cond \in Inner(c)
    BY <1>3 DEF Inner
  <2>2. v \in Truths /\ text[c.cond] = Shown(v)
    BY <2>1
  <2>3. TextOf(row, text, c) = Negated(text[c.cond])
    BY <1>3 DEF TextOf
  <2>4. ValueOf(row, value, c) = IF v = Absent THEN Absent ELSE Neg(v)
    BY <1>3 DEF ValueOf
  <2> HIDE DEF v
  <2>5. CASE v = Absent
    BY <2>2, <2>3, <2>4, <2>5, NothingShown DEF Negated
  <2>6. CASE v # Absent
    <3>1. v \in Truth
      BY <2>2, <2>6 DEF Truths
    <3>2. Neg(v) \in Truth
      BY DEF Neg, Truth
    <3>3. Negated(Shown(v)) = <<Neg(v)>>
      BY <3>1, ShownIs DEF Negated
    <3> QED BY <2>2, <2>3, <2>4, <2>6, <3>2, <3>3, ShownIs
  <2> QED BY <2>5, <2>6
<1>4. CASE c # NoCond /\ c.kind \notin {"and", "or", "not"}
  <2>1. c \in SimpleConds
    BY <1>4, CondShapes
  <2>2. ValueOf(row, value, c) = Simple(row, c)[1] /\ TextOf(row, text, c) = Simple(row, c)
    BY <1>4, <2>1, SimpleSays DEF ValueOf, TextOf
  <2> QED BY <2>1, <2>2, SimpleIsOne
<1> QED BY <1>1, <1>2, <1>3, <1>4

\* The values of all Conds, and their texts.
Valued(row, value) == value = [c \in CondTrees |-> ValueOf(row, value, c)]

Texted(row, text) == text = [c \in CondTrees |-> TextOf(row, text, c)]

LEMMA SomeValues == ASSUME NEW row PROVE \E value : Valued(row, value)
<1> DEFINE T == Truths
           F == [f \in [CondTrees -> T] |-> [c \in CondTrees |-> ValueOf(row, f, c)]]
<1>1. ASSUME NEW f \in [CondTrees -> T], NEW c \in CondTrees PROVE ValueOf(row, f, c) \in T
  <2>1. \A d \in Inner(c) : d \in CondTrees
    BY PartsAreTrees
  <2> QED BY <2>1, ValueIsTruth
<1> HIDE DEF T
<1>2. F \in [[CondTrees -> T] -> [CondTrees -> T]]
  BY <1>1
<1>3. ByParts(T, F)
  <2>1. ASSUME NEW f \in [CondTrees -> T], NEW g \in [CondTrees -> T], NEW c \in CondTrees,
               \A d \in Inner(c) : f[d] = g[d]
        PROVE  ValueOf(row, f, c) = ValueOf(row, g, c)
    <3>1. CASE c = NoCond
      BY <3>1 DEF ValueOf
    <3>2. CASE c # NoCond /\ c.kind \in {"and", "or"}
      <4>1. \A i \in DOMAIN c.conds : f[c.conds[i]] = g[c.conds[i]]
        BY <2>1, <3>2 DEF Inner, Operands
      <4>2. {f[c.conds[i]] : i \in DOMAIN c.conds} = {g[c.conds[i]] : i \in DOMAIN c.conds}
        BY <4>1
      <4> QED BY <3>2, <4>2 DEF ValueOf
    <3>3. CASE c # NoCond /\ c.kind = "not"
      <4>1. f[c.cond] = g[c.cond]
        BY <2>1, <3>3 DEF Inner
      <4> QED BY <3>3, <4>1 DEF ValueOf
    <3>4. CASE c # NoCond /\ c.kind \notin {"and", "or", "not"}
      BY <3>4 DEF ValueOf
    <3> QED BY <3>1, <3>2, <3>3, <3>4
  <2> QED BY <2>1 DEF ByParts
<1>4. Fixed(T, F)
  <2>1. T # {}
    BY DEF T, Truths
  <2> HIDE DEF F
  <2> QED BY <1>2, <1>3, <2>1, TreeRecursion
<1>5. PICK f \in [CondTrees -> T] : f = F[f]
  BY <1>4 DEF Fixed
<1>6. Valued(row, f)
  BY <1>5 DEF Valued
<1> QED BY <1>6

LEMMA ValuesAreTruths ==
    ASSUME NEW row, NEW value, Valued(row, value), NEW c \in CondTrees
    PROVE  value[c] \in Truths
<1> DEFINE S == {d \in CondTrees : value[d] \in Truths}
<1>1. ASSUME NEW d \in CondTrees, Inner(d) \subseteq S PROVE d \in S
  <2>1. ValueOf(row, value, d) \in Truths
    BY <1>1, ValueIsTruth
  <2>2. value[d] = ValueOf(row, value, d)
    BY DEF Valued
  <2> QED BY <2>1, <2>2
<1>2. CondTrees \subseteq S
  <2> HIDE DEF S
  <2> QED BY <1>1, TreeInduction
<1> QED BY <1>2

LEMMA TextsShow ==
    ASSUME NEW row, NEW value, Valued(row, value), NEW text, Texted(row, text), NEW c \in CondTrees
    PROVE  text[c] = Shown(value[c])
<1> DEFINE S == {d \in CondTrees : text[d] = Shown(value[d])}
<1>1. ASSUME NEW d \in CondTrees, Inner(d) \subseteq S PROVE d \in S
  <2>1. \A e \in Inner(d) : value[e] \in Truths /\ text[e] = Shown(value[e])
    BY <1>1, ValuesAreTruths
  <2>2. TextOf(row, text, d) = Shown(ValueOf(row, value, d))
    BY <2>1, TextShows
  <2>3. value[d] = ValueOf(row, value, d)
    BY DEF Valued
  <2>4. text[d] = TextOf(row, text, d)
    BY DEF Texted
  <2> QED BY <2>2, <2>3, <2>4
<1>2. CondTrees \subseteq S
  <2> HIDE DEF S
  <2> QED BY <1>1, TreeInduction
<1> QED BY <1>2

LEMMA SomeTexts == ASSUME NEW row PROVE \E text : Texted(row, text)
<1>1. PICK value : Valued(row, value)
  BY SomeValues
<1> DEFINE text == [c \in CondTrees |-> Shown(value[c])]
<1>2. ASSUME NEW c \in CondTrees PROVE text[c] = TextOf(row, text, c)
  <2>1. \A d \in Inner(c) : d \in CondTrees
    BY PartsAreTrees
  <2>2. \A d \in Inner(c) : value[d] \in Truths /\ text[d] = Shown(value[d])
    BY <1>1, <2>1, ValuesAreTruths
  <2>3. text[c] = Shown(value[c])
    OBVIOUS
  <2> HIDE DEF text
  <2>4. TextOf(row, text, c) = Shown(ValueOf(row, value, c))
    BY <2>2, TextShows
  <2>5. value[c] = ValueOf(row, value, c)
    BY <1>1 DEF Valued
  <2> QED BY <2>3, <2>4, <2>5
<1>3. text = [c \in CondTrees |-> text[c]]
  OBVIOUS
<1> HIDE DEF text
<1>4. Texted(row, text)
  BY <1>2, <1>3 DEF Texted
<1> QED BY <1>4

\* Every operator of a Cond binds as the program nested it: the text that
\* Render makes of a Cond of any depth has the value of the Cond, operator by
\* operator, on every row; it is empty if nothing is asked, and otherwise can
\* be joined by AND as it is.
THEOREM CondBinds ==
    ASSUME NEW row, NEW cond \in CondTrees
    PROVE  /\ Value(row, cond) \in Truths
           /\ Render(row, cond) = Shown(Value(row, cond))
<1> DEFINE value == CHOOSE f : Valued(row, f)
           text == CHOOSE f : Texted(row, f)
<1>1. Valued(row, value)
  <2>1. \E f : Valued(row, f)
    BY SomeValues
  <2> QED BY <2>1, Zenon
<1>2. Texted(row, text)
  <2>1. \E f : Texted(row, f)
    BY SomeTexts
  <2> QED BY <2>1, Zenon
<1>3. Value(row, cond) = value[cond]
  BY DEF Value, Valued, ValueOf
<1>4. Render(row, cond) = text[cond]
  BY DEF Render, Texted, TextOf
<1> HIDE DEF value, text
<1> QED BY <1>1, <1>2, <1>3, <1>4, ValuesAreTruths, TextsShow

\* A Cond's text restricts the clause it is in, to the rows that the Cond asks for.
LEMMA CondSelects ==
    ASSUME NEW row, NEW cond \in CondTrees
    PROVE  Single(Render(row, cond)) /\ (Selects(Render(row, cond)) <=> Asks(row, cond))
<1> DEFINE v == Value(row, cond)
<1>1. v \in Truths /\ Render(row, cond) = Shown(v)
  BY CondBinds
<1> HIDE DEF v
<1>2. Selects(Shown(v)) <=> v \in {"T", Absent}
  <2>1. CASE v = Absent
    BY <2>1, NothingShown DEF Selects
  <2>2. CASE v # Absent
    <3>1. v \in Truth
      BY <1>1, <2>2 DEF Truths
    <3> QED BY <2>2, <3>1, ShownIs DEF Selects
  <2> QED BY <2>1, <2>2
<1> QED BY <1>1, <1>2, ShownSingle DEF Asks, v

-------------------------------------------------------------------------------
(* The keyset. *)

\* Numbers, or NULL.
Numeric == Int \cup {Null}

Differing(row, keyset) ==
    {i \in DOMAIN keyset :
        Null \in {row[keyset[i].prop], keyset[i].val} \/ row[keyset[i].prop] # keyset[i].val}

LEMMA ComparesTrue ==
    ASSUME NEW x \in Numeric, NEW y \in Numeric
    PROVE  /\ Compare(x, "=", y) \in Truth /\ Compare(x, "<", y) \in Truth /\ Compare(x, ">", y) \in Truth
           /\ Compare(x, "=", y) = "T" <=> Null \notin {x, y} /\ x = y
           /\ Compare(x, "<", y) = "T" <=> Null \notin {x, y} /\ x < y
           /\ Compare(x, ">", y) = "T" <=> Null \notin {x, y} /\ x > y
           /\ Null \notin {x, y} /\ (x < y \/ x > y) => x # y
BY NullAssumption DEF Compare, Truly, Truth, Numeric

LEMMA ConjTrue ==
    ASSUME NEW S \in SUBSET Truth PROVE Conj(S) = "T" <=> \A v \in S : v = "T"
BY DEF Conj, Truth

LEMMA LeastOf ==
    ASSUME NEW S \in SUBSET Nat, S # {}
    PROVE  LET first == CHOOSE i \in S : \A j \in S : i <= j
           IN first \in S /\ \A j \in S : first <= j
<1>1. \E i \in S : \A j \in S : i <= j
  BY MinIn
<1> QED BY <1>1, Zenon

\* The condition of a keyset takes the rows after its boundary.
LEMMA KeysetSelects ==
    ASSUME NEW row, NEW keyset, keyset \in Seq(Range(keyset)),
           \A key \in Range(keyset) : {key.val, row[key.prop]} \subseteq Numeric
    PROVE  Single(KeysetOf(row, keyset)) /\ (Selects(KeysetOf(row, keyset)) <=> After(row, keyset))
<1> DEFINE n == Len(keyset)
           x(i) == row[keyset[i].prop]
           y(i) == keyset[i].val
           Last1(i) == Compare(x(i), IF keyset[i].desc THEN "<" ELSE ">", y(i))
           C(i) == {Compare(x(j), "=", y(j)) : j \in 1 .. i - 1} \cup {Last1(i)}
           differs == Differing(row, keyset)
           first == CHOOSE i \in differs : \A j \in differs : i <= j
           Beyond(i) == /\ Null \notin {x(i), y(i)}
                        /\ IF keyset[i].desc THEN x(i) < y(i) ELSE x(i) > y(i)
<1>1. CASE keyset = << >>
  <2>1. KeysetOf(row, keyset) = Empty
    BY <1>1 DEF KeysetOf
  <2>2. After(row, keyset)
    BY <1>1 DEF After
  <2>3. Single(Empty) /\ Selects(Empty)
    BY NothingShown DEF Single, Selects, Empty
  <2> QED BY <2>1, <2>2, <2>3
<1>2. CASE keyset # << >>
  <2>1. DOMAIN keyset = 1 .. n /\ n \in Nat
    OBVIOUS
  <2>2. ASSUME NEW i \in 1 .. n PROVE x(i) \in Numeric /\ y(i) \in Numeric
    BY <2>1 DEF Range
  <2>3. KeysetOf(row, keyset) = << Disj({Conj(C(i)) : i \in 1 .. n}) >>
    BY <1>2, <2>1 DEF KeysetOf
  <2>4. After(row, keyset) <=> differs # {} /\ Beyond(first)
    BY <1>2 DEF After, Differing
  <2>5. \A i \in 1 .. n : i \in differs <=> Null \in {x(i), y(i)} \/ x(i) # y(i)
    BY <2>1 DEF Differing
  <2>6. differs \subseteq 1 .. n
    BY <2>1 DEF Differing
  <2> HIDE DEF x, y, differs, n
  <2>7. ASSUME NEW i \in 1 .. n
        PROVE  (Last1(i) = "T" <=> Beyond(i)) /\ (Beyond(i) => i \in differs) /\ Last1(i) \in Truth
    BY <2>2, <2>5, ComparesTrue
  <2>8. ASSUME NEW i \in 1 .. n
        PROVE  Conj(C(i)) = "T" <=> Beyond(i) /\ \A j \in 1 .. i - 1 : j \notin differs
    <3>1. \A j \in 1 .. i - 1 : j \in 1 .. n
      BY <2>1
    <3>2. \A j \in 1 .. i - 1 : /\ Compare(x(j), "=", y(j)) \in Truth
                                /\ Compare(x(j), "=", y(j)) = "T" <=> j \notin differs
      BY <2>2, <2>5, <3>1, ComparesTrue
    <3>3. C(i) \in SUBSET Truth
      BY <2>7, <3>2
    <3>4. (\A v \in C(i) : v = "T") <=> Last1(i) = "T" /\ \A j \in 1 .. i - 1 : Compare(x(j), "=", y(j)) = "T"
      OBVIOUS
    <3> HIDE DEF C, Last1, Beyond
    <3> QED BY <2>7, <3>2, <3>3, <3>4, ConjTrue
  <2> HIDE DEF C, Last1, Beyond
  <2>9. Selects(KeysetOf(row, keyset)) <=> \E i \in 1 .. n : Conj(C(i)) = "T"
    <3> DEFINE v == Disj({Conj(C(i)) : i \in 1 .. n})
    <3>1. v \in Truth /\ (v = "T" <=> \E i \in 1 .. n : Conj(C(i)) = "T")
      BY ConjDisjIn, DisjTrue
    <3> HIDE DEF v
    <3>2. Selects(<<v>>) <=> v = "T"
      BY <3>1, ShownIs DEF Selects
    <3> QED BY <2>3, <3>1, <3>2 DEF v
  <2>10. differs # {} => first \in differs /\ \A j \in differs : first <= j
    <3>1. differs \in SUBSET Nat
      BY <2>1, <2>6
    <3> QED BY <3>1, LeastOf
  <2> HIDE DEF first
  <2>11. ASSUME NEW i \in 1 .. n, Beyond(i), \A j \in 1 .. i - 1 : j \notin differs
         PROVE  differs # {} /\ first = i
    <3>1. i \in differs
      BY <2>7, <2>11
    <3>2. first \in 1 .. n /\ first <= i /\ first \in differs
      BY <2>6, <2>10, <3>1
    <3>3. ~(first \in 1 .. i - 1)
      BY <2>11, <3>2
    <3> QED BY <2>1, <3>1, <3>2, <3>3
  <2>12. ASSUME differs # {} PROVE first \in 1 .. n /\ \A j \in 1 .. first - 1 : j \notin differs
    <3>1. first \in 1 .. n /\ \A j \in differs : first <= j
      BY <2>6, <2>10, <2>12
    <3> QED BY <2>1, <3>1
  <2>13. (\E i \in 1 .. n : Conj(C(i)) = "T") <=> After(row, keyset)
    BY <2>4, <2>8, <2>11, <2>12
  <2>14. Single(KeysetOf(row, keyset))
    <3> DEFINE v == Disj({Conj(C(i)) : i \in 1 .. n})
    <3>1. v \in Truth
      BY ConjDisjIn
    <3> HIDE DEF v
    <3>2. Shown(v) = <<v>> /\ Single(Shown(v))
      BY <3>1, ShownIs, ShownSingle DEF Truths
    <3> QED BY <2>3, <3>2 DEF v
  <2> QED BY <2>9, <2>13, <2>14
<1> QED BY <1>1, <1>2

-------------------------------------------------------------------------------
(* The criteria. *)

\* A method's parts have operators that the parser knows, on columns they are for.
Sound(or) == or \in Seq(Range(or)) /\ \A i \in DOMAIN or : \A p \in Range(or[i]) : FitsColumn(p)

LEMMA PartIsTruth ==
    ASSUME NEW row, NEW p, p.op \in Operators
    PROVE  PartOf(row, p) \in Truth
<1>1. \A x, op, y : Compare(x, op, y) \in Truth
  BY DEF Compare, Truly, Truth
<1>2. \A x, y : Like(x, y) \in Truth
  BY DEF Like, Truly, Truth
<1>3. \A v : Neg(v) \in Truth /\ Truly(v) \in Truth
  BY DEF Neg, Truly, Truth
<1>4. \A x, op, v : Comparison(x, op, v) \in Truth
  BY <1>1, <1>2, <1>3 DEF Comparison
<1>5. \A x, vals : Within(x, vals) \in Truth
  BY ConjDisjIn DEF Within, InValues, Truth
<1>6. \A x, lo, hi : Between(x, lo, hi) \in Truth
  BY ConjDisjIn DEF Between
<1>7. CASE p.op \in {"Equals", "Not"}
  <2>1. PartOf(row, p) = Comparison(FoldCase(p, row[p.prop]), Comparing[p.op], FoldCase(p, p.args[1]))
    BY <1>7 DEF PartOf, Comparing, Patterns
  <2> QED BY <1>4, <2>1
<1>8. CASE p.op \in DOMAIN Comparing \ {"Equals", "Not"}
  <2>1. PartOf(row, p) = Compare(row[p.prop], Comparing[p.op], Bound(p.args[1]))
    BY <1>8 DEF PartOf, Comparing, Patterns
  <2> QED BY <1>1, <2>1
<1>9. CASE p.op \in Patterns
  <2>1. p.op \notin DOMAIN Comparing
    BY <1>9 DEF Patterns, Comparing
  <2> DEFINE v == Like(FoldCase(p, row[p.prop]), FoldCase(p, Bound(Pattern(p.op, p.args[1]))))
  <2>2. PartOf(row, p) = IF p.op \in {"NotLike", "NotContaining"} THEN Neg(v) ELSE v
    <3>1. p.op \notin {"Equals", "Not"} /\ p.op \notin DOMAIN Comparing \ {"Equals", "Not"}
      BY <2>1 DEF Comparing
    <3> QED BY <1>9, <3>1 DEF PartOf, Comparing, Patterns
  <2> HIDE DEF v
  <2>3. v \in Truth
    BY <1>2 DEF v
  <2> QED BY <1>3, <2>2, <2>3
<1>10. CASE p.op \in {"IsNull", "IsNotNull", "True", "False", "In", "NotIn", "Between"}
  BY <1>1, <1>3, <1>5, <1>6, <1>10 DEF PartOf, Comparing, Patterns
<1> QED BY <1>7, <1>8, <1>9, <1>10 DEF Operators

\* The criteria's text has an alternative for each of the method's, which is
\* true when every part means what its operator says.
LEMMA CriteriaSay ==
    ASSUME NEW row \in Stored, NEW or, Sound(or)
    PROVE  /\ Criteria(row, or) \in Text /\ Len(Criteria(row, or)) = Len(or)
           /\ \A i \in 1 .. Len(or) : Criteria(row, or)[i] = "T" <=> Meets(row, or[i])
           /\ Selects(Criteria(row, or)) <=> MeetsCriteria(row, or)
<1> DEFINE t == Criteria(row, or)
           n == Len(or)
           S(i) == {PartOf(row, or[i][j]) : j \in DOMAIN or[i]}
<1>1. DOMAIN or = 1 .. n /\ n \in Nat /\ (or = << >> <=> n = 0)
  BY DEF Sound
<1>2. t = [i \in 1 .. n |-> Conj(S(i))]
  BY <1>1 DEF Criteria
<1>3. ASSUME NEW i \in 1 .. n
      PROVE  Conj(S(i)) \in Truth
             /\ (Conj(S(i)) = "T" <=> \A j \in DOMAIN or[i] : PartMeans(row, or[i][j]) = "T")
  <2>1. \A j \in DOMAIN or[i] : FitsColumn(or[i][j])
    BY <1>1 DEF Sound, Range
  <2>2. ASSUME NEW j \in DOMAIN or[i]
        PROVE  PartOf(row, or[i][j]) \in Truth /\ PartOf(row, or[i][j]) = PartMeans(row, or[i][j])
    <3> DEFINE p == or[i][j]
    <3>1. FitsColumn(p)
      BY <2>1
    <3> HIDE DEF p
    <3>2. p.op \in Operators
      BY <3>1 DEF FitsColumn
    <3>3. p.op \in TextOperators =>
             p.args[1] \in Strings /\ (row[p.prop] = Null \/ row[p.prop] \in Strings)
      BY <3>1 DEF FitsColumn
    <3>4. PartOf(row, p) \in Truth /\ PartOf(row, p) = PartMeans(row, p)
      BY <3>2, <3>3, PartIsTruth, PartSays
    <3> QED BY <3>4 DEF p
  <2>3. S(i) \in SUBSET Truth
    BY <2>2
  <2>4. (\A v \in S(i) : v = "T") <=> \A j \in DOMAIN or[i] : PartMeans(row, or[i][j]) = "T"
    BY <2>2
  <2> HIDE DEF S
  <2> QED BY <2>3, <2>4, ConjTrue, ConjDisjIn
<1> HIDE DEF S, n
<1>4. t \in Text /\ Len(t) = n /\ \A i \in 1 .. n : t[i] = Conj(S(i))
  <2>1. t \in [1 .. n -> Truth]
    BY <1>2, <1>3
  <2> HIDE DEF t
  <2> QED BY <1>1, <1>2, <2>1 DEF Text
<1>5. \A i \in 1 .. n : t[i] = "T" <=> Meets(row, or[i])
  BY <1>3, <1>4 DEF Meets
<1> HIDE DEF t
<1>6. Selects(t) <=> n = 0 \/ \E i \in 1 .. n : t[i] = "T"
  BY <1>4, SelectsTrue
<1>7. Selects(t) <=> MeetsCriteria(row, or)
  BY <1>1, <1>5, <1>6 DEF MeetsCriteria
<1> QED BY <1>4, <1>5, <1>7 DEF t, n

\* The values of Conds, together.
LEMMA ValueSteps ==
    ASSUME NEW row
    PROVE  \E value : Valued(row, value) /\ \A c \in CondTrees : Value(row, c) = value[c]
<1> DEFINE value == CHOOSE f : Valued(row, f)
<1>1. Valued(row, value)
  <2>1. \E f : Valued(row, f)
    BY SomeValues
  <2> QED BY <2>1, Zenon
<1>2. ASSUME NEW c PROVE Value(row, c) = value[c]
  BY DEF Value, Valued, ValueOf
<1> HIDE DEF value
<1> QED BY <1>1, <1>2

-------------------------------------------------------------------------------
(* Requests. *)

\* What a request consists of, its criteria those that are meant.
Proper(req) ==
    /\ req.or = req.means /\ Sound(req.means)
    /\ req.cond \in Conds \cup {NoCond} /\ req.filter \in Filters
    /\ req.keyset \in Keysets \cup {<< >>} /\ req.all \in BOOLEAN

LEMMA SoundCalls ==
    /\ Sound(<< >>)
    /\ \A call \in Methods \cup ByKey : call.means # NoTree => Sound(call.means.or)
<1>1. Sound(<< >>)
  BY DEF Sound
<1>2. \A call \in Methods \cup ByKey : call.means # NoTree => Sound(call.means.or)
  BY QueryAssumption DEF Sound
<1> QED BY <1>1, <1>2

LEMMA NothingAsked == ASSUME NEW row PROVE Asks(row, NoCond)
<1>1. NoCond \in CondTrees
  BY QueryAssumption, LevelsInTrees, CondLevels, CondAssumption DEF Basic
<1>2. Render(row, NoCond) = Shown(Value(row, NoCond))
  BY <1>1, CondBinds
<1>3. PICK value : Valued(row, value) /\ Value(row, NoCond) = value[NoCond]
  BY ValueSteps, <1>1
<1>4. value[NoCond] = Absent
  BY <1>1, <1>3 DEF Valued, ValueOf
<1> QED BY <1>3, <1>4 DEF Asks

\* A Cond on top of another asks for what both do.
LEMMA BothAsked ==
    ASSUME NEW row, NEW c \in CondTrees, NEW d \in CondTrees,
           AndOf(<<c, d>>) \in CondTrees, NoCond # AndOf(<<c, d>>)
    PROVE  Asks(row, AndOf(<<c, d>>)) <=> Asks(row, c) /\ Asks(row, d)
<1> DEFINE both == AndOf(<<c, d>>)
           v == Value(row, c)
           w == Value(row, d)
           V == {v, w} \ {Absent}
<1>1. PICK value : /\ Valued(row, value)
                   /\ \A e \in CondTrees : Value(row, e) = value[e]
  BY ValueSteps
<1>2. v = value[c] /\ w = value[d] /\ Value(row, both) = value[both]
  BY <1>1
<1>3. v \in Truths /\ w \in Truths
  BY CondBinds
<1>4. value[both] = ValueOf(row, value, both)
  BY <1>1 DEF Valued
<1>5. both.kind = "and" /\ both.conds = <<c, d>> /\ both # NoCond
  BY DEF AndOf
<1> HIDE DEF both, v, w
<1>6. {value[both.conds[i]] : i \in DOMAIN both.conds} = {v, w}
  <2>1. DOMAIN both.conds = {1, 2} /\ both.conds[1] = c /\ both.conds[2] = d
    BY <1>5
  <2> QED BY <1>2, <2>1
<1>7. Value(row, both) = Joint("and", V)
  BY <1>2, <1>4, <1>5, <1>6 DEF ValueOf
<1>8. V \in SUBSET Truth
  BY <1>3 DEF Truths
<1>9. Joint("and", V) \in {"T", Absent} <=> \A u \in V : u = "T"
  <2> HIDE DEF V
  <2>1. CASE V = {}
    BY <2>1 DEF Joint
  <2>2. CASE V # {}
    <3>1. Joint("and", V) = Conj(V) /\ Conj(V) \in Truth
      BY <2>2, ConjDisjIn DEF Joint
    <3>2. Absent \notin Truth
      BY DEF Absent, Truth
    <3> QED BY <1>8, <3>1, <3>2, ConjTrue
  <2> QED BY <2>1, <2>2
<1>10. (\A u \in V : u = "T") <=> v \in {"T", Absent} /\ w \in {"T", Absent}
  BY DEF Absent
<1> HIDE DEF V
<1> QED BY <1>7, <1>9, <1>10 DEF Asks, both, v, w

\* A statement's Cond, with the filter on top.
LEMMA FilterOnTop ==
    ASSUME NEW row, NEW cond \in Conds \cup {NoCond}, NEW filter \in Filters
    PROVE  /\ WithFilter(cond, filter) \in CondTrees
           /\ Asks(row, WithFilter(cond, filter)) <=> Asks(row, cond) /\ Asks(row, filter)
<1>1. /\ cond \in CondTrees /\ filter \in CondTrees /\ WithFilter(cond, filter) \in CondTrees
      /\ NoCond # AndOf(<<cond, filter>>)
  BY QueryAssumption
<1>2. CASE filter = NoCond
  BY <1>1, <1>2, NothingAsked DEF WithFilter
<1>3. CASE filter # NoCond /\ cond = NoCond
  BY <1>1, <1>3, NothingAsked DEF WithFilter
<1>4. CASE filter # NoCond /\ cond # NoCond
  <2>1. WithFilter(cond, filter) = AndOf(<<cond, filter>>)
    BY <1>4 DEF WithFilter
  <2> QED BY <1>1, <2>1, BothAsked
<1> QED BY <1>2, <1>3, <1>4

\* The four texts of a request's clause, each of which says what is asked.
LEMMA ClauseParts ==
    ASSUME NEW row \in Stored, NEW req, Proper(req)
    PROVE  LET criteria == Criteria(row, req.or)
               cond     == Render(row, WithFilter(req.cond, req.filter))
               keyset   == KeysetOf(row, req.keyset)
               soft     == IF req.all THEN Empty ELSE << Truly(row.live) >>
           IN /\ criteria \in Text /\ Len(criteria) = Len(req.means)
              /\ \A i \in 1 .. Len(criteria) : criteria[i] = "T" => Meets(row, req.means[i])
              /\ Selects(criteria) <=> MeetsCriteria(row, req.means)
              /\ Single(cond) /\ (Selects(cond) <=> Asks(row, req.cond) /\ Asks(row, req.filter))
              /\ Single(keyset) /\ (Selects(keyset) <=> After(row, req.keyset))
              /\ Single(soft) /\ (Selects(soft) <=> row.live \/ req.all)
              /\ Takes(row, req) <=> Selects(Where(criteria, cond, keyset, soft))
<1> DEFINE criteria == Criteria(row, req.or)
           cond     == Render(row, WithFilter(req.cond, req.filter))
           keyset   == KeysetOf(row, req.keyset)
           soft     == IF req.all THEN Empty ELSE << Truly(row.live) >>
<1>1. /\ criteria \in Text /\ Len(criteria) = Len(req.means)
      /\ \A i \in 1 .. Len(criteria) : criteria[i] = "T" => Meets(row, req.means[i])
      /\ Selects(criteria) <=> MeetsCriteria(row, req.means)
  BY CriteriaSay DEF Proper
<1>2. Single(cond) /\ (Selects(cond) <=> Asks(row, req.cond) /\ Asks(row, req.filter))
  <2>1. req.cond \in Conds \cup {NoCond} /\ req.filter \in Filters
    BY DEF Proper
  <2> DEFINE both == WithFilter(req.cond, req.filter)
  <2>2. both \in CondTrees /\ (Asks(row, both) <=> Asks(row, req.cond) /\ Asks(row, req.filter))
    BY <2>1, FilterOnTop
  <2> HIDE DEF both
  <2>3. Single(Render(row, both)) /\ (Selects(Render(row, both)) <=> Asks(row, both))
    BY <2>2, CondSelects
  <2> QED BY <2>2, <2>3 DEF both
<1>3. Single(keyset) /\ (Selects(keyset) <=> After(row, req.keyset))
  <2> DEFINE ks == req.keyset
  <2>1. ks \in Seq(Range(ks)) /\ \A key \in Range(ks) : {key.val, row[key.prop]} \subseteq Numeric
    <3>1. CASE ks = << >>
      BY <3>1 DEF Range
    <3>2. CASE ks # << >>
      BY <3>2, QueryAssumption DEF Proper, Numeric
    <3> QED BY <3>1, <3>2
  <2> HIDE DEF ks
  <2>2. Single(KeysetOf(row, ks)) /\ (Selects(KeysetOf(row, ks)) <=> After(row, ks))
    BY <2>1, KeysetSelects
  <2> QED BY <2>2 DEF ks
<1>4. Single(soft) /\ (Selects(soft) <=> row.live \/ req.all)
  <2>1. CASE req.all
    BY <2>1, NothingShown DEF Single, Selects, Empty
  <2>2. CASE ~req.all
    <3>1. Truly(row.live) \in Truth /\ (Truly(row.live) = "T" <=> row.live)
      BY DEF Truly, Truth
    <3>2. soft = Shown(Truly(row.live))
      BY <2>2, <3>1, ShownIs
    <3>3. Single(soft) /\ (Selects(soft) <=> Truly(row.live) = "T")
      <4> DEFINE v == Truly(row.live)
      <4>1. v \in Truth
        BY <3>1
      <4> HIDE DEF v
      <4>2. Single(Shown(v)) /\ (Selects(Shown(v)) <=> v = "T")
        BY <4>1, ShownIs, ShownSingle DEF Selects, Truths
      <4> QED BY <3>2, <4>2 DEF v
    <3> QED BY <2>2, <3>1, <3>3
  <2> QED BY <2>1, <2>2 DEF Proper
<1>5. Takes(row, req) <=> Selects(Where(criteria, cond, keyset, soft))
  BY DEF Takes, Clause
<1> QED BY <1>1, <1>2, <1>3, <1>4, <1>5

\* A statement without Or takes the rows that are asked for.
LEMMA TakesWanted ==
    ASSUME NEW row \in Stored, NEW req, Proper(req), OneAlternative(req)
    PROVE  Takes(row, req) <=> Wanted(row, req)
<1> DEFINE criteria == Criteria(row, req.or)
           cond     == Render(row, WithFilter(req.cond, req.filter))
           keyset   == KeysetOf(row, req.keyset)
           soft     == IF req.all THEN Empty ELSE << Truly(row.live) >>
<1>1. /\ criteria \in Text /\ Len(criteria) = Len(req.means)
      /\ Selects(criteria) <=> MeetsCriteria(row, req.means)
      /\ Single(cond) /\ (Selects(cond) <=> Asks(row, req.cond) /\ Asks(row, req.filter))
      /\ Single(keyset) /\ (Selects(keyset) <=> After(row, req.keyset))
      /\ Single(soft) /\ (Selects(soft) <=> row.live \/ req.all)
      /\ Takes(row, req) <=> Selects(Where(criteria, cond, keyset, soft))
  BY ClauseParts
<1> HIDE DEF criteria, cond, keyset, soft
<1>2. Single(criteria)
  BY <1>1 DEF Single, OneAlternative
<1>3. Selects(Where(criteria, cond, keyset, soft)) <=>
         Selects(criteria) /\ Selects(cond) /\ Selects(keyset) /\ Selects(soft)
  BY <1>1, <1>2, OneAlternativeRestricts
<1> QED BY <1>1, <1>3 DEF Wanted

\* A statement with Or takes what is asked for, and nothing that does not meet
\* the criteria.
LEMMA TakesMore ==
    ASSUME NEW row \in Stored, NEW req, Proper(req)
    PROVE  /\ Wanted(row, req) => Takes(row, req)
           /\ Takes(row, req) => MeetsCriteria(row, req.means)
<1>1. CASE OneAlternative(req)
  BY <1>1, TakesWanted DEF Wanted
<1>2. CASE ~OneAlternative(req)
  <2> DEFINE criteria == Criteria(row, req.or)
             cond     == Render(row, WithFilter(req.cond, req.filter))
             keyset   == KeysetOf(row, req.keyset)
             soft     == IF req.all THEN Empty ELSE << Truly(row.live) >>
             n        == Len(criteria)
  <2>1. /\ criteria \in Text /\ n = Len(req.means)
        /\ Selects(criteria) <=> MeetsCriteria(row, req.means)
        /\ Single(cond) /\ (Selects(cond) <=> Asks(row, req.cond) /\ Asks(row, req.filter))
        /\ Single(keyset) /\ (Selects(keyset) <=> After(row, req.keyset))
        /\ Single(soft) /\ (Selects(soft) <=> row.live \/ req.all)
        /\ Takes(row, req) <=> Selects(Where(criteria, cond, keyset, soft))
    BY ClauseParts
  <2> HIDE DEF criteria, cond, keyset, soft
  <2>2. n \in Nat /\ n >= 2
    <3>1. n \in Nat
      BY <2>1 DEF Text
    <3> QED BY <1>2, <2>1, <3>1 DEF OneAlternative
  <2>3. Selects(Where(criteria, cond, keyset, soft)) <=>
           \/ \E i \in 1 .. n - 1 : criteria[i] = "T"
           \/ criteria[n] = "T" /\ Selects(cond) /\ Selects(keyset) /\ Selects(soft)
    BY <2>1, <2>2, SeveralAlternativesEscape
  <2>4. Selects(criteria) <=> \E i \in 1 .. n : criteria[i] = "T"
    <3>1. Selects(criteria) <=> n = 0 \/ \E i \in 1 .. n : criteria[i] = "T"
      BY <2>1, SelectsTrue
    <3> QED BY <2>2, <3>1
  <2> HIDE DEF n
  <2>5. (\E i \in 1 .. n : criteria[i] = "T") <=> (\E i \in 1 .. n - 1 : criteria[i] = "T") \/ criteria[n] = "T"
    BY <2>2
  <2> QED BY <2>1, <2>3, <2>4, <2>5 DEF Wanted
<1> QED BY <1>1, <1>2

\* A row that the soft delete hides is taken only if it meets an alternative
\* other than the last one.
LEMMA TakesHidden ==
    ASSUME NEW row \in Stored, NEW req, Proper(req), Takes(row, req), ~row.live, ~req.all
    PROVE  \E i \in 1 .. Len(req.means) - 1 : Meets(row, req.means[i])
<1> DEFINE criteria == Criteria(row, req.or)
           cond     == Render(row, WithFilter(req.cond, req.filter))
           keyset   == KeysetOf(row, req.keyset)
           soft     == IF req.all THEN Empty ELSE << Truly(row.live) >>
<1>1. /\ criteria \in Text /\ Len(criteria) = Len(req.means)
      /\ \A i \in 1 .. Len(criteria) : criteria[i] = "T" => Meets(row, req.means[i])
      /\ Single(cond) /\ Single(keyset) /\ Single(soft)
      /\ Selects(soft) <=> row.live \/ req.all
      /\ Takes(row, req) <=> Selects(Where(criteria, cond, keyset, soft))
  BY ClauseParts
<1> HIDE DEF criteria, cond, keyset, soft
<1>2. ~OneAlternative(req)
  BY TakesWanted DEF Wanted
<1>3. Len(criteria) \in Nat /\ Len(criteria) >= 2
  <2>1. Len(criteria) \in Nat
    BY <1>1 DEF Text
  <2> QED BY <1>1, <1>2, <2>1 DEF OneAlternative
<1>4. \E i \in 1 .. Len(criteria) - 1 : criteria[i] = "T"
  BY <1>1, <1>3, SeveralAlternativesEscape
<1>5. PICK i \in 1 .. Len(criteria) - 1 : criteria[i] = "T"
  BY <1>4
<1>6. i \in 1 .. Len(criteria)
  BY <1>3
<1> QED BY <1>1, <1>5, <1>6

-------------------------------------------------------------------------------
(* The table and the call in progress. *)

Marked(row) == [row EXCEPT !.live = FALSE]

LEMMA MarkedIsStored ==
    ASSUME NEW row \in Stored
    PROVE  Marked(row) \in Stored /\ Marked(row).id = row.id /\ Marked(row).live = FALSE
<1>1. PICK r \in Rows : row = r \/ row = Marked(r)
  BY DEF Stored, Marked
<1>2. r = [c \in DOMAIN r |-> r[c]] /\ {"id", "live"} \subseteq DOMAIN r
  BY QueryAssumption
<1>3. Marked(r) = [c \in DOMAIN r |-> IF c = "live" THEN FALSE ELSE r[c]]
  BY <1>2 DEF Marked
<1>4. DOMAIN Marked(r) = DOMAIN r
  BY <1>3
<1>5. Marked(Marked(r)) = [c \in DOMAIN r |-> IF c = "live" THEN FALSE ELSE Marked(r)[c]]
  BY <1>3, <1>4 DEF Marked
<1>6. Marked(Marked(r)) = Marked(r)
  BY <1>3, <1>5
<1>7. Marked(r).id = r.id /\ Marked(r).live = FALSE
  BY <1>2, <1>3
<1>8. Marked(r) \in Stored
  BY DEF Stored, Marked
<1> QED BY <1>1, <1>6, <1>7, <1>8

LEMMA KnownVerbs == Range(Verbs) = {"find", "count", "exists", "delete"}
<1>1. DOMAIN Verbs = {"Find", "Read", "Get", "Query", "Search", "Stream", "Count", "Exists", "Delete", "Remove"}
  BY DEF Verbs
<1>2. /\ Verbs["Find"] = "find" /\ Verbs["Read"] = "find" /\ Verbs["Get"] = "find"
      /\ Verbs["Query"] = "find" /\ Verbs["Search"] = "find" /\ Verbs["Stream"] = "find"
      /\ Verbs["Count"] = "count" /\ Verbs["Exists"] = "exists"
      /\ Verbs["Delete"] = "delete" /\ Verbs["Remove"] = "delete"
  BY DEF Verbs
<1> HIDE DEF Verbs
<1> QED BY <1>1, <1>2 DEF Range

LEMMA TreeVerbs ==
    ASSUME NEW call, Understood(call) # NoTree
    PROVE  Understood(call).verb \in Range(Verbs)
<1> DEFINE tree == Parse(call.name)
           name == call.name
<1>1. tree # NoTree /\ Understood(call) = [tree EXCEPT !.or = WithArgs(@, call.given)]
  BY DEF Understood
<1>2. name[1] \in DOMAIN Verbs
  BY <1>1 DEF Parse
<1>3. \E subject, or, order : tree = Tree(Verbs[name[1]], subject, or, order)
  BY <1>1 DEF Parse
<1>4. PICK subject, or, order : tree = Tree(Verbs[name[1]], subject, or, order)
  BY <1>3
<1> HIDE DEF tree
<1>5. tree.verb = Verbs[name[1]] /\ {"verb", "or"} \subseteq DOMAIN tree
  BY <1>4 DEF Tree
<1>6. Understood(call).verb = tree.verb
  BY <1>1, <1>5
<1> QED BY <1>2, <1>5, <1>6 DEF Range

\* What is read is what a caller has called.
Calling ==
    last.verb = "read" => last.call \in Methods \cup ByKey /\ last.tree = Understood(last.call)

LEMMA RequestVerbs ==
    /\ \A req \in CondRequests \cup CondWindows : req.verb \in Range(Verbs)
    /\ Calling /\ CanRun => \A req \in DerivedRequests \cup DerivedWindows : req.verb \in Range(Verbs)
<1>1. \A req \in CondRequests \cup CondWindows : req.verb \in Range(Verbs)
  BY KnownVerbs DEF CondRequests, CondWindows, Requests
<1>2. ASSUME Calling, CanRun, NEW req \in DerivedRequests \cup DerivedWindows
      PROVE  req.verb \in Range(Verbs)
  <2>1. req.verb = last.tree.verb
    BY DEF DerivedRequests, DerivedWindows, Requests
  <2>2. last.tree.verb \in Range(Verbs)
    BY <1>2, TreeVerbs DEF Calling, CanRun
  <2> QED BY <2>1, <2>2
<1> QED BY <1>1, <1>2

\* What a step does.
LEMMA StepKinds ==
    ASSUME Calling, Next
    PROVE  \/ \E call \in Methods \cup ByKey : Derive(call)
           \/ \E req : req.verb \in Range(Verbs) /\ Run(req)
           \/ last' = Idle /\ UNCHANGED rows
           \/ last'.verb = "scanned" /\ UNCHANGED rows
<1>1. CASE \E call \in Methods \cup ByKey : Derive(call)
  BY <1>1
<1>2. CASE CanRun /\ \E req \in DerivedRequests : Run(req)
  BY <1>2, RequestVerbs
<1>3. CASE CanRun /\ \E req \in DerivedWindows : Select(req)
  BY <1>3, RequestVerbs DEF Run
<1>4. CASE last = Idle /\ \E req \in CondRequests : Run(req)
  BY <1>4, RequestVerbs
<1>5. CASE last = Idle /\ \E req \in CondWindows : Select(req)
  BY <1>5, RequestVerbs DEF Run
<1>6. CASE \E field \in Fields, via \in {"binary", "text", "bit8", "bit16"} : ScanAll(field, via)
  BY <1>6 DEF ScanAll
<1>7. CASE Return
  BY <1>7 DEF Return
<1> QED BY <1>1, <1>2, <1>3, <1>4, <1>5, <1>6, <1>7 DEF Next

LEMMA Initially == Init => TypeOK /\ Calling /\ TakenAgainOnlyByOr
<1> SUFFICES ASSUME Init PROVE TypeOK /\ Calling /\ TakenAgainOnlyByOr
  OBVIOUS
<1>1. last.verb = "none"
  BY DEF Init, Idle
<1>2. rows \subseteq Rows /\ \A r, s \in rows : r.id = s.id => r = s
  <2>1. PICK k \in 0 .. MaxRows : rows \in {Range(t) : t \in [1 .. k -> Rows]}
    BY DEF Init
  <2>2. PICK t \in [1 .. k -> Rows] : rows = Range(t)
    BY <2>1
  <2>3. rows \subseteq Rows
    BY <2>2 DEF Range
  <2> QED BY <2>3 DEF Init
<1>3. ~Ran(last)
  BY <1>1, KnownVerbs DEF Ran
<1> QED BY <1>1, <1>2, <1>3 DEF TypeOK, Calling, TakenAgainOnlyByOr, Stored

\* A statement leaves a table of rows with distinct keys.
LEMMA RunKeepsTypes ==
    ASSUME TypeOK, NEW req, req.verb \in Range(Verbs), Run(req)
    PROVE  TypeOK' /\ Calling'
<1> DEFINE T == Taken(req)
<1>1. rows \subseteq Stored /\ T \subseteq rows /\ \A r, s \in rows : r.id = s.id => r = s
  BY DEF TypeOK, Taken
<1>2. rows' = rows \/ rows' = (rows \ T) \cup {Marked(row) : row \in T} \/ rows' = rows \ T
  BY DEF Run, Select, DeleteSoft, DeleteHard, Refuse, Marked
<1> HIDE DEF T
<1>3. \A row \in rows : Marked(row) \in Stored /\ Marked(row).id = row.id
  BY <1>1, MarkedIsStored
<1>4. rows' \subseteq Stored
  BY <1>1, <1>2, <1>3
<1>5. \A r, s \in rows' : r.id = s.id => r = s
  <2>1. CASE rows' \subseteq rows
    BY <1>1, <2>1
  <2>2. CASE rows' = (rows \ T) \cup {Marked(row) : row \in T}
    <3> SUFFICES ASSUME NEW r \in rows', NEW s \in rows', r.id = s.id PROVE r = s
      OBVIOUS
    <3>1. PICK p \in rows : p.id = r.id /\ r = IF p \in T THEN Marked(p) ELSE p
      BY <1>1, <1>3, <2>2
    <3>2. PICK q \in rows : q.id = s.id /\ s = IF q \in T THEN Marked(q) ELSE q
      BY <1>1, <1>3, <2>2
    <3>3. p = q
      BY <1>1, <3>1, <3>2
    <3> QED BY <3>1, <3>2, <3>3
  <2> QED BY <1>2, <2>1, <2>2
<1>6. \/ last'.verb = "refused"
      \/ last'.verb = req.verb /\ last'.took = T
  BY DEF Run, Select, DeleteSoft, DeleteHard, Refuse, Statement, T
<1>7. last'.verb \in {"refused"} \cup Range(Verbs) /\ (Ran(last') => last'.took \subseteq Stored)
  BY <1>1, <1>6, KnownVerbs DEF Ran
<1>8. Calling'
  BY <1>7, KnownVerbs DEF Calling
<1> QED BY <1>4, <1>5, <1>7, <1>8 DEF TypeOK, Ran

LEMMA StepKeepsTypes ==
    ASSUME TypeOK, Calling, [Next]_vars
    PROVE  TypeOK' /\ Calling'
<1>1. CASE UNCHANGED vars
  BY <1>1 DEF vars, TypeOK, Calling, Ran
<1>2. CASE Next
  <2>1. CASE \E call \in Methods \cup ByKey : Derive(call)
    <3>1. PICK call \in Methods \cup ByKey : Derive(call)
      BY <2>1
    <3>2. /\ last'.verb = "read" /\ last'.call = call /\ last'.tree = Understood(call)
          /\ rows' = rows
      BY <3>1 DEF Derive
    <3> QED BY <3>2, KnownVerbs DEF TypeOK, Calling, Ran
  <2>2. CASE \E req : req.verb \in Range(Verbs) /\ Run(req)
    BY <2>2, RunKeepsTypes
  <2>3. CASE last' = Idle /\ UNCHANGED rows
    BY <2>3, KnownVerbs DEF TypeOK, Calling, Ran, Idle
  <2>4. CASE last'.verb = "scanned" /\ UNCHANGED rows
    BY <2>4, KnownVerbs DEF TypeOK, Calling, Ran
  <2> QED BY <1>2, <2>1, <2>2, <2>3, <2>4, StepKinds
<1> QED BY <1>1, <1>2

\* The table is always a set of rows with distinct keys, marked or not, and a
\* statement takes rows, whatever methods, Conds, filters and keysets there are.
THEOREM QueryTypeCorrect == Spec => []TypeOK
<1>1. Init => TypeOK /\ Calling
  BY Initially
<1>2. TypeOK /\ Calling /\ [Next]_vars => (TypeOK /\ Calling)'
  BY StepKeepsTypes
<1> QED BY <1>1, <1>2, PTL DEF Spec

\* If names are read as they are spelled, a statement is of a proper request.
LEMMA ProperRequests ==
    ASSUME Calling, NamesAreReadAsSpelled
    PROVE  /\ \A req \in CondRequests \cup CondWindows : Proper(req)
           /\ CanRun => \A req \in DerivedRequests \cup DerivedWindows : Proper(req)
<1>1. ASSUME NEW req \in CondRequests \cup CondWindows PROVE Proper(req)
  BY SoundCalls DEF CondRequests, CondWindows, Requests, Proper
<1>2. ASSUME CanRun, NEW req \in DerivedRequests \cup DerivedWindows PROVE Proper(req)
  <2>1. /\ last.call \in Methods \cup ByKey /\ last.tree = last.call.means
        /\ last.call.means # NoTree
    BY <1>2 DEF Calling, CanRun, NamesAreReadAsSpelled
  <2>2. Sound(last.call.means.or) /\ last.tree.or = last.call.means.or
    BY <2>1, SoundCalls
  <2>3. /\ req.or = last.tree.or /\ req.means = last.call.means.or /\ req.cond = NoCond
        /\ req.filter \in Filters /\ req.keyset \in Keysets \cup {<< >>} /\ req.all \in BOOLEAN
    BY DEF DerivedRequests, DerivedWindows, Requests
  <2> QED BY <2>2, <2>3 DEF Proper
<1> QED BY <1>1, <1>2

\* The step that runs a statement.
LEMMA StatementSteps ==
    ASSUME Calling, NamesAreReadAsSpelled, Next, Ran(last')
    PROVE  /\ Proper(last'.req) /\ last'.took = Taken(last'.req)
           /\ last'.verb = "delete" =>
                 rows' = IF last'.req.all THEN rows \ last'.took
                         ELSE (rows \ last'.took) \cup {Marked(row) : row \in last'.took}
<1>1. ASSUME NEW req, Proper(req), Run(req)
      PROVE  /\ Proper(last'.req) /\ last'.took = Taken(last'.req)
             /\ last'.verb = "delete" =>
                   rows' = IF last'.req.all THEN rows \ last'.took
                           ELSE (rows \ last'.took) \cup {Marked(row) : row \in last'.took}
  <2>1. CASE Select(req)
    BY <1>1, <2>1 DEF Select, Statement
  <2>2. CASE DeleteSoft(req)
    BY <1>1, <2>2 DEF DeleteSoft, Statement, Marked
  <2>3. CASE DeleteHard(req)
    BY <1>1, <2>3 DEF DeleteHard, Statement
  <2>4. CASE Refuse(req)
    BY <2>4, KnownVerbs DEF Refuse, Ran
  <2> QED BY <1>1, <2>1, <2>2, <2>3, <2>4 DEF Run
<1>2. CASE \E call \in Methods \cup ByKey : Derive(call)
  BY <1>2, KnownVerbs DEF Derive, Ran
<1>3. CASE CanRun /\ \E req \in DerivedRequests : Run(req)
  BY <1>1, <1>3, ProperRequests
<1>4. CASE CanRun /\ \E req \in DerivedWindows : Select(req)
  BY <1>1, <1>4, ProperRequests DEF Run
<1>5. CASE last = Idle /\ \E req \in CondRequests : Run(req)
  BY <1>1, <1>5, ProperRequests
<1>6. CASE last = Idle /\ \E req \in CondWindows : Select(req)
  BY <1>1, <1>6, ProperRequests DEF Run
<1>7. CASE \E field \in Fields, via \in {"binary", "text", "bit8", "bit16"} : ScanAll(field, via)
  BY <1>7, KnownVerbs DEF ScanAll, Ran
<1>8. CASE Return
  BY <1>8, KnownVerbs DEF Return, Ran, Idle
<1> QED BY <1>2, <1>3, <1>4, <1>5, <1>6, <1>7, <1>8 DEF Next

\* A statement of one alternative takes what is asked for, and one of several
\* all that is asked for and nothing that does not meet the criteria.
LEMMA StepTakes ==
    ASSUME TypeOK, Calling, NamesAreReadAsSpelled, Next, Ran(last')
    PROVE  /\ OneAlternative(last'.req) => last'.took = {row \in rows : Wanted(row, last'.req)}
           /\ {row \in rows : Wanted(row, last'.req)} \subseteq last'.took
           /\ \A row \in last'.took : MeetsCriteria(row, last'.req.means)
<1> DEFINE req == last'.req
<1>1. Proper(req) /\ last'.took = {row \in rows : Takes(row, req)} /\ rows \subseteq Stored
  BY StatementSteps DEF Taken, TypeOK
<1> HIDE DEF req
<1>2. \A row \in rows : /\ Wanted(row, req) => Takes(row, req)
                        /\ Takes(row, req) => MeetsCriteria(row, req.means)
  BY <1>1, TakesMore
<1>3. OneAlternative(req) => \A row \in rows : Takes(row, req) <=> Wanted(row, req)
  BY <1>1, TakesWanted
<1> QED BY <1>1, <1>2, <1>3 DEF req

\* A row that is marked is not taken again by what marked it, unless it meets
\* an alternative that the soft delete is not put to.
LEMMA DeleteIsOnce ==
    ASSUME TypeOK, Calling, NamesAreReadAsSpelled, TakenAgainOnlyByOr, [Next]_vars
    PROVE  TakenAgainOnlyByOr'
<1>1. CASE UNCHANGED vars
  BY <1>1 DEF vars, TakenAgainOnlyByOr, Taken
<1>2. CASE Next
  <2> SUFFICES ASSUME last'.verb = "delete"
               PROVE  \A row \in rows' : Takes(row, last'.req) =>
                         /\ ~last'.req.all /\ ~row.live
                         /\ \E i \in 1 .. Len(last'.req.means) - 1 : Meets(row, last'.req.means[i])
    BY DEF TakenAgainOnlyByOr, Taken
  <2> DEFINE req == last'.req
             T == last'.took
  <2>1. Ran(last')
    BY KnownVerbs DEF Ran
  <2>2. /\ Proper(req) /\ T = {row \in rows : Takes(row, req)} /\ rows \subseteq Stored
        /\ rows' = IF req.all THEN rows \ T ELSE (rows \ T) \cup {Marked(row) : row \in T}
    BY <1>2, <2>1, StatementSteps DEF Taken, TypeOK
  <2> HIDE DEF req, T
  <2>3. ASSUME NEW row \in rows', Takes(row, req)
        PROVE  ~req.all /\ \E before \in T : row = Marked(before)
    BY <2>2, <2>3
  <2>4. ASSUME NEW row \in rows', Takes(row, req)
        PROVE  /\ ~req.all /\ ~row.live
               /\ \E i \in 1 .. Len(req.means) - 1 : Meets(row, req.means[i])
    <3>1. row \in Stored /\ row.live = FALSE
      BY <2>2, <2>3, <2>4, MarkedIsStored
    <3> QED BY <2>2, <2>3, <2>4, <3>1, TakesHidden
  <2> QED BY <2>4 DEF req
<1> QED BY <1>1, <1>2

\* A delete leaves nothing for the same request to take but rows that it has
\* marked and that meet an alternative other than the last one of a method with
\* Or, as far as names are read as they are spelled.
THEOREM DeletesAreDone == Spec /\ []NamesAreReadAsSpelled => []TakenAgainOnlyByOr
<1>1. Init => TypeOK /\ Calling /\ TakenAgainOnlyByOr
  BY Initially
<1>2. TypeOK /\ Calling /\ [Next]_vars => (TypeOK /\ Calling)'
  BY StepKeepsTypes
<1>3. TypeOK /\ Calling /\ NamesAreReadAsSpelled /\ TakenAgainOnlyByOr /\ [Next]_vars => TakenAgainOnlyByOr'
  BY DeleteIsOnce
<1> QED BY <1>1, <1>2, <1>3, PTL DEF Spec

\* A Cond query, and a method whose name has no Or, takes the rows that are
\* asked for, whatever the operators, Cond trees, filters and keysets.
THEOREM TakesExactly == Spec /\ []NamesAreReadAsSpelled => TakesWhatIsAsked
<1>1. Init => TypeOK /\ Calling
  BY Initially
<1>2. TypeOK /\ Calling /\ [Next]_vars => (TypeOK /\ Calling)'
  BY StepKeepsTypes
<1>3. TypeOK /\ Calling /\ NamesAreReadAsSpelled /\ [Next]_vars =>
         [Ran(last') /\ OneAlternative(last'.req)
             => last'.took = {row \in rows : Wanted(row, last'.req)}]_vars
  BY StepTakes
<1> QED BY <1>1, <1>2, <1>3, PTL DEF Spec, TakesWhatIsAsked

\* A method with Or misses no row that is asked for, and takes none that does
\* not meet its criteria.
THEOREM OrTakesAll == Spec /\ []NamesAreReadAsSpelled => OrMissesNothing
<1>1. Init => TypeOK /\ Calling
  BY Initially
<1>2. TypeOK /\ Calling /\ [Next]_vars => (TypeOK /\ Calling)'
  BY StepKeepsTypes
<1>3. TypeOK /\ Calling /\ NamesAreReadAsSpelled /\ [Next]_vars =>
         [Ran(last') =>
            /\ {row \in rows : Wanted(row, last'.req)} \subseteq last'.took
            /\ \A row \in last'.took : MeetsCriteria(row, last'.req.means)]_vars
  BY StepTakes
<1> QED BY <1>1, <1>2, <1>3, PTL DEF Spec, OrMissesNothing

-------------------------------------------------------------------------------
(* Numbers: what digits and bits stand for, and what a field keeps of it. *)

\* The numbers that the first digits write.
Sums(digits, base, f) ==
    /\ f \in [0 .. Len(digits) -> Int]
    /\ f[0] = 0
    /\ \A i \in 1 .. Len(digits) : f[i] = base * f[i - 1] + digits[i]

WrittenInSteps(digits, base) ==
    \E f : Sums(digits, base, f) /\ Written(digits, base) = f[Len(digits)]

LEMMA WrittenSteps ==
    ASSUME NEW digits \in Seq(Int), NEW base \in Nat
    PROVE  WrittenInSteps(digits, base)
<1> DEFINE n == Len(digits)
           next == [k \in 1 .. n |-> [u \in Int |-> base * u + digits[k]]]
           Made(f) == f = [i \in 0 .. n |-> IF i = 0 THEN 0 ELSE base * f[i - 1] + digits[i]]
<1>1. n \in Nat /\ \A i \in 1 .. n : digits[i] \in Int
  OBVIOUS
<1>2. Written(digits, base) = (CHOOSE f : Made(f))[n]
  BY DEF Written
<1> HIDE DEF n
<1>3. next \in [1 .. n -> [Int -> Int]]
  <2>1. ASSUME NEW k \in 1 .. n, NEW u \in Int PROVE base * u + digits[k] \in Int
    BY <1>1
  <2> QED BY <2>1
<1>4. PICK g \in [0 .. n -> Int] : g[0] = 0 /\ \A k \in 1 .. n : g[k] = next[k][g[k - 1]]
  <2> DEFINE T == Int
  <2> HIDE DEF next
  <2>1. 0 \in T /\ n \in Nat /\ next \in [1 .. n -> [T -> T]]
    BY <1>1, <1>3
  <2>2. Lead(T, 0, n, next)
    <3> HIDE DEF T
    <3> QED BY <2>1, StepByStep
  <2> QED BY <2>2 DEF Lead
<1>5. ASSUME NEW k \in 1 .. n PROVE g[k] = base * g[k - 1] + digits[k]
  <2>1. k - 1 \in 0 .. n /\ g[k - 1] \in Int
    BY <1>1
  <2>2. next[k][g[k - 1]] = base * g[k - 1] + digits[k]
    BY <2>1
  <2> QED BY <1>4, <2>2
<1>6. \E f : Made(f)
  <2>1. ASSUME NEW i \in 0 .. n PROVE g[i] = IF i = 0 THEN 0 ELSE base * g[i - 1] + digits[i]
    BY <1>1, <1>4, <1>5
  <2>2. g = [i \in 0 .. n |-> g[i]]
    OBVIOUS
  <2>3. Made(g)
    BY <2>1, <2>2
  <2> QED BY <2>3
<1> DEFINE f == CHOOSE f : Made(f)
<1>7. Made(f)
  BY <1>6, Zenon
<1>8. Written(digits, base) = f[n]
  BY <1>2
<1> HIDE DEF f
<1>9. f[0] = 0 /\ (\A i \in 1 .. n : f[i] = base * f[i - 1] + digits[i])
      /\ f = [i \in 0 .. n |-> f[i]]
  <2>1. \A i \in 0 .. n : f[i] = IF i = 0 THEN 0 ELSE base * f[i - 1] + digits[i]
    BY <1>7
  <2>2. 0 \in 0 .. n /\ \A i \in 1 .. n : i \in 0 .. n /\ i # 0
    BY <1>1
  <2> QED BY <1>7, <2>1, <2>2
<1> DEFINE S == {k \in Nat : k <= n => f[k] \in Int}
<1>10. 0 \in S
  BY <1>9
<1>11. ASSUME NEW k \in Nat, k \in S PROVE k + 1 \in S
  <2> SUFFICES ASSUME k + 1 <= n PROVE f[k + 1] \in Int
    OBVIOUS
  <2>1. k + 1 \in 1 .. n /\ (k + 1) - 1 = k /\ f[k] \in Int /\ digits[k + 1] \in Int
    BY <1>1, <1>11
  <2>2. f[k + 1] = base * f[k] + digits[k + 1]
    BY <1>9, <2>1
  <2> QED BY <2>1, <2>2
<1>12. Nat \subseteq S
  <2> HIDE DEF S
  <2> QED BY <1>10, <1>11, Induction
<1>13. f \in [0 .. n -> Int]
  BY <1>1, <1>9, <1>12
<1>14. Sums(digits, base, f)
  BY <1>9, <1>13 DEF Sums, n
<1> QED BY <1>8, <1>14 DEF WrittenInSteps, n

\* No digits write 0, one more counts as much as the others times the base.
LEMMA WrittenNumbers ==
    ASSUME NEW base \in Nat
    PROVE  /\ Written(<< >>, base) = 0
           /\ \A digits \in Seq(Int) : Written(digits, base) \in Int
           /\ \A digits \in Seq(Int), d \in Int :
                 Written(Append(digits, d), base) = base * Written(digits, base) + d
<1>1. Written(<< >>, base) = 0
  <2>1. << >> \in Seq(Int) /\ Len(<< >>) = 0
    OBVIOUS
  <2>2. PICK f : Sums(<< >>, base, f) /\ Written(<< >>, base) = f[Len(<< >>)]
    BY <2>1, WrittenSteps DEF WrittenInSteps
  <2> QED BY <2>1, <2>2 DEF Sums
<1>2. ASSUME NEW digits \in Seq(Int) PROVE Written(digits, base) \in Int
  <2>1. PICK f : Sums(digits, base, f) /\ Written(digits, base) = f[Len(digits)]
    BY WrittenSteps DEF WrittenInSteps
  <2> QED BY <2>1 DEF Sums
<1>3. ASSUME NEW digits \in Seq(Int), NEW d \in Int
      PROVE  Written(Append(digits, d), base) = base * Written(digits, base) + d
  <2> DEFINE n == Len(digits)
             longer == Append(digits, d)
  <2>1. PICK f : Sums(digits, base, f) /\ Written(digits, base) = f[n]
    BY WrittenSteps DEF WrittenInSteps
  <2>2. longer \in Seq(Int) /\ Len(longer) = n + 1 /\ n \in Nat /\ longer[n + 1] = d
        /\ \A i \in 1 .. n : longer[i] = digits[i]
    OBVIOUS
  <2>3. PICK g : Sums(longer, base, g) /\ Written(longer, base) = g[n + 1]
    <3> HIDE DEF longer
    <3> QED BY <2>2, WrittenSteps DEF WrittenInSteps
  <2> HIDE DEF longer, n
  <2> DEFINE S == {k \in Nat : k <= n => f[k] = g[k]}
  <2>4. 0 \in S
    BY <2>1, <2>3 DEF Sums
  <2>5. ASSUME NEW k \in Nat, k \in S PROVE k + 1 \in S
    <3> SUFFICES ASSUME k + 1 <= n PROVE f[k + 1] = g[k + 1]
      OBVIOUS
    <3>1. k + 1 \in 1 .. n /\ k + 1 \in 1 .. n + 1 /\ (k + 1) - 1 = k /\ f[k] = g[k]
      BY <2>2, <2>5
    <3>2. f[k + 1] = base * f[k] + digits[k + 1]
      BY <2>1, <3>1 DEF Sums, n
    <3>3. g[k + 1] = base * g[k] + longer[k + 1]
      BY <2>2, <2>3, <3>1 DEF Sums
    <3> QED BY <2>2, <3>1, <3>2, <3>3
  <2>6. Nat \subseteq S
    <3> HIDE DEF S
    <3> QED BY <2>4, <2>5, Induction
  <2>7. f[n] = g[n]
    BY <2>2, <2>6
  <2>8. n + 1 \in 1 .. n + 1 /\ (n + 1) - 1 = n
    BY <2>2
  <2>9. g[n + 1] = base * g[n] + d
    BY <2>2, <2>3, <2>8 DEF Sums
  <2> QED BY <2>1, <2>3, <2>7, <2>9 DEF longer
<1> QED BY <1>1, <1>2, <1>3

-------------------------------------------------------------------------------
\* What is left of a number when it is cut to an unsigned word of v values.
LEMMA Remainders ==
    ASSUME NEW v \in Nat, NEW n \in Int, v > 0
    PROVE  /\ 0 <= n /\ n < v => n % v = n
           /\ -v <= n /\ n < 0 => n % v = n + v
<1>1. ASSUME 0 <= n, n < v PROVE n % v = n
  BY <1>1
<1>2. ASSUME -v <= n, n < 0 PROVE n % v = n + v
  BY <1>2
<1> QED BY <1>1, <1>2
-------------------------------------------------------------------------------
\* Texts of the numbers up to n.
Numerals(n, g) ==
    g = [k \in 0 .. n |-> IF k < 10 THEN <<48 + k>> ELSE Append(g[k \div 10], 48 + (k % 10))]

HasNumerals(n) == \E g : Numerals(n, g)

LEMMA LastDigit ==
    ASSUME NEW k \in Nat, k >= 10
    PROVE  k \div 10 \in 1 .. k - 1 /\ k % 10 \in 0 .. 9 /\ 10 * (k \div 10) + (k % 10) = k
OBVIOUS

LEMMA SomeNumerals == ASSUME NEW n \in Nat PROVE HasNumerals(n)
<1> DEFINE S == {k \in Nat : HasNumerals(k)}
           Step(g, k) == IF k < 10 THEN <<48 + k>> ELSE Append(g[k \div 10], 48 + (k % 10))
<1>1. 0 \in S
  <2>1. Numerals(0, [k \in 0 .. 0 |-> <<48>>])
    <3> DEFINE g == [k \in 0 .. 0 |-> <<48>>]
    <3>1. g = [k \in 0 .. 0 |-> Step(g, k)]
      OBVIOUS
    <3> QED BY <3>1 DEF Numerals
  <2> QED BY <2>1 DEF HasNumerals
<1>2. ASSUME NEW m \in Nat, m \in S PROVE m + 1 \in S
  <2>1. PICK g : Numerals(m, g)
    BY <1>2 DEF HasNumerals
  <2> DEFINE h == [k \in 0 .. m + 1 |-> IF k = m + 1 THEN Step(g, k) ELSE g[k]]
  <2>2. \A k \in 0 .. m : g[k] = Step(g, k)
    BY <2>1 DEF Numerals
  <2>3. ASSUME NEW k \in 0 .. m + 1 PROVE h[k] = Step(h, k)
    <3>1. h[k] = Step(g, k)
      BY <2>2
    <3>2. ASSUME k >= 10 PROVE h[k \div 10] = g[k \div 10]
      <4>1. k \div 10 \in 1 .. k - 1
        BY <3>2, LastDigit
      <4>2. k \div 10 \in 0 .. m + 1 /\ k \div 10 # m + 1
        BY <4>1
      <4> QED BY <4>2
    <3>3. k \in Int
      OBVIOUS
    <3> HIDE DEF h
    <3> QED BY <3>1, <3>2, <3>3
  <2>4. h = [k \in 0 .. m + 1 |-> Step(h, k)]
    <3>1. h = [k \in 0 .. m + 1 |-> h[k]]
      OBVIOUS
    <3> HIDE DEF h, Step
    <3> QED BY <2>3, <3>1
  <2>5. Numerals(m + 1, h)
    BY <2>4 DEF Numerals
  <2> QED BY <2>5 DEF HasNumerals
<1> HIDE DEF S
<1>3. n \in S
  BY <1>1, <1>2, Induction
<1> QED BY <1>3 DEF S

\* What the digits of a text stand for.
DigitsOf(text) == [i \in DOMAIN text |-> text[i] - 48]

LEMMA DigitsAppended ==
    ASSUME NEW text \in Seq(Int), NEW d \in Int
    PROVE  /\ DigitsOf(Append(text, 48 + d)) = Append(DigitsOf(text), d)
           /\ DigitsOf(text) \in Seq(Int)
<1> DEFINE n == Len(text)
           longer == Append(text, 48 + d)
<1>1. n \in Nat /\ text \in [1 .. n -> Int] /\ longer \in Seq(Int) /\ Len(longer) = n + 1
      /\ (\A i \in 1 .. n : longer[i] = text[i]) /\ longer[n + 1] = 48 + d
  OBVIOUS
<1>2. DigitsOf(text) = [i \in 1 .. n |-> text[i] - 48]
  BY DEF DigitsOf
<1>3. DigitsOf(text) \in Seq(Int) /\ Len(DigitsOf(text)) = n
  <2>1. [i \in 1 .. n |-> text[i] - 48] \in [1 .. n -> Int]
    BY <1>1
  <2> QED BY <1>1, <1>2, <2>1
<1>4. DigitsOf(longer) = [i \in 1 .. n + 1 |-> longer[i] - 48]
  <2> HIDE DEF longer, n
  <2>1. DOMAIN longer = 1 .. n + 1
    BY <1>1
  <2> QED BY <2>1 DEF DigitsOf
<1>5. DigitsOf(longer) = Append(DigitsOf(text), d)
  <2> DEFINE s == DigitsOf(text)
             u == DigitsOf(longer)
             a == Append(s, d)
  <2>1. s \in Seq(Int) /\ Len(s) = n /\ \A i \in 1 .. n : s[i] = text[i] - 48
    BY <1>2, <1>3
  <2>2. u = [i \in 1 .. n + 1 |-> longer[i] - 48]
    BY <1>4
  <2> HIDE DEF s, u, n, longer
  <2>3. a \in Seq(Int) /\ Len(a) = n + 1 /\ a[n + 1] = d /\ \A i \in 1 .. n : a[i] = s[i]
    BY <1>1, <2>1
  <2>4. u \in Seq(Int) /\ Len(u) = n + 1
    <3>1. \A i \in 1 .. n + 1 : longer[i] - 48 \in Int
      BY <1>1
    <3>2. [i \in 1 .. n + 1 |-> longer[i] - 48] \in [1 .. n + 1 -> Int]
      BY <3>1
    <3>3. n + 1 \in Nat
      BY <1>1
    <3> DEFINE T == Int
               m == n + 1
    <3>4. u \in [1 .. m -> T] /\ m \in Nat
      BY <2>2, <3>2, <3>3
    <3>5. u \in Seq(T) /\ Len(u) = m
      <4> HIDE DEF T, m
      <4> QED BY <3>4
    <3> QED BY <3>5
  <2> HIDE DEF a
  <2>5. ASSUME NEW i \in 1 .. Len(u) PROVE u[i] = a[i]
    <3>1. i \in 1 .. n + 1 /\ u[i] = longer[i] - 48
      BY <2>2, <2>4, <2>5
    <3>2. CASE i = n + 1
      BY <1>1, <2>3, <3>1, <3>2
    <3>3. CASE i # n + 1
      <4>1. i \in 1 .. n
        BY <1>1, <3>1, <3>3
      <4> QED BY <1>1, <2>1, <2>3, <3>1, <4>1
    <3> QED BY <3>2, <3>3
  <2>6. u = a
    BY <2>3, <2>4, <2>5, SeqEqual
  <2> QED BY <2>6 DEF u, a, s
<1> QED BY <1>3, <1>5 DEF longer

\* A text of digits, not empty, that stands for k.
Spells(text, k) ==
    /\ text \in Seq(Int) /\ text # << >> /\ Range(text) \subseteq Digits
    /\ Written(DigitsOf(text), 10) = k
    /\ k < 10 => text = <<48 + k>>

LEMMA NumeralSpells == ASSUME NEW n \in Nat PROVE Spells(Numeral(n), n)
<1> DEFINE g == CHOOSE g : Numerals(n, g)
<1>1. Numeral(n) = g[n]
  BY DEF Numeral, Numerals
<1>2. Numerals(n, g)
  <2>1. \E h : Numerals(n, h)
    BY SomeNumerals DEF HasNumerals
  <2> QED BY <2>1, Zenon
<1> HIDE DEF g
<1>3. ASSUME NEW k \in 0 .. n
      PROVE  /\ k < 10 => g[k] = <<48 + k>>
             /\ k >= 10 => g[k] = Append(g[k \div 10], 48 + (k % 10))
  <2>1. g[k] = IF k < 10 THEN <<48 + k>> ELSE Append(g[k \div 10], 48 + (k % 10))
    BY <1>2 DEF Numerals
  <2>2. k \in Int
    OBVIOUS
  <2> QED BY <2>1, <2>2
<1>4. ASSUME NEW k \in 0 .. n, k < 10 PROVE Spells(g[k], k)
  <2>1. g[k] = <<48 + k>> /\ k \in 0 .. 9 /\ k \in Int /\ 10 \in Nat
    BY <1>3, <1>4
  <2>2. <<48 + k>> = Append(<< >>, 48 + k) /\ << >> \in Seq(Int) /\ DigitsOf(<< >>) = << >>
    BY DEF DigitsOf
  <2>3. DigitsOf(<<48 + k>>) = Append(<< >>, k)
    <3>1. DigitsOf(Append(<< >>, 48 + k)) = Append(DigitsOf(<< >>), k)
      BY <2>1, <2>2, DigitsAppended, Zenon
    <3> QED BY <2>2, <3>1, Zenon
  <2>4. Written(DigitsOf(<<48 + k>>), 10) = 10 * 0 + k
    <3>1. Written(Append(<< >>, k), 10) = 10 * Written(<< >>, 10) + k
      BY <2>1, <2>2, WrittenNumbers, Zenon
    <3> QED BY <2>3, <3>1, WrittenNumbers
  <2>5. <<48 + k>> \in Seq(Int) /\ <<48 + k>> # << >> /\ Range(<<48 + k>>) \subseteq Digits
    BY <2>1 DEF Range, Digits
  <2> QED BY <2>1, <2>4, <2>5 DEF Spells
<1>5. ASSUME NEW k \in 0 .. n, k >= 10, Spells(g[k \div 10], k \div 10) PROVE Spells(g[k], k)
  <2> DEFINE q == k \div 10
             d == k % 10
             t == g[q]
  <2>1. g[k] = Append(t, 48 + d)
    BY <1>3, <1>5
  <2>2. q \in Nat /\ d \in 0 .. 9 /\ 10 * q + d = k
    BY <1>5, LastDigit
  <2>3. Spells(t, q)
    BY <1>5
  <2> HIDE DEF q, d, t
  <2>4. t \in Seq(Int) /\ Range(t) \subseteq Digits /\ Written(DigitsOf(t), 10) = q
    BY <2>3 DEF Spells
  <2>5. DigitsOf(g[k]) = Append(DigitsOf(t), d) /\ DigitsOf(t) \in Seq(Int)
    <3>1. d \in Int
      BY <2>2
    <3>2. DigitsOf(Append(t, 48 + d)) = Append(DigitsOf(t), d) /\ DigitsOf(t) \in Seq(Int)
      BY <2>4, <3>1, DigitsAppended, Zenon
    <3> QED BY <2>1, <3>2
  <2>6. Written(DigitsOf(g[k]), 10) = 10 * q + d
    BY <2>2, <2>4, <2>5, WrittenNumbers
  <2>7. g[k] \in Seq(Int) /\ g[k] # << >>
    BY <2>1, <2>2, <2>4
  <2>8. Range(g[k]) \subseteq Digits
    <3>1. ASSUME NEW i \in 1 .. Len(t) + 1 PROVE Append(t, 48 + d)[i] \in Digits
      <4>1. CASE i = Len(t) + 1
        BY <2>2, <2>4, <4>1 DEF Digits
      <4>2. CASE i \in 1 .. Len(t)
        BY <2>4, <4>2 DEF Range
      <4> QED BY <4>1, <4>2
    <3>2. DOMAIN Append(t, 48 + d) = 1 .. Len(t) + 1
      BY <2>4
    <3> QED BY <2>1, <3>1, <3>2 DEF Range
  <2> QED BY <1>5, <2>2, <2>6, <2>7, <2>8 DEF Spells
<1> DEFINE S == {m \in Nat : \A k \in 0 .. m : k <= n => Spells(g[k], k)}
<1>6. 0 \in S
  BY <1>4
<1>7. ASSUME NEW m \in Nat, m \in S PROVE m + 1 \in S
  <2> SUFFICES ASSUME NEW k \in 0 .. m + 1, k <= n PROVE Spells(g[k], k)
    OBVIOUS
  <2>1. \A j \in 0 .. m : j <= n => Spells(g[j], j)
    BY <1>7
  <2>2. k \in 0 .. n
    OBVIOUS
  <2>3. CASE k >= 10
    <3>1. k \div 10 \in 0 .. m /\ k \div 10 <= n
      BY <2>3, LastDigit
    <3>2. Spells(g[k \div 10], k \div 10)
      BY <2>1, <3>1
    <3> QED BY <1>5, <2>2, <2>3, <3>2
  <2> QED BY <1>4, <2>2, <2>3
<1>8. Nat \subseteq S
  <2> HIDE DEF S
  <2> QED BY <1>6, <1>7, Induction
<1>9. Spells(g[n], n)
  BY <1>8
<1> QED BY <1>1, <1>9

\* The text of a number is read as that number.
LEMMA DecimalIsRead ==
    ASSUME NEW n \in Int
    PROVE  /\ ParseInt(Decimal(n)) = n
           /\ Unsigned(Decimal(n)) # << >> /\ Range(Unsigned(Decimal(n))) \subseteq Digits
<1> DEFINE m == IF n < 0 THEN -n ELSE n
           t == Numeral(m)
<1>1. m \in Nat
  OBVIOUS
<1>2. Spells(t, m)
  BY <1>1, NumeralSpells
<1>3. Decimal(n) = IF n < 0 THEN <<45>> \o t ELSE t
  BY DEF Decimal
<1> HIDE DEF t
<1>4. t \in Seq(Int) /\ t # << >> /\ Range(t) \subseteq Digits /\ Written(DigitsOf(t), 10) = m
  BY <1>2 DEF Spells
<1>5. Unsigned(Decimal(n)) = t /\ Sign(Decimal(n)) = IF n < 0 THEN -1 ELSE 1
  <2>1. CASE n < 0
    <3> DEFINE u == <<45>> \o t
    <3>1. <<45>> \in Seq(Int) /\ u \in Seq(Int) /\ Len(u) = 1 + Len(t) /\ u[1] = 45
      BY <1>4
    <3>2. u # << >> /\ Head(u) = 45
      <4> HIDE DEF u
      <4>1. Len(t) \in Nat
        BY <1>4
      <4> QED BY <3>1, <4>1
    <3>3. Tail(u) = t
      BY <1>4
    <3> HIDE DEF u
    <3>4. Decimal(n) = u
      BY <1>3, <2>1 DEF u
    <3> QED BY <2>1, <3>2, <3>3, <3>4 DEF Unsigned, Sign
  <2>2. CASE ~(n < 0)
    <3>1. Head(t) \in Digits
      <4>1. 1 \in DOMAIN t /\ Head(t) = t[1]
        BY <1>4
      <4> QED BY <1>4, <4>1 DEF Range
    <3>2. Head(t) \notin {43, 45}
      BY <3>1 DEF Digits
    <3> QED BY <1>3, <2>2, <3>2 DEF Unsigned, Sign
  <2> QED BY <2>1, <2>2
<1>6. ParseInt(Decimal(n)) = Sign(Decimal(n)) * Written(DigitsOf(t), 10)
  BY <1>5 DEF ParseInt, DigitsOf
<1>7. ParseInt(Decimal(n)) = n
  BY <1>4, <1>5, <1>6
<1> QED BY <1>4, <1>5, <1>7
-------------------------------------------------------------------------------
\* The values of a word, byte by byte.
LEMMA WordValues ==
    /\ Values[0] = 1
    /\ \A b \in 1 .. WordBytes : Values[b] = 256 * Values[b - 1]
    /\ \A b \in 0 .. WordBytes : Values[b] \in Nat \ {0}
<1> DEFINE n == WordBytes
           T == Nat \ {0}
           next == [k \in 1 .. n |-> [u \in T |-> 256 * u]]
           Made(f) == f = [i \in 0 .. n |-> IF i = 0 THEN 1 ELSE 256 * f[i - 1]]
<1>1. n \in Nat
  BY WordAssumption
<1>2. Values = CHOOSE f : Made(f)
  BY DEF Values
<1> HIDE DEF n
<1>3. 1 \in T /\ next \in [1 .. n -> [T -> T]]
  OBVIOUS
<1>4. PICK g \in [0 .. n -> T] : g[0] = 1 /\ \A k \in 1 .. n : g[k] = next[k][g[k - 1]]
  <2> HIDE DEF next, T
  <2>1. Lead(T, 1, n, next)
    BY <1>1, <1>3, StepByStep
  <2> QED BY <2>1 DEF Lead
<1>5. ASSUME NEW k \in 1 .. n PROVE g[k] = 256 * g[k - 1]
  <2>1. k - 1 \in 0 .. n /\ g[k - 1] \in T
    BY <1>1
  <2>2. next[k][g[k - 1]] = 256 * g[k - 1]
    BY <2>1
  <2> QED BY <1>4, <2>2
<1> HIDE DEF next
<1>6. \E f : Made(f)
  <2>1. ASSUME NEW i \in 0 .. n PROVE g[i] = IF i = 0 THEN 1 ELSE 256 * g[i - 1]
    BY <1>1, <1>4, <1>5
  <2>2. g = [i \in 0 .. n |-> g[i]]
    OBVIOUS
  <2>3. Made(g)
    BY <2>1, <2>2
  <2> QED BY <2>3
<1>7. Made(Values)
  BY <1>2, <1>6, Zenon
<1>8. \A i \in 0 .. n : Values[i] = IF i = 0 THEN 1 ELSE 256 * Values[i - 1]
  BY <1>7
<1> DEFINE S == {k \in Nat : k <= n => Values[k] = g[k]}
<1>9. 0 \in S
  BY <1>1, <1>4, <1>8
<1>10. ASSUME NEW k \in Nat, k \in S PROVE k + 1 \in S
  <2> SUFFICES ASSUME k + 1 <= n PROVE Values[k + 1] = g[k + 1]
    OBVIOUS
  <2>1. k + 1 \in 0 .. n /\ k + 1 \in 1 .. n /\ k + 1 # 0 /\ (k + 1) - 1 = k /\ Values[k] = g[k]
    BY <1>1, <1>10
  <2>2. Values[k + 1] = 256 * Values[k]
    BY <1>8, <2>1
  <2> QED BY <1>5, <2>1, <2>2
<1>11. Nat \subseteq S
  <2> HIDE DEF S
  <2> QED BY <1>9, <1>10, Induction
<1>12. \A b \in 0 .. n : Values[b] \in T
  <2>1. \A b \in 0 .. n : Values[b] = g[b]
    BY <1>1, <1>11
  <2> QED BY <2>1
<1>13. \A b \in 1 .. n : Values[b] = 256 * Values[b - 1]
  <2>1. \A b \in 1 .. n : b \in 0 .. n /\ b # 0
    BY <1>1
  <2> QED BY <1>8, <2>1
<1>14. Values[0] = 1
  <2>1. 0 \in 0 .. n
    BY <1>1
  <2> QED BY <1>8, <2>1
<1> QED BY <1>12, <1>13, <1>14 DEF n

\* Half of a word's values.
LEMMA WordHalves ==
    ASSUME NEW b \in 1 .. WordBytes
    PROVE  /\ Values[b] \in Nat /\ Values[b] > 0
           /\ Values[b] \div 2 \in Nat /\ 2 * (Values[b] \div 2) = Values[b]
<1> DEFINE w == Values[b - 1]
<1>1. w \in Nat \ {0} /\ Values[b] = 256 * w
  <2>1. b - 1 \in 0 .. WordBytes
    BY WordAssumption
  <2> QED BY <2>1, WordValues
<1> HIDE DEF w
<1>2. Values[b] \div 2 = 128 * w
  BY <1>1
<1> QED BY <1>1, <1>2

\* A number that fits the field is not changed by the cut.
LEMMA CutKeeps ==
    ASSUME NEW field \in Field, field.kind # "bool", NEW n \in Int, Fits(field, n)
    PROVE  CutTo(field, n) = n
<1> DEFINE v == Values[field.bytes]
           h == v \div 2
<1>1. field.bytes \in 1 .. WordBytes /\ field.kind \in {"int", "uint"}
  BY DEF Field
<1>2. v \in Nat /\ v > 0 /\ h \in Nat /\ 2 * h = v
  BY <1>1, WordHalves
<1>3. CASE field.kind = "uint"
  <2>1. 0 <= n /\ n < v
    BY <1>3 DEF Fits
  <2>2. CutTo(field, n) = n % v
    BY <1>3 DEF CutTo
  <2> HIDE DEF v
  <2> QED BY <1>2, <2>1, <2>2, Remainders
<1>4. CASE field.kind = "int"
  <2>1. -h <= n /\ n < h
    BY <1>4 DEF Fits, IsSigned
  <2>2. CutTo(field, n) = IF n % v >= h THEN (n % v) - v ELSE n % v
    BY <1>4 DEF CutTo, Signed
  <2> HIDE DEF v, h
  <2>3. 0 <= n => n % v = n
    BY <1>2, <2>1, Remainders
  <2>4. n < 0 => n % v = n + v
    BY <1>2, <2>1, Remainders
  <2> QED BY <1>2, <2>1, <2>2, <2>3, <2>4
<1> QED BY <1>1, <1>3, <1>4

\* One digit stands for itself, before another it counts base times as much.
Worth(d, e, base) ==
    Written(<<d>>, base) = d /\ Written(<<d, e>>, base) = base * d + e

LEMMA FewDigits ==
    ASSUME NEW base \in Nat, NEW d \in Int, NEW e \in Int
    PROVE  Worth(d, e, base)
<1>1. << >> \in Seq(Int) /\ <<d>> \in Seq(Int)
      /\ <<d>> = Append(<< >>, d) /\ <<d, e>> = Append(<<d>>, e)
  OBVIOUS
<1>2. Written(Append(<< >>, d), base) = base * Written(<< >>, base) + d
  BY <1>1, WrittenNumbers, Zenon
<1>3. Written(<< >>, base) = 0
  BY WrittenNumbers
<1>4. Written(<<d>>, base) = d
  BY <1>1, <1>2, <1>3
<1>5. Written(Append(<<d>>, e), base) = base * Written(<<d>>, base) + e
  BY <1>1, WrittenNumbers, Zenon
<1> QED BY <1>1, <1>4, <1>5 DEF Worth

LEMMA BytesOfWords == Values[0] = 1 /\ Values[1] = 256
<1>1. 1 \in 1 .. WordBytes /\ 1 - 1 = 0
  BY WordAssumption
<1>2. Values[0] = 1 /\ Values[1] = 256 * Values[1 - 1]
  BY <1>1, WordValues
<1> QED BY <1>1, <1>2

\* The bits of a number are read as that number, highest byte first.
LEMMA ByteIsRead ==
    ASSUME NEW n \in Nat, n < 256
    PROVE  Bits(n, 1) = <<n>> /\ BigEndian(Bits(n, 1)) = n
<1>1. Bits(n, 1) = [i \in 1 .. 1 |-> (n \div Values[1 - i]) % 256]
  BY DEF Bits
<1>2. (n \div 1) % 256 = n
  OBVIOUS
<1>3. ASSUME NEW i \in 1 .. 1 PROVE (n \div Values[1 - i]) % 256 = n
  <2>1. i = 1 /\ 1 - i = 0
    OBVIOUS
  <2> QED BY <1>2, <2>1, BytesOfWords
<1>4. Bits(n, 1) = <<n>>
  BY <1>1, <1>3
<1> DEFINE base == 256
<1>5. n \in Int /\ base \in Nat /\ BigEndian(<<n>>) = Written(<<n>>, base)
  BY DEF BigEndian
<1>6. Written(<<n>>, base) = n
  <2> HIDE DEF base
  <2>1. Worth(n, n, base)
    BY <1>5, FewDigits
  <2> QED BY <2>1 DEF Worth
<1> QED BY <1>4, <1>5, <1>6

LEMMA TwoBytesAreRead ==
    ASSUME NEW n \in Nat, n < 65536
    PROVE  Len(Bits(n, 2)) = 2 /\ BigEndian(Bits(n, 2)) = n
<1> DEFINE high == n \div 256
           low == n % 256
<1>1. high \in Nat /\ low \in Nat /\ low < 256 /\ 256 * high + low = n
  OBVIOUS
<1>2. high < 256 /\ high % 256 = high
  BY <1>1
<1>3. Bits(n, 2) = [i \in 1 .. 2 |-> (n \div Values[2 - i]) % 256]
  BY DEF Bits
<1>4. (n \div Values[2 - 1]) % 256 = high
  <2>1. 2 - 1 = 1
    OBVIOUS
  <2> QED BY <1>2, <2>1, BytesOfWords
<1>5. (n \div Values[2 - 2]) % 256 = low
  <2>1. 2 - 2 = 0 /\ n \div 1 = n
    OBVIOUS
  <2> QED BY <2>1, BytesOfWords
<1> HIDE DEF high, low
<1>6. ASSUME NEW i \in 1 .. 2 PROVE (n \div Values[2 - i]) % 256 = <<high, low>>[i]
  <2>1. i = 1 \/ i = 2
    OBVIOUS
  <2> QED BY <1>4, <1>5, <2>1
<1>7. Bits(n, 2) = <<high, low>>
  <2>1. <<high, low>> = [i \in 1 .. 2 |-> <<high, low>>[i]]
    OBVIOUS
  <2> QED BY <1>3, <1>6, <2>1
<1>8. BigEndian(<<high, low>>) = 256 * high + low
  <2> DEFINE base == 256
  <2>1. /\ high \in Int /\ low \in Int /\ base \in Nat
        /\ BigEndian(<<high, low>>) = Written(<<high, low>>, base)
    BY <1>1 DEF BigEndian
  <2>2. Written(<<high, low>>, base) = base * high + low
    <3> HIDE DEF base
    <3>1. Worth(high, low, base)
      BY <2>1, FewDigits
    <3> QED BY <3>1 DEF Worth
  <2> QED BY <2>1, <2>2
<1> QED BY <1>1, <1>7, <1>8

\* The text of a number that fits a word is a number to strconv.ParseInt.
LEMMA TextIsRead ==
    ASSUME NEW n \in Int, IsSigned(n, WordBytes)
    PROVE  OfBytes(Decimal(n)) = n
<1>1. IsNumber(Decimal(n)) /\ ParseInt(Decimal(n)) = n
  BY DecimalIsRead DEF IsNumber
<1> QED BY <1>1 DEF OfBytes

Ways == {"binary", "text", "bit8", "bit16"}

\* A number that the field can hold is read back, unless it is misread by name.
LEMMA NumberIsRead ==
    ASSUME NEW field \in Field, NEW via \in Ways, NEW n \in Int,
           Holds(via, n), Fits(field, n), ~Misread(field, via, n)
    PROVE  Scan(field, Source(via, n)) = InField(field, n)
<1> DEFINE src == Source(via, n)
<1>1. \/ via = "binary" /\ src = [type |-> "int", value |-> n]
      \/ via = "text" /\ src = [type |-> "bytes", value |-> Decimal(n)]
      \/ via = "bit8" /\ src = [type |-> "bytes", value |-> Bits(n, 1)]
      \/ via = "bit16" /\ src = [type |-> "bytes", value |-> Bits(n, 2)]
  BY DEF Source, Ways
<1> HIDE DEF src
<1>2. CASE field.kind # "bool"
  <2>1. /\ via = "binary" => src.type = "int" /\ src.value = n
        /\ via # "binary" => src.type = "bytes" /\ OfBytes(src.value) = n
    <3>1. CASE via = "binary"
      BY <1>1, <3>1
    <3>2. CASE via = "text"
      <4>1. IsSigned(n, WordBytes)
        BY <3>2 DEF Misread
      <4> QED BY <1>1, <3>2, <4>1, TextIsRead
    <3>3. CASE via \in {"bit8", "bit16"}
      <4>1. ~IsNumber(src.value)
        BY <1>2, <3>3 DEF Misread, src
      <4>2. src.type = "bytes" /\ BigEndian(src.value) = n /\ Len(src.value) \in {1, 2}
        <5>1. CASE via = "bit8"
          <6>1. n \in Nat /\ n < 256
            BY <5>1 DEF Holds
          <6>2. Bits(n, 1) = <<n>> /\ BigEndian(Bits(n, 1)) = n
            BY <6>1, ByteIsRead
          <6>3. Len(Bits(n, 1)) = 1
            BY <6>2
          <6> QED BY <1>1, <5>1, <6>2, <6>3
        <5>2. CASE via = "bit16"
          <6>1. n \in Nat /\ n < 65536
            BY <5>2 DEF Holds
          <6>2. Len(Bits(n, 2)) = 2 /\ BigEndian(Bits(n, 2)) = n
            BY <6>1, TwoBytesAreRead
          <6> QED BY <1>1, <5>2, <6>2
        <5> QED BY <3>3, <5>1, <5>2
      <4>3. Len(src.value) <= WordBytes
        <5>1. WordBytes \in Nat /\ 1 <= WordBytes /\ 2 <= WordBytes
          BY WordAssumption
        <5> QED BY <4>2, <5>1
      <4>4. OfBytes(src.value) = n
        BY <4>1, <4>2, <4>3 DEF OfBytes
      <4> QED BY <3>3, <4>2, <4>4
    <3> QED BY <3>1, <3>2, <3>3 DEF Ways
  <2>2. ScanInt(field, src) = IF n = ScanError THEN ScanError ELSE CutTo(field, n)
    BY <2>1 DEF ScanInt
  <2>3. n # ScanError
    BY WordAssumption
  <2>4. ScanInt(field, src) = n
    BY <1>2, <2>2, <2>3, CutKeeps
  <2> QED BY <1>2, <2>1, <2>4 DEF Scan, InField, src
<1>3. CASE field.kind = "bool"
  <2>1. n \in {0, 1}
    BY <1>3 DEF Fits
  <2>2. via # "bit16"
    BY <1>3 DEF Misread
  <2>3. via = "text" => src.value = <<48 + n>>
    <3>1. n \in Nat /\ n < 10
      BY <2>1
    <3>2. Numeral(n) = <<48 + n>>
      BY <3>1, NumeralSpells DEF Spells
    <3> QED BY <1>1, <3>1, <3>2 DEF Decimal
  <2>4. via = "bit8" => src.value = <<n>>
    <3>1. n \in Nat /\ n < 256
      BY <2>1
    <3> QED BY <1>1, <3>1, ByteIsRead
  <2>5. src.type # "nil" /\ ScanBool(src) = (n = 1)
    <3>1. CASE via = "binary"
      BY <1>1, <2>1, <3>1 DEF ScanBool
    <3>2. CASE via = "text"
      <4>1. src.type = "bytes" /\ src.value = <<48 + n>>
        BY <1>1, <2>3, <3>2
      <4>2. <<48 + n>>[1] # 0 /\ <<48 + n>> # << >> /\ (<<48 + n>> # <<48>> <=> n = 1)
        BY <2>1
      <4> QED BY <4>1, <4>2 DEF ScanBool
    <3>3. CASE via = "bit8"
      <4>1. src.type = "bytes" /\ src.value = <<n>>
        BY <1>1, <2>4, <3>3
      <4>2. <<n>> # << >> /\ <<n>> # <<48>> /\ (<<n>>[1] # 0 <=> n = 1)
        BY <2>1
      <4> QED BY <4>1, <4>2 DEF ScanBool
    <3> QED BY <2>2, <3>1, <3>2, <3>3 DEF Ways
  <2> QED BY <1>3, <2>5 DEF Scan, InField, src
<1> QED BY <1>2, <1>3

\* Scanning the rows of a statement reads their numbers back.
LEMMA ScanReadsBack ==
    ASSUME TypeOK, NEW field \in Fields, NEW via \in Ways, ScanAll(field, via)
    PROVE  ReadsBack'
<1> DEFINE got == [row \in last.took |->
                      Scan(field, IF row.n = Null THEN [type |-> "nil"] ELSE Source(via, row.n))]
<1>1. last' = [verb |-> "scanned", field |-> field, via |-> via, got |-> got]
  BY DEF ScanAll
<1>2. last.took \subseteq Stored /\ \A row \in last.took : row.n = Null \/ Holds(via, row.n)
  BY KnownVerbs DEF ScanAll, TypeOK, Ran
<1>3. DOMAIN got = last.took
  OBVIOUS
<1>4. ASSUME NEW row \in last.took, row.n = Null, field.pointer PROVE got[row] = NilPointer
  <2>1. got[row] = Scan(field, [type |-> "nil"])
    BY <1>4
  <2> QED BY <1>4, <2>1 DEF Scan
<1>5. ASSUME NEW row \in last.took, row.n # Null, Fits(field, row.n), ~Misread(field, via, row.n)
      PROVE  got[row] = InField(field, row.n)
  <2>1. row.n \in Int /\ field \in Field
    BY <1>2, <1>5, QueryAssumption
  <2>2. got[row] = Scan(field, Source(via, row.n))
    BY <1>5
  <2>3. Holds(via, row.n)
    BY <1>2, <1>5
  <2> HIDE DEF got
  <2> QED BY <1>5, <2>1, <2>2, <2>3, NumberIsRead
<1> HIDE DEF got
<1>6. last'.field = field /\ last'.via = via /\ last'.got = got
  BY <1>1
<1>7. \A row \in DOMAIN last'.got :
         /\ row.n = Null /\ last'.field.pointer => last'.got[row] = NilPointer
         /\ row.n # Null /\ Fits(last'.field, row.n) /\ ~Misread(last'.field, last'.via, row.n)
               => last'.got[row] = InField(last'.field, row.n)
  BY <1>3, <1>4, <1>5, <1>6
<1> QED BY <1>7 DEF ReadsBack

LEMMA StepReadsBack ==
    ASSUME TypeOK, Calling, ReadsBack, [Next]_vars
    PROVE  ReadsBack'
<1>1. CASE UNCHANGED vars
  BY <1>1 DEF vars, ReadsBack
<1>2. CASE \E field \in Fields, via \in Ways : ScanAll(field, via)
  BY <1>2, ScanReadsBack
<1>3. CASE Next /\ ~\E field \in Fields, via \in Ways : ScanAll(field, via)
  <2>1. last'.verb # "scanned"
    <3>1. CASE \E call \in Methods \cup ByKey : Derive(call)
      BY <3>1 DEF Derive
    <3>2. ASSUME NEW req, Run(req), req.verb \in Range(Verbs) PROVE last'.verb # "scanned"
      BY <3>2, KnownVerbs DEF Run, Select, DeleteSoft, DeleteHard, Refuse, Statement
    <3>3. CASE CanRun /\ \E req \in DerivedRequests : Run(req)
      BY <3>2, <3>3, RequestVerbs
    <3>4. CASE CanRun /\ \E req \in DerivedWindows : Select(req)
      BY <3>2, <3>4, RequestVerbs DEF Run
    <3>5. CASE last = Idle /\ \E req \in CondRequests : Run(req)
      BY <3>2, <3>5, RequestVerbs
    <3>6. CASE last = Idle /\ \E req \in CondWindows : Select(req)
      BY <3>2, <3>6, RequestVerbs DEF Run
    <3>7. CASE Return
      BY <3>7 DEF Return, Idle
    <3> QED BY <1>3, <3>1, <3>3, <3>4, <3>5, <3>6, <3>7 DEF Next, Ways
  <2> QED BY <2>1 DEF ReadsBack
<1> QED BY <1>1, <1>2, <1>3

\* A number that its field can hold is read back, however the driver hands it
\* over and however wide words and fields are; NULL is nothing in a pointer.
THEOREM NumbersAreReadBack == Spec => []ReadsBack
<1>1. Init => TypeOK /\ Calling /\ ReadsBack
  BY Initially DEF Init, Idle, ReadsBack
<1>2. TypeOK /\ Calling /\ [Next]_vars => (TypeOK /\ Calling)'
  BY StepKeepsTypes
<1>3. TypeOK /\ Calling /\ ReadsBack /\ [Next]_vars => ReadsBack'
  BY StepReadsBack
<1> QED BY <1>1, <1>2, <1>3, PTL DEF Spec

-------------------------------------------------------------------------------
(* Names. *)

IsSpelled(call) == \E sp : IsSpelling(sp) /\ call = CallOf(sp)

\* A call that says what its name and its arguments spell is read as such.
ReadsSpellings == last.verb = "read" /\ IsSpelled(last.call) => last.tree = last.call.means

LEMMA SpelledMeans ==
    ASSUME NEW call, IsSpelled(call) PROVE Understood(call) = call.means
<1>1. PICK sp : IsSpelling(sp) /\ call = CallOf(sp)
  BY DEF IsSpelled
<1>2. call.means = MeansOf(sp)
  BY <1>1 DEF CallOf
<1> QED BY <1>1, <1>2, SpelledIsUnderstood

\* A call whose name and arguments spell what it means is always understood so,
\* whatever the entity, its properties and the other methods.
THEOREM SpelledNamesAreRead == Spec => []ReadsSpellings
<1>1. Init => TypeOK /\ Calling
  BY Initially
<1>2. TypeOK /\ Calling /\ [Next]_vars => (TypeOK /\ Calling)'
  BY StepKeepsTypes
<1>3. Calling => ReadsSpellings
  BY SpelledMeans DEF Calling, ReadsSpellings
<1> QED BY <1>1, <1>2, <1>3, PTL DEF Spec

\* If all methods and operations by key are spelled, names are read as they are
\* spelled.
THEOREM NamesAreRead == WellSpelled /\ Spec => []NamesAreReadAsSpelled
<1> SUFFICES ASSUME WellSpelled PROVE Spec => []NamesAreReadAsSpelled
  OBVIOUS
<1>1. Init => TypeOK /\ Calling
  BY Initially
<1>2. TypeOK /\ Calling /\ [Next]_vars => (TypeOK /\ Calling)'
  BY StepKeepsTypes
<1>3. Calling => NamesAreReadAsSpelled
  BY SpelledMeans DEF Calling, NamesAreReadAsSpelled, WellSpelled, IsSpelled
<1> QED BY <1>1, <1>2, <1>3, PTL DEF Spec

\* Spelled methods without Or, and Cond queries, take the rows asked for.
THEOREM SpelledTakesExactly == WellSpelled /\ Spec => TakesWhatIsAsked
BY NamesAreRead, TakesExactly, PTL

\* Spelled methods with Or miss no row, and take none outside their criteria.
THEOREM SpelledOrTakesAll == WellSpelled /\ Spec => OrMissesNothing
BY NamesAreRead, OrTakesAll, PTL

\* A delete by a spelled method, or a Cond, leaves nothing for the same request
\* to take but what its Or lets it mark again.
THEOREM SpelledDeletesAreDone == WellSpelled /\ Spec => []TakenAgainOnlyByOr
BY NamesAreRead, DeletesAreDone, PTL
===============================================================================
