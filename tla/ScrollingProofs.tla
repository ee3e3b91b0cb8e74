--------------------------- MODULE ScrollingProofs ---------------------------
(***************************************************************************)
(* Proofs about Scrolling, for all keys, values, sort orders and sizes,    *)
(* with NULL first or last, and any number of changes by others: a scroll  *)
(* by windows does not repeat a row, and it misses none that stays; slices *)
(* and pages do what the changes before a row explain.                     *)
(*                                                                         *)
(* A position cuts the rows in two: those the boundary's clause takes and  *)
(* those it does not.  What was seen is behind it (BehindInv), what was    *)
(* not is ahead of it (AheadInv); a window moves the position to its last  *)
(* row.  This needs three facts about the clause (Beyond, below): it does  *)
(* not take the row it was made from, nor one before it, and a row beyond  *)
(* a row beyond a position is beyond the position.                         *)
(***************************************************************************)
EXTENDS Scrolling, SequenceTheorems, FiniteSetTheorems, TLAPS

Value == Int \cup {Null}

\* r is after the position, and NULL is in no key that tells.
Beyond(r, at) ==
    \E i \in DOMAIN walk.sort :
        /\ \A j \in 1 .. i - 1 : /\ r[walk.sort[j].prop] # Null
                                 /\ r[walk.sort[j].prop] = at[j]
        /\ r[walk.sort[i].prop] # Null /\ at[i] # Null
        /\ IF walk.sort[i].desc THEN r[walk.sort[i].prop] < at[i]
                                ELSE r[walk.sort[i].prop] > at[i]

-------------------------------------------------------------------------------
(* The clause of a boundary. *)

\* A disjunction is true when one of its members is.
LEMMA DisjTrue ==
    ASSUME NEW S PROVE Disj(S) = "T" <=> "T" \in S
BY DEF Disj

\* A conjunction of truth values is true when all of them are.
LEMMA ConjTrue ==
    ASSUME NEW S \in SUBSET Truth PROVE Conj(S) = "T" <=> \A v \in S : v = "T"
BY DEF Conj, Truth

\* A text of one alternative selects when that is true.
LEMMA SelectsOne ==
    ASSUME NEW v \in Truth PROVE Selects(<< v >>) <=> v = "T"
<1>1. << v >> # Empty
  BY DEF Empty
<1>2. Range(<< v >>) = {v}
  BY DEF Range
<1>3. Meaning(<< v >>) = "T" <=> v = "T"
  BY <1>2, DisjTrue DEF Meaning
<1> QED BY <1>1, <1>3 DEF Selects

\* A comparison is true when neither side is NULL and the values compare.
LEMMA CompareTrue ==
    ASSUME NEW x \in Value, NEW y \in Value
    PROVE  /\ \A op \in {"=", "<", ">"} : Compare(x, op, y) \in Truth
           /\ Compare(x, "=", y) = "T" <=> x # Null /\ y # Null /\ x = y
           /\ Compare(x, "<", y) = "T" <=> x # Null /\ y # Null /\ x < y
           /\ Compare(x, ">", y) = "T" <=> x # Null /\ y # Null /\ x > y
<1>1. \A op \in {"=", "<", ">"} : Compare(x, op, y) \in Truth
  BY DEF Compare, Truly, Truth
<1>2. CASE Null \in {x, y}
  BY <1>1, <1>2 DEF Compare
<1>3. CASE Null \notin {x, y}
  <2>1. x \in Int /\ y \in Int /\ x # Null /\ y # Null
    BY <1>3 DEF Value
  <2>2. Compare(x, "=", y) = "T" <=> x = y
    BY <1>3, <2>1 DEF Compare, Truly
  <2>3. Compare(x, "<", y) = "T" <=> x < y
    BY <1>3, <2>1 DEF Compare, Truly
  <2>4. Compare(x, ">", y) = "T" <=> x > y
    BY <1>3, <2>1 DEF Compare, Truly
  <2> QED BY <1>1, <2>1, <2>2, <2>3, <2>4
<1> QED BY <1>2, <1>3

\* A walk's order: one or more keys, each a column and a direction.
LEMMA SortType ==
    ASSUME walk \in Walk
    PROVE  /\ walk.size \in Nat /\ walk.size >= 1
           /\ \E n \in Nat \ {0} : DOMAIN walk.sort = 1 .. n
           /\ \A i \in DOMAIN walk.sort : walk.sort[i] \in SortKey
<1>1. walk.size \in Sizes /\ walk.sort \in Seq(SortKey) /\ walk.sort # << >>
  BY ConstantsAssumption DEF Walk
<1>2. walk.size \in Nat /\ walk.size >= 1
  <2> DEFINE k == walk.size
  <2>1. k \in Nat \ {0}
    BY <1>1, ConstantsAssumption
  <2> HIDE DEF k
  <2>2. k \in Nat /\ k >= 1
    BY <2>1
  <2> QED BY <2>2 DEF k
<1>3. DOMAIN walk.sort = 1 .. Len(walk.sort) /\ Len(walk.sort) \in Nat \ {0}
  BY <1>1, LenProperties, EmptySeq
<1>4. \A i \in DOMAIN walk.sort : walk.sort[i] \in SortKey
  BY <1>1, ElementOfSeq, <1>3
<1> QED BY <1>2, <1>3, <1>4

\* The columns of a row are values.
LEMMA RowValues ==
    ASSUME walk \in Walk, NEW r \in Row, NEW i \in DOMAIN walk.sort
    PROVE  r[walk.sort[i].prop] \in Value
<1>1. walk.sort[i].prop \in {"id", "n"}
  BY SortType DEF SortKey
<1> QED BY <1>1, ConstantsAssumption DEF Row, Value

\* The clause of a position takes what is beyond it.
LEMMA AheadMeans ==
    ASSUME walk \in Walk, NEW r \in Row, NEW at \in [DOMAIN walk.sort -> Value]
    PROVE  Ahead(r, at) <=> Beyond(r, at)
<1> DEFINE k == [i \in DOMAIN at |->
                    [prop |-> walk.sort[i].prop, desc |-> walk.sort[i].desc, val |-> at[i]]]
           col(i) == r[walk.sort[i].prop]
           equal(i) == {Compare(col(j), "=", at[j]) : j \in 1 .. i - 1}
           term(i) == Conj(equal(i) \cup
                        {Compare(col(i), IF walk.sort[i].desc THEN "<" ELSE ">", at[i])})
<1>1. PICK n \in Nat \ {0} : DOMAIN walk.sort = 1 .. n
  BY SortType
<1>2. \A i \in 1 .. n : col(i) \in Value /\ at[i] \in Value /\ walk.sort[i].desc \in BOOLEAN
  BY <1>1, RowValues, SortType DEF SortKey
<1>3. KeysetOf(r, k) = << Disj({term(i) : i \in 1 .. n}) >>
  <2>1. DOMAIN k = 1 .. n /\ k # << >>
    BY <1>1
  <2>2. \A i \in 1 .. n : /\ k[i].prop = walk.sort[i].prop
                          /\ k[i].desc = walk.sort[i].desc
                          /\ k[i].val = at[i]
    BY <1>1
  <2>3. \A i \in 1 .. n : 1 .. i - 1 \subseteq 1 .. n
    BY <1>1
  <2>4. \A i \in 1 .. n :
           Conj({Compare(r[k[j].prop], "=", k[j].val) : j \in 1 .. i - 1}
                \cup {Compare(r[k[i].prop], IF k[i].desc THEN "<" ELSE ">", k[i].val)})
           = term(i)
    <3> SUFFICES ASSUME NEW i \in 1 .. n
                 PROVE  Conj({Compare(r[k[j].prop], "=", k[j].val) : j \in 1 .. i - 1}
                          \cup {Compare(r[k[i].prop], IF k[i].desc THEN "<" ELSE ">", k[i].val)})
                        = term(i)
      OBVIOUS
    <3>1. {Compare(r[k[j].prop], "=", k[j].val) : j \in 1 .. i - 1} = equal(i)
      BY <2>2, <2>3
    <3> QED BY <2>2, <3>1
  <2> HIDE DEF k, term
  <2> QED BY <2>1, <2>4 DEF KeysetOf
<1>4. Ahead(r, at) <=> \E i \in 1 .. n : term(i) = "T"
  <2> DEFINE d == Disj({term(i) : i \in 1 .. n})
  <2>1. Ahead(r, at) <=> Selects(<< d >>)
    BY <1>3 DEF Ahead
  <2>2. d \in Truth
    BY DEF Disj, Truth
  <2>3. Selects(<< d >>) <=> d = "T"
    <3> HIDE DEF d
    <3> QED BY <2>2, SelectsOne
  <2>4. d = "T" <=> "T" \in {term(i) : i \in 1 .. n}
    BY DisjTrue
  <2> HIDE DEF d, term
  <2> QED BY <2>1, <2>3, <2>4
<1>5. ASSUME NEW i \in 1 .. n
      PROVE  term(i) = "T" <=>
                /\ \A j \in 1 .. i - 1 : col(j) # Null /\ col(j) = at[j]
                /\ col(i) # Null /\ at[i] # Null
                /\ IF walk.sort[i].desc THEN col(i) < at[i] ELSE col(i) > at[i]
  <2> DEFINE op == IF walk.sort[i].desc THEN "<" ELSE ">"
             all == equal(i) \cup {Compare(col(i), op, at[i])}
  <2>1. \A j \in 1 .. i - 1 : j \in 1 .. n
    BY <1>1
  <2>2. \A j \in 1 .. n : /\ Compare(col(j), "=", at[j]) \in Truth
                          /\ Compare(col(j), "=", at[j]) = "T"
                                <=> col(j) # Null /\ at[j] # Null /\ col(j) = at[j]
    BY <1>2, CompareTrue
  <2>3. /\ Compare(col(i), op, at[i]) \in Truth
        /\ Compare(col(i), op, at[i]) = "T" <=>
              /\ col(i) # Null /\ at[i] # Null
              /\ IF walk.sort[i].desc THEN col(i) < at[i] ELSE col(i) > at[i]
    BY <1>2, CompareTrue
  <2>4. all \in SUBSET Truth
    BY <2>1, <2>2, <2>3
  <2>5. term(i) = "T" <=> \A v \in all : v = "T"
    <3> HIDE DEF all
    <3>1. term(i) = Conj(all)
      BY DEF all
    <3> QED BY <2>4, <3>1, ConjTrue
  <2>6. (\A v \in all : v = "T") <=>
           /\ \A j \in 1 .. i - 1 : Compare(col(j), "=", at[j]) = "T"
           /\ Compare(col(i), op, at[i]) = "T"
    OBVIOUS
  <2> HIDE DEF all, term
  <2> QED BY <2>1, <2>2, <2>3, <2>5, <2>6
<1> HIDE DEF term
<1> QED BY <1>1, <1>4, <1>5 DEF Beyond

-------------------------------------------------------------------------------
(* Positions and the order of rows. *)

\* The position a row makes.
LEMMA KeysOfType ==
    ASSUME walk \in Walk, NEW r \in Row
    PROVE  /\ KeysOf(r) \in [DOMAIN walk.sort -> Values \cup Ids]
           /\ KeysOf(r) \in [DOMAIN walk.sort -> Value]
           /\ \A i \in DOMAIN walk.sort : KeysOf(r)[i] = r[walk.sort[i].prop]
           /\ KeysOf(r) # NoKeys
<1>1. PICK n \in Nat \ {0} : DOMAIN walk.sort = 1 .. n
  BY SortType
<1>2. \A i \in DOMAIN walk.sort : r[walk.sort[i].prop] \in Values \cup Ids
  <2>1. \A i \in DOMAIN walk.sort : walk.sort[i].prop \in {"id", "n"}
    BY SortType DEF SortKey
  <2> QED BY <2>1 DEF Row
<1>3. Values \cup Ids \subseteq Value
  BY ConstantsAssumption DEF Value
<1>4. KeysOf(r) # NoKeys
  <2>1. 1 \in DOMAIN KeysOf(r)
    BY <1>1 DEF KeysOf
  <2> QED BY <2>1 DEF NoKeys
<1> QED BY <1>2, <1>3, <1>4 DEF KeysOf

\* A row is not beyond its own position.
LEMMA NotBeyondItself ==
    ASSUME walk \in Walk, NEW r \in Row
    PROVE  ~Beyond(r, KeysOf(r))
<1> SUFFICES ASSUME NEW i \in DOMAIN walk.sort,
                    LET x == r[walk.sort[i].prop]
                    IN x # Null /\ IF walk.sort[i].desc THEN x < x ELSE x > x
             PROVE  FALSE
  BY KeysOfType DEF Beyond
<1>1. r[walk.sort[i].prop] \in Int
  BY RowValues DEF Value
<1> QED BY <1>1

\* Nor is a row beyond the position of one after it.
LEMMA BeforeIsNotBeyond ==
    ASSUME walk \in Walk, NEW r \in Row, NEW s \in Row, Before(r, s)
    PROVE  ~Beyond(r, KeysOf(s))
<1> DEFINE x(i) == r[walk.sort[i].prop]
           y(i) == s[walk.sort[i].prop]
<1>1. PICK n \in Nat \ {0} : DOMAIN walk.sort = 1 .. n
  BY SortType
<1>2. PICK i \in 1 .. n : /\ \A j \in 1 .. i - 1 : x(j) = y(j)
                          /\ Sooner(x(i), y(i), walk.sort[i].desc)
  BY <1>1 DEF Before
<1> SUFFICES ASSUME NEW k \in 1 .. n,
                    \A j \in 1 .. k - 1 : x(j) # Null /\ x(j) = y(j),
                    x(k) # Null /\ y(k) # Null,
                    IF walk.sort[k].desc THEN x(k) < y(k) ELSE x(k) > y(k)
             PROVE  FALSE
  BY <1>1, KeysOfType DEF Beyond
<1>3. x(i) \in Value /\ y(i) \in Value /\ x(k) \in Value /\ y(k) \in Value
  BY <1>1, RowValues
<1>4. CASE i < k
  <2>1. x(i) = y(i) /\ x(i) # Null
    BY <1>4
  <2> QED BY <1>2, <1>3, <2>1 DEF Sooner, Lower, Value
<1>5. CASE k < i
  <2>1. x(k) = y(k)
    BY <1>2, <1>5
  <2> QED BY <1>3, <2>1 DEF Value
<1>6. CASE i = k
  BY <1>2, <1>3, <1>6 DEF Sooner, Lower, Value
<1> QED BY <1>4, <1>5, <1>6

\* Without NULL, a row is beyond the position of every one before it.
LEMMA AfterIsBeyond ==
    ASSUME walk \in Walk, NEW r \in Row, NEW s \in Row, Before(r, s),
           ~HasNull(r), ~HasNull(s)
    PROVE  Beyond(s, KeysOf(r))
<1> DEFINE x(i) == r[walk.sort[i].prop]
           y(i) == s[walk.sort[i].prop]
<1>1. PICK n \in Nat \ {0} : DOMAIN walk.sort = 1 .. n
  BY SortType
<1>2. PICK i \in 1 .. n : /\ \A j \in 1 .. i - 1 : x(j) = y(j)
                          /\ Sooner(x(i), y(i), walk.sort[i].desc)
  BY <1>1 DEF Before
<1>3. \A j \in 1 .. n : x(j) # Null /\ y(j) # Null
  BY <1>1 DEF HasNull
<1>4. x(i) \in Int /\ y(i) \in Int
  BY <1>1, <1>3, RowValues DEF Value
<1>5. IF walk.sort[i].desc THEN y(i) < x(i) ELSE y(i) > x(i)
  BY <1>2, <1>3, <1>4 DEF Sooner, Lower
<1>6. \A j \in 1 .. i - 1 : y(j) # Null /\ y(j) = x(j)
  BY <1>2, <1>3
<1> QED BY <1>1, <1>3, <1>5, <1>6, KeysOfType DEF Beyond

\* What is beyond the position of a row beyond a position is beyond that.
LEMMA BeyondIsTransitive ==
    ASSUME walk \in Walk, NEW r \in Row, NEW s \in Row,
           NEW at \in [DOMAIN walk.sort -> Value],
           Beyond(r, KeysOf(s)), Beyond(s, at)
    PROVE  Beyond(r, at)
<1> DEFINE x(i) == r[walk.sort[i].prop]
           y(i) == s[walk.sort[i].prop]
           past(v, w, i) == IF walk.sort[i].desc THEN v < w ELSE v > w
<1>1. PICK n \in Nat \ {0} : DOMAIN walk.sort = 1 .. n
  BY SortType
<1>2. PICK i \in 1 .. n : /\ \A j \in 1 .. i - 1 : x(j) # Null /\ x(j) = y(j)
                          /\ x(i) # Null /\ y(i) # Null
                          /\ past(x(i), y(i), i)
  <2>1. \A j \in 1 .. n : KeysOf(s)[j] = y(j)
    BY <1>1, KeysOfType
  <2>2. PICK i \in 1 .. n :
           /\ \A j \in 1 .. i - 1 : x(j) # Null /\ x(j) = KeysOf(s)[j]
           /\ x(i) # Null /\ KeysOf(s)[i] # Null
           /\ past(x(i), KeysOf(s)[i], i)
    BY <1>1 DEF Beyond
  <2>3. \A j \in 1 .. i - 1 : j \in 1 .. n
    OBVIOUS
  <2> QED BY <2>1, <2>2, <2>3
<1>3. PICK k \in 1 .. n : /\ \A j \in 1 .. k - 1 : y(j) # Null /\ y(j) = at[j]
                          /\ y(k) # Null /\ at[k] # Null
                          /\ past(y(k), at[k], k)
  BY <1>1 DEF Beyond
<1>4. /\ x(i) \in Value /\ y(i) \in Value /\ x(k) \in Value /\ y(k) \in Value
      /\ at[i] \in Value /\ at[k] \in Value
  BY <1>1, RowValues
<1>5. CASE i < k
  <2>1. y(i) = at[i] /\ at[i] # Null
    BY <1>3, <1>5
  <2>2. \A j \in 1 .. i - 1 : x(j) # Null /\ x(j) = at[j]
    BY <1>2, <1>3, <1>5
  <2>3. past(x(i), at[i], i)
    BY <1>2, <2>1
  <2> QED BY <1>1, <1>2, <2>1, <2>2, <2>3 DEF Beyond
<1>6. CASE k < i
  <2>1. x(k) = y(k) /\ x(k) # Null
    BY <1>2, <1>6
  <2>2. \A j \in 1 .. k - 1 : x(j) # Null /\ x(j) = at[j]
    BY <1>2, <1>3, <1>6
  <2>3. past(x(k), at[k], k)
    BY <1>3, <2>1
  <2> QED BY <1>1, <1>3, <2>1, <2>2, <2>3 DEF Beyond
<1>7. CASE i = k
  <2>1. \A j \in 1 .. i - 1 : x(j) # Null /\ x(j) = at[j]
    BY <1>2, <1>3, <1>7
  <2>2. past(x(i), at[i], i)
    BY <1>2, <1>3, <1>4, <1>7 DEF Value
  <2> QED BY <1>1, <1>2, <1>3, <1>7, <2>1, <2>2 DEF Beyond
<1> QED BY <1>5, <1>6, <1>7

-------------------------------------------------------------------------------
(* Every step preserves the invariant. *)

\* A walk starts with nothing seen and everything ahead.
LEMMA InitHolds == Init => IInv
<1> SUFFICES ASSUME Init PROVE IInv
  OBVIOUS
<1>1. TypeOK
  <2>1. changes \in 0 .. MaxChanges /\ page \in Nat /\ stage \in Stages
    BY ConstantsAssumption DEF Init, Stages
  <2> QED BY <2>1 DEF Init, TypeOK
<1>2. WindowsDoNotRepeat /\ WindowsMissNothing /\ BehindInv
  BY DEF Init, WindowsDoNotRepeat, WindowsMissNothing, BehindInv
<1>3. ASSUME NEW r PROVE Ahead(r, NoKeys)
  <2>1. DOMAIN NoKeys = {}
    BY DEF NoKeys
  <2>2. [i \in DOMAIN NoKeys |->
           [prop |-> walk.sort[i].prop, desc |-> walk.sort[i].desc, val |-> NoKeys[i]]] = << >>
    BY <2>1
  <2> QED BY <2>2 DEF Ahead, KeysetOf, Selects
<1> QED BY <1>1, <1>2, <1>3 DEF Init, AheadInv, IInv

\* Others leave the walk alone and rows that stay can only become fewer.
LEMMA OthersPreserve ==
    ASSUME IInv, Others PROVE IInv'
<1>1. /\ rows' \in Tables /\ stays' \subseteq rows' /\ stays' \subseteq stays
      /\ lost' \subseteq Row /\ gained' \subseteq Row
  <2>1. rows \subseteq Row /\ IsFiniteSet(rows) /\ \A r, s \in rows : r.id = s.id => r = s
    BY DEF IInv, TypeOK, Tables
  <2>2. CASE \E r \in Row : Insert(r)
    <3>1. PICK r \in Row : Insert(r)
      BY <2>2
    <3>2. IsFiniteSet(rows \cup {r})
      BY <2>1, FS_AddElement
    <3> QED BY <2>1, <3>1, <3>2 DEF Insert, IInv, TypeOK, Tables
  <2>3. CASE \E r \in rows : Delete(r)
    <3>1. PICK r \in rows : Delete(r)
      BY <2>3
    <3>2. IsFiniteSet(rows \ {r})
      BY <2>1, FS_RemoveElement
    <3> QED BY <2>1, <3>1, <3>2 DEF Delete, IInv, TypeOK, Tables
  <2>4. CASE \E r \in rows, s \in Row : Change(r, s)
    <3>1. PICK r \in rows, s \in Row : Change(r, s)
      BY <2>4
    <3>2. IsFiniteSet((rows \ {r}) \cup {s})
      BY <2>1, FS_RemoveElement, FS_AddElement
    <3>3. rows' \in Tables
      BY <2>1, <3>1, <3>2 DEF Change, Tables
    <3>4. stays' \subseteq rows' /\ stays' \subseteq stays
      BY <3>1 DEF Change, IInv, TypeOK
    <3> QED BY <2>1, <3>1, <3>3, <3>4 DEF Change, IInv, TypeOK
  <2> QED BY <2>2, <2>3, <2>4 DEF Others
<1>2. UNCHANGED <<walk, keys, page, stage, seen, again, nullKey>>
  BY DEF Others, asked
<1>3. changes' \in 0 .. MaxChanges
  BY ConstantsAssumption DEF Others, IInv, TypeOK
<1>4. TypeOK'
  BY <1>1, <1>2, <1>3 DEF IInv, TypeOK
<1>5. WindowsDoNotRepeat' /\ BehindInv'
  BY <1>2 DEF IInv, WindowsDoNotRepeat, BehindInv, Ahead
<1>6. WindowsMissNothing' /\ AheadInv'
  BY <1>1, <1>2 DEF IInv, WindowsMissNothing, AheadInv, Ahead, HasNull
<1> QED BY <1>4, <1>5, <1>6 DEF IInv

\* Slices and pages do not concern windows.
LEMMA OffsetsPreserve ==
    ASSUME IInv, Slice \/ PageFind \/ PageCount PROVE IInv'
<1>1. /\ walk.kind # "window"
      /\ UNCHANGED <<rows, walk, keys, nullKey, changes, stays, lost, gained>>
  BY DEF Slice, PageFind, PageCount, others
<1>2. page' \in Nat /\ stage' \in Stages
  BY DEF Slice, PageFind, PageCount, Stages, IInv, TypeOK
<1>3. seen' \subseteq Row /\ again' \subseteq seen'
  <2>1. seen \subseteq Row /\ again \subseteq seen /\ rows \subseteq Row
    BY DEF IInv, TypeOK, Tables
  <2>2. CASE PageCount
    BY <2>1, <2>2 DEF PageCount
  <2>3. CASE Slice \/ PageFind
    <3>1. PICK c \in SUBSET rows : Hand(c)
      BY <2>3 DEF Slice, PageFind
    <3> QED BY <2>1, <3>1 DEF Hand
  <2> QED BY <2>2, <2>3
<1>4. TypeOK'
  BY <1>1, <1>2, <1>3 DEF IInv, TypeOK
<1> QED BY <1>1, <1>4
        DEF IInv, WindowsDoNotRepeat, WindowsMissNothing, BehindInv, AheadInv

\* The content of a window, and when it is all there is ahead.
LEMMA WindowContent ==
    ASSUME IInv, NEW fetched, NEW c, NEW S \in SUBSET rows,
           IsFirst(fetched, OneMore, S), Content(c, fetched)
    PROVE  /\ c \subseteq S /\ fetched \subseteq S
           /\ \A r \in c, s \in S \ c : Before(r, s)
           /\ ~HasNext(fetched) => c = S
           /\ c = {} => S = {}
<1>1. walk.size \in Nat /\ walk.size >= 1
  BY SortType DEF IInv, TypeOK
<1>2. fetched \subseteq S /\ c \subseteq fetched
  BY DEF IsFirst, Content
<1>3. IsFiniteSet(S) /\ IsFiniteSet(fetched) /\ IsFiniteSet(c)
  BY <1>2, FS_Subset DEF IInv, TypeOK, Tables
<1>4. \A r \in c, s \in S \ c : Before(r, s)
  BY <1>2 DEF IsFirst, Content
<1>5. Cardinality(fetched) \in Nat /\ Cardinality(c) \in Nat
  BY <1>3, FS_CardinalityType
<1>6. ASSUME ~HasNext(fetched) PROVE c = S
  <2>1. Cardinality(fetched) <= walk.size
    BY <1>1, <1>5, <1>6 DEF HasNext
  <2>2. fetched = S
    BY <1>1, <1>5, <2>1 DEF IsFirst, OneMore
  <2>3. CASE c = fetched
    BY <2>2, <2>3
  <2>4. CASE Cardinality(c) = walk.size
    <3>1. Cardinality(c) = Cardinality(fetched)
      <4>1. Cardinality(c) <= Cardinality(fetched)
        BY <1>2, <1>3, FS_Subset
      <4> QED BY <1>1, <1>5, <2>1, <2>4, <4>1
    <3> QED BY <1>2, <1>3, <2>2, <3>1, FS_Subset
  <2> QED BY <2>3, <2>4 DEF Content, IsFirst
<1>7. ASSUME c = {} PROVE S = {}
  <2>1. Cardinality(c) = 0
    BY <1>7, FS_EmptySet
  <2>2. c = fetched
    BY <1>1, <2>1 DEF Content, IsFirst
  <2>3. ~HasNext(fetched)
    BY <1>1, <2>1, <2>2 DEF HasNext
  <2> QED BY <1>6, <1>7, <2>3
<1> QED BY <1>2, <1>4, <1>6, <1>7

\* A window takes rows ahead of the position, and moves it to the last.
LEMMA WindowPreserves ==
    ASSUME IInv, Window PROVE IInv'
<1> DEFINE S == {r \in rows : Ahead(r, keys)}
<1>1. PICK fetched \in SUBSET S, c \in SUBSET S :
         /\ IsFirst(fetched, OneMore, S)
         /\ Content(c, fetched)
         /\ Hand(c)
         /\ NextPosition(c)
         /\ stage' = IF c = {} THEN "empty" ELSE IF HasNext(fetched) THEN "next" ELSE "end"
  BY DEF Window
<1>2. /\ walk.kind = "window" /\ stage \in {"next", "end"}
      /\ UNCHANGED <<rows, walk, page, changes, stays, lost, gained>>
  BY DEF Window, others
<1>3. /\ walk \in Walk /\ rows \in SUBSET Row /\ seen \in SUBSET Row /\ stays \in SUBSET rows
      /\ nullKey \in BOOLEAN /\ again = {}
  BY <1>2 DEF IInv, TypeOK, Tables, WindowsDoNotRepeat
<1>4. /\ c \subseteq S /\ \A r \in c, s \in S \ c : Before(r, s)
      /\ ~HasNext(fetched) => c = S
      /\ c = {} => S = {}
  BY <1>1, WindowContent
<1>5. seen' = seen \cup c /\ again' = {}
  <2>1. seen \cap c = {}
    BY <1>2, <1>4 DEF IInv, BehindInv
  <2> QED BY <1>1, <1>3, <2>1 DEF Hand
<1> HIDE DEF S
<1>6. CASE c = {}
  <2>1. stage' = "empty" /\ keys' = NoKeys /\ nullKey' = nullKey
    BY <1>1, <1>6 DEF NextPosition
  <2>2. TypeOK'
    BY <1>2, <1>3, <1>5, <1>6, <2>1 DEF IInv, TypeOK, Stages
  <2>3. WindowsMissNothing'
    <3> SUFFICES ASSUME NEW r \in stays PROVE r \in seen' \/ HasNull(r)' \/ nullKey'
      BY <1>2 DEF WindowsMissNothing
    <3>1. HasNull(r)' <=> HasNull(r)
      BY <1>2 DEF HasNull
    <3>2. r \in seen \/ HasNull(r) \/ nullKey
      <4>1. CASE stage = "end"
        BY <1>2, <4>1 DEF IInv, WindowsMissNothing
      <4>2. CASE stage = "next"
        <5>1. r \notin S
          BY <1>4, <1>6
        <5> QED BY <1>2, <1>3, <4>2, <5>1 DEF IInv, AheadInv, S
      <4> QED BY <1>2, <4>1, <4>2
    <3> QED BY <1>5, <2>1, <3>1, <3>2
  <2> QED BY <1>5, <2>1, <2>2, <2>3 DEF IInv, WindowsDoNotRepeat, BehindInv, AheadInv
<1>7. CASE c # {}
  <2>1. PICK l \in c : /\ IsLast(l, c)
                       /\ keys' = KeysOf(l)
                       /\ nullKey' = (nullKey \/ HasNull(l))
    BY <1>1, <1>7 DEF NextPosition
  <2>2. /\ l \in Row /\ l \in rows /\ Ahead(l, keys) /\ c \subseteq Row
        /\ KeysOf(l) \in [DOMAIN walk.sort -> Value] /\ KeysOf(l) # NoKeys
        /\ KeysOf(l) \in [DOMAIN walk.sort -> Values \cup Ids]
    BY <1>3, <1>4, KeysOfType DEF S
  <2>3. stage' = IF HasNext(fetched) THEN "next" ELSE "end"
    BY <1>1, <1>7
  <2>4. TypeOK'
    <3>1. keys' \in [DOMAIN walk'.sort -> Values \cup Ids] /\ stage' \in Stages
      BY <1>2, <2>1, <2>2, <2>3 DEF Stages
    <3>2. nullKey' \in BOOLEAN
      BY <2>1
    <3>3. seen' \subseteq Row /\ again' \subseteq seen'
      BY <1>3, <1>5, <2>2
    <3> QED BY <1>2, <3>1, <3>2, <3>3 DEF IInv, TypeOK
  <2>5. ASSUME NEW r \in Row PROVE Ahead(r, keys)' <=> Beyond(r, KeysOf(l))
    <3>1. Ahead(r, keys)' <=> Ahead(r, KeysOf(l))
      BY <1>2, <2>1 DEF Ahead
    <3> QED BY <1>3, <2>2, <3>1, AheadMeans
  <2>6. BehindInv'
    <3> SUFFICES ASSUME NEW r \in seen' PROVE ~Beyond(r, KeysOf(l))
      BY <1>3, <1>5, <2>1, <2>2, <2>5 DEF BehindInv
    <3>1. CASE r \in c
      <4>1. CASE r = l
        BY <1>3, <2>2, <4>1, NotBeyondItself
      <4>2. CASE r # l
        <5>1. Before(r, l)
          BY <2>1, <3>1, <4>2 DEF IsLast
        <5> QED BY <1>3, <2>2, <3>1, <5>1, BeforeIsNotBeyond
      <4> QED BY <4>1, <4>2
    <3>2. CASE r \in seen
      <4>1. keys # NoKeys /\ ~Ahead(r, keys)
        BY <1>2, <3>2 DEF IInv, BehindInv
      <4>2. keys \in [DOMAIN walk.sort -> Value]
        BY <4>1, ConstantsAssumption DEF IInv, TypeOK, Value
      <4>3. ~Beyond(r, keys) /\ Beyond(l, keys)
        BY <1>3, <2>2, <3>2, <4>1, <4>2, AheadMeans
      <4> QED BY <1>3, <2>2, <3>2, <4>2, <4>3, BeyondIsTransitive
    <3> QED BY <1>5, <3>1, <3>2
  <2>7. ASSUME NEW r \in stays
        PROVE  r \in seen' \/ HasNull(r)' \/ nullKey' \/ (Ahead(r, keys)' /\ stage' = "next")
    <3> SUFFICES ASSUME r \notin seen', ~HasNull(r), ~nullKey'
                 PROVE  Ahead(r, keys)' /\ stage' = "next"
      BY <1>2 DEF HasNull
    <3>1. r \notin seen /\ r \notin c /\ ~nullKey /\ r \in Row
      BY <1>3, <1>5, <2>1
    <3>2. stage = "next"
      BY <1>2, <3>1 DEF IInv, WindowsMissNothing
    <3>3. r \in S
      BY <1>2, <1>3, <3>1, <3>2 DEF IInv, AheadInv, S
    <3>4. stage' = "next"
      BY <1>4, <2>3, <3>1, <3>3
    <3>5. Before(l, r)
      BY <1>4, <3>1, <3>3
    <3>6. ~HasNull(l)
      BY <2>1
    <3>7. Beyond(r, KeysOf(l))
      BY <1>3, <2>2, <3>1, <3>5, <3>6, AfterIsBeyond
    <3> QED BY <2>5, <3>1, <3>4, <3>7
  <2>8. WindowsMissNothing' /\ AheadInv'
    <3>1. stage' \in {"next", "end"}
      BY <2>3
    <3> QED BY <1>2, <2>7, <3>1 DEF WindowsMissNothing, AheadInv
  <2> QED BY <1>5, <2>4, <2>6, <2>8 DEF IInv, WindowsDoNotRepeat
<1> QED BY <1>6, <1>7

\* The invariant holds in every reachable state.
LEMMA Invariance == Spec => []IInv
<1>1. IInv /\ [Next]_vars => IInv'
  <2> SUFFICES ASSUME IInv, [Next]_vars PROVE IInv'
    OBVIOUS
  <2>1. CASE Window
    BY <2>1, WindowPreserves
  <2>2. CASE Slice \/ PageFind \/ PageCount
    BY <2>2, OffsetsPreserve
  <2>3. CASE Others
    BY <2>3, OthersPreserve
  <2>4. CASE UNCHANGED vars
    <3>1. UNCHANGED <<rows, walk, keys, page, stage, changes, stays, seen, again, lost,
                      gained, nullKey>>
      BY <2>4 DEF vars, asked, others
    <3> QED BY <3>1 DEF IInv, TypeOK, WindowsDoNotRepeat, WindowsMissNothing, BehindInv,
                        AheadInv, Ahead, HasNull
  <2> QED BY <2>1, <2>2, <2>3, <2>4 DEF Next
<1> QED BY InitHolds, <1>1, PTL DEF Spec

\* Every variable of a walk has its type.
THEOREM ScrollTypeCorrect == Spec => []TypeOK
<1>1. IInv => TypeOK
  BY DEF IInv
<1> QED BY Invariance, <1>1, PTL

\* Windows never hand out a row twice.
THEOREM ScrollSeesOnce == Spec => []WindowsDoNotRepeat
<1>1. IInv => WindowsDoNotRepeat
  BY DEF IInv
<1> QED BY Invariance, <1>1, PTL

\* At the end of a scroll every row that stayed was seen, NULL aside.
THEOREM ScrollSeesAll == Spec => []WindowsMissNothing
<1>1. IInv => WindowsMissNothing
  BY DEF IInv
<1> QED BY Invariance, <1>1, PTL

-------------------------------------------------------------------------------
(* Slices and pages: what their offsets miss and what they repeat.  A      *)
(* row's place is the number of rows before it.  Inserts and changes       *)
(* before it push it back, deletions and changes pull it forward; a row    *)
(* that nothing has pushed is not found behind the slices it was in        *)
(* (RepeatInv), and one that nothing has pulled is not found before those  *)
(* it was not in (MissInv).                                                *)

\* The rows before r.
Prior(r) == {s \in rows : Before(s, r)}

\* Number of slices or pages that have been handed out.
Handed == IF stage = "count" THEN page + 1 ELSE page

RepeatInv ==
    walk.kind # "window" => \A r \in stays : (\A s \in gained : ~Before(s, r)) =>
        r \notin again /\ (r \in seen => Cardinality(Prior(r)) < Handed * walk.size)

MissInv ==
    walk.kind # "window" => \A r \in stays : (\A s \in lost : ~Before(s, r)) =>
        r \in seen \/ (stage # "end" /\ Handed * walk.size <= Cardinality(Prior(r)))

-------------------------------------------------------------------------------
(* Places. *)

\* The order has no two rows before each other.
LEMMA BeforeIsAsymmetric ==
    ASSUME walk \in Walk, NEW r \in Row, NEW s \in Row, Before(r, s)
    PROVE  ~Before(s, r)
<1> DEFINE x(i) == r[walk.sort[i].prop]
           y(i) == s[walk.sort[i].prop]
<1>1. PICK n \in Nat \ {0} : DOMAIN walk.sort = 1 .. n
  BY SortType
<1>2. PICK i \in 1 .. n : /\ \A j \in 1 .. i - 1 : x(j) = y(j)
                          /\ Sooner(x(i), y(i), walk.sort[i].desc)
  BY <1>1 DEF Before
<1> SUFFICES ASSUME NEW k \in 1 .. n,
                    \A j \in 1 .. k - 1 : y(j) = x(j),
                    Sooner(y(k), x(k), walk.sort[k].desc)
             PROVE  FALSE
  BY <1>1 DEF Before
<1>3. x(i) \in Value /\ y(i) \in Value /\ x(k) \in Value /\ y(k) \in Value
  BY <1>1, RowValues
<1>4. CASE i < k
  <2>1. x(i) = y(i)
    BY <1>4
  <2> QED BY <1>2, <1>3, <2>1 DEF Sooner, Lower, Value
<1>5. CASE k < i
  <2>1. x(k) = y(k)
    BY <1>2, <1>5
  <2> QED BY <1>3, <2>1 DEF Sooner, Lower, Value
<1>6. CASE i = k
  BY <1>2, <1>3, <1>6 DEF Sooner, Lower, Value
<1> QED BY <1>4, <1>5, <1>6

\* Rows before a row are finitely many.
LEMMA PriorType ==
    ASSUME TypeOK, NEW r
    PROVE  /\ IsFiniteSet(rows) /\ rows \subseteq Row /\ IsFiniteSet(Prior(r))
           /\ Cardinality(Prior(r)) \in Nat
           /\ Cardinality(rows) \in Nat
           /\ r \in rows => r \notin Prior(r) /\ Cardinality(Prior(r)) + 1 <= Cardinality(rows)
<1>1. IsFiniteSet(rows) /\ rows \subseteq Row /\ walk \in Walk
  BY DEF TypeOK, Tables
<1>2. Prior(r) \in SUBSET rows
  BY DEF Prior
<1>3. IsFiniteSet(Prior(r)) /\ Cardinality(Prior(r)) \in Nat /\ Cardinality(rows) \in Nat
  BY <1>1, <1>2, FS_Subset, FS_CardinalityType
<1>4. ASSUME r \in rows PROVE r \notin Prior(r) /\ Cardinality(Prior(r)) + 1 <= Cardinality(rows)
  <2>1. r \notin Prior(r)
    BY <1>1, <1>4, BeforeIsAsymmetric DEF Prior
  <2>2. Prior(r) \cup {r} \in SUBSET rows
    BY <1>2, <1>4
  <2>3. Cardinality(Prior(r) \cup {r}) = Cardinality(Prior(r)) + 1
    BY <1>3, <2>1, FS_AddElement
  <2>4. Cardinality(Prior(r) \cup {r}) <= Cardinality(rows)
    BY <1>1, <2>2, FS_Subset
  <2> QED BY <2>1, <2>3, <2>4
<1> QED BY <1>1, <1>3, <1>4

\* LIMIT, with the rows it takes and the place of each.
LEMMA FirstRows ==
    ASSUME TypeOK, NEW F, NEW k \in Nat, IsFirst(F, k, rows)
    PROVE  /\ IsFiniteSet(F) /\ Cardinality(F) \in Nat /\ Cardinality(F) <= k
           /\ F # rows => Cardinality(F) = k
           /\ \A r \in F : Cardinality(Prior(r)) < k
           /\ \A r \in rows \ F : F \subseteq Prior(r)
<1>1. IsFiniteSet(rows) /\ rows \subseteq Row /\ walk \in Walk /\ F \in SUBSET rows
  BY PriorType DEF TypeOK, IsFirst
<1>2. IsFiniteSet(F) /\ Cardinality(F) \in Nat
  BY <1>1, FS_Subset, FS_CardinalityType
<1>3. Cardinality(F) <= k /\ (F # rows => Cardinality(F) = k)
  BY <1>2 DEF IsFirst
<1>4. ASSUME NEW r \in F PROVE Cardinality(Prior(r)) < k
  <2>1. \A s \in Prior(r) : s \in F
    <3> SUFFICES ASSUME NEW s \in Prior(r), s \notin F PROVE FALSE
      OBVIOUS
    <3>1. s \in rows /\ Before(s, r) /\ Before(r, s)
      BY DEF Prior, IsFirst
    <3> QED BY <1>1, <3>1, BeforeIsAsymmetric
  <2>2. r \notin Prior(r) /\ IsFiniteSet(Prior(r)) /\ Cardinality(Prior(r)) \in Nat
    BY <1>1, PriorType
  <2>3. Prior(r) \cup {r} \in SUBSET F
    BY <2>1
  <2>4. Cardinality(Prior(r) \cup {r}) <= Cardinality(F)
    BY <1>2, <2>3, FS_Subset
  <2>5. Cardinality(Prior(r) \cup {r}) = Cardinality(Prior(r)) + 1
    BY <2>2, FS_AddElement
  <2> QED BY <1>2, <1>3, <2>2, <2>4, <2>5
<1>5. ASSUME NEW r \in rows \ F PROVE F \subseteq Prior(r)
  BY <1>1 DEF Prior, IsFirst
<1> QED BY <1>2, <1>3, <1>4, <1>5

-------------------------------------------------------------------------------
(* One slice or page. *)

\* The first rows of those behind the offset are, with those the offset skips,
\* the first rows of all.
LEMMA SkippedAndHanded ==
    ASSUME TypeOK, NEW skipped, NEW c, NEW n \in Nat, NEW k \in Nat,
           IsFirst(skipped, n, rows), IsFirst(c, k, rows \ skipped)
    PROVE  IsFirst(skipped \cup c, n + k, rows)
<1>1. IsFiniteSet(rows) /\ skipped \in SUBSET rows /\ c \in SUBSET (rows \ skipped)
  BY PriorType DEF IsFirst
<1>2. /\ IsFiniteSet(skipped) /\ Cardinality(skipped) \in Nat
      /\ IsFiniteSet(c) /\ Cardinality(c) \in Nat
  BY <1>1, FS_Subset, FS_CardinalityType
<1>3. Cardinality(skipped \cup c) = Cardinality(skipped) + Cardinality(c)
  <2>1. skipped \cap c = {}
    BY <1>1
  <2>2. Cardinality({}) = 0
    BY FS_EmptySet
  <2>3. Cardinality(skipped \cup c) =
           Cardinality(skipped) + Cardinality(c) - Cardinality(skipped \cap c)
    BY <1>2, FS_Union
  <2>4. Cardinality(skipped \cap c) = 0
    BY <2>1, <2>2
  <2> QED BY <1>2, <2>3, <2>4
<1>4. \A r \in skipped \cup c, s \in rows \ (skipped \cup c) : Before(r, s)
  BY <1>1 DEF IsFirst
<1>5. CASE skipped = rows
  <2>1. c = {} /\ Cardinality(c) = 0
    BY <1>1, <1>5, FS_EmptySet
  <2>2. Cardinality(skipped) <= n
    BY <1>2 DEF IsFirst
  <2>3. skipped \cup c = rows /\ Cardinality(skipped \cup c) <= n + k
    BY <1>1, <1>2, <1>3, <1>5, <2>1, <2>2
  <2>4. Cardinality(skipped \cup c) = n + k \/ Cardinality(skipped \cup c) < n + k
    BY <1>2, <1>3, <2>3
  <2> QED BY <1>4, <2>3, <2>4 DEF IsFirst
<1>6. CASE skipped # rows
  <2>1. Cardinality(skipped) = n
    BY <1>6 DEF IsFirst
  <2>2. Cardinality(c) = k \/ (c = rows \ skipped /\ Cardinality(c) < k)
    BY DEF IsFirst
  <2>3. c = rows \ skipped => skipped \cup c = rows
    BY <1>1
  <2>4. \/ Cardinality(skipped \cup c) = n + k
        \/ skipped \cup c = rows /\ Cardinality(skipped \cup c) < n + k
    BY <1>2, <1>3, <2>1, <2>2, <2>3
  <2>5. skipped \cup c \in SUBSET rows
    BY <1>1
  <2> QED BY <1>4, <2>4, <2>5 DEF IsFirst
<1> QED BY <1>5, <1>6

LEMMA Multiples ==
    ASSUME NEW p \in Nat, NEW k \in Nat
    PROVE  p * k \in Nat /\ (p + 1) * k \in Nat /\ (p + 1) * k = p * k + k
OBVIOUS

\* Handing out a slice or page keeps both.
LEMMA HandKeeps ==
    ASSUME TypeOK, RepeatInv, MissInv, walk.kind # "window", stage = "next",
           NEW skipped, NEW c,
           IsFirst(skipped, Offset, rows), IsFirst(c, walk.size, rows \ skipped),
           Hand(c), UNCHANGED <<rows, walk, others>>
    PROVE  \A r \in stays :
              /\ (\A s \in gained : ~Before(s, r)) =>
                    /\ r \notin again'
                    /\ r \in seen' => Cardinality(Prior(r)) < (page + 1) * walk.size
              /\ (\A s \in lost : ~Before(s, r)) =>
                    /\ r \in seen' \/ (page + 1) * walk.size <= Cardinality(Prior(r))
                    /\ r \in seen' \/ r \notin skipped \cup c
<1> DEFINE n == page * walk.size
           k == walk.size
           m == (page + 1) * walk.size
<1>1. k \in Nat /\ k >= 1 /\ page \in Nat /\ n \in Nat /\ m = n + k /\ m \in Nat
  <2>1. walk.size \in Nat /\ walk.size >= 1 /\ page \in Nat
    BY SortType DEF TypeOK
  <2> QED BY <2>1, Multiples
<1>2. Offset = n /\ Handed = page
  BY DEF Offset, Handed
<1>3. IsFirst(skipped, n, rows)
  BY <1>2
<1>4. IsFirst(skipped \cup c, m, rows)
  <2> HIDE DEF n, k, m
  <2>1. IsFirst(c, k, rows \ skipped)
    BY DEF k
  <2> QED BY <1>1, <1>3, <2>1, SkippedAndHanded
<1>5. seen' = seen \cup c /\ again' = again \cup (seen \cap c) /\ c \cap skipped = {}
  BY DEF Hand, IsFirst
<1> SUFFICES ASSUME NEW r \in stays
             PROVE  /\ (\A s \in gained : ~Before(s, r)) =>
                          r \notin again' /\ (r \in seen' => Cardinality(Prior(r)) < m)
                    /\ (\A s \in lost : ~Before(s, r)) =>
                          /\ r \in seen' \/ m <= Cardinality(Prior(r))
                          /\ r \in seen' \/ r \notin skipped \cup c
  OBVIOUS
<1>6. r \in rows /\ Cardinality(Prior(r)) \in Nat /\ IsFiniteSet(Prior(r))
  BY PriorType DEF TypeOK
<1> HIDE DEF n, k, m
\* Rows the offset skips have a place below it, rows it does not skip have not.
<1>7. r \in skipped <=> Cardinality(Prior(r)) < n
  <2>1. CASE r \in skipped
    BY <1>1, <1>3, <2>1, FirstRows
  <2>2. CASE r \notin skipped
    <3>1. skipped \in SUBSET Prior(r) /\ Cardinality(skipped) = n
      BY <1>1, <1>3, <1>6, <2>2, FirstRows
    <3>2. Cardinality(skipped) <= Cardinality(Prior(r))
      BY <1>6, <3>1, FS_Subset
    <3> QED BY <1>1, <1>6, <2>2, <3>1, <3>2
  <2> QED BY <2>1, <2>2
<1>8. r \in skipped \cup c <=> Cardinality(Prior(r)) < m
  <2>1. CASE r \in skipped \cup c
    BY <1>1, <1>4, <2>1, FirstRows
  <2>2. CASE r \notin skipped \cup c
    <3>1. skipped \cup c \in SUBSET Prior(r) /\ Cardinality(skipped \cup c) = m
      BY <1>1, <1>4, <1>6, <2>2, FirstRows
    <3>2. Cardinality(skipped \cup c) <= Cardinality(Prior(r))
      BY <1>6, <3>1, FS_Subset
    <3> QED BY <1>1, <1>6, <2>2, <3>1, <3>2
  <2> QED BY <2>1, <2>2
<1>9. ASSUME \A s \in gained : ~Before(s, r)
      PROVE  r \notin again' /\ (r \in seen' => Cardinality(Prior(r)) < m)
  <2>1. r \notin again /\ (r \in seen => Cardinality(Prior(r)) < n)
    BY <1>2, <1>9 DEF RepeatInv, n
  <2> QED BY <1>1, <1>5, <1>6, <1>7, <1>8, <2>1
<1>10. ASSUME \A s \in lost : ~Before(s, r)
       PROVE  /\ r \in seen' \/ m <= Cardinality(Prior(r))
              /\ r \in seen' \/ r \notin skipped \cup c
  <2>1. r \in seen \/ n <= Cardinality(Prior(r))
    BY <1>2, <1>10 DEF MissInv, n
  <2> QED BY <1>1, <1>5, <1>6, <1>7, <1>8, <2>1
<1> QED BY <1>9, <1>10

-------------------------------------------------------------------------------
(* Every step preserves both. *)

LEMMA SameOrder ==
    ASSUME UNCHANGED walk, NEW r, NEW s
    PROVE  /\ Before(s, r)' <=> Before(s, r)
           /\ UNCHANGED rows => Prior(r)' = Prior(r)
BY DEF Before, Prior

\* What a slice hands out are the first rows behind its offset, and without a
\* next one they are all.
LEMMA SliceContent ==
    ASSUME IInv, NEW fetched, NEW c, NEW S \in SUBSET rows,
           IsFirst(fetched, OneMore, S), Content(c, fetched)
    PROVE  IsFirst(c, walk.size, S) /\ (~HasNext(fetched) => c = S)
<1>1. /\ c \subseteq S /\ \A r \in c, s \in S \ c : Before(r, s)
      /\ ~HasNext(fetched) => c = S
  BY WindowContent
<1>2. CASE Cardinality(c) = walk.size
  BY <1>1, <1>2 DEF IsFirst
<1>3. CASE c = fetched /\ Cardinality(c) < walk.size
  <2>1. IsFiniteSet(c)
    BY <1>1, FS_Subset DEF IInv, TypeOK, Tables
  <2>2. Cardinality(c) \in Nat /\ walk.size \in Nat
    BY <2>1, FS_CardinalityType, SortType DEF IInv, TypeOK
  <2>3. ~HasNext(fetched)
    BY <1>3, <2>2 DEF HasNext
  <2> QED BY <1>1, <1>3, <2>3 DEF IsFirst
<1> QED BY <1>1, <1>2, <1>3 DEF Content, IsFirst

LEMMA SliceKeeps ==
    ASSUME IInv, RepeatInv, MissInv, Slice PROVE RepeatInv' /\ MissInv'
<1>1. /\ walk.kind # "window" /\ stage = "next" /\ page' = page + 1
      /\ UNCHANGED <<rows, walk, keys, nullKey, others>>
      /\ stays' = stays /\ lost' = lost /\ gained' = gained
  BY DEF Slice, others
<1>2. PICK fetched \in SUBSET rows, c \in SUBSET rows :
         /\ Fetched(fetched, OneMore) /\ Content(c, fetched) /\ Hand(c)
         /\ stage' = IF HasNext(fetched) THEN "next" ELSE "end"
  BY DEF Slice
<1>3. PICK skipped \in SUBSET rows :
         IsFirst(skipped, Offset, rows) /\ IsFirst(fetched, OneMore, rows \ skipped)
  BY <1>2 DEF Fetched
<1>4. IsFirst(c, walk.size, rows \ skipped) /\ (~HasNext(fetched) => c = rows \ skipped)
  BY <1>2, <1>3, SliceContent
<1> DEFINE m == (page + 1) * walk.size
<1>5. \A r \in stays :
         /\ (\A s \in gained : ~Before(s, r)) =>
               r \notin again' /\ (r \in seen' => Cardinality(Prior(r)) < m)
         /\ (\A s \in lost : ~Before(s, r)) =>
               /\ r \in seen' \/ m <= Cardinality(Prior(r))
               /\ r \in seen' \/ r \notin skipped \cup c
  BY <1>1, <1>2, <1>3, <1>4, HandKeeps DEF IInv
<1>6. (Handed * walk.size)' = m
  BY <1>1, <1>2 DEF Handed
<1>7. \A r : Prior(r)' = Prior(r) /\ \A s : Before(s, r)' <=> Before(s, r)
  BY <1>1, SameOrder
<1> HIDE DEF m
<1>8. RepeatInv'
  BY <1>1, <1>5, <1>6, <1>7 DEF RepeatInv
<1>9. MissInv'
  <2>1. \A r \in stays : r \in rows
    BY DEF IInv, TypeOK
  <2>2. CASE HasNext(fetched)
    BY <1>1, <1>2, <1>5, <1>6, <1>7, <2>2 DEF MissInv
  <2>3. CASE ~HasNext(fetched)
    BY <1>1, <1>2, <1>4, <1>5, <1>7, <2>1, <2>3 DEF MissInv
  <2> QED BY <2>2, <2>3
<1> QED BY <1>8, <1>9

LEMMA PageFindKeeps ==
    ASSUME IInv, RepeatInv, MissInv, PageFind PROVE RepeatInv' /\ MissInv'
<1>1. /\ walk.kind # "window" /\ stage = "next" /\ stage' = "count" /\ page' = page
      /\ UNCHANGED <<rows, walk, keys, nullKey, others>>
      /\ stays' = stays /\ lost' = lost /\ gained' = gained
  BY DEF PageFind, others
<1>2. PICK c \in SUBSET rows, skipped \in SUBSET rows :
         /\ Hand(c)
         /\ IsFirst(skipped, Offset, rows) /\ IsFirst(c, walk.size, rows \ skipped)
  BY DEF PageFind, Fetched
<1> DEFINE m == (page + 1) * walk.size
<1>3. \A r \in stays :
         /\ (\A s \in gained : ~Before(s, r)) =>
               r \notin again' /\ (r \in seen' => Cardinality(Prior(r)) < m)
         /\ (\A s \in lost : ~Before(s, r)) =>
               r \in seen' \/ m <= Cardinality(Prior(r))
  BY <1>1, <1>2, HandKeeps DEF IInv
<1>4. (Handed * walk.size)' = m
  BY <1>1 DEF Handed
<1>5. \A r : Prior(r)' = Prior(r) /\ \A s : Before(s, r)' <=> Before(s, r)
  BY <1>1, SameOrder
<1> HIDE DEF m
<1> QED BY <1>1, <1>3, <1>4, <1>5 DEF RepeatInv, MissInv

\* More rows than p pages hold make more than p pages.
LEMMA PagesOfRows ==
    ASSUME NEW p \in Nat, NEW k \in Nat, k >= 1, NEW t \in Nat, p * k + 1 <= t
    PROVE  p < (t + k - 1) \div k
<1> DEFINE a == t + k - 1
           q == a \div k
<1>1. a \in Nat /\ a >= p * k + k
  OBVIOUS
<1> HIDE DEF a
<1>2. q \in Int /\ a < q * k + k
  BY <1>1
<1> HIDE DEF q
<1>3. p * k < q * k
  BY <1>1, <1>2
<1>4. p < q
  BY <1>2, <1>3
<1> QED BY <1>4 DEF q, a

LEMMA PageCountKeeps ==
    ASSUME IInv, RepeatInv, MissInv, PageCount PROVE RepeatInv' /\ MissInv'
<1>1. /\ walk.kind # "window" /\ stage = "count" /\ page' = page + 1
      /\ stage' = IF page + 1 < TotalPages(Cardinality(rows)) THEN "next" ELSE "end"
      /\ UNCHANGED <<rows, walk, keys, seen, again, nullKey, others>>
      /\ stays' = stays /\ lost' = lost /\ gained' = gained
  BY DEF PageCount, others
<1> DEFINE m == (page + 1) * walk.size
<1>2. Handed * walk.size = m /\ (Handed * walk.size)' = m
  BY <1>1 DEF Handed
<1>3. \A r : Prior(r)' = Prior(r) /\ \A s : Before(s, r)' <=> Before(s, r)
  BY <1>1, SameOrder
<1>4. ASSUME NEW r \in stays, m <= Cardinality(Prior(r)) PROVE stage' = "next"
  <2>1. /\ Cardinality(Prior(r)) \in Nat /\ Cardinality(rows) \in Nat
        /\ Cardinality(Prior(r)) + 1 <= Cardinality(rows)
    BY PriorType DEF IInv, TypeOK
  <2>2. walk.size \in Nat /\ walk.size >= 1 /\ page + 1 \in Nat /\ m \in Nat
    BY SortType, Multiples DEF IInv, TypeOK
  <2>3. m + 1 <= Cardinality(rows)
    <3> HIDE DEF m
    <3> QED BY <1>4, <2>1, <2>2
  <2>4. page + 1 < TotalPages(Cardinality(rows))
    BY <2>1, <2>2, <2>3, PagesOfRows DEF TotalPages
  <2> QED BY <1>1, <2>4
<1> HIDE DEF m
<1>5. RepeatInv'
  BY <1>1, <1>2, <1>3 DEF RepeatInv
<1>6. MissInv'
  BY <1>1, <1>2, <1>3, <1>4 DEF MissInv
<1> QED BY <1>5, <1>6

\* Others: what pushes a row back is gained before it, what pulls it forward
\* is lost before it.
LEMMA OthersKeep ==
    ASSUME IInv, RepeatInv, MissInv, Others PROVE RepeatInv' /\ MissInv'
<1>1. UNCHANGED <<walk, page, stage, seen, again>>
  BY DEF Others, asked
<1>2. /\ gained \subseteq gained' /\ lost \subseteq lost' /\ stays' \subseteq stays
      /\ rows' \subseteq rows \cup gained' /\ rows \subseteq rows' \cup lost'
  BY DEF Others, Insert, Delete, Change
<1>3. IsFiniteSet(rows) /\ IsFiniteSet(rows')
  <2>1. IInv'
    BY OthersPreserve
  <2> QED BY <2>1 DEF IInv, TypeOK, Tables
<1>4. \A r, s : Before(s, r)' <=> Before(s, r)
  BY <1>1, SameOrder
<1>5. \A r : Prior(r) = {s \in rows : Before(s, r)} /\ Prior(r)' = {s \in rows' : Before(s, r)}
  BY <1>4 DEF Prior
<1>6. \A r : /\ IsFiniteSet(Prior(r)) /\ IsFiniteSet(Prior(r)')
             /\ Cardinality(Prior(r)) \in Nat /\ Cardinality(Prior(r)') \in Nat
  <2> SUFFICES ASSUME NEW r
               PROVE  /\ IsFiniteSet(Prior(r)) /\ IsFiniteSet(Prior(r)')
                      /\ Cardinality(Prior(r)) \in Nat /\ Cardinality(Prior(r)') \in Nat
    OBVIOUS
  <2>1. Prior(r) \in SUBSET rows /\ Prior(r)' \in SUBSET rows'
    BY <1>5
  <2> QED BY <1>3, <2>1, FS_Subset, FS_CardinalityType
<1>7. /\ walk.size \in Nat /\ Handed \in Nat
      /\ Handed * walk.size \in Nat /\ (Handed * walk.size)' = Handed * walk.size
  <2>1. walk.size \in Nat /\ Handed \in Nat
    BY SortType DEF IInv, TypeOK, Handed
  <2> QED BY <1>1, <2>1, Multiples DEF Handed
<1> DEFINE m == Handed * walk.size
<1>8. ASSUME NEW r \in stays', \A s \in gained' : ~Before(s, r), walk.kind # "window"
      PROVE  r \notin again /\ (r \in seen => Cardinality(Prior(r)') < m)
  <2>1. Prior(r)' \in SUBSET Prior(r)
    BY <1>2, <1>5, <1>8
  <2>2. Cardinality(Prior(r)') <= Cardinality(Prior(r))
    BY <1>6, <2>1, FS_Subset
  <2>3. r \notin again /\ (r \in seen => Cardinality(Prior(r)) < m)
    BY <1>2, <1>8 DEF RepeatInv
  <2> HIDE DEF m
  <2> QED BY <1>6, <1>7, <2>2, <2>3 DEF m
<1>9. ASSUME NEW r \in stays', \A s \in lost' : ~Before(s, r), walk.kind # "window"
      PROVE  r \in seen \/ (stage # "end" /\ m <= Cardinality(Prior(r)'))
  <2>1. Prior(r) \in SUBSET Prior(r)'
    BY <1>2, <1>5, <1>9
  <2>2. Cardinality(Prior(r)) <= Cardinality(Prior(r)')
    BY <1>6, <2>1, FS_Subset
  <2>3. r \in seen \/ (stage # "end" /\ m <= Cardinality(Prior(r)))
    BY <1>2, <1>9 DEF MissInv
  <2> QED BY <1>6, <1>7, <2>2, <2>3
<1> HIDE DEF m
<1>10. RepeatInv'
  BY <1>1, <1>4, <1>7, <1>8 DEF RepeatInv, m
<1>11. MissInv'
  BY <1>1, <1>4, <1>7, <1>9 DEF MissInv, m
<1> QED BY <1>10, <1>11

LEMMA OffsetInvariance == Spec => [](IInv /\ RepeatInv /\ MissInv)
<1>1. Init => RepeatInv /\ MissInv
  <2> SUFFICES ASSUME Init, NEW r \in stays
               PROVE  /\ r \notin again /\ r \notin seen
                      /\ stage # "end" /\ Handed * walk.size <= Cardinality(Prior(r))
    BY DEF RepeatInv, MissInv
  <2>1. TypeOK
    BY InitHolds DEF IInv
  <2>2. Cardinality(Prior(r)) \in Nat /\ walk.size \in Nat
    BY <2>1, PriorType, SortType DEF TypeOK
  <2>3. Handed * walk.size = 0
    BY <2>2 DEF Init, Handed
  <2> QED BY <2>2, <2>3 DEF Init
<1>2. IInv /\ RepeatInv /\ MissInv /\ [Next]_vars => RepeatInv' /\ MissInv'
  <2> SUFFICES ASSUME IInv, RepeatInv, MissInv, [Next]_vars PROVE RepeatInv' /\ MissInv'
    OBVIOUS
  <2>1. CASE Window
    <3>1. walk.kind = "window" /\ walk' = walk
      BY <2>1 DEF Window
    <3> QED BY <3>1 DEF RepeatInv, MissInv
  <2>2. CASE Slice
    BY <2>2, SliceKeeps
  <2>3. CASE PageFind
    BY <2>3, PageFindKeeps
  <2>4. CASE PageCount
    BY <2>4, PageCountKeeps
  <2>5. CASE Others
    BY <2>5, OthersKeep
  <2>6. CASE UNCHANGED vars
    <3>1. UNCHANGED <<rows, walk, page, stage, seen, again, stays, lost, gained>>
      BY <2>6 DEF vars, asked, others
    <3> QED BY <3>1 DEF RepeatInv, MissInv, Prior, Before, Handed
  <2> QED BY <2>1, <2>2, <2>3, <2>4, <2>5, <2>6 DEF Next
<1>3. Spec => []IInv /\ [][Next]_vars /\ Init
  BY Invariance, PTL DEF Spec
<1> QED BY <1>1, <1>2, <1>3, PTL

\* Slices and pages miss a row that was there all the time only if another one
\* before it was deleted or changed (SelectSlice, PageBy, SelectPage).
THEOREM OffsetsMiss == Spec => []OffsetsMissOnlyAfterLoss
<1>1. MissInv => OffsetsMissOnlyAfterLoss
  BY DEF MissInv, OffsetsMissOnlyAfterLoss
<1> QED BY OffsetInvariance, <1>1, PTL

\* They repeat one only if another one before it was inserted or changed.
THEOREM OffsetsRepeat == Spec => []OffsetsRepeatOnlyAfterGain
<1>1. RepeatInv => OffsetsRepeatOnlyAfterGain
  BY DEF RepeatInv, OffsetsRepeatOnlyAfterGain
<1> QED BY OffsetInvariance, <1>1, PTL
===============================================================================
