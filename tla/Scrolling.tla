------------------------------ MODULE Scrolling ------------------------------
(***************************************************************************)
(* A program walks through the rows that match a query, window by window   *)
(* (WindowBy, WindowWhere, SelectWindow), slice by slice (SliceBy,         *)
(* SelectSlice) or page by page (PageBy, PageWhere, SelectPage), while     *)
(* other programs insert, delete and change rows.                          *)
(*                                                                         *)
(* The table holds the rows that match; one that begins to match is        *)
(* inserted.  It has a column n and the unique key id.  A statement is     *)
(* atomic, and the database is external.  The cache is left out, and a     *)
(* walk is over when a statement fails.                                    *)
(***************************************************************************)
EXTENDS SqlKeyset, FiniteSets

CONSTANTS
    Ids,        \* keys
    Values,     \* values of n, Null among them or not
    NullsLow,   \* ORDER BY takes NULL for the least value, or for the greatest
    Kinds,      \* of walks: "window", "slice", "page"
    Sizes,      \* of windows, slices and pages
    Sorts,      \* sort orders, each ending in the key
    MaxChanges  \* bound: changes by other programs in a behaviour

Row == [id : Ids, n : Values]

Tables == {t \in SUBSET Row : IsFiniteSet(t) /\ \A r, s \in t : r.id = s.id => r = s}

SortKey == [prop : {"id", "n"}, desc : BOOLEAN]

ASSUME ConstantsAssumption ==
    /\ Ids \subseteq Int
    /\ Values \subseteq Int \cup {Null}
    /\ NullsLow \in BOOLEAN
    /\ Kinds \subseteq {"window", "slice", "page"}
    /\ Sizes \subseteq Nat \ {0}
    /\ Sorts \subseteq Seq(SortKey) \ {<< >>}
    /\ MaxChanges \in Nat

\* A walk's kind, size and order.
Walk == [kind : Kinds, size : Sizes, sort : Sorts]

(***************************************************************************)
(* How far it is: the next window, slice or page is to be asked for, the   *)
(* rows of a page are there and its count is not, the last answer had no   *)
(* next one, or a window was empty.                                        *)
(***************************************************************************)
Stages == {"next", "count", "end", "empty"}

VARIABLES
    rows,     \* the rows that match
    walk,     \* the walk of this behaviour
    keys,     \* position of a window: values of the sort keys, or none
    page,     \* number of the next slice or page
    stage,    \* how far the walk is
    changes,  \* number of changes by others
    stays,    \* history: rows there since the walk began, unchanged
    seen,     \* history: rows handed to the program
    again,    \* history: rows handed to it more than once
    lost,     \* history: rows that were deleted or changed
    gained,   \* history: rows that were inserted or changed
    nullKey   \* history: a position had NULL in a sort key

asked == <<keys, page, stage, seen, again, nullKey>>
others == <<changes, stays, lost, gained>>
vars == <<rows, walk, asked, others>>

-------------------------------------------------------------------------------
(* The database. *)

\* x is before y in ascending order.
Lower(x, y) ==
    \/ x = Null /\ y # Null /\ NullsLow
    \/ x # Null /\ y = Null /\ ~NullsLow
    \/ x # Null /\ y # Null /\ x < y

Sooner(x, y, desc) == IF desc THEN Lower(y, x) ELSE Lower(x, y)

\* ORDER BY.
Before(r, s) ==
    \E i \in DOMAIN walk.sort :
        /\ \A j \in 1 .. i - 1 : r[walk.sort[j].prop] = s[walk.sort[j].prop]
        /\ Sooner(r[walk.sort[i].prop], s[walk.sort[i].prop], walk.sort[i].desc)

\* LIMIT: F is the first k rows of S in order, or all if there are fewer.
IsFirst(F, k, S) ==
    /\ F \subseteq S
    /\ Cardinality(F) = k \/ (F = S /\ Cardinality(F) < k)
    /\ \A r \in F, s \in S \ F : Before(r, s)

Insert(r) ==
    /\ \A s \in rows : s.id # r.id
    /\ rows' = rows \cup {r}
    /\ gained' = gained \cup {r}
    /\ UNCHANGED <<stays, lost>>

Delete(r) ==
    /\ rows' = rows \ {r}
    /\ stays' = stays \ {r}
    /\ lost' = lost \cup {r}
    /\ UNCHANGED gained

Change(r, s) ==
    /\ r.id = s.id /\ r # s
    /\ rows' = (rows \ {r}) \cup {s}
    /\ stays' = stays \ {r}
    /\ lost' = lost \cup {r}
    /\ gained' = gained \cup {s}

\* The walk has an end, and no position to go on from.
Over == stage = "empty" \/ (stage = "end" /\ walk.kind # "window")

\* Others change the table between two statements of the walk.
Others ==
    /\ ~Over
    /\ changes < MaxChanges
    /\ changes' = changes + 1
    /\ \/ \E r \in Row : Insert(r)
       \/ \E r \in rows : Delete(r)
       \/ \E r \in rows, s \in Row : Change(r, s)
    /\ UNCHANGED <<walk, asked>>

-------------------------------------------------------------------------------
(* The repository. *)

NoKeys == << >>

\* The clause of a window's boundary takes the row.
Ahead(r, at) ==
    Selects(KeysetOf(r, [i \in DOMAIN at |->
                            [prop |-> walk.sort[i].prop, desc |-> walk.sort[i].desc,
                             val |-> at[i]]]))

\* Mutant of OneMore: LIMIT is the size.
OneMoreNot == walk.size

\* LIMIT of windows and slices: one row more tells whether there is a next one.
OneMore == walk.size + 1

\* The rows handed to the program, of those that were fetched.
Content(c, fetched) == IsFirst(c, walk.size, fetched)

HasNext(fetched) == Cardinality(fetched) > walk.size

Hand(c) ==
    /\ seen' = seen \cup c
    /\ again' = again \cup (seen \cap c)

HasNull(r) == \E i \in DOMAIN walk.sort : r[walk.sort[i].prop] = Null

\* Mutant of KeysOf: the first sort key alone.
KeysOfFirst(r) == [i \in {1} |-> r[walk.sort[i].prop]]

\* The values of the sort keys.
KeysOf(r) == [i \in DOMAIN walk.sort |-> r[walk.sort[i].prop]]

\* Mutant of IsLast: the first row.
IsLastNot(r, c) == r \in c /\ \A s \in c \ {r} : Before(r, s)

IsLast(r, c) == r \in c /\ \A s \in c \ {r} : Before(s, r)

\* Window.Next after the content c: without rows it is the start.
NextPosition(c) ==
    \/ /\ c = {}
       /\ keys' = NoKeys
       /\ UNCHANGED nullKey
    \/ \E r \in c :
          /\ IsLast(r, c)
          /\ keys' = KeysOf(r)
          /\ nullKey' = (nullKey \/ HasNull(r))

\* A window; the program may ask for more after the last one, as long as it
\* has a position.
Window ==
    /\ walk.kind = "window"
    /\ stage \in {"next", "end"}
    /\ \E fetched \in SUBSET {r \in rows : Ahead(r, keys)} :
          /\ IsFirst(fetched, OneMore, {r \in rows : Ahead(r, keys)})
          /\ \E c \in SUBSET fetched :
                /\ Content(c, fetched)
                /\ Hand(c)
                /\ NextPosition(c)
                /\ stage' = IF c = {} THEN "empty"
                            ELSE IF HasNext(fetched) THEN "next" ELSE "end"
    /\ UNCHANGED <<rows, walk, page, others>>

\* Mutant of Offset: pages are numbered from one.
OffsetFromOne == IF page = 0 THEN 0 ELSE (page - 1) * walk.size

Offset == page * walk.size

\* The rows a statement with LIMIT limit and OFFSET fetches.
Fetched(f, limit) ==
    \E skipped \in SUBSET rows :
        IsFirst(skipped, Offset, rows) /\ IsFirst(f, limit, rows \ skipped)

Slice ==
    /\ walk.kind = "slice"
    /\ stage = "next"
    /\ \E fetched \in SUBSET rows :
          /\ Fetched(fetched, OneMore)
          /\ \E c \in SUBSET fetched : Content(c, fetched) /\ Hand(c)
          /\ stage' = IF HasNext(fetched) THEN "next" ELSE "end"
    /\ page' = page + 1
    /\ UNCHANGED <<rows, walk, keys, nullKey, others>>

\* PageBy's find.
PageFind ==
    /\ walk.kind = "page"
    /\ stage = "next"
    /\ \E c \in SUBSET rows : Fetched(c, walk.size) /\ Hand(c)
    /\ stage' = "count"
    /\ UNCHANGED <<rows, walk, keys, page, nullKey, others>>

\* Mutant of TotalPages: rounded down.
TotalPagesDown(total) == total \div walk.size

TotalPages(total) == (total + walk.size - 1) \div walk.size

\* PageBy's count, and Page.HasNext.
PageCount ==
    /\ walk.kind = "page"
    /\ stage = "count"
    /\ stage' = IF page + 1 < TotalPages(Cardinality(rows)) THEN "next" ELSE "end"
    /\ page' = page + 1
    /\ UNCHANGED <<rows, walk, keys, seen, again, nullKey, others>>

-------------------------------------------------------------------------------
Init ==
    /\ rows \in Tables
    /\ walk \in Walk
    /\ keys = NoKeys
    /\ page = 0
    /\ stage = "next"
    /\ changes = 0
    /\ stays = rows
    /\ seen = {} /\ again = {}
    /\ lost = {} /\ gained = {}
    /\ nullKey = FALSE

Next == Window \/ Slice \/ PageFind \/ PageCount \/ Others

\* The program asks for the next window, slice or page as long as there is one.
GoesOn ==
    /\ stage \in {"next", "count"}
    /\ UNCHANGED changes
    /\ Next

Spec == Init /\ [][Next]_vars

FairSpec == Spec /\ WF_vars(GoesOn)

-------------------------------------------------------------------------------
(* Properties. *)

\* The table has its type, and a walk hands out rows.
TypeOK ==
    /\ rows \in Tables
    /\ walk \in Walk
    /\ keys = NoKeys \/ keys \in [DOMAIN walk.sort -> Values \cup Ids]
    /\ page \in Nat
    /\ stage \in Stages
    /\ changes \in 0 .. MaxChanges
    /\ stays \subseteq rows
    /\ seen \subseteq Row
    /\ again \subseteq seen
    /\ lost \subseteq Row
    /\ gained \subseteq Row
    /\ nullKey \in BOOLEAN

\* Windows do not hand out a row twice, whatever others do between them: not
\* one that stays, nor one that was deleted and came back as it was.
WindowsDoNotRepeat == walk.kind = "window" => again = {}

\* At the end of a scroll the program has seen every row that was there all
\* the time, unless NULL is in its sort keys or was in those of a window's
\* last row.
WindowsMissNothing ==
    walk.kind = "window" /\ stage \in {"end", "empty"} =>
        \A r \in stays : r \in seen \/ HasNull(r) \/ nullKey

-------------------------------------------------------------------------------
(* The inductive invariant behind them (proved in ScrollingProofs). *)

\* What a scroll has handed out is not ahead of its position.
BehindInv ==
    walk.kind = "window" /\ stage \in {"next", "end"} =>
        \A r \in seen : keys # NoKeys /\ ~Ahead(r, keys)

\* What it has not is ahead, NULL aside.
AheadInv ==
    walk.kind = "window" /\ stage = "next" =>
        \A r \in stays : r \in seen \/ HasNull(r) \/ nullKey \/ Ahead(r, keys)

IInv == TypeOK /\ WindowsDoNotRepeat /\ WindowsMissNothing /\ BehindInv /\ AheadInv

-------------------------------------------------------------------------------
(* Slices and pages. *)

\* Slices and pages miss a row that was there all the time only if another one
\* before it was deleted or changed; the count of PageBy, taken after the
\* rows, does not end the walk too early.
OffsetsMissOnlyAfterLoss ==
    walk.kind # "window" /\ stage = "end" =>
        \A r \in stays \ seen : \E s \in lost : Before(s, r)

\* They repeat one only if another one before it was inserted or changed.
OffsetsRepeatOnlyAfterGain ==
    walk.kind # "window" => \A r \in stays \cap again : \E s \in gained : Before(s, r)

\* A program that asks for more as long as there is more comes to an end.
WalksEnd == stage \in {"next", "count"} ~> stage \in {"end", "empty"}
===============================================================================
