-------------------------- MODULE MCCachedRepository --------------------------
(* Instances of CachedRepository for TLC. *)
EXTENDS CachedRepository

ByCity(name) == [sql |-> "byCity", args |-> <<<<name>>>>]

\* findByCityAndStreet("new york", "main") and ("new", "york main").
NewYork == [sql |-> "byCityAndStreet", args |-> <<<<"new", "york">>, <<"main">>>>]
YorkMain == [NewYork EXCEPT !.args = <<<<"new">>, <<"york", "main">>>>]

TwoCities == {ByCity("york"), ByCity("leeds")}
TwoStreets == {NewYork, YorkMain}

\* Two cached queries, so that a Clear has two keys to visit.
Caching == [queries |-> TwoCities, replica |-> FALSE, tx |-> FALSE, writes |-> 2]

\* One query in and out of transactions, with and without a replica.
Transactional(withReplica) ==
    [queries |-> {ByCity("york")}, replica |-> withReplica, tx |-> TRUE, writes |-> 1]

\* Two queries whose arguments are written alike.
Alike == [queries |-> TwoStreets, replica |-> FALSE, tx |-> FALSE, writes |-> 2]

CachingAndTransactional == {Caching, Transactional(TRUE)}
OnlyTransactional == {Transactional(FALSE)}
OnlyAlike == {Alike}
===============================================================================
