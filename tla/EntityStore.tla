------------------------------ MODULE EntityStore ------------------------------
(***************************************************************************)
(* Entities with an orm:"version" column, read and written by several      *)
(* goroutines, each with an entity in its memory: Update's optimistic      *)
(* lock next to the writes that do not look at the version (SaveAllUpsert, *)
(* BatchUpdate, soft and hard deletes, inserts) and to transactions that   *)
(* roll back what an entity in memory already counts as written.           *)
(*                                                                         *)
(* The contents of a row are the number of the write that made them.  The  *)
(* database is external: statements are atomic, a transaction sees its own *)
(* writes over the committed rows and locks the rows it writes.  Reads go  *)
(* to the database (no WithCache).  A statement that fails without effect  *)
(* changes nothing and is left out.                                        *)
(***************************************************************************)
EXTENDS Integers

CONSTANTS
    Clients,    \* goroutines
    Ids,        \* primary keys
    MaxWrites,  \* bound: write statements that take effect in a behaviour
    None        \* no entity in memory, no row, no uncommitted write

ASSUME ConstantsAssumption == MaxWrites \in Nat

Vals == 0 .. MaxWrites

\* A row; live is what the soft-delete filter looks at.
Row == [ver : Nat, val : Vals, live : BOOLEAN]

\* Writes that do not count the version up from the row they change.
Unversioned == {"insert", "upsert", "batch", "softDelete", "rollback"}

Paths == Unversioned \cup {"update"}

(***************************************************************************)
(* An entity in memory.  from and missed are history: the contents of the  *)
(* row it was loaded from or last written to, and what has happened to the *)
(* row since that this goroutine does not know of.                         *)
(***************************************************************************)
Entity == [id : Ids, ver : Nat, live : BOOLEAN, from : Vals, missed : SUBSET Paths]

\* What a transaction has done to a row; deleted rows are None.  paths is
\* history: the kinds of writes among it.
Change == [row : Row \cup {None}, paths : SUBSET Paths]

ASSUME NoneAssumption == None \notin Row /\ None \notin Entity /\ None \notin Change

VARIABLES
    rows,     \* committed rows
    pending,  \* uncommitted changes of each client's transaction
    inTx,     \* clients in a transaction
    held,     \* the entity each client has in memory
    writes    \* number of writes so far

vars == <<rows, pending, inTx, held, writes>>

-------------------------------------------------------------------------------
(* The database. *)

\* The row a statement of client c sees.
Visible(c, id) == IF pending[c][id] = None THEN rows[id] ELSE pending[c][id].row

\* No other transaction has a lock on the row.
Unlocked(c, id) == \A d \in Clients \ {c} : pending[d][id] = None

\* A write of c to row id can take effect.
CanWrite(c, id) == writes < MaxWrites /\ Unlocked(c, id)

\* History: an entity in memory has missed changes of row id.
Miss(e, id, paths) ==
    IF e = None \/ e.id # id THEN e ELSE [e EXCEPT !.missed = @ \cup paths]

Earlier(c, id) == IF pending[c][id] = None THEN {} ELSE pending[c][id].paths

(***************************************************************************)
(* Client c gives row id the contents r, by a write of the kinds paths     *)
(* names, and has e in memory afterwards.  Outside a transaction the row   *)
(* is committed at once.                                                   *)
(***************************************************************************)
Write(c, id, r, paths, e) ==
    /\ CanWrite(c, id)
    /\ writes' = writes + 1
    /\ \/ /\ c \in inTx
          /\ pending' = [pending EXCEPT ![c][id] =
                           [row |-> r, paths |-> Earlier(c, id) \cup paths]]
          /\ held' = [held EXCEPT ![c] = e]
          /\ UNCHANGED rows
       \/ /\ c \notin inTx
          /\ rows' = [rows EXCEPT ![id] = r]
          /\ held' = [d \in Clients |-> IF d = c THEN e ELSE Miss(held[d], id, paths)]
          /\ UNCHANGED pending
    /\ UNCHANGED inTx

-------------------------------------------------------------------------------
(* The repository. *)

\* FindByID; all is IncludingDeleted.
Find(c, id, all) ==
    /\ Visible(c, id) # None
    /\ all \/ Visible(c, id).live
    /\ LET r == Visible(c, id)
       IN held' = [held EXCEPT ![c] = [id |-> id, ver |-> r.ver, live |-> r.live,
                                       from |-> r.val, missed |-> {}]]
    /\ UNCHANGED <<rows, pending, inTx, writes>>

\* An entity the program makes: its version is zero.
NewEntity(id) == [id |-> id, ver |-> 0, live |-> TRUE, from |-> 0, missed |-> {}]

\* The entity is what the next write makes of its row.
InStep(e, ver) ==
    [id |-> e.id, ver |-> ver, live |-> e.live, from |-> writes + 1, missed |-> {}]

\* The row an INSERT of e makes, and what an upsert leaves of any row: all
\* columns but the key are e's, the version among them.
Stored(e) == [ver |-> e.ver, val |-> writes + 1, live |-> e.live]

\* Save; a row with the key makes it fail.
Save(c, e) ==
    /\ Visible(c, e.id) = None
    /\ Write(c, e.id, Stored(e), {"insert"}, InStep(e, e.ver))

\* SaveAllUpsert with the key as conflict column.
SaveAllUpsert(c, e) == Write(c, e.id, Stored(e), {"upsert"}, InStep(e, e.ver))

\* Mutant of UpdateMatches: the WHERE has the key alone.
UpdateMatchesKey(c) == Visible(c, held[c].id) # None

\* The WHERE of Update finds the row: the key and the version are the entity's.
UpdateMatches(c) ==
    /\ Visible(c, held[c].id) # None
    /\ Visible(c, held[c].id).ver = held[c].ver

\* Mutant of Updated: the version counts the other way.
UpdatedDown(e) == [ver |-> e.ver - 1, val |-> writes + 1, live |-> e.live]

\* The SET of Update: the version counts up, every other column is the
\* entity's, the one of the soft delete included.
Updated(e) == [ver |-> e.ver + 1, val |-> writes + 1, live |-> e.live]

\* Mutant of Update: the entity in memory keeps its version.
UpdateNotRaising(c) ==
    /\ held[c] # None
    /\ UpdateMatches(c)
    /\ Write(c, held[c].id, Updated(held[c]), {"update"}, InStep(held[c], held[c].ver))

\* Update: one row affected, and the version in memory is raised too.
Update(c) ==
    /\ held[c] # None
    /\ UpdateMatches(c)
    /\ Write(c, held[c].id, Updated(held[c]), {"update"}, InStep(held[c], held[c].ver + 1))

\* The statement took effect but its answer was lost: Update returns an error
\* and leaves the version in memory.
UpdateUnanswered(c) ==
    /\ held[c] # None
    /\ UpdateMatches(c)
    /\ Write(c, held[c].id, Updated(held[c]), {"update"}, held[c])

\* BatchUpdate changes columns of a row, soft-deleted or not, and leaves its
\* version.
BatchUpdate(c, id) ==
    /\ Visible(c, id) # None
    /\ Write(c, id, [Visible(c, id) EXCEPT !.val = writes + 1], {"batch"},
             Miss(held[c], id, {"batch"}))

\* DeleteByID of an entity with SoftDelete.
SoftDelete(c, id) ==
    /\ Visible(c, id) # None
    /\ Visible(c, id).live
    /\ Write(c, id, [Visible(c, id) EXCEPT !.val = writes + 1, !.live = FALSE],
             {"softDelete"}, Miss(held[c], id, {"softDelete"}))

\* DeleteByID of IncludingDeleted, or without SoftDelete.
HardDelete(c, id) ==
    /\ Visible(c, id) # None
    /\ Write(c, id, None, {}, held[c])

\* Transactional, with a WithTx copy for c.
Begin(c) ==
    /\ c \notin inTx
    /\ inTx' = inTx \cup {c}
    /\ UNCHANGED <<rows, pending, held, writes>>

NoChanges == [id \in Ids |-> None]

MissCommit(e, c) ==
    IF e = None \/ pending[c][e.id] = None THEN e
    ELSE [e EXCEPT !.missed = @ \cup pending[c][e.id].paths]

Commit(c) ==
    /\ c \in inTx
    /\ inTx' = inTx \ {c}
    /\ rows' = [id \in Ids |-> Visible(c, id)]
    /\ held' = [d \in Clients |-> IF d = c THEN held[c] ELSE MissCommit(held[d], c)]
    /\ pending' = [pending EXCEPT ![c] = NoChanges]
    /\ UNCHANGED writes

MissRollback(e, c) ==
    IF e = None \/ pending[c][e.id] = None THEN e
    ELSE [e EXCEPT !.missed = @ \cup {"rollback"}]

\* The rows are as before, the entity in memory is not.
Rollback(c) ==
    /\ c \in inTx
    /\ inTx' = inTx \ {c}
    /\ held' = [held EXCEPT ![c] = MissRollback(held[c], c)]
    /\ pending' = [pending EXCEPT ![c] = NoChanges]
    /\ UNCHANGED <<rows, writes>>

-------------------------------------------------------------------------------
Init ==
    /\ rows \in [Ids -> {None, [ver |-> 0, val |-> 0, live |-> TRUE]}]
    /\ pending = [c \in Clients |-> NoChanges]
    /\ inTx = {}
    /\ held = [c \in Clients |-> None]
    /\ writes = 0

\* Entities a client may insert: a new one, or the one it has in memory.
InMemory(c) == {NewEntity(id) : id \in Ids} \cup ({held[c]} \ {None})

Next ==
    \E c \in Clients :
        \/ \E id \in Ids : \/ \E all \in BOOLEAN : Find(c, id, all)
                           \/ BatchUpdate(c, id)
                           \/ SoftDelete(c, id)
                           \/ HardDelete(c, id)
        \/ \E e \in InMemory(c) : Save(c, e) \/ SaveAllUpsert(c, e)
        \/ Update(c) \/ UpdateUnanswered(c)
        \/ Begin(c) \/ Commit(c) \/ Rollback(c)

Spec == Init /\ [][Next]_vars

-------------------------------------------------------------------------------
(* Properties. *)

\* Every variable has its type.
TypeOK ==
    /\ rows \in [Ids -> Row \cup {None}]
    /\ pending \in [Clients -> [Ids -> Change \cup {None}]]
    /\ inTx \in SUBSET Clients
    /\ held \in [Clients -> Entity \cup {None}]
    /\ writes \in Vals

\* An Update by c would take effect on contents its entity does not come from.
Overwrites(c) ==
    /\ held[c] # None
    /\ UpdateMatches(c)
    /\ Visible(c, held[c].id).val # held[c].from

\* No update is lost: an Update that takes effect replaces the contents its
\* entity comes from, unless a write that does not count the version changed
\* the row in between or a rollback took back what the entity comes from.
NoLostUpdate ==
    \A c \in Clients : Overwrites(c) => held[c].missed \cap Unversioned # {}

\* When the WHERE of Update finds no row, the row is gone or is no longer what
\* the entity comes from.  That need not be the work of another goroutine, as
\* ErrOptimisticLock says: the row is also another one after an Update of this
\* entity whose answer was lost, and after one that was rolled back.
ConflictMeansChange ==
    \A c \in Clients :
        held[c] # None /\ ~UpdateMatches(c) =>
            \/ Visible(c, held[c].id) = None
            \/ Visible(c, held[c].id).val # held[c].from

-------------------------------------------------------------------------------
(* The inductive invariant behind them (proved in EntityStoreProofs). *)

\* Only transactions have uncommitted changes, and no two change one row.
LockInv ==
    \A c \in Clients, id \in Ids : pending[c][id] # None =>
        c \in inTx /\ \A d \in Clients \ {c} : pending[d][id] = None

\* The contents r are a later version than the row old, unless a write among
\* paths set the version otherwise.
Supersedes(r, old, paths) ==
    r # None => paths \cap Unversioned # {} \/ (old # None /\ r.ver > old.ver)

PendingInv ==
    \A c \in Clients, id \in Ids : pending[c][id] # None =>
        Supersedes(pending[c][id].row, rows[id], pending[c][id].paths)

\* An entity e that missed versioned writes alone is not ahead of the row r,
\* and where it is not behind it has the row's contents.
Follows(e, r) ==
    e # None /\ r # None /\ e.missed \cap Unversioned = {} =>
        r.ver >= e.ver /\ (r.ver = e.ver => r.val = e.from)

HeldInv == \A c \in Clients : held[c] # None => Follows(held[c], Visible(c, held[c].id))

RowStamp(r) == IF r = None THEN {} ELSE {<<r.ver, r.val>>}

EntityStamp(e, id) == IF e = None \/ e.id # id THEN {} ELSE {<<e.ver, e.from>>}

\* The versions and contents of row id that are stored, written or in memory.
Stamps(id) ==
    RowStamp(rows[id])
    \cup UNION {RowStamp(Visible(c, id)) \cup EntityStamp(held[c], id) : c \in Clients}

\* Contents are written once, so they tell the version.
StampInv ==
    \A id \in Ids : \A s \in Stamps(id) :
        /\ s[2] \in 0 .. writes
        /\ \A t \in Stamps(id) : s[2] = t[2] => s[1] = t[1]

IInv == TypeOK /\ LockInv /\ PendingInv /\ HeldInv /\ StampInv

-------------------------------------------------------------------------------
(* What the documentation says and the code does not do. *)

\* "Update checks and increments it, returning ErrOptimisticLock on conflict":
\* among goroutines that use Update alone, in transactions or not, an Update
\* does not match a row that another has updated since.
ConflictIsReported ==
    \A c \in Clients :
        held[c] # None /\ UpdateMatches(c) /\ "update" \in held[c].missed
            => held[c].missed \cap (Unversioned \ {"rollback"}) # {}
===============================================================================
