--------------------------- MODULE CachedRepository ---------------------------
(***************************************************************************)
(* A Repository (jpa/jpa.go) used by several goroutines at once, with the  *)
(* statement-level read cache of WithCache, the read replica of            *)
(* WithReplica and copies bound to a transaction by WithTx/Transactional.  *)
(*                                                                         *)
(* Each client is one goroutine.  A call is cut where other goroutines can *)
(* get in between: at every CacheStore operation and at every statement.   *)
(* A query reads the cache, then runs its statement, then stores the       *)
(* result; a write clears the cache key by key, then runs its statement.   *)
(*                                                                         *)
(* The database is external and modelled by what the repository relies on: *)
(* a statement is atomic, a transaction sees its own writes over the       *)
(* committed rows and locks the rows it writes, and a replica applies the  *)
(* committed writes in order, some time later.  The rows a query returns   *)
(* are abstracted to the number of the last write that changed them.       *)
(***************************************************************************)
EXTENDS Integers, CacheKey

CONSTANTS
    Clients,     \* goroutines that share the repository
    Queries,     \* the distinct derived/Cond SELECTs there are
    Programs,    \* the programs considered
    MaxWrites,   \* bound: writes that take effect in any program
    None         \* no cache entry, no result in flight, no query being read

KeyOf == [q \in Queries |-> CacheKey(q)]
Keys == {KeyOf[q] : q \in Queries}

Vals == 0 .. MaxWrites
Unwritten == -1    \* the transaction has not written these rows

\* Where a result was read from.
Sources == {"primary", "replica", "tx"}

\* A program around the repository: the queries it issues, whether it gave New
\* a replica (WithReplica), whether it works in transactions, and the bound on
\* its writes that take effect.
Program == [queries : SUBSET Queries, replica : BOOLEAN, tx : BOOLEAN, writes : Vals]

(***************************************************************************)
(* A result: the query it answers, the rows and where they were read.  The *)
(* last three fields are history, kept for the properties alone: whether   *)
(* its rows changed on the primary, since they were read, by a path that   *)
(* does not go through Repository.execute (Save/SaveAll, the commit of a   *)
(* transaction, other programs); the clients that changed them through     *)
(* execute; and the clients that had a clearing call (a write or           *)
(* InvalidateCache) in progress at some moment between the statement that  *)
(* read the rows and the Set that stored them.                             *)
(***************************************************************************)
Result ==
    [q : Queries, val : Vals, src : Sources,
     missed : BOOLEAN, skipped : SUBSET Clients, overlap : SUBSET Clients]

ASSUME ConstantsAssumption ==
    /\ MaxWrites \in Nat
    /\ Programs \subseteq Program
    /\ None \notin Queries
    /\ None \notin Result

Rows == [Queries -> Vals]
WriteSet == [Queries -> Vals \cup {Unwritten}]

VARIABLES
    program,   \* the program at work, the same throughout a behaviour
    \* the database
    primary,   \* committed rows of the primary
    replica,   \* rows of the replica
    lag,       \* committed writes the replica has yet to apply, oldest first
    txw,       \* uncommitted writes of each client's transaction
    writes,    \* number of writes so far: the source of fresh row contents
    \* the CacheStore
    cache,     \* entry stored under each key, or None
    expired,   \* keys whose entry has outlived its ttl
    \* the goroutines
    inTx,      \* clients working through a WithTx copy
    pc,        \* where each client is in its call
    req,       \* query a client is about to run
    out,       \* result read but not yet stored
    todo,      \* keys a Clear in progress has still to visit
    reply      \* what the client's last call, a read, returned and from where

db == <<program, primary, replica, lag, txw, writes>>
store == <<cache, expired>>
calls == <<inTx, pc, req, out, todo, reply>>
vars == <<program, primary, replica, lag, txw, writes, cache, expired,
          inTx, pc, req, out, todo, reply>>

NoWrites == [q \in Queries |-> Unwritten]

NoReply == [via |-> "none"]
Reply == {NoReply} \cup [via : Sources \cup {"store"}, val : Vals]

-------------------------------------------------------------------------------
(* The database. *)

Overlay(w, rows) == [q \in Queries |-> IF w[q] = Unwritten THEN rows[q] ELSE w[q]]

\* The rows a statement on client c's connection sees for q.
Visible(c, q) == Overlay(txw[c], primary)[q]

\* The row locks other transactions hold do not cover qs.
Unlocked(qs, others) == \A d \in others, q \in qs : txw[d][q] = Unwritten

\* The write that gives the rows of qs new contents.
FreshWrite(qs) == [q \in Queries |-> IF q \in qs THEN writes + 1 ELSE Unwritten]

\* History: what a result e has missed once the write w is committed.  (What a
\* lagging replica withheld when e was read is not part of it.)
MissBypass(e, w) ==
    IF e = None \/ w[e.q] = Unwritten THEN e
    ELSE [e EXCEPT !.missed = TRUE]
MissExecute(e, w, c) ==
    IF e = None \/ w[e.q] = Unwritten THEN e
    ELSE [e EXCEPT !.skipped = @ \cup {c}]

\* The write w becomes visible on the primary and is queued for the replica.
Publish(w) ==
    /\ primary' = Overlay(w, primary)
    /\ lag' = IF program.replica /\ w # NoWrites THEN Append(lag, w) ELSE lag
    /\ UNCHANGED <<program, replica>>

PublishBypass(w) ==
    /\ Publish(w)
    /\ cache' = [k \in Keys |-> MissBypass(cache[k], w)]
    /\ out' = [c \in Clients |-> MissBypass(out[c], w)]

PublishExecute(w, d) ==
    /\ Publish(w)
    /\ cache' = [k \in Keys |-> MissExecute(cache[k], w, d)]
    /\ out' = [c \in Clients |-> MissExecute(out[c], w, d)]

Replicate ==
    /\ lag # <<>>
    /\ replica' = Overlay(Head(lag), replica)
    /\ lag' = Tail(lag)
    /\ UNCHANGED <<program, primary, txw, writes, store, calls>>

\* Another program, or another repository over the same tables, writes.
ExternalWrite(qs) ==
    /\ writes < program.writes
    /\ Unlocked(qs, Clients)
    /\ writes' = writes + 1
    /\ PublishBypass(FreshWrite(qs))
    /\ UNCHANGED <<txw, expired, inTx, pc, req, todo, reply>>

\* Time passes beyond an entry's ttl.
Expire(k) ==
    /\ cache[k] # None
    /\ k \notin expired
    /\ expired' = expired \cup {k}
    /\ UNCHANGED <<db, cache, calls>>

-------------------------------------------------------------------------------
(* Reads.                                                                  *)

Idle(c) == pc[c] = "idle"

\* The client goes on without its last reply.
Forget(c) == reply' = [reply EXCEPT ![c] = NoReply]

\* Which connection a read uses.  WithTx drops the replica from the copy it
\* returns, so inside a transaction the choice is the transaction's own.
Reader(c, locked) ==
    IF c \in inTx THEN "tx"
    ELSE IF program.replica /\ ~locked THEN "replica" ELSE "primary"

\* Mutant of Fetched: only what the connection itself wrote is there.
FetchedFromWrites(c, q, locked) == txw[c][q]

\* The rows a read of q by c returns.
Fetched(c, q, locked) ==
    IF Reader(c, locked) = "replica" THEN replica[q] ELSE Visible(c, q)

\* Clients with a clearing call in progress: InvalidateCache, or a write from
\* the start of its Clear until its statement.
Clearing == {c \in Clients : pc[c] \in {"clear", "write", "invalidate"}}

\* Mutant of Hit: Get does not look at the expiry.
HitIgnoringTTL(c, q) ==
    /\ Idle(c)
    /\ cache[KeyOf[q]] # None
    /\ reply' = [reply EXCEPT ![c] = [via |-> "store", val |-> cache[KeyOf[q]].val]]
    /\ UNCHANGED <<db, store, inTx, pc, req, out, todo>>

\* Repository.query, first step: store.Get finds a live entry and the query
\* returns it.
Hit(c, q) ==
    /\ Idle(c)
    /\ cache[KeyOf[q]] # None /\ KeyOf[q] \notin expired
    /\ reply' = [reply EXCEPT ![c] = [via |-> "store", val |-> cache[KeyOf[q]].val]]
    /\ UNCHANGED <<db, store, inTx, pc, req, out, todo>>

\* store.Get finds nothing: the statement is next.
Miss(c, q) ==
    /\ Idle(c)
    /\ cache[KeyOf[q]] = None
    /\ req' = [req EXCEPT ![c] = q]
    /\ pc' = [pc EXCEPT ![c] = "read"]
    /\ Forget(c)
    /\ UNCHANGED <<db, store, inTx, out, todo>>

\* store.Get loads an entry past its ttl.  MemoryCache deletes the key in a
\* second step, Evict.
Lapsed(c, q) ==
    /\ Idle(c)
    /\ cache[KeyOf[q]] # None /\ KeyOf[q] \in expired
    /\ req' = [req EXCEPT ![c] = q]
    /\ pc' = [pc EXCEPT ![c] = "evict"]
    /\ Forget(c)
    /\ UNCHANGED <<db, store, inTx, out, todo>>

\* Delete of the lapsed key, whatever is stored there by now.
Evict(c) ==
    /\ pc[c] = "evict"
    /\ cache' = [cache EXCEPT ![KeyOf[req[c]]] = None]
    /\ expired' = expired \ {KeyOf[req[c]]}
    /\ pc' = [pc EXCEPT ![c] = "read"]
    /\ UNCHANGED <<db, inTx, req, out, todo, reply>>

\* The statement of a cacheable query (the last attempt, if it is retried).
Fetch(c) ==
    /\ pc[c] = "read"
    /\ out' = [out EXCEPT ![c] =
                 [q |-> req[c], val |-> Fetched(c, req[c], FALSE),
                  src |-> Reader(c, FALSE),
                  missed |-> FALSE, skipped |-> {}, overlap |-> Clearing]]
    /\ req' = [req EXCEPT ![c] = None]
    /\ pc' = [pc EXCEPT ![c] = "fill"]
    /\ UNCHANGED <<db, store, inTx, todo, reply>>

\* The statement or the scan of its rows fails: nothing is stored.
FetchFails(c) ==
    /\ pc[c] = "read"
    /\ req' = [req EXCEPT ![c] = None]
    /\ pc' = [pc EXCEPT ![c] = "idle"]
    /\ UNCHANGED <<db, store, inTx, out, todo, reply>>

\* store.Set with a new expiry, and the query returns.
Fill(c) ==
    /\ pc[c] = "fill"
    /\ cache' = [cache EXCEPT ![KeyOf[out[c].q]] = out[c]]
    /\ expired' = expired \ {KeyOf[out[c].q]}
    /\ reply' = [reply EXCEPT ![c] = [via |-> out[c].src, val |-> out[c].val]]
    /\ out' = [out EXCEPT ![c] = None]
    /\ pc' = [pc EXCEPT ![c] = "idle"]
    /\ UNCHANGED <<db, inTx, req, todo>>

\* A read that neither looks in the cache nor stores: a query with a row lock,
\* or a count/exists (Repository.scalar).
Uncached(c, q, locked) ==
    /\ Idle(c)
    /\ locked => Unlocked({q}, Clients \ {c})
    /\ reply' = [reply EXCEPT ![c] = [via |-> Reader(c, locked),
                                      val |-> Fetched(c, q, locked)]]
    /\ UNCHANGED <<db, store, inTx, pc, req, out, todo>>

LockedQuery(c, q) == Uncached(c, q, TRUE)
Scalar(c, q) == Uncached(c, q, FALSE)

-------------------------------------------------------------------------------
(* Clearing calls.                                                         *)

Overlapped(e, c) == IF e = None THEN e ELSE [e EXCEPT !.overlap = @ \cup {c}]

\* A Clear starts: MemoryCache.Clear visits the keys one at a time (sync.Map
\* Range).  A key stored meanwhile may or may not be visited; visiting every
\* key once, in any order, covers both.
StartClear(c, at) ==
    /\ Idle(c)
    /\ pc' = [pc EXCEPT ![c] = at]
    /\ todo' = [todo EXCEPT ![c] = Keys]
    /\ out' = [d \in Clients |-> Overlapped(out[d], c)]
    /\ Forget(c)
    /\ UNCHANGED <<db, store, inTx, req>>

InvalidateCache(c) == StartClear(c, "invalidate")

\* Mutant of Execute: it does not clear the cache.
ExecuteWithoutClear(c) ==
    /\ Idle(c)
    /\ pc' = [pc EXCEPT ![c] = "write"]
    /\ Forget(c)
    /\ UNCHANGED <<db, store, inTx, req, out, todo>>

\* Update, BatchUpdate, SaveAllUpsert, DeleteBy..., Exec: execute clears the
\* cache first.
Execute(c) == StartClear(c, "clear")

\* Where a client is once its Clear has visited everything but the keys left.
AfterVisit(at, left) ==
    IF left # {} THEN at ELSE IF at = "clear" THEN "write" ELSE "idle"

\* Mutant of Visit: the Range function returns false, which ends the Range.
VisitOneKey(c, k) ==
    /\ pc[c] \in {"clear", "invalidate"}
    /\ k \in todo[c]
    /\ cache' = [cache EXCEPT ![k] = None]
    /\ expired' = expired \ {k}
    /\ todo' = [todo EXCEPT ![c] = {}]
    /\ pc' = [pc EXCEPT ![c] = AfterVisit(@, {})]
    /\ UNCHANGED <<db, inTx, req, out, reply>>

Visit(c, k) ==
    /\ pc[c] \in {"clear", "invalidate"}
    /\ k \in todo[c]
    /\ cache' = [cache EXCEPT ![k] = None]
    /\ expired' = expired \ {k}
    /\ todo' = [todo EXCEPT ![c] = @ \ {k}]
    /\ pc' = [pc EXCEPT ![c] = AfterVisit(@, todo[c] \ {k})]
    /\ UNCHANGED <<db, inTx, req, out, reply>>

-------------------------------------------------------------------------------
(* Write statements.                                                       *)

\* A statement of c can take effect on the rows of qs.
CanWrite(c, qs) == writes < program.writes /\ Unlocked(qs, Clients \ {c})

\* Inside a transaction the effect is private to it.
WriteInTx(c, qs) ==
    /\ c \in inTx
    /\ txw' = [txw EXCEPT ![c] =
                 [q \in Queries |-> IF q \in qs THEN writes + 1 ELSE txw[c][q]]]
    /\ UNCHANGED <<program, primary, replica, lag, cache, out>>

\* The statement of an execute call.
ExecuteStatement(c, qs) ==
    /\ pc[c] = "write"
    /\ CanWrite(c, qs)
    /\ writes' = writes + 1
    /\ \/ WriteInTx(c, qs)
       \/ c \notin inTx /\ PublishExecute(FreshWrite(qs), c) /\ UNCHANGED txw
    /\ pc' = [pc EXCEPT ![c] = "idle"]
    /\ UNCHANGED <<expired, inTx, req, todo, reply>>

\* The statement fails, or affects no row.
ExecuteFails(c) ==
    /\ pc[c] = "write"
    /\ pc' = [pc EXCEPT ![c] = "idle"]
    /\ UNCHANGED <<db, store, inTx, req, out, todo, reply>>

\* Save, SaveAll, SaveAllNoKeys: saveAll runs the INSERT without execute.
Save(c, qs) ==
    /\ Idle(c)
    /\ CanWrite(c, qs)
    /\ writes' = writes + 1
    /\ \/ WriteInTx(c, qs)
       \/ c \notin inTx /\ PublishBypass(FreshWrite(qs)) /\ UNCHANGED txw
    /\ Forget(c)
    /\ UNCHANGED <<expired, inTx, pc, req, todo>>

-------------------------------------------------------------------------------
(* Transactional: fn runs with a WithTx copy, then commit or rollback.     *)

Begin(c) ==
    /\ program.tx
    /\ Idle(c)
    /\ c \notin inTx
    /\ inTx' = inTx \cup {c}
    /\ Forget(c)
    /\ UNCHANGED <<db, store, pc, req, out, todo>>

Commit(c) ==
    /\ Idle(c)
    /\ c \in inTx
    /\ inTx' = inTx \ {c}
    /\ PublishBypass(txw[c])
    /\ txw' = [txw EXCEPT ![c] = NoWrites]
    /\ Forget(c)
    /\ UNCHANGED <<writes, expired, pc, req, todo>>

\* fn returned an error or panicked, or the commit failed.
Rollback(c) ==
    /\ Idle(c)
    /\ c \in inTx
    /\ inTx' = inTx \ {c}
    /\ txw' = [txw EXCEPT ![c] = NoWrites]
    /\ Forget(c)
    /\ UNCHANGED <<program, primary, replica, lag, writes, store, pc, req, out, todo>>

-------------------------------------------------------------------------------
Init ==
    /\ program \in Programs
    /\ primary = [q \in Queries |-> 0]
    /\ replica = [q \in Queries |-> 0]
    /\ lag = <<>>
    /\ txw = [c \in Clients |-> NoWrites]
    /\ writes = 0
    /\ cache = [k \in Keys |-> None]
    /\ expired = {}
    /\ inTx = {}
    /\ pc = [c \in Clients |-> "idle"]
    /\ req = [c \in Clients |-> None]
    /\ out = [c \in Clients |-> None]
    /\ todo = [c \in Clients |-> {}]
    /\ reply = [c \in Clients |-> NoReply]

WriteScopes == SUBSET program.queries \ {{}}

\* Client c begins a call, or a transaction begins or ends.
Call(c) ==
    \/ \E q \in program.queries : Hit(c, q) \/ Miss(c, q) \/ Lapsed(c, q)
                          \/ LockedQuery(c, q) \/ Scalar(c, q)
    \/ InvalidateCache(c) \/ Execute(c)
    \/ \E qs \in WriteScopes : Save(c, qs)
    \/ Begin(c)

End(c) == Commit(c) \/ Rollback(c)

\* Client c goes on with the call it is in.
Step(c) ==
    \/ Evict(c) \/ Fetch(c) \/ FetchFails(c) \/ Fill(c)
    \/ \E k \in Keys : Visit(c, k)
    \/ \E qs \in WriteScopes : ExecuteStatement(c, qs)
    \/ ExecuteFails(c)

Environment ==
    \/ Replicate
    \/ \E qs \in WriteScopes : ExternalWrite(qs)
    \/ \E k \in Keys : Expire(k)

Next ==
    \/ \E c \in Clients : Call(c) \/ Step(c) \/ End(c)
    \/ Environment

Spec == Init /\ [][Next]_vars

\* A goroutine in a call goes on, a transaction function makes finitely many
\* calls and returns, time passes, and the replica keeps applying.
Fairness ==
    /\ \A c \in Clients : WF_vars(Step(c)) /\ SF_vars(End(c))
    /\ \A k \in Keys : WF_vars(Expire(k))
    /\ WF_vars(Replicate)

FairSpec == Spec /\ Fairness

-------------------------------------------------------------------------------
(* Properties.                                                             *)

\* Every variable has its type.
TypeOK ==
    /\ program \in Programs
    /\ primary \in Rows /\ replica \in Rows
    /\ lag \in Seq(WriteSet)
    /\ txw \in [Clients -> WriteSet]
    /\ writes \in Vals
    /\ cache \in [Keys -> Result \cup {None}]
    /\ expired \in SUBSET Keys
    /\ inTx \in SUBSET Clients
    /\ pc \in [Clients -> {"idle", "evict", "read", "fill", "clear", "write", "invalidate"}]
    /\ req \in [Clients -> Queries \cup {None}]
    /\ out \in [Clients -> Result \cup {None}]
    /\ todo \in [Clients -> SUBSET Keys]
    /\ reply \in [Clients -> Reply]

Cached(k) == cache[k] # None

\* Clear is not atomic, and queries store results while it runs.  Once a write
\* or InvalidateCache has gone past a key, an entry under that key was stored
\* by a query that was already past its statement when, or ran it after, the
\* Clear had started: nothing older survives.
ClearIsABarrier ==
    \A c \in Clearing, k \in Keys :
        k \notin todo[c] /\ Cached(k) => c \in cache[k].overlap

\* Of the results read from the primary or in a transaction: one that is cached
\* although an Update, BatchUpdate, upsert, delete or Exec has changed its rows
\* since they were read was in the hands of a query that overlapped that call.
\* (A result read from a replica may lack an earlier write without any overlap:
\* the replica lagged when it was read.)
SkippedOnlyIfOverlapping ==
    \A k \in Keys : Cached(k) /\ cache[k].src # "replica"
                     => cache[k].skipped \subseteq cache[k].overlap

\* The cache is coherent with the primary except for the windows the design
\* leaves open: an entry read from the primary by a query that overlapped no
\* clearing call, whose rows were changed since by no path around execute
\* (INSERTs, commits of transactions, other programs), is what the primary
\* holds now.
Coherent ==
    \A k \in Keys :
        /\ Cached(k)
        /\ cache[k].src = "primary"
        /\ cache[k].overlap = {}
        /\ ~cache[k].missed
        => cache[k].val = primary[cache[k].q]

\* The ttl bounds every staleness window: when the writes have stopped, from
\* some time on every cache hit is what the primary holds.
EventuallyFreshHits ==
    <>[][\A c \in Clients, q \in Queries :
           Hit(c, q) => reply'[c].val = primary[q]]_vars

-------------------------------------------------------------------------------
(* The inductive invariant behind them (proved in CachedRepositoryProofs). *)

\* What a client's position in its call says about the rest of its state.
CallInv ==
    \A c \in Clients :
        /\ pc[c] \in {"evict", "read"} => req[c] # None
        /\ pc[c] = "fill" <=> out[c] # None
        /\ pc[c] = "write" => todo[c] = {}
        /\ c \notin inTx => txw[c] = NoWrites

\* A result in flight knows the clearing calls it overlaps.
InFlightInv ==
    \A c \in Clearing, d \in Clients : out[d] # None => c \in out[d].overlap

\* The part of Coherent that holds of one result e, cached or in flight, with
\* the given rows on the primary.
CoherentWith(e, rows) ==
    /\ e # None
    /\ e.src = "primary"
    /\ e.overlap = {}
    /\ ~e.missed
    => e.val = rows[e.q]

\* What SkippedOnlyIfOverlapping follows from: 'skipped' counts the changes of
\* the primary made after a result was read, wherever it was read.
OverlapsSkipped(e) == e # None => e.skipped \subseteq e.overlap

ResultInv ==
    /\ \A k \in Keys : CoherentWith(cache[k], primary) /\ OverlapsSkipped(cache[k])
    /\ \A d \in Clients : CoherentWith(out[d], primary) /\ OverlapsSkipped(out[d])

IInv == TypeOK /\ CallInv /\ InFlightInv /\ ClearIsABarrier /\ ResultInv

-------------------------------------------------------------------------------
(* What the documentation says of the cache and of transactions, and the   *)
(* code does not do.                                                       *)

\* Results are "keyed by SQL+args": an entry that a read of q would be served
\* was stored by a read of q.
EntryAnswersQuery ==
    \A q \in program.queries : Cached(KeyOf[q]) => cache[KeyOf[q]].q = q

\* "Everything inside a transaction goes to that connection": what a read
\* inside a transaction returned came from the transaction's connection.
TxReadsItsConnection ==
    \A c \in inTx : reply[c].via \in {"none", "tx"}
===============================================================================
