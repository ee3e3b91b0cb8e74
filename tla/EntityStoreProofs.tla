--------------------------- MODULE EntityStoreProofs ---------------------------
(***************************************************************************)
(* Proofs about EntityStore, for all sets of goroutines and keys and any   *)
(* number of writes: its types, that Update loses no update it can see,    *)
(* and that it reports no conflict where there is none.                    *)
(*                                                                         *)
(* Every write action is an instance of Write whose row, kinds and entity  *)
(* satisfy Sound (the lemmas SaveIsSound ... HardDeleteIsSound); a sound   *)
(* Write preserves each part of the inductive invariant.                   *)
(***************************************************************************)
EXTENDS EntityStore, TLAPS

\* What Write relies on: the row is well typed, supersedes the one it
\* replaces, has fresh contents, and the entity left in memory follows it.
Sound(c, id, r, paths, e) ==
    /\ c \in Clients /\ id \in Ids
    /\ r \in Row \cup {None}
    /\ r # None => r.val = writes + 1
    /\ paths \in SUBSET Paths
    /\ e \in Entity \cup {None}
    /\ Supersedes(r, Visible(c, id), paths)
    /\ e # None => IF e.id = id THEN Follows(e, r) ELSE e = held[c]
    /\ e # None =>
         \/ r # None /\ e.id = id /\ e.ver = r.ver /\ e.from = r.val
         \/ held[c] # None /\ e.id = held[c].id /\ e.ver = held[c].ver
              /\ e.from = held[c].from

-------------------------------------------------------------------------------
(* The writes of the repository are sound. *)

\* A row a client sees is well typed.
LEMMA VisibleType ==
    ASSUME TypeOK, NEW c \in Clients, NEW id \in Ids
    PROVE  Visible(c, id) \in Row \cup {None}
<1>1. CASE pending[c][id] = None
  BY <1>1 DEF TypeOK, Visible
<1>2. CASE pending[c][id] # None
  <2>1. pending[c][id] \in Change
    BY <1>2 DEF TypeOK
  <2> QED BY <1>2, <2>1 DEF Visible, Change
<1> QED BY <1>1, <1>2

\* The number of the next write is a value.
LEMMA NextWrite ==
    ASSUME TypeOK, writes < MaxWrites
    PROVE  writes + 1 \in Vals
BY ConstantsAssumption DEF TypeOK, Vals

\* What an INSERT or an upsert of an entity stores, and the entity after it.
LEMMA StoringIsSound ==
    ASSUME IInv, writes < MaxWrites,
           NEW c \in Clients, NEW e \in InMemory(c), NEW kind \in {"insert", "upsert"}
    PROVE  Sound(c, e.id, Stored(e), {kind}, InStep(e, e.ver))
<1>1. e \in Entity
  <2>1. CASE e \in {NewEntity(id) : id \in Ids}
    <3>1. PICK id \in Ids : e = NewEntity(id)
      BY <2>1
    <3>2. 0 \in Vals
      BY ConstantsAssumption DEF Vals
    <3> QED BY <3>1, <3>2 DEF NewEntity, Entity
  <2>2. CASE e = held[c] /\ e # None
    BY <2>2 DEF IInv, TypeOK
  <2> QED BY <2>1, <2>2 DEF InMemory
<1>2. writes + 1 \in Vals
  BY NextWrite DEF IInv
<1> DEFINE r == Stored(e)
           f == InStep(e, e.ver)
<1>3. r \in Row /\ r.ver = e.ver /\ r.val = writes + 1
  BY <1>1, <1>2 DEF Stored, Row, Entity
<1>4. f \in Entity /\ f.id = e.id /\ f.ver = e.ver /\ f.from = writes + 1
  BY <1>1, <1>2 DEF InStep, Entity
<1>5. {kind} \in SUBSET Paths /\ {kind} \cap Unversioned # {}
  BY DEF Paths, Unversioned
<1>6. e.id \in Ids /\ e.ver \in Nat
  BY <1>1 DEF Entity
<1>7. Follows(f, r)
  BY <1>3, <1>4, <1>6 DEF Follows
<1>8. r # None
  BY <1>3, NoneAssumption
<1> HIDE DEF r, f
<1>9. Sound(c, e.id, r, {kind}, f)
  BY <1>3, <1>4, <1>5, <1>6, <1>7, <1>8 DEF Sound, Supersedes
<1> QED BY <1>9 DEF r, f

\* What Update writes, answered or not.
LEMMA UpdateIsSound ==
    ASSUME IInv, writes < MaxWrites, NEW c \in Clients, held[c] # None, UpdateMatches(c)
    PROVE  LET e == held[c]
               r == Updated(e)
           IN /\ Sound(c, e.id, r, {"update"}, InStep(e, e.ver + 1))
              /\ Sound(c, e.id, r, {"update"}, e)
<1> DEFINE e == held[c]
           r == Updated(e)
           f == InStep(e, e.ver + 1)
<1>1. e \in Entity /\ e # None
  BY DEF IInv, TypeOK
<1>2. writes + 1 \in Vals
  BY NextWrite DEF IInv
<1>3. e.id \in Ids /\ e.ver \in Nat
  BY <1>1 DEF Entity
<1>4. r \in Row /\ r.ver = e.ver + 1 /\ r.val = writes + 1
  BY <1>1, <1>2 DEF Updated, Row, Entity
<1>5. f \in Entity /\ f.id = e.id /\ f.ver = e.ver + 1 /\ f.from = writes + 1
  BY <1>1, <1>2 DEF InStep, Entity
<1>6. Visible(c, e.id) # None /\ Visible(c, e.id).ver = e.ver
  BY DEF UpdateMatches
<1>7. Supersedes(r, Visible(c, e.id), {"update"})
  BY <1>3, <1>4, <1>6 DEF Supersedes
<1>8. Follows(f, r)
  BY <1>3, <1>4, <1>5 DEF Follows
<1>9. Follows(e, r)
  BY <1>3, <1>4 DEF Follows
<1>10. r # None
  BY <1>4, NoneAssumption
<1>11. {"update"} \in SUBSET Paths
  BY DEF Paths
<1>12. e = held[c]
  OBVIOUS
<1> HIDE DEF e, r, f
<1>13. Sound(c, e.id, r, {"update"}, f)
  BY <1>3, <1>4, <1>5, <1>7, <1>8, <1>10, <1>11 DEF Sound
<1>14. Sound(c, e.id, r, {"update"}, e)
  BY <1>1, <1>3, <1>4, <1>7, <1>9, <1>10, <1>11, <1>12 DEF Sound
<1> QED BY <1>13, <1>14 DEF e, r, f

\* What Miss leaves of an entity.
LEMMA MissType ==
    ASSUME NEW e \in Entity \cup {None}, NEW id, NEW paths \in SUBSET Paths
    PROVE  /\ Miss(e, id, paths) \in Entity \cup {None}
           /\ Miss(e, id, paths) = None <=> e = None
           /\ e # None => /\ Miss(e, id, paths).id = e.id
                          /\ Miss(e, id, paths).ver = e.ver
                          /\ Miss(e, id, paths).from = e.from
           /\ e # None /\ e.id = id => Miss(e, id, paths).missed = e.missed \cup paths
           /\ e # None /\ e.id # id => Miss(e, id, paths) = e
<1>1. CASE e = None \/ e.id # id
  BY <1>1 DEF Miss
<1>2. CASE e # None /\ e.id = id
  <2>1. e \in Entity
    BY <1>2
  <2>2. Miss(e, id, paths) = [e EXCEPT !.missed = @ \cup paths]
    BY <1>2 DEF Miss
  <2>3. Miss(e, id, paths) \in Entity
    BY <2>1, <2>2 DEF Entity
  <2> QED BY <1>2, <2>1, <2>2, <2>3, NoneAssumption DEF Entity
<1> QED BY <1>1, <1>2

\* A change of some columns that leaves the version.
LEMMA ChangeIsSound ==
    ASSUME IInv, NEW c \in Clients, NEW id \in Ids, NEW kind \in {"batch", "softDelete"},
           NEW r \in Row, r.val = writes + 1
    PROVE  Sound(c, id, r, {kind}, Miss(held[c], id, {kind}))
<1> DEFINE e == held[c]
           f == Miss(e, id, {kind})
<1>1. e \in Entity \cup {None}
  BY DEF IInv, TypeOK
<1>2. {kind} \in SUBSET Paths /\ {kind} \cap Unversioned # {}
  BY DEF Paths, Unversioned
<1>3. /\ f \in Entity \cup {None}
      /\ f = None <=> e = None
      /\ e # None => f.id = e.id /\ f.ver = e.ver /\ f.from = e.from
      /\ e # None /\ e.id = id => f.missed = e.missed \cup {kind}
      /\ e # None /\ e.id # id => f = e
  BY <1>1, <1>2, MissType
<1>4. f # None /\ f.id = id => Follows(f, r)
  BY <1>2, <1>3 DEF Follows
<1>5. r # None
  BY NoneAssumption
<1>6. e = held[c]
  OBVIOUS
<1> HIDE DEF e, f
<1>7. Sound(c, id, r, {kind}, f)
  BY <1>2, <1>3, <1>4, <1>5, <1>6 DEF Sound, Supersedes
<1> QED BY <1>7 DEF e, f

\* A DELETE.
LEMMA HardDeleteIsSound ==
    ASSUME IInv, NEW c \in Clients, NEW id \in Ids
    PROVE  Sound(c, id, None, {}, held[c])
BY DEF Sound, Supersedes, Follows, IInv, TypeOK

Writing(c) ==
    \/ \E id \in Ids : BatchUpdate(c, id) \/ SoftDelete(c, id) \/ HardDelete(c, id)
    \/ \E e \in InMemory(c) : Save(c, e) \/ SaveAllUpsert(c, e)
    \/ Update(c) \/ UpdateUnanswered(c)

\* Every write action is a sound Write.
LEMMA WritingIsSound ==
    ASSUME IInv, NEW c \in Clients, Writing(c)
    PROVE  \E id, r, paths, e : Sound(c, id, r, paths, e) /\ Write(c, id, r, paths, e)
<1>1. ASSUME NEW id \in Ids, BatchUpdate(c, id)
      PROVE  \E r, paths, e : Sound(c, id, r, paths, e) /\ Write(c, id, r, paths, e)
  <2> DEFINE r == [Visible(c, id) EXCEPT !.val = writes + 1]
  <2>1. writes + 1 \in Vals
    BY <1>1, NextWrite DEF IInv, BatchUpdate, Write, CanWrite
  <2>2. Visible(c, id) \in Row
    BY <1>1, VisibleType DEF IInv, BatchUpdate
  <2>3. r \in Row /\ r.val = writes + 1
    BY <2>1, <2>2 DEF Row
  <2>4. Sound(c, id, r, {"batch"}, Miss(held[c], id, {"batch"}))
    BY <2>3, ChangeIsSound
  <2> QED BY <1>1, <2>4 DEF BatchUpdate
<1>2. ASSUME NEW id \in Ids, SoftDelete(c, id)
      PROVE  \E r, paths, e : Sound(c, id, r, paths, e) /\ Write(c, id, r, paths, e)
  <2> DEFINE r == [Visible(c, id) EXCEPT !.val = writes + 1, !.live = FALSE]
  <2>1. writes + 1 \in Vals
    BY <1>2, NextWrite DEF IInv, SoftDelete, Write, CanWrite
  <2>2. Visible(c, id) \in Row
    BY <1>2, VisibleType DEF IInv, SoftDelete
  <2>3. r \in Row /\ r.val = writes + 1
    BY <2>1, <2>2 DEF Row
  <2>4. Sound(c, id, r, {"softDelete"}, Miss(held[c], id, {"softDelete"}))
    BY <2>3, ChangeIsSound
  <2> QED BY <1>2, <2>4 DEF SoftDelete
<1>3. ASSUME NEW id \in Ids, HardDelete(c, id)
      PROVE  \E r, paths, e : Sound(c, id, r, paths, e) /\ Write(c, id, r, paths, e)
  BY <1>3, HardDeleteIsSound DEF HardDelete
<1>4. ASSUME NEW e \in InMemory(c), Save(c, e)
      PROVE  \E id, r, paths, f : Sound(c, id, r, paths, f) /\ Write(c, id, r, paths, f)
  <2>1. writes < MaxWrites
    BY <1>4 DEF Save, Write, CanWrite
  <2>2. Sound(c, e.id, Stored(e), {"insert"}, InStep(e, e.ver))
    BY <2>1, StoringIsSound
  <2> QED BY <1>4, <2>2 DEF Save
<1>5. ASSUME NEW e \in InMemory(c), SaveAllUpsert(c, e)
      PROVE  \E id, r, paths, f : Sound(c, id, r, paths, f) /\ Write(c, id, r, paths, f)
  <2>1. writes < MaxWrites
    BY <1>5 DEF SaveAllUpsert, Write, CanWrite
  <2>2. Sound(c, e.id, Stored(e), {"upsert"}, InStep(e, e.ver))
    BY <2>1, StoringIsSound
  <2> QED BY <1>5, <2>2 DEF SaveAllUpsert
<1>6. ASSUME Update(c) \/ UpdateUnanswered(c)
      PROVE  \E id, r, paths, e : Sound(c, id, r, paths, e) /\ Write(c, id, r, paths, e)
  <2>1. writes < MaxWrites /\ held[c] # None /\ UpdateMatches(c)
    BY <1>6 DEF Update, UpdateUnanswered, Write, CanWrite
  <2> QED BY <1>6, <2>1, UpdateIsSound DEF Update, UpdateUnanswered
<1> QED BY <1>1, <1>2, <1>3, <1>4, <1>5, <1>6 DEF Writing

-------------------------------------------------------------------------------
(* A sound write preserves the invariant. *)

\* What a write changes, in and outside a transaction.
LEMMA WriteEffect ==
    ASSUME IInv, NEW c, NEW id, NEW r, NEW paths, NEW e,
           Sound(c, id, r, paths, e), Write(c, id, r, paths, e)
    PROVE  /\ writes' = writes + 1 /\ writes + 1 \in Vals
           /\ held'[c] = e
           /\ Visible(c, id)' = r
           /\ \A i \in Ids \ {id} : rows'[i] = rows[i] /\ \A d \in Clients : Visible(d, i)' = Visible(d, i)
           /\ \/ /\ rows'[id] = rows[id]
                 /\ \A d \in Clients \ {c} : held'[d] = held[d] /\ Visible(d, id)' = Visible(d, id)
              \/ /\ rows'[id] = r
                 /\ \A d \in Clients \ {c} : /\ held'[d] = Miss(held[d], id, paths)
                                             /\ Visible(d, id) = rows[id]
                                             /\ Visible(d, id)' = r
                 /\ Visible(c, id) = rows[id]
<1> c \in Clients /\ id \in Ids
  BY DEF Sound
<1>1. CanWrite(c, id) /\ writes' = writes + 1 /\ inTx' = inTx
  BY DEF Write
<1>2. writes + 1 \in Vals
  BY <1>1, NextWrite DEF CanWrite, IInv
<1>3. \A d \in Clients \ {c} : pending[d][id] = None
  BY <1>1 DEF CanWrite, Unlocked
<1>4. /\ rows \in [Ids -> Row \cup {None}]
      /\ pending \in [Clients -> [Ids -> Change \cup {None}]]
      /\ held \in [Clients -> Entity \cup {None}]
  BY DEF IInv, TypeOK
<1>5. CASE c \in inTx
  <2> DEFINE p == [row |-> r, paths |-> Earlier(c, id) \cup paths]
  <2>1. /\ pending' = [pending EXCEPT ![c][id] = p]
        /\ held' = [held EXCEPT ![c] = e]
        /\ rows' = rows
    BY <1>5 DEF Write
  <2>2. p \in Change
    <3>1. Earlier(c, id) \in SUBSET Paths
      BY <1>4 DEF Earlier, Change
    <3> QED BY <3>1 DEF Change, Sound
  <2>3. p # None
    BY <2>2, NoneAssumption
  <2>4. pending'[c][id] = p
    BY <1>4, <2>1
  <2>5. Visible(c, id)' = r
    BY <2>3, <2>4 DEF Visible
  <2>6. \A d \in Clients, i \in Ids : d # c \/ i # id => pending'[d][i] = pending[d][i]
    BY <1>4, <2>1
  <2>7. \A d \in Clients, i \in Ids : d # c \/ i # id => Visible(d, i)' = Visible(d, i)
    BY <2>1, <2>6 DEF Visible
  <2>8. held'[c] = e /\ \A d \in Clients \ {c} : held'[d] = held[d]
    BY <1>4, <2>1
  <2> QED BY <1>1, <1>2, <2>1, <2>5, <2>7, <2>8
<1>6. CASE c \notin inTx
  <2>1. /\ rows' = [rows EXCEPT ![id] = r]
        /\ held' = [d \in Clients |-> IF d = c THEN e ELSE Miss(held[d], id, paths)]
        /\ pending' = pending
    BY <1>6 DEF Write
  <2>2. \A d \in Clients : pending[d][id] = None
    BY <1>3, <1>6 DEF IInv, LockInv
  <2>3. rows'[id] = r /\ \A i \in Ids \ {id} : rows'[i] = rows[i]
    BY <1>4, <2>1
  <2>4. \A d \in Clients : Visible(d, id) = rows[id] /\ Visible(d, id)' = r
    BY <2>1, <2>2, <2>3 DEF Visible
  <2>5. \A d \in Clients, i \in Ids \ {id} : Visible(d, i)' = Visible(d, i)
    BY <2>1, <2>3 DEF Visible
  <2> QED BY <1>1, <1>2, <2>1, <2>3, <2>4, <2>5
<1> QED BY <1>5, <1>6

\* Every variable keeps its type.
LEMMA WriteType ==
    ASSUME IInv, NEW c, NEW id, NEW r, NEW paths, NEW e,
           Sound(c, id, r, paths, e), Write(c, id, r, paths, e)
    PROVE  TypeOK'
<1> c \in Clients /\ id \in Ids
  BY DEF Sound
<1>1. writes' \in Vals /\ inTx' = inTx
  BY WriteEffect DEF Write
<1>2. /\ rows \in [Ids -> Row \cup {None}]
      /\ pending \in [Clients -> [Ids -> Change \cup {None}]]
      /\ held \in [Clients -> Entity \cup {None}]
      /\ inTx \in SUBSET Clients
  BY DEF IInv, TypeOK
<1>3. r \in Row \cup {None} /\ paths \in SUBSET Paths /\ e \in Entity \cup {None}
  BY DEF Sound
<1>4. CASE c \in inTx
  <2>1. Earlier(c, id) \in SUBSET Paths
    BY <1>2 DEF Earlier, Change
  <2>2. [row |-> r, paths |-> Earlier(c, id) \cup paths] \in Change
    BY <1>3, <2>1 DEF Change
  <2> DEFINE p == [row |-> r, paths |-> Earlier(c, id) \cup paths]
  <2>3. /\ pending' = [pending EXCEPT ![c][id] = p]
        /\ held' = [held EXCEPT ![c] = e]
        /\ rows' = rows
    BY <1>4 DEF Write
  <2>4. p \in Change
    BY <2>2
  <2> HIDE DEF p
  <2>5. pending' \in [Clients -> [Ids -> Change \cup {None}]]
    BY <1>2, <2>3, <2>4
  <2>6. held' \in [Clients -> Entity \cup {None}]
    BY <1>2, <1>3, <2>3
  <2> QED BY <1>1, <1>2, <2>3, <2>5, <2>6 DEF TypeOK
<1>5. CASE c \notin inTx
  <2>1. \A d \in Clients : Miss(held[d], id, paths) \in Entity \cup {None}
    BY <1>2, <1>3, MissType
  <2>2. /\ rows' = [rows EXCEPT ![id] = r]
        /\ held' = [d \in Clients |-> IF d = c THEN e ELSE Miss(held[d], id, paths)]
        /\ pending' = pending
    BY <1>5 DEF Write
  <2>3. rows' \in [Ids -> Row \cup {None}]
    BY <1>2, <1>3, <2>2
  <2>4. held' \in [Clients -> Entity \cup {None}]
    BY <1>3, <2>1, <2>2
  <2> QED BY <1>1, <1>2, <2>2, <2>3, <2>4 DEF TypeOK
<1> QED BY <1>4, <1>5

\* A write keeps to the locks.
LEMMA WriteLocks ==
    ASSUME IInv, NEW c, NEW id, NEW r, NEW paths, NEW e,
           Sound(c, id, r, paths, e), Write(c, id, r, paths, e)
    PROVE  LockInv'
<1> c \in Clients /\ id \in Ids
  BY DEF Sound
<1>1. pending \in [Clients -> [Ids -> Change \cup {None}]] /\ inTx' = inTx
  BY DEF IInv, TypeOK, Write
<1>2. \A d \in Clients \ {c} : pending[d][id] = None
  BY DEF Write, CanWrite, Unlocked
<1>3. \/ pending' = pending
      \/ c \in inTx /\ \A d \in Clients, i \in Ids : d # c \/ i # id => pending'[d][i] = pending[d][i]
  BY <1>1 DEF Write
<1> QED BY <1>1, <1>2, <1>3 DEF IInv, LockInv

\* A transaction's rows supersede the committed ones.
LEMMA WritePending ==
    ASSUME IInv, NEW c, NEW id, NEW r, NEW paths, NEW e,
           Sound(c, id, r, paths, e), Write(c, id, r, paths, e)
    PROVE  PendingInv'
<1> c \in Clients /\ id \in Ids
  BY DEF Sound
<1>1. pending \in [Clients -> [Ids -> Change \cup {None}]] /\ rows \in [Ids -> Row \cup {None}]
  BY DEF IInv, TypeOK
<1>2. CASE c \in inTx
  <2> DEFINE p == [row |-> r, paths |-> Earlier(c, id) \cup paths]
  <2>1. pending' = [pending EXCEPT ![c][id] = p] /\ rows' = rows
    BY <1>2 DEF Write
  <2>2. Supersedes(r, Visible(c, id), paths)
    BY DEF Sound
  <2>3. Supersedes(r, rows[id], Earlier(c, id) \cup paths)
    <3>1. CASE pending[c][id] = None
      BY <2>2, <3>1 DEF Visible, Earlier, Supersedes
    <3>2. CASE pending[c][id] # None
      <4>1. Supersedes(pending[c][id].row, rows[id], pending[c][id].paths)
        BY <3>2 DEF IInv, PendingInv
      <4>2. pending[c][id].row \in Row \cup {None} /\ r \in Row \cup {None}
        BY <1>1, <3>2 DEF Change, Sound
      <4> QED BY <1>1, <2>2, <3>2, <4>1, <4>2 DEF Visible, Earlier, Supersedes, Row
    <3> QED BY <3>1, <3>2
  <2>4. pending'[c][id] = p
    BY <1>1, <2>1
  <2>5. \A d \in Clients, i \in Ids : d # c \/ i # id => pending'[d][i] = pending[d][i]
    BY <1>1, <2>1
  <2> QED BY <2>1, <2>3, <2>4, <2>5 DEF IInv, PendingInv
<1>3. CASE c \notin inTx
  <2>1. pending' = pending /\ rows' = [rows EXCEPT ![id] = r]
    BY <1>3 DEF Write
  <2>2. \A d \in Clients : pending[d][id] = None
    BY <1>3 DEF IInv, LockInv, Write, CanWrite, Unlocked
  <2> QED BY <1>1, <2>1, <2>2 DEF IInv, PendingInv
<1> QED BY <1>2, <1>3

\* An entity that misses a change follows the changed row.
LEMMA MissFollows ==
    ASSUME NEW g \in Entity, NEW old \in Row \cup {None}, Follows(g, old),
           NEW r \in Row \cup {None}, NEW paths, Supersedes(r, old, paths), g # None,
           NEW f, f.ver = g.ver, f.from = g.from, f.missed = g.missed \cup paths
    PROVE  Follows(f, r)
<1>1. ASSUME r # None, f.missed \cap Unversioned = {}
      PROVE  r.ver > f.ver
  <2>1. g.missed \cap Unversioned = {} /\ paths \cap Unversioned = {}
    BY <1>1
  <2>2. old # None /\ r.ver > old.ver
    BY <1>1, <2>1 DEF Supersedes
  <2>3. old.ver >= g.ver
    BY <2>1, <2>2 DEF Follows
  <2>4. g.ver \in Nat /\ old.ver \in Nat /\ r.ver \in Nat
    BY <1>1, <2>2 DEF Row, Entity
  <2> QED BY <2>2, <2>3, <2>4
<1>2. f.ver \in Nat /\ (r # None => r.ver \in Nat)
  BY DEF Row, Entity
<1> QED BY <1>1, <1>2 DEF Follows

\* Entities in memory follow their rows.
LEMMA WriteHeld ==
    ASSUME IInv, NEW c, NEW id, NEW r, NEW paths, NEW e,
           Sound(c, id, r, paths, e), Write(c, id, r, paths, e)
    PROVE  HeldInv'
<1> c \in Clients /\ id \in Ids
  BY DEF Sound
<1>1. held \in [Clients -> Entity \cup {None}] /\ rows \in [Ids -> Row \cup {None}]
  BY DEF IInv, TypeOK
<1> SUFFICES ASSUME NEW d \in Clients, NEW f, f = held'[d], f # None
             PROVE  Follows(f, Visible(d, f.id)')
  BY DEF HeldInv, Follows, Visible
<1>2. \A g : g = held[d] /\ g # None => g.id \in Ids /\ Follows(g, Visible(d, g.id))
  BY <1>1 DEF IInv, HeldInv, Entity
<1>3. CASE d = c
  <2>1. f = e /\ Visible(c, id)' = r
    BY <1>3, WriteEffect
  <2>2. CASE e.id = id
    <3>1. Follows(f, r)
      BY <2>1, <2>2 DEF Sound
    <3> QED BY <1>3, <2>1, <2>2, <3>1
  <2>3. CASE e.id # id
    <3>1. f = held[d]
      BY <1>3, <2>1, <2>3 DEF Sound
    <3>2. f.id \in Ids \ {id} /\ Follows(f, Visible(d, f.id))
      BY <1>2, <2>1, <2>3, <3>1
    <3>3. Visible(d, f.id)' = Visible(d, f.id)
      BY <3>2, WriteEffect
    <3> QED BY <3>2, <3>3
  <2> QED BY <2>2, <2>3
<1>4. CASE d # c /\ held'[d] = held[d] /\ Visible(d, id)' = Visible(d, id)
  <2>1. f.id \in Ids /\ Follows(f, Visible(d, f.id))
    BY <1>2, <1>4
  <2>2. Visible(d, f.id)' = Visible(d, f.id)
    <3>1. CASE f.id = id
      BY <1>4, <3>1
    <3>2. CASE f.id # id
      BY <2>1, <3>2, WriteEffect
    <3> QED BY <3>1, <3>2
  <2> QED BY <2>1, <2>2
<1>5. CASE /\ d # c
           /\ held'[d] = Miss(held[d], id, paths)
           /\ Visible(d, id) = rows[id] /\ Visible(c, id) = rows[id]
           /\ Visible(d, id)' = r
  <2> DEFINE g == held[d]
  <2>1. paths \in SUBSET Paths /\ r \in Row \cup {None} /\ Supersedes(r, rows[id], paths)
    BY <1>5 DEF Sound
  <2>2. g \in Entity \cup {None} /\ f = Miss(g, id, paths)
    BY <1>1, <1>5
  <2>3. g # None /\ f.id = g.id /\ f.ver = g.ver /\ f.from = g.from
    BY <2>1, <2>2, MissType
  <2>4. g.id \in Ids /\ Follows(g, Visible(d, g.id))
    BY <1>2, <2>3
  <2>5. CASE g.id # id
    <3>1. f = g
      BY <2>1, <2>2, <2>3, <2>5, MissType
    <3>2. Visible(d, f.id)' = Visible(d, f.id)
      BY <2>4, <2>5, <3>1, WriteEffect
    <3> QED BY <2>4, <3>1, <3>2
  <2>6. CASE g.id = id
    <3>1. f.missed = g.missed \cup paths
      BY <2>1, <2>2, <2>3, <2>6, MissType
    <3>2. Follows(g, rows[id])
      BY <1>5, <2>4, <2>6
    <3>3. g \in Entity /\ rows[id] \in Row \cup {None}
      BY <1>1, <2>2, <2>3
    <3>4. Follows(f, r)
      BY <2>1, <2>3, <3>1, <3>2, <3>3, MissFollows
    <3> QED BY <1>5, <2>3, <2>6, <3>4
  <2> QED BY <2>5, <2>6
<1> QED BY <1>3, <1>4, <1>5, WriteEffect

\* Stamps that are old, or new with the number of a new write.
LEMMA StampStep ==
    ASSUME StampInv, writes \in Nat, NEW fresh, writes' \in {writes, writes + 1},
           \A i \in Ids : \A s \in Stamps(i)' :
               s \in Stamps(i) \/ (writes' = writes + 1 /\ s = <<fresh, writes + 1>>)
    PROVE  StampInv'
<1> DEFINE Now(i) == Stamps(i)'
<1> SUFFICES ASSUME NEW i \in Ids, NEW s \in Now(i), NEW t \in Now(i)
             PROVE  s[2] \in 0 .. writes' /\ (s[2] = t[2] => s[1] = t[1])
  BY DEF StampInv
<1>1. \A u \in Stamps(i) : u[2] \in 0 .. writes /\ \A v \in Stamps(i) : u[2] = v[2] => u[1] = v[1]
  BY DEF StampInv
<1>2. \A u \in Now(i) : \/ u \in Stamps(i)
                        \/ writes' = writes + 1 /\ u[1] = fresh /\ u[2] = writes + 1
  OBVIOUS
<1> HIDE DEF Now
<1> QED BY <1>1, <1>2

\* No new stamps.
LEMMA StampsKept ==
    ASSUME StampInv, TypeOK, writes' = writes, \A i \in Ids : \A s \in Stamps(i)' : s \in Stamps(i)
    PROVE  StampInv'
<1>1. writes \in Nat
  BY DEF TypeOK, Vals
<1> QED BY <1>1, StampStep

\* Contents are written once.
LEMMA WriteStamps ==
    ASSUME IInv, NEW c, NEW id, NEW r, NEW paths, NEW e,
           Sound(c, id, r, paths, e), Write(c, id, r, paths, e)
    PROVE  StampInv'
<1> c \in Clients /\ id \in Ids
  BY DEF Sound
<1>1. writes \in Nat /\ writes' = writes + 1
  BY WriteEffect DEF IInv, TypeOK, Vals
<1>2. held \in [Clients -> Entity \cup {None}] /\ paths \in SUBSET Paths
  BY DEF IInv, TypeOK, Sound
<1> DEFINE New(s) == s = <<r.ver, writes + 1>>
<1>3. ASSUME NEW i \in Ids, NEW s, s \in RowStamp(rows'[i])
      PROVE  s \in Stamps(i) \/ New(s)
  <2>1. rows'[i] = rows[i] \/ rows'[i] = r
    BY WriteEffect
  <2>2. s \in RowStamp(rows[i]) => s \in Stamps(i)
    BY DEF Stamps
  <2>3. s \in RowStamp(r) => New(s)
    BY DEF RowStamp, Sound
  <2> QED BY <1>3, <2>1, <2>2, <2>3
<1>4. ASSUME NEW i \in Ids, NEW d \in Clients, NEW s, s \in RowStamp(Visible(d, i)')
      PROVE  s \in Stamps(i) \/ New(s)
  <2>1. Visible(d, i)' = Visible(d, i) \/ Visible(d, i)' = r
    BY WriteEffect
  <2>2. s \in RowStamp(Visible(d, i)) => s \in Stamps(i)
    BY DEF Stamps
  <2>3. s \in RowStamp(r) => New(s)
    BY DEF RowStamp, Sound
  <2> QED BY <1>4, <2>1, <2>2, <2>3
<1>5. ASSUME NEW i \in Ids, NEW d \in Clients, NEW s, s \in EntityStamp(held'[d], i)
      PROVE  s \in Stamps(i) \/ New(s)
  <2>1. s \in EntityStamp(held[d], i) => s \in Stamps(i)
    BY DEF Stamps
  <2>2. CASE d = c
    <3>1. held'[d] = e
      BY <2>2, WriteEffect
    <3>2. CASE r # None /\ e.ver = r.ver /\ e.from = r.val
      BY <1>5, <3>1, <3>2 DEF EntityStamp, Sound
    <3>3. CASE held[c] # None /\ e.id = held[c].id /\ e.ver = held[c].ver /\ e.from = held[c].from
      BY <1>5, <2>1, <2>2, <3>1, <3>3 DEF EntityStamp
    <3> QED BY <1>5, <3>1, <3>2, <3>3 DEF EntityStamp, Sound
  <2>3. CASE d # c
    <3>1. held'[d] = held[d] \/ held'[d] = Miss(held[d], id, paths)
      BY <2>3, WriteEffect
    <3>2. EntityStamp(Miss(held[d], id, paths), i) = EntityStamp(held[d], i)
      <4>1. CASE held[d] = None
        BY <4>1 DEF Miss
      <4>2. CASE held[d] # None
        <5> DEFINE g == held[d]
                   f == Miss(g, id, paths)
        <5>1. g \in Entity \cup {None}
          BY <1>2
        <5>2. f # None /\ f.id = g.id /\ f.ver = g.ver /\ f.from = g.from
          BY <1>2, <4>2, <5>1, MissType
        <5> QED BY <4>2, <5>2 DEF EntityStamp
      <4> QED BY <4>1, <4>2
    <3> QED BY <1>5, <2>1, <3>1, <3>2
  <2> QED BY <2>2, <2>3
<1>6. \A i \in Ids : \A s \in Stamps(i)' : s \in Stamps(i) \/ s = <<r.ver, writes + 1>>
  BY <1>3, <1>4, <1>5 DEF Stamps
<1> QED BY <1>1, <1>6, StampStep DEF IInv

LEMMA WriteInvariant ==
    ASSUME IInv, NEW c, NEW id, NEW r, NEW paths, NEW e,
           Sound(c, id, r, paths, e), Write(c, id, r, paths, e)
    PROVE  IInv'
BY WriteType, WriteLocks, WritePending, WriteHeld, WriteStamps DEF IInv

-------------------------------------------------------------------------------
(* The other actions preserve the invariant. *)

LEMMA FindInvariant ==
    ASSUME IInv, NEW c \in Clients, NEW id \in Ids, NEW all, Find(c, id, all)
    PROVE  IInv'
<1> DEFINE r == Visible(c, id)
           e == [id |-> id, ver |-> r.ver, live |-> r.live, from |-> r.val, missed |-> {}]
<1>1. /\ held' = [held EXCEPT ![c] = e]
      /\ rows' = rows /\ pending' = pending /\ inTx' = inTx /\ writes' = writes
      /\ r # None
  BY DEF Find
<1>2. r \in Row
  BY <1>1, VisibleType DEF IInv
<1>3. e \in Entity
  BY <1>2 DEF Row, Entity
<1>4. held \in [Clients -> Entity \cup {None}]
  BY DEF IInv, TypeOK
<1>5. \A d \in Clients, i \in Ids : Visible(d, i)' = Visible(d, i)
  BY <1>1 DEF Visible
<1>6. TypeOK'
  <2> HIDE DEF e
  <2> QED BY <1>1, <1>3, <1>4 DEF IInv, TypeOK
<1>7. LockInv' /\ PendingInv'
  BY <1>1 DEF IInv, LockInv, PendingInv
<1>8. HeldInv'
  <2>1. e.id = id /\ Follows(e, r)
    BY <1>2 DEF Follows, Row
  <2> HIDE DEF e
  <2> SUFFICES ASSUME NEW d \in Clients, NEW f, f = held'[d], f # None
               PROVE  Follows(f, Visible(d, f.id)')
    BY DEF HeldInv, Follows, Visible
  <2>2. CASE d = c
    <3>1. f = e
      BY <1>1, <1>4, <2>2
    <3> QED BY <1>5, <2>1, <2>2, <3>1
  <2>3. CASE d # c
    <3>1. f = held[d]
      BY <1>1, <1>4, <2>3
    <3>2. f.id \in Ids
      BY <1>4, <3>1 DEF Entity
    <3>3. Follows(f, Visible(d, f.id))
      BY <3>1 DEF IInv, HeldInv
    <3> QED BY <1>5, <3>2, <3>3
  <2> QED BY <2>2, <2>3
<1>9. StampInv'
  <2> SUFFICES ASSUME NEW i \in Ids, NEW s, s \in Stamps(i)'
               PROVE  s \in Stamps(i)
    BY <1>1, StampsKept DEF IInv
  <2>1. CASE s \in RowStamp(rows'[i])
    BY <1>1, <2>1 DEF Stamps
  <2>2. ASSUME NEW d \in Clients, s \in RowStamp(Visible(d, i)')
        PROVE  s \in Stamps(i)
    BY <1>5, <2>2 DEF Stamps
  <2>3. ASSUME NEW d \in Clients, s \in EntityStamp(held'[d], i)
        PROVE  s \in Stamps(i)
    <3>1. CASE d = c
      <4>1. held'[d] = e
        BY <1>1, <1>4, <3>1
      <4>2. i = id /\ s = <<r.ver, r.val>>
        BY <2>3, <4>1 DEF EntityStamp
      <4>3. s \in RowStamp(r)
        BY <1>1, <4>2 DEF RowStamp
      <4> QED BY <4>2, <4>3 DEF Stamps
    <3>2. CASE d # c
      <4>1. held'[d] = held[d]
        BY <1>1, <1>4, <3>2
      <4> QED BY <2>3, <4>1 DEF Stamps
    <3> QED BY <3>1, <3>2
  <2> QED BY <2>1, <2>2, <2>3 DEF Stamps
<1> QED BY <1>6, <1>7, <1>8, <1>9 DEF IInv

\* An entity whose version and origin are as before has the same stamps.
LEMMA SameStamps ==
    ASSUME NEW e, NEW f, f = None <=> e = None,
           e # None => f.id = e.id /\ f.ver = e.ver /\ f.from = e.from,
           NEW i
    PROVE  EntityStamp(f, i) = EntityStamp(e, i)
BY DEF EntityStamp

LEMMA BeginInvariant ==
    ASSUME IInv, NEW c \in Clients, Begin(c)
    PROVE  IInv'
<1>1. inTx' = inTx \cup {c} /\ UNCHANGED <<rows, pending, held, writes>>
  BY DEF Begin
<1>2. TypeOK' /\ LockInv' /\ PendingInv'
  BY <1>1 DEF IInv, TypeOK, LockInv, PendingInv
<1>3. HeldInv'
  BY <1>1 DEF IInv, HeldInv, Follows, Visible
<1>4. StampInv'
  BY <1>1 DEF IInv, StampInv, Stamps, RowStamp, EntityStamp, Visible
<1> QED BY <1>2, <1>3, <1>4 DEF IInv

LEMMA MissCommitType ==
    ASSUME TypeOK, NEW c \in Clients, NEW e \in Entity \cup {None}
    PROVE  /\ MissCommit(e, c) \in Entity \cup {None}
           /\ MissCommit(e, c) = None <=> e = None
           /\ e # None => /\ MissCommit(e, c).id = e.id
                          /\ MissCommit(e, c).ver = e.ver
                          /\ MissCommit(e, c).from = e.from
           /\ e # None /\ pending[c][e.id] = None => MissCommit(e, c) = e
           /\ e # None /\ pending[c][e.id] # None =>
                MissCommit(e, c).missed = e.missed \cup pending[c][e.id].paths
<1>1. CASE e = None \/ pending[c][e.id] = None
  BY <1>1 DEF MissCommit
<1>2. CASE e # None /\ pending[c][e.id] # None
  <2>1. e \in Entity /\ e.id \in Ids
    BY <1>2 DEF Entity
  <2>2. pending[c][e.id].paths \in SUBSET Paths
    BY <1>2, <2>1 DEF TypeOK, Change
  <2>3. MissCommit(e, c) = [e EXCEPT !.missed = @ \cup pending[c][e.id].paths]
    BY <1>2 DEF MissCommit
  <2>4. MissCommit(e, c) \in Entity
    BY <2>1, <2>2, <2>3 DEF Entity
  <2> QED BY <1>2, <2>1, <2>2, <2>3, <2>4, NoneAssumption DEF Entity
<1> QED BY <1>1, <1>2

LEMMA CommitInvariant ==
    ASSUME IInv, NEW c \in Clients, Commit(c)
    PROVE  IInv'
<1>1. /\ rows \in [Ids -> Row \cup {None}]
      /\ pending \in [Clients -> [Ids -> Change \cup {None}]]
      /\ held \in [Clients -> Entity \cup {None}]
  BY DEF IInv, TypeOK
<1>2. /\ rows' = [i \in Ids |-> Visible(c, i)]
      /\ held' = [d \in Clients |-> IF d = c THEN held[c] ELSE MissCommit(held[d], c)]
      /\ pending' = [pending EXCEPT ![c] = NoChanges]
      /\ writes' = writes /\ inTx' = inTx \ {c}
  BY DEF Commit
<1>3. \A i \in Ids : rows'[i] = Visible(c, i) /\ pending'[c][i] = None
  BY <1>1, <1>2 DEF NoChanges
<1>4. \A d \in Clients \ {c} : pending'[d] = pending[d]
  BY <1>1, <1>2
<1>5. \A d \in Clients, i \in Ids :
        \/ Visible(d, i)' = Visible(c, i) /\ (d # c => pending[d][i] = None)
        \/ d # c /\ pending[d][i] # None /\ Visible(d, i)' = Visible(d, i)
  BY <1>3, <1>4 DEF Visible
<1>6. \A d \in Clients, i \in Ids : d # c /\ pending[d][i] # None => pending[c][i] = None
  BY DEF IInv, LockInv
<1>7. TypeOK'
  <2>1. rows' \in [Ids -> Row \cup {None}]
    BY <1>2, VisibleType DEF IInv
  <2>2. NoChanges \in [Ids -> Change \cup {None}]
    BY DEF NoChanges
  <2>3. pending' \in [Clients -> [Ids -> Change \cup {None}]]
    BY <1>1, <1>2, <2>2
  <2>4. \A d \in Clients : MissCommit(held[d], c) \in Entity \cup {None}
    BY <1>1, MissCommitType DEF IInv
  <2> QED BY <1>1, <1>2, <2>1, <2>3, <2>4 DEF IInv, TypeOK
<1>8. LockInv'
  BY <1>2, <1>3, <1>4 DEF IInv, LockInv
<1>9. PendingInv'
  <2> SUFFICES ASSUME NEW d \in Clients, NEW i \in Ids, pending'[d][i] # None
               PROVE  Supersedes(pending'[d][i].row, rows'[i], pending'[d][i].paths)
    BY DEF PendingInv, Supersedes
  <2>1. d # c /\ pending'[d][i] = pending[d][i] /\ pending[d][i] # None
    BY <1>3, <1>4
  <2>2. rows'[i] = rows[i]
    BY <1>3, <1>6, <2>1 DEF Visible
  <2> QED BY <2>1, <2>2 DEF IInv, PendingInv
<1>10. HeldInv'
  <2> SUFFICES ASSUME NEW d \in Clients, NEW f, f = held'[d], f # None
               PROVE  Follows(f, Visible(d, f.id)')
    BY DEF HeldInv, Follows, Visible
  <2>1. \A g : g = held[d] /\ g # None => g \in Entity /\ g.id \in Ids /\ Follows(g, Visible(d, g.id))
    BY <1>1 DEF IInv, HeldInv, Entity
  <2>2. CASE d = c
    <3>1. f = held[c] /\ f.id \in Ids /\ Follows(f, Visible(c, f.id))
      BY <1>2, <2>1, <2>2
    <3>2. Visible(c, f.id)' = Visible(c, f.id)
      BY <1>5, <3>1
    <3> QED BY <2>2, <3>1, <3>2
  <2>3. CASE d # c
    <3> DEFINE g == held[d]
    <3>1. f = MissCommit(g, c) /\ g \in Entity \cup {None}
      BY <1>1, <1>2, <2>3
    <3>2. g # None /\ f.id = g.id /\ f.ver = g.ver /\ f.from = g.from
      BY <3>1, MissCommitType DEF IInv
    <3>3. g \in Entity /\ g.id \in Ids /\ Follows(g, Visible(d, g.id))
      BY <2>1, <3>2
    <3>4. CASE pending[c][g.id] = None
      <4>1. f = g
        BY <3>1, <3>2, <3>4, MissCommitType DEF IInv
      <4>2. f.id \in Ids /\ pending[c][f.id] = None /\ Follows(f, Visible(d, f.id))
        BY <3>3, <3>4, <4>1
      <4>3. pending[d][f.id] = None => Visible(d, f.id) = Visible(c, f.id)
        BY <4>2 DEF Visible
      <4>4. Visible(d, f.id)' = Visible(d, f.id)
        BY <1>5, <4>2, <4>3
      <4> QED BY <4>2, <4>4
    <3>5. CASE pending[c][g.id] # None
      <4> DEFINE p == pending[c][g.id]
      <4>1. f.missed = g.missed \cup p.paths
        BY <3>1, <3>2, <3>5, MissCommitType DEF IInv
      <4>2. pending[d][g.id] = None
        BY <1>6, <2>3, <3>3, <3>5
      <4>3. Visible(d, g.id) = rows[g.id] /\ Visible(c, g.id) = p.row
        BY <3>5, <4>2 DEF Visible
      <4>8. Visible(d, f.id)' = p.row
        BY <1>5, <3>2, <3>3, <4>2, <4>3
      <4>4. Supersedes(p.row, rows[g.id], p.paths)
        BY <3>3, <3>5 DEF IInv, PendingInv
      <4>5. p.row \in Row \cup {None} /\ rows[g.id] \in Row \cup {None}
        BY <1>1, <3>3, <3>5 DEF Change
      <4>6. Follows(g, rows[g.id])
        BY <3>3, <4>3
      <4> HIDE DEF g, p
      <4>7. Follows(f, p.row)
        BY <3>2, <3>3, <4>1, <4>4, <4>5, <4>6, MissFollows
      <4> QED BY <4>7, <4>8
    <3> QED BY <3>4, <3>5
  <2> QED BY <2>2, <2>3
<1>11. StampInv'
  <2> SUFFICES ASSUME NEW i \in Ids, NEW s, s \in Stamps(i)'
               PROVE  s \in Stamps(i)
    BY <1>2, StampsKept DEF IInv
  <2>1. CASE s \in RowStamp(rows'[i])
    BY <1>3, <2>1 DEF Stamps
  <2>2. ASSUME NEW d \in Clients, s \in RowStamp(Visible(d, i)')
        PROVE  s \in Stamps(i)
    BY <1>5, <2>2 DEF Stamps
  <2>3. ASSUME NEW d \in Clients, s \in EntityStamp(held'[d], i)
        PROVE  s \in Stamps(i)
    <3>1. held'[d] = held[d] \/ held'[d] = MissCommit(held[d], c)
      BY <1>2
    <3>2. EntityStamp(MissCommit(held[d], c), i) = EntityStamp(held[d], i)
      <4> DEFINE g == held[d]
                 f == MissCommit(g, c)
      <4>1. /\ f = None <=> g = None
            /\ g # None => f.id = g.id /\ f.ver = g.ver /\ f.from = g.from
        BY <1>1, MissCommitType DEF IInv
      <4> HIDE DEF f, g
      <4>2. EntityStamp(f, i) = EntityStamp(g, i)
        BY <4>1, SameStamps
      <4> QED BY <4>2 DEF f, g
    <3> QED BY <2>3, <3>1, <3>2 DEF Stamps
  <2> QED BY <2>1, <2>2, <2>3 DEF Stamps
<1> QED BY <1>7, <1>8, <1>9, <1>10, <1>11 DEF IInv

LEMMA RollbackInvariant ==
    ASSUME IInv, NEW c \in Clients, Rollback(c)
    PROVE  IInv'
<1>1. /\ rows \in [Ids -> Row \cup {None}]
      /\ pending \in [Clients -> [Ids -> Change \cup {None}]]
      /\ held \in [Clients -> Entity \cup {None}]
  BY DEF IInv, TypeOK
<1> DEFINE e == held[c]
           f == MissRollback(e, c)
<1>2. /\ held' = [held EXCEPT ![c] = f]
      /\ pending' = [pending EXCEPT ![c] = NoChanges]
      /\ rows' = rows /\ writes' = writes /\ inTx' = inTx \ {c}
  BY DEF Rollback
<1>3. /\ f \in Entity \cup {None}
      /\ f = None <=> e = None
      /\ e # None => f.id = e.id /\ f.ver = e.ver /\ f.from = e.from
      /\ e # None => (f = e /\ pending[c][e.id] = None) \/ f.missed \cap Unversioned # {}
  <2>1. CASE e = None \/ pending[c][e.id] = None
    BY <1>1, <2>1 DEF MissRollback
  <2>2. CASE e # None /\ pending[c][e.id] # None
    <3>1. e \in Entity
      BY <1>1, <2>2
    <3>2. f = [e EXCEPT !.missed = @ \cup {"rollback"}]
      BY <2>2 DEF MissRollback
    <3> HIDE DEF f
    <3>3. f \in Entity
      BY <3>1, <3>2 DEF Entity, Paths, Unversioned
    <3> QED BY <2>2, <3>1, <3>2, <3>3, NoneAssumption DEF Entity, Unversioned
  <2> QED BY <2>1, <2>2
<1> HIDE DEF f
<1>4. held'[c] = f /\ \A d \in Clients \ {c} : held'[d] = held[d]
  BY <1>1, <1>2
<1>5. \A i \in Ids : pending'[c][i] = None
  BY <1>1, <1>2 DEF NoChanges
<1>6. \A d \in Clients \ {c} : pending'[d] = pending[d]
  BY <1>1, <1>2
<1>7. \A d \in Clients, i \in Ids :
        \/ Visible(d, i)' = Visible(d, i)
        \/ d = c /\ pending[c][i] # None /\ Visible(c, i)' = rows[i]
  BY <1>2, <1>5, <1>6 DEF Visible
<1>8. TypeOK'
  <2>1. NoChanges \in [Ids -> Change \cup {None}]
    BY DEF NoChanges
  <2>2. pending' \in [Clients -> [Ids -> Change \cup {None}]]
    BY <1>1, <1>2, <2>1
  <2>3. held' \in [Clients -> Entity \cup {None}]
    BY <1>1, <1>2, <1>3
  <2> QED BY <1>2, <2>2, <2>3 DEF IInv, TypeOK
<1>9. LockInv'
  BY <1>2, <1>5, <1>6 DEF IInv, LockInv
<1>10. PendingInv'
  BY <1>2, <1>5, <1>6 DEF IInv, PendingInv
<1>11. HeldInv'
  <2> SUFFICES ASSUME NEW d \in Clients, NEW g, g = held'[d], g # None
               PROVE  Follows(g, Visible(d, g.id)')
    BY DEF HeldInv, Follows, Visible
  <2>1. ASSUME g = held[d]
        PROVE  g.id \in Ids /\ Follows(g, Visible(d, g.id))
    BY <1>1, <2>1 DEF IInv, HeldInv, Entity
  <2>2. CASE d # c
    <3>1. g = held[d]
      BY <1>4, <2>2
    <3> QED BY <1>7, <2>1, <2>2, <3>1
  <2>3. CASE d = c /\ f = e /\ pending[c][e.id] = None
    <3>1. g = held[d] /\ pending[c][g.id] = None
      BY <1>4, <2>3
    <3> QED BY <1>7, <2>1, <2>3, <3>1
  <2>4. CASE d = c /\ f.missed \cap Unversioned # {}
    <3>1. g = f
      BY <1>4, <2>4
    <3> QED BY <2>4, <3>1 DEF Follows
  <2> QED BY <1>3, <1>4, <2>2, <2>3, <2>4
<1>12. StampInv'
  <2> SUFFICES ASSUME NEW i \in Ids, NEW s, s \in Stamps(i)'
               PROVE  s \in Stamps(i)
    BY <1>2, StampsKept DEF IInv
  <2>1. CASE s \in RowStamp(rows'[i])
    BY <1>2, <2>1 DEF Stamps
  <2>2. ASSUME NEW d \in Clients, s \in RowStamp(Visible(d, i)')
        PROVE  s \in Stamps(i)
    BY <1>7, <2>2 DEF Stamps
  <2>3. ASSUME NEW d \in Clients, s \in EntityStamp(held'[d], i)
        PROVE  s \in Stamps(i)
    <3>1. EntityStamp(f, i) = EntityStamp(e, i)
      <4> HIDE DEF e
      <4> QED BY <1>3, SameStamps
    <3> QED BY <1>4, <2>3, <3>1 DEF Stamps
  <2> QED BY <2>1, <2>2, <2>3 DEF Stamps
<1> QED BY <1>8, <1>9, <1>10, <1>11, <1>12 DEF IInv

-------------------------------------------------------------------------------
(* The theorems. *)

LEMMA InitInvariant == Init => IInv
<1> SUFFICES ASSUME Init
             PROVE  IInv
  OBVIOUS
<1> DEFINE first == [ver |-> 0, val |-> 0, live |-> TRUE]
<1>1. 0 \in Vals /\ first \in Row
  BY ConstantsAssumption DEF Vals, Row
<1>2. /\ rows \in [Ids -> {None, first}]
      /\ pending = [c \in Clients |-> NoChanges]
      /\ inTx = {} /\ writes = 0
      /\ held = [c \in Clients |-> None]
  BY DEF Init
<1>3. NoChanges \in [Ids -> Change \cup {None}]
  BY DEF NoChanges
<1>4. TypeOK
  <2>1. rows \in [Ids -> Row \cup {None}]
    BY <1>1, <1>2
  <2> HIDE DEF first
  <2> QED BY <1>1, <1>2, <1>3, <2>1 DEF TypeOK
<1>5. \A c \in Clients, i \in Ids : pending[c][i] = None
  BY <1>2 DEF NoChanges
<1>6. LockInv /\ PendingInv /\ HeldInv
  BY <1>2, <1>5 DEF LockInv, PendingInv, HeldInv
<1>7. StampInv
  <2>1. \A i \in Ids : RowStamp(rows[i]) \subseteq {<<0, 0>>}
    BY <1>2 DEF RowStamp
  <2>2. \A c \in Clients, i \in Ids : Visible(c, i) = rows[i] /\ EntityStamp(held[c], i) = {}
    BY <1>2, <1>5 DEF Visible, EntityStamp
  <2>3. \A i \in Ids : \A s \in Stamps(i) : s = <<0, 0>>
    BY <2>1, <2>2 DEF Stamps
  <2> QED BY <1>2, <2>3 DEF StampInv
<1> QED BY <1>4, <1>6, <1>7 DEF IInv

LEMMA StepInvariant == IInv /\ [Next]_vars => IInv'
<1> SUFFICES ASSUME IInv, [Next]_vars
             PROVE  IInv'
  OBVIOUS
<1>1. ASSUME NEW c \in Clients, Writing(c)
      PROVE  IInv'
  BY <1>1, WritingIsSound, WriteInvariant
<1>2. ASSUME NEW c \in Clients, NEW id \in Ids, NEW all \in BOOLEAN, Find(c, id, all)
      PROVE  IInv'
  BY <1>2, FindInvariant
<1>3. ASSUME NEW c \in Clients, Begin(c) \/ Commit(c) \/ Rollback(c)
      PROVE  IInv'
  BY <1>3, BeginInvariant, CommitInvariant, RollbackInvariant
<1>4. CASE UNCHANGED vars
  BY <1>4 DEF vars, IInv, TypeOK, LockInv, PendingInv, HeldInv, Follows, StampInv, Stamps,
             RowStamp, EntityStamp, Visible
<1>5. ASSUME NEW c \in Clients, NEW e \in InMemory(c), Save(c, e) \/ SaveAllUpsert(c, e)
      PROVE  Writing(c)
  BY <1>5 DEF Writing
<1> QED BY <1>1, <1>2, <1>3, <1>4, <1>5 DEF Next, Writing

\* The inductive invariant, from which the others follow.
THEOREM Invariant == Spec => []IInv
BY InitInvariant, StepInvariant, PTL DEF Spec

\* The state of rows, transactions and entities is always well typed.
THEOREM TypeCorrect == Spec => []TypeOK
<1>1. IInv => TypeOK
  BY DEF IInv
<1> QED BY <1>1, Invariant, PTL

\* No Update that takes effect wipes out what its entity has not seen, as long
\* as everybody counts versions and the entity's own writes were committed.
THEOREM UpdateSafety == Spec => []NoLostUpdate
<1>1. IInv => NoLostUpdate
  <2> SUFFICES ASSUME IInv, NEW c \in Clients, Overwrites(c), held[c].missed \cap Unversioned = {}
               PROVE  FALSE
    BY DEF NoLostUpdate
  <2>1. held[c] # None /\ Follows(held[c], Visible(c, held[c].id))
    BY DEF IInv, HeldInv, Overwrites
  <2> QED BY <2>1 DEF Overwrites, UpdateMatches, Follows
<1> QED BY <1>1, Invariant, PTL

\* Update reports a conflict only where the row is no longer what the entity
\* comes from.
THEOREM ConflictSoundness == Spec => []ConflictMeansChange
<1>1. IInv => ConflictMeansChange
  <2> SUFFICES ASSUME IInv, NEW c \in Clients, held[c] # None,
                      NEW i, i = held[c].id, NEW r, r = Visible(c, i), r # None, r.val = held[c].from
               PROVE  r.ver = held[c].ver
    BY DEF ConflictMeansChange, UpdateMatches
  <2>1. i \in Ids
    BY DEF IInv, TypeOK, Entity
  <2>2. <<r.ver, r.val>> \in Stamps(i)
    BY DEF Stamps, RowStamp
  <2>3. <<held[c].ver, held[c].from>> \in Stamps(i)
    BY DEF Stamps, EntityStamp
  <2> QED BY <2>1, <2>2, <2>3 DEF IInv, StampInv
<1> QED BY <1>1, Invariant, PTL
===============================================================================
