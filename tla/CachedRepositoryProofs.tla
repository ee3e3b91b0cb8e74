------------------------ MODULE CachedRepositoryProofs ------------------------
(***************************************************************************)
(* Proofs about CachedRepository, for any number of goroutines and         *)
(* queries: types, the barrier a Clear is for older cache entries, and the *)
(* coherence of the cache with the primary.                                *)
(*                                                                         *)
(* IInv is inductive.  Coherent alone is not: that a write through execute *)
(* finds no entry it must still remove follows from what the client has    *)
(* cleared (ClearIsABarrier), which in turn follows from what a query in   *)
(* flight knows of the clears it overlaps (InFlightInv).                   *)
(***************************************************************************)
EXTENDS CachedRepository, TLAPS

-------------------------------------------------------------------------------
(* Facts about the operators of the model.                                 *)

\* Every query has a key.
LEMMA KeyOfType == \A q \in Queries : KeyOf[q] \in Keys
  BY DEF KeyOf, Keys

\* Laying a write set over rows gives rows.
LEMMA OverlayType ==
    ASSUME NEW w \in WriteSet, NEW rows \in Rows
    PROVE  Overlay(w, rows) \in Rows
  BY DEF Overlay, WriteSet, Rows, Unwritten

\* A write of one statement is a write set.
LEMMA FreshWriteType ==
    ASSUME TypeOK, writes < program.writes, NEW qs
    PROVE  FreshWrite(qs) \in WriteSet /\ writes + 1 \in Vals
  <1>1. program.writes \in 0 .. MaxWrites /\ writes \in 0 .. MaxWrites
    BY ConstantsAssumption DEF TypeOK, Program, Vals
  <1>2. writes + 1 \in Vals
    BY <1>1, ConstantsAssumption DEF Vals
  <1> QED BY <1>2 DEF FreshWrite, WriteSet

\* A program issues queries there are.
LEMMA ProgramQueries == TypeOK => program.queries \subseteq Queries
  BY ConstantsAssumption DEF TypeOK, Program

LEMMA NoWritesType == NoWrites \in WriteSet
  BY DEF NoWrites, WriteSet

\* Recording a missed write leaves a result what it was otherwise.
LEMMA MissBypassFacts ==
    ASSUME NEW e \in Result \cup {None}, NEW w
    PROVE  /\ MissBypass(e, w) \in Result \cup {None}
           /\ MissBypass(e, w) = None <=> e = None
           /\ e # None =>
                /\ MissBypass(e, w).q = e.q
                /\ MissBypass(e, w).val = e.val
                /\ MissBypass(e, w).src = e.src
                /\ MissBypass(e, w).overlap = e.overlap
                /\ MissBypass(e, w).skipped = e.skipped
                /\ ~MissBypass(e, w).missed => ~e.missed /\ w[e.q] = Unwritten
  BY ConstantsAssumption DEF MissBypass, Result

LEMMA MissExecuteFacts ==
    ASSUME NEW e \in Result \cup {None}, NEW w, NEW c \in Clients
    PROVE  /\ MissExecute(e, w, c) \in Result \cup {None}
           /\ MissExecute(e, w, c) = None <=> e = None
           /\ e # None =>
                /\ MissExecute(e, w, c).q = e.q
                /\ MissExecute(e, w, c).val = e.val
                /\ MissExecute(e, w, c).src = e.src
                /\ MissExecute(e, w, c).overlap = e.overlap
                /\ MissExecute(e, w, c).missed = e.missed
                /\ MissExecute(e, w, c).skipped \subseteq e.skipped \cup {c}
  BY ConstantsAssumption DEF MissExecute, Result

LEMMA OverlappedFacts ==
    ASSUME NEW e \in Result \cup {None}, NEW c \in Clients
    PROVE  /\ Overlapped(e, c) \in Result \cup {None}
           /\ Overlapped(e, c) = None <=> e = None
           /\ e # None =>
                /\ Overlapped(e, c).q = e.q
                /\ Overlapped(e, c).val = e.val
                /\ Overlapped(e, c).src = e.src
                /\ Overlapped(e, c).missed = e.missed
                /\ Overlapped(e, c).skipped = e.skipped
                /\ Overlapped(e, c).overlap = e.overlap \cup {c}
  BY ConstantsAssumption DEF Overlapped, Result

\* What a read returns is the contents of some write.
LEMMA FetchedType ==
    ASSUME TypeOK, NEW c \in Clients, NEW q \in Queries, NEW locked \in BOOLEAN
    PROVE  Fetched(c, q, locked) \in Vals /\ Reader(c, locked) \in Sources
  <1>1. Overlay(txw[c], primary) \in Rows
    BY OverlayType DEF TypeOK
  <1>2. Reader(c, locked) \in Sources
    BY DEF Reader, Sources
  <1> QED BY <1>1, <1>2 DEF Fetched, Visible, TypeOK, Rows

\* Publishing a write keeps the types of what it touches.
LEMMA PublishType ==
    ASSUME TypeOK, NEW w \in WriteSet, Publish(w)
    PROVE  /\ primary' \in Rows /\ replica' \in Rows /\ lag' \in Seq(WriteSet)
           /\ program' = program
  BY OverlayType DEF Publish, TypeOK

-------------------------------------------------------------------------------
(* Types, together with what a client's position says (CallInv).           *)

LEMMA InitTyped == Init => TypeOK /\ CallInv
  <1> SUFFICES ASSUME Init PROVE TypeOK /\ CallInv
    OBVIOUS
  <1>1. 0 \in Vals
    BY ConstantsAssumption DEF Vals
  <1>2. TypeOK
    BY <1>1, NoWritesType DEF Init, TypeOK, Rows, Reply
  <1>3. CallInv
    BY DEF Init, CallInv
  <1> QED BY <1>2, <1>3

LEMMA TypeStep == TypeOK /\ CallInv /\ [Next]_vars => TypeOK' /\ CallInv'
  <1> SUFFICES ASSUME TypeOK, CallInv, [Next]_vars
               PROVE  TypeOK' /\ CallInv'
    OBVIOUS
  <1> USE DEF db, store, calls, Idle, Forget
  <1>1. ASSUME NEW c \in Clients, NEW q \in Queries, Hit(c, q)
        PROVE  TypeOK' /\ CallInv'
    <2>1. cache[KeyOf[q]] \in Result
      BY <1>1, KeyOfType DEF Hit, TypeOK
    <2> QED BY <1>1, <2>1 DEF Hit, TypeOK, CallInv, Reply, Result
  <1>2. ASSUME NEW c \in Clients, NEW q \in Queries, Miss(c, q) \/ Lapsed(c, q)
        PROVE  TypeOK' /\ CallInv'
    BY <1>2, ConstantsAssumption DEF Miss, Lapsed, TypeOK, CallInv, Reply
  <1>3. ASSUME NEW c \in Clients, NEW q \in Queries, LockedQuery(c, q) \/ Scalar(c, q)
        PROVE  TypeOK' /\ CallInv'
    <2>1. PICK locked \in BOOLEAN : Uncached(c, q, locked)
      BY <1>3 DEF LockedQuery, Scalar
    <2>2. Fetched(c, q, locked) \in Vals /\ Reader(c, locked) \in Sources
      BY FetchedType
    <2> QED BY <2>1, <2>2 DEF Uncached, TypeOK, CallInv, Reply
  <1>4. ASSUME NEW c \in Clients, NEW at \in {"clear", "invalidate"}, StartClear(c, at)
        PROVE  TypeOK' /\ CallInv'
    <2>1. out' \in [Clients -> Result \cup {None}]
      BY <1>4, OverlappedFacts DEF StartClear, TypeOK
    <2>2. \A d \in Clients : out'[d] = None <=> out[d] = None
      BY <1>4, OverlappedFacts DEF StartClear, TypeOK
    <2>3. TypeOK'
      BY <1>4, <2>1 DEF StartClear, TypeOK, Reply
    <2>4. CallInv'
      BY <1>4, <2>2 DEF StartClear, TypeOK, CallInv
    <2> QED BY <2>3, <2>4
  <1>5. ASSUME NEW c \in Clients, Begin(c)
        PROVE  TypeOK' /\ CallInv'
    BY <1>5 DEF Begin, TypeOK, CallInv, Reply
  <1>6. ASSUME NEW c \in Clients, Evict(c)
        PROVE  TypeOK' /\ CallInv'
    <2>1. req[c] \in Queries
      BY <1>6 DEF Evict, TypeOK, CallInv
    <2> QED BY <1>6, <2>1, KeyOfType DEF Evict, TypeOK, CallInv
  <1>7. ASSUME NEW c \in Clients, Fetch(c)
        PROVE  TypeOK' /\ CallInv'
    <2>1. req[c] \in Queries
      BY <1>7 DEF Fetch, TypeOK, CallInv
    <2>2. Fetched(c, req[c], FALSE) \in Vals /\ Reader(c, FALSE) \in Sources
      BY <2>1, FetchedType
    <2>3. out'[c] \in Result /\ out' \in [Clients -> Result \cup {None}]
      BY <1>7, <2>1, <2>2 DEF Fetch, TypeOK, Result, Clearing
    <2>4. TypeOK'
      BY <1>7, <2>3 DEF Fetch, TypeOK
    <2>5. CallInv'
      BY <1>7, <2>3, ConstantsAssumption DEF Fetch, TypeOK, CallInv
    <2> QED BY <2>4, <2>5
  <1>8. ASSUME NEW c \in Clients, FetchFails(c)
        PROVE  TypeOK' /\ CallInv'
    BY <1>8 DEF FetchFails, TypeOK, CallInv
  <1>9. ASSUME NEW c \in Clients, Fill(c)
        PROVE  TypeOK' /\ CallInv'
    <2>1. out[c] \in Result
      BY <1>9 DEF Fill, TypeOK, CallInv
    <2>2. out[c].q \in Queries /\ out[c].val \in Vals /\ out[c].src \in Sources
      BY <2>1 DEF Result
    <2>3. KeyOf[out[c].q] \in Keys
      BY <2>2, KeyOfType
    <2>4. TypeOK'
      BY <1>9, <2>1, <2>2, <2>3 DEF Fill, TypeOK, Reply
    <2>5. CallInv'
      BY <1>9 DEF Fill, TypeOK, CallInv
    <2> QED BY <2>4, <2>5
  <1>10. ASSUME NEW c \in Clients, NEW k \in Keys, Visit(c, k)
         PROVE  TypeOK' /\ CallInv'
    BY <1>10 DEF Visit, AfterVisit, TypeOK, CallInv
  <1>11. ASSUME NEW c \in Clients, NEW qs \in WriteScopes, ExecuteStatement(c, qs)
         PROVE  TypeOK' /\ CallInv'
    <2>1. FreshWrite(qs) \in WriteSet /\ writes + 1 \in Vals
      BY <1>11, FreshWriteType DEF ExecuteStatement, CanWrite, TypeOK
    <2>2. CASE WriteInTx(c, qs)
      <3>1. [q \in Queries |-> IF q \in qs THEN writes + 1 ELSE txw[c][q]] \in WriteSet
        BY <2>1 DEF TypeOK, WriteSet
      <3> QED BY <1>11, <2>1, <2>2, <3>1 DEF ExecuteStatement, WriteInTx, TypeOK, CallInv
    <2>3. CASE PublishExecute(FreshWrite(qs), c) /\ UNCHANGED txw
      <3>1. /\ primary' \in Rows /\ replica' \in Rows /\ lag' \in Seq(WriteSet)
            /\ program' = program
        BY <2>1, <2>3, PublishType DEF PublishExecute
      <3>2. cache' \in [Keys -> Result \cup {None}]
        BY <2>3, MissExecuteFacts DEF PublishExecute, TypeOK
      <3>3. /\ out' \in [Clients -> Result \cup {None}]
            /\ \A d \in Clients : out'[d] = None <=> out[d] = None
        BY <2>3, MissExecuteFacts DEF PublishExecute, TypeOK
      <3>4. TypeOK'
        BY <1>11, <2>1, <2>3, <3>1, <3>2, <3>3 DEF ExecuteStatement, TypeOK
      <3>5. CallInv'
        BY <1>11, <2>3, <3>3 DEF ExecuteStatement, TypeOK, CallInv
      <3> QED BY <3>4, <3>5
    <2> QED BY <1>11, <2>2, <2>3 DEF ExecuteStatement
  <1>12. ASSUME NEW c \in Clients, ExecuteFails(c)
         PROVE  TypeOK' /\ CallInv'
    BY <1>12 DEF ExecuteFails, TypeOK, CallInv
  <1>13. ASSUME NEW w \in WriteSet, PublishBypass(w)
         PROVE  /\ primary' \in Rows /\ replica' \in Rows /\ lag' \in Seq(WriteSet)
                /\ program' = program
                /\ cache' \in [Keys -> Result \cup {None}]
                /\ out' \in [Clients -> Result \cup {None}]
                /\ \A d \in Clients : out'[d] = None <=> out[d] = None
    <2>1. /\ primary' \in Rows /\ replica' \in Rows /\ lag' \in Seq(WriteSet)
          /\ program' = program
      BY <1>13, PublishType DEF PublishBypass
    <2>2. cache' \in [Keys -> Result \cup {None}]
      BY <1>13, MissBypassFacts DEF PublishBypass, TypeOK
    <2>3. out' = [d \in Clients |-> MissBypass(out[d], w)]
      BY <1>13 DEF PublishBypass
    <2>4. ASSUME NEW d \in Clients
          PROVE  /\ MissBypass(out[d], w) \in Result \cup {None}
                 /\ MissBypass(out[d], w) = None <=> out[d] = None
      <3>1. out[d] \in Result \cup {None}
        BY DEF TypeOK
      <3> QED BY <3>1, MissBypassFacts
    <2> QED BY <2>1, <2>2, <2>3, <2>4
  <1>14. ASSUME NEW c \in Clients, NEW qs \in WriteScopes, Save(c, qs)
         PROVE  TypeOK' /\ CallInv'
    <2>1. FreshWrite(qs) \in WriteSet /\ writes + 1 \in Vals
      BY <1>14, FreshWriteType DEF Save, CanWrite, TypeOK
    <2>2. CASE WriteInTx(c, qs)
      <3>1. [q \in Queries |-> IF q \in qs THEN writes + 1 ELSE txw[c][q]] \in WriteSet
        BY <2>1 DEF TypeOK, WriteSet
      <3> QED BY <1>14, <2>1, <2>2, <3>1 DEF Save, WriteInTx, TypeOK, CallInv, Reply
    <2>3. CASE PublishBypass(FreshWrite(qs)) /\ UNCHANGED txw
      <3>1. TypeOK'
        BY <1>13, <1>14, <2>1, <2>3 DEF Save, TypeOK, Reply
      <3>2. CallInv'
        BY <1>13, <1>14, <2>1, <2>3 DEF Save, TypeOK, CallInv
      <3> QED BY <3>1, <3>2
    <2> QED BY <1>14, <2>2, <2>3 DEF Save
  <1>15. ASSUME NEW c \in Clients, Commit(c)
         PROVE  TypeOK' /\ CallInv'
    <2>1. txw[c] \in WriteSet
      BY DEF TypeOK
    <2>2. TypeOK'
      BY <1>13, <1>15, <2>1, NoWritesType DEF Commit, TypeOK, Reply
    <2>3. CallInv'
      BY <1>13, <1>15, <2>1 DEF Commit, TypeOK, CallInv
    <2> QED BY <2>2, <2>3
  <1>16. ASSUME NEW c \in Clients, Rollback(c)
         PROVE  TypeOK' /\ CallInv'
    BY <1>16, NoWritesType DEF Rollback, TypeOK, CallInv, Reply
  <1>17. CASE Replicate
    <2>1. Head(lag) \in WriteSet /\ Tail(lag) \in Seq(WriteSet)
      BY <1>17 DEF Replicate, TypeOK
    <2>2. replica' \in Rows
      BY <1>17, <2>1, OverlayType DEF Replicate, TypeOK
    <2> QED BY <1>17, <2>1, <2>2 DEF Replicate, TypeOK, CallInv
  <1>18. ASSUME NEW qs \in WriteScopes, ExternalWrite(qs)
         PROVE  TypeOK' /\ CallInv'
    <2>1. FreshWrite(qs) \in WriteSet /\ writes + 1 \in Vals
      BY <1>18, FreshWriteType DEF ExternalWrite, TypeOK
    <2>2. TypeOK'
      BY <1>13, <1>18, <2>1 DEF ExternalWrite, TypeOK
    <2>3. CallInv'
      BY <1>13, <1>18, <2>1 DEF ExternalWrite, TypeOK, CallInv
    <2> QED BY <2>2, <2>3
  <1>19. ASSUME NEW k \in Keys, Expire(k)
         PROVE  TypeOK' /\ CallInv'
    BY <1>19 DEF Expire, TypeOK, CallInv
  <1>20. CASE UNCHANGED vars
    BY <1>20 DEF vars, TypeOK, CallInv
  <1>21. ASSUME NEW c \in Clients, Call(c)
         PROVE  TypeOK' /\ CallInv'
    BY <1>1, <1>2, <1>3, <1>4, <1>5, <1>14, <1>21, ProgramQueries DEF Call, InvalidateCache, Execute
  <1>22. ASSUME NEW c \in Clients, Step(c)
         PROVE  TypeOK' /\ CallInv'
    BY <1>6, <1>7, <1>8, <1>9, <1>10, <1>11, <1>12, <1>22 DEF Step
  <1>23. ASSUME NEW c \in Clients, End(c)
         PROVE  TypeOK' /\ CallInv'
    BY <1>15, <1>16, <1>23 DEF End
  <1>24. CASE Environment
    BY <1>17, <1>18, <1>19, <1>24 DEF Environment
  <1> QED BY <1>20, <1>21, <1>22, <1>23, <1>24 DEF Next

\* Every reachable state is well typed.
THEOREM TypeCorrect == Spec => []TypeOK
  <1>1. Spec => [](TypeOK /\ CallInv)
    BY InitTyped, TypeStep, PTL DEF Spec
  <1> QED BY <1>1, PTL

-------------------------------------------------------------------------------
(* The inductive invariant.                                                *)

LEMMA InitIInv == Init => IInv
  <1> SUFFICES ASSUME Init PROVE IInv
    OBVIOUS
  <1>1. TypeOK /\ CallInv
    BY InitTyped
  <1>2. /\ \A k \in Keys : cache[k] = None
        /\ \A d \in Clients : out[d] = None
        /\ Clearing = {}
    BY DEF Init, Clearing
  <1>3. InFlightInv /\ ClearIsABarrier
    BY <1>2 DEF InFlightInv, ClearIsABarrier
  <1>4. ResultInv
    BY <1>2 DEF ResultInv, CoherentWith, OverlapsSkipped
  <1> QED BY <1>1, <1>3, <1>4 DEF IInv

\* Rows that a write does not change stay the same on the primary.
LEMMA OverlayKeeps ==
    ASSUME NEW w, NEW rows, NEW q \in Queries, w[q] = Unwritten
    PROVE  Overlay(w, rows)[q] = rows[q]
  BY DEF Overlay

\* A bypassing write marks every result whose rows it changes.
LEMMA BypassKeepsResult ==
    ASSUME NEW w \in WriteSet, NEW rows,
           NEW e \in Result \cup {None},
           CoherentWith(e, rows), OverlapsSkipped(e)
    PROVE  /\ CoherentWith(MissBypass(e, w), Overlay(w, rows))
           /\ OverlapsSkipped(MissBypass(e, w))
  <1> DEFINE f == MissBypass(e, w)
  <1>1. CASE e = None
    BY <1>1, MissBypassFacts DEF CoherentWith, OverlapsSkipped
  <1>2. CASE e # None
    <2>1. e.q \in Queries
      BY <1>2 DEF Result
    <2>2. /\ f.q = e.q /\ f.val = e.val /\ f.src = e.src
          /\ f.overlap = e.overlap /\ f.skipped = e.skipped
          /\ ~f.missed => ~e.missed /\ w[e.q] = Unwritten
      BY <1>2, MissBypassFacts
    <2>3. w[e.q] = Unwritten => Overlay(w, rows)[e.q] = rows[e.q]
      BY <2>1, OverlayKeeps
    <2> QED BY <1>2, <2>2, <2>3 DEF CoherentWith, OverlapsSkipped
  <1> QED BY <1>1, <1>2

\* So does a write through execute, of a result that knows it overlapped it.
LEMMA ExecuteKeepsResult ==
    ASSUME NEW w \in WriteSet, NEW c \in Clients, NEW rows,
           NEW e \in Result \cup {None},
           CoherentWith(e, rows), OverlapsSkipped(e), e # None => c \in e.overlap
    PROVE  /\ CoherentWith(MissExecute(e, w, c), Overlay(w, rows))
           /\ OverlapsSkipped(MissExecute(e, w, c))
  <1> DEFINE f == MissExecute(e, w, c)
  <1>1. CASE e = None
    BY <1>1, MissExecuteFacts DEF CoherentWith, OverlapsSkipped
  <1>2. CASE e # None
    <2>1. /\ f.overlap = e.overlap /\ f.skipped \subseteq e.skipped \cup {c}
          /\ f # None
      BY <1>2, MissExecuteFacts
    <2> QED BY <1>2, <2>1 DEF CoherentWith, OverlapsSkipped
  <1> QED BY <1>1, <1>2

\* The three parts of IInv beyond types.
SafeInv == InFlightInv /\ ClearIsABarrier /\ ResultInv

\* A step that touches neither results nor committed rows, and starts no Clear.
LEMMA FrameStep ==
    ASSUME SafeInv, UNCHANGED <<primary, cache, out, todo>>, Clearing' \subseteq Clearing
    PROVE  SafeInv'
  BY DEF SafeInv, InFlightInv, ClearIsABarrier, ResultInv, Cached

\* A write around execute is published.
LEMMA BypassStep ==
    ASSUME TypeOK, SafeInv, NEW w \in WriteSet,
           PublishBypass(w), UNCHANGED todo, Clearing' \subseteq Clearing
    PROVE  SafeInv'
  <1>1. /\ primary' = Overlay(w, primary)
        /\ cache' = [k \in Keys |-> MissBypass(cache[k], w)]
        /\ out' = [c \in Clients |-> MissBypass(out[c], w)]
    BY DEF PublishBypass, Publish
  <1>2. /\ \A k \in Keys : cache[k] \in Result \cup {None}
        /\ \A d \in Clients : out[d] \in Result \cup {None}
    BY DEF TypeOK
  <1>3. InFlightInv'
    <2> SUFFICES ASSUME NEW c \in Clearing, NEW d \in Clients, out'[d] # None
                 PROVE  c \in out'[d].overlap
      BY DEF InFlightInv
    <2>1. out[d] # None /\ out'[d].overlap = out[d].overlap
      BY <1>1, <1>2, MissBypassFacts
    <2> QED BY <2>1 DEF SafeInv, InFlightInv
  <1>4. ClearIsABarrier'
    <2> SUFFICES ASSUME NEW c \in Clearing, NEW k \in Keys, k \notin todo[c], cache'[k] # None
                 PROVE  c \in cache'[k].overlap
      BY DEF ClearIsABarrier, Cached
    <2>1. cache[k] # None /\ cache'[k].overlap = cache[k].overlap
      BY <1>1, <1>2, MissBypassFacts
    <2> QED BY <2>1 DEF SafeInv, ClearIsABarrier, Cached
  <1>5. ASSUME NEW k \in Keys
        PROVE  CoherentWith(cache'[k], primary') /\ OverlapsSkipped(cache'[k])
    <2>1. CoherentWith(cache[k], primary) /\ OverlapsSkipped(cache[k])
      BY DEF SafeInv, ResultInv
    <2> QED BY <1>1, <1>2, <2>1, BypassKeepsResult
  <1>6. ASSUME NEW d \in Clients
        PROVE  CoherentWith(out'[d], primary') /\ OverlapsSkipped(out'[d])
    <2>1. CoherentWith(out[d], primary) /\ OverlapsSkipped(out[d])
      BY DEF SafeInv, ResultInv
    <2> QED BY <1>1, <1>2, <2>1, BypassKeepsResult
  <1>7. ResultInv'
    BY <1>5, <1>6 DEF ResultInv
  <1> QED BY <1>3, <1>4, <1>7 DEF SafeInv

\* A write of client x through execute is published: it has cleared.
LEMMA ExecuteStep ==
    ASSUME TypeOK, CallInv, SafeInv, NEW w \in WriteSet, NEW x \in Clients,
           pc[x] = "write", PublishExecute(w, x), UNCHANGED todo,
           Clearing' \subseteq Clearing
    PROVE  SafeInv'
  <1>1. /\ primary' = Overlay(w, primary)
        /\ cache' = [k \in Keys |-> MissExecute(cache[k], w, x)]
        /\ out' = [c \in Clients |-> MissExecute(out[c], w, x)]
    BY DEF PublishExecute, Publish
  <1>2. /\ \A k \in Keys : cache[k] \in Result \cup {None}
        /\ \A d \in Clients : out[d] \in Result \cup {None}
    BY DEF TypeOK
  <1>3. x \in Clearing /\ todo[x] = {}
    BY DEF Clearing, CallInv
  <1>4. InFlightInv'
    <2> SUFFICES ASSUME NEW c \in Clearing, NEW d \in Clients, out'[d] # None
                 PROVE  c \in out'[d].overlap
      BY DEF InFlightInv
    <2>1. out[d] # None /\ out'[d].overlap = out[d].overlap
      BY <1>1, <1>2, MissExecuteFacts
    <2> QED BY <2>1 DEF SafeInv, InFlightInv
  <1>5. ClearIsABarrier'
    <2> SUFFICES ASSUME NEW c \in Clearing, NEW k \in Keys, k \notin todo[c], cache'[k] # None
                 PROVE  c \in cache'[k].overlap
      BY DEF ClearIsABarrier, Cached
    <2>1. cache[k] # None /\ cache'[k].overlap = cache[k].overlap
      BY <1>1, <1>2, MissExecuteFacts
    <2> QED BY <2>1 DEF SafeInv, ClearIsABarrier, Cached
  <1>6. ASSUME NEW k \in Keys
        PROVE  CoherentWith(cache'[k], primary') /\ OverlapsSkipped(cache'[k])
    <2>1. CoherentWith(cache[k], primary) /\ OverlapsSkipped(cache[k])
      BY DEF SafeInv, ResultInv
    <2>2. cache[k] # None => x \in cache[k].overlap
      BY <1>3 DEF SafeInv, ClearIsABarrier, Cached
    <2> QED BY <1>1, <1>2, <2>1, <2>2, ExecuteKeepsResult
  <1>7. ASSUME NEW d \in Clients
        PROVE  CoherentWith(out'[d], primary') /\ OverlapsSkipped(out'[d])
    <2>1. CoherentWith(out[d], primary) /\ OverlapsSkipped(out[d])
      BY DEF SafeInv, ResultInv
    <2>2. out[d] # None => x \in out[d].overlap
      BY <1>3 DEF SafeInv, InFlightInv
    <2> QED BY <1>1, <1>2, <2>1, <2>2, ExecuteKeepsResult
  <1>8. ResultInv'
    BY <1>6, <1>7 DEF ResultInv
  <1> QED BY <1>4, <1>5, <1>8 DEF SafeInv

LEMMA SafeStep == IInv /\ [Next]_vars => SafeInv'
  <1> SUFFICES ASSUME IInv, [Next]_vars PROVE SafeInv'
    OBVIOUS
  <1> USE DEF db, store, calls, Idle
  <1>0. TypeOK /\ CallInv /\ SafeInv
    BY DEF IInv, SafeInv
  <1>1. ASSUME NEW c \in Clients, NEW q \in Queries,
               Hit(c, q) \/ Miss(c, q) \/ Lapsed(c, q) \/ LockedQuery(c, q) \/ Scalar(c, q)
        PROVE  SafeInv'
    <2>1. UNCHANGED <<primary, cache, out, todo>> /\ Clearing' \subseteq Clearing
      BY <1>1, <1>0 DEF Hit, Miss, Lapsed, LockedQuery, Scalar, Uncached, Clearing, TypeOK
    <2> QED BY <1>0, <2>1, FrameStep
  <1>2. ASSUME NEW c \in Clients,
               Begin(c) \/ Rollback(c) \/ FetchFails(c) \/ ExecuteFails(c)
        PROVE  SafeInv'
    <2>1. UNCHANGED <<primary, cache, out, todo>> /\ Clearing' \subseteq Clearing
      BY <1>2, <1>0 DEF Begin, Rollback, FetchFails, ExecuteFails, Clearing, TypeOK
    <2> QED BY <1>0, <2>1, FrameStep
  <1>3. ASSUME Replicate \/ (\E k \in Keys : Expire(k)) \/ UNCHANGED vars
        PROVE  SafeInv'
    <2>1. UNCHANGED <<primary, cache, out, todo>> /\ Clearing' \subseteq Clearing
      BY <1>3 DEF Replicate, Expire, vars, Clearing
    <2> QED BY <1>0, <2>1, FrameStep
  <1>4. ASSUME NEW c \in Clients, NEW at \in {"clear", "invalidate"}, StartClear(c, at)
        PROVE  SafeInv'
    <2>1. /\ UNCHANGED <<primary, cache>>
          /\ todo' = [todo EXCEPT ![c] = Keys]
          /\ out' = [d \in Clients |-> Overlapped(out[d], c)]
          /\ Clearing' = Clearing \cup {c}
      BY <1>4, <1>0 DEF StartClear, Clearing, TypeOK
    <2>2. ASSUME NEW d \in Clients
          PROVE  /\ out'[d] = None <=> out[d] = None
                 /\ out[d] # None => /\ out'[d].q = out[d].q
                                     /\ out'[d].val = out[d].val
                                     /\ out'[d].src = out[d].src
                                     /\ out'[d].missed = out[d].missed
                                     /\ out'[d].skipped = out[d].skipped
                                     /\ out'[d].overlap = out[d].overlap \cup {c}
      <3>1. out[d] \in Result \cup {None}
        BY <1>0 DEF TypeOK
      <3> QED BY <2>1, <3>1, OverlappedFacts
    <2>3. InFlightInv'
      BY <1>0, <2>1, <2>2 DEF SafeInv, InFlightInv
    <2>4. ClearIsABarrier'
      BY <1>0, <2>1 DEF SafeInv, ClearIsABarrier, Cached, TypeOK
    <2>5. ResultInv'
      BY <1>0, <2>1, <2>2 DEF SafeInv, ResultInv, CoherentWith, OverlapsSkipped
    <2> QED BY <2>3, <2>4, <2>5 DEF SafeInv
  <1>5. ASSUME NEW c \in Clients, NEW k \in Keys, Evict(c) \/ Visit(c, k)
        PROVE  SafeInv'
    <2>1. PICK j \in Keys : /\ cache' = [cache EXCEPT ![j] = None]
                            /\ todo' = todo \/ (j = k /\ todo' = [todo EXCEPT ![c] = @ \ {k}])
      <3>1. CASE Evict(c)
        <4>1. req[c] \in Queries
          BY <1>0, <3>1 DEF Evict, TypeOK, CallInv
        <4> QED BY <3>1, <4>1, KeyOfType DEF Evict
      <3>2. CASE Visit(c, k)
        BY <3>2 DEF Visit
      <3> QED BY <1>5, <3>1, <3>2
    <2>2. UNCHANGED <<primary, out>> /\ Clearing' \subseteq Clearing
      BY <1>0, <1>5 DEF Evict, Visit, AfterVisit, Clearing, TypeOK
    <2>3. ASSUME NEW i \in Keys
          PROVE  cache'[i] = None \/ (i # j /\ cache'[i] = cache[i])
      BY <1>0, <2>1 DEF TypeOK
    <2>4. InFlightInv'
      BY <1>0, <2>2 DEF SafeInv, InFlightInv
    <2>5. ASSUME NEW x \in Clients, NEW i \in Keys, i \notin todo'[x], i # j
          PROVE  i \notin todo[x]
      BY <1>0, <2>1, <2>5 DEF TypeOK
    <2>6. ClearIsABarrier'
      <3> SUFFICES ASSUME NEW x \in Clearing, NEW i \in Keys, i \notin todo'[x], cache'[i] # None
                   PROVE  x \in cache'[i].overlap
        BY <2>2 DEF ClearIsABarrier, Cached
      <3>1. i # j /\ cache'[i] = cache[i]
        BY <2>3
      <3>2. i \notin todo[x]
        BY <2>5, <3>1 DEF Clearing
      <3> QED BY <1>0, <3>1, <3>2 DEF SafeInv, ClearIsABarrier, Cached
    <2>7. ResultInv'
      BY <1>0, <2>2, <2>3 DEF SafeInv, ResultInv, CoherentWith, OverlapsSkipped
    <2> QED BY <2>4, <2>6, <2>7 DEF SafeInv
  <1>6. ASSUME NEW c \in Clients, Fetch(c)
        PROVE  SafeInv'
    <2>1. req[c] \in Queries
      BY <1>0, <1>6 DEF Fetch, TypeOK, CallInv
    <2>2. /\ UNCHANGED <<primary, cache, todo>>
          /\ Clearing' = Clearing
          /\ \A d \in Clients \ {c} : out'[d] = out[d]
      BY <1>0, <1>6 DEF Fetch, Clearing, TypeOK
    <2>3. /\ out'[c].q = req[c]
          /\ out'[c].val = Fetched(c, req[c], FALSE)
          /\ out'[c].src = Reader(c, FALSE)
          /\ out'[c].overlap = Clearing
          /\ out'[c].skipped = {}
      BY <1>0, <1>6 DEF Fetch, TypeOK
    <2>4. Reader(c, FALSE) = "primary" => Fetched(c, req[c], FALSE) = primary[req[c]]
      <3> SUFFICES ASSUME Reader(c, FALSE) = "primary"
                   PROVE  Fetched(c, req[c], FALSE) = primary[req[c]]
        OBVIOUS
      <3>1. txw[c][req[c]] = Unwritten
        <4>1. c \notin inTx
          BY DEF Reader
        <4>2. txw[c] = NoWrites
          BY <1>0, <4>1 DEF CallInv
        <4> QED BY <2>1, <4>2 DEF NoWrites
      <3>2. Fetched(c, req[c], FALSE) = Overlay(txw[c], primary)[req[c]]
        BY DEF Fetched, Visible
      <3> HIDE DEF db, store, calls
      <3> QED BY <2>1, <3>1, <3>2, OverlayKeeps
    <2>5. InFlightInv'
      BY <1>0, <2>2, <2>3 DEF SafeInv, InFlightInv
    <2>6. ClearIsABarrier'
      BY <1>0, <2>2 DEF SafeInv, ClearIsABarrier, Cached
    <2>7. ASSUME NEW d \in Clients
          PROVE  CoherentWith(out'[d], primary) /\ OverlapsSkipped(out'[d])
      <3>1. CASE d = c
        BY <2>3, <2>4, <3>1 DEF CoherentWith, OverlapsSkipped
      <3>2. CASE d # c
        BY <1>0, <2>2, <3>2 DEF SafeInv, ResultInv
      <3> QED BY <3>1, <3>2
    <2>8. ResultInv'
      BY <1>0, <2>2, <2>7 DEF SafeInv, ResultInv
    <2> QED BY <2>5, <2>6, <2>8 DEF SafeInv
  <1>7. ASSUME NEW c \in Clients, Fill(c)
        PROVE  SafeInv'
    <2>1. out[c] # None /\ out[c] \in Result
      BY <1>0, <1>7 DEF Fill, TypeOK, CallInv
    <2>2. KeyOf[out[c].q] \in Keys
      BY <2>1, KeyOfType DEF Result
    <2>3. /\ UNCHANGED <<primary, todo>>
          /\ Clearing' \subseteq Clearing
          /\ out'[c] = None
          /\ \A d \in Clients \ {c} : out'[d] = out[d]
          /\ \A k \in Keys : cache'[k] = out[c] \/ cache'[k] = cache[k]
      BY <1>0, <1>7, <2>2 DEF Fill, Clearing, TypeOK
    <2>4. InFlightInv'
      BY <1>0, <2>3 DEF SafeInv, InFlightInv
    <2>5. ClearIsABarrier'
      BY <1>0, <2>1, <2>3 DEF SafeInv, ClearIsABarrier, InFlightInv, Cached
    <2>6. ResultInv'
      BY <1>0, <2>3 DEF SafeInv, ResultInv, CoherentWith, OverlapsSkipped
    <2> QED BY <2>4, <2>5, <2>6 DEF SafeInv
  <1>8. ASSUME NEW c \in Clients, NEW qs \in WriteScopes, ExecuteStatement(c, qs)
        PROVE  SafeInv'
    <2>1. UNCHANGED todo /\ Clearing' \subseteq Clearing /\ pc[c] = "write"
      BY <1>0, <1>8 DEF ExecuteStatement, Clearing, TypeOK
    <2>2. FreshWrite(qs) \in WriteSet
      BY <1>0, <1>8, FreshWriteType DEF ExecuteStatement, CanWrite, TypeOK
    <2>3. CASE WriteInTx(c, qs)
      BY <1>0, <2>1, <2>3, FrameStep DEF WriteInTx
    <2>4. CASE PublishExecute(FreshWrite(qs), c)
      BY <1>0, <2>1, <2>2, <2>4, ExecuteStep
    <2> QED BY <1>8, <2>3, <2>4 DEF ExecuteStatement
  <1>9. ASSUME NEW c \in Clients, NEW qs \in WriteScopes, Save(c, qs)
        PROVE  SafeInv'
    <2>1. UNCHANGED todo /\ Clearing' \subseteq Clearing
      BY <1>0, <1>9 DEF Save, Clearing
    <2>2. FreshWrite(qs) \in WriteSet
      BY <1>0, <1>9, FreshWriteType DEF Save, CanWrite, TypeOK
    <2>3. CASE WriteInTx(c, qs)
      BY <1>0, <2>1, <2>3, FrameStep DEF WriteInTx
    <2>4. CASE PublishBypass(FreshWrite(qs))
      BY <1>0, <2>1, <2>2, <2>4, BypassStep
    <2> QED BY <1>9, <2>3, <2>4 DEF Save
  <1>10. ASSUME NEW c \in Clients, Commit(c)
         PROVE  SafeInv'
    <2>1. UNCHANGED todo /\ Clearing' \subseteq Clearing /\ txw[c] \in WriteSet
      BY <1>0, <1>10 DEF Commit, Clearing, TypeOK
    <2> QED BY <1>0, <1>10, <2>1, BypassStep DEF Commit
  <1>11. ASSUME NEW qs \in WriteScopes, ExternalWrite(qs)
         PROVE  SafeInv'
    <2>1. UNCHANGED todo /\ Clearing' \subseteq Clearing
      BY <1>11 DEF ExternalWrite, Clearing
    <2>2. FreshWrite(qs) \in WriteSet
      BY <1>0, <1>11, FreshWriteType DEF ExternalWrite, TypeOK
    <2> QED BY <1>0, <1>11, <2>1, <2>2, BypassStep DEF ExternalWrite
  <1>12. ASSUME NEW c \in Clients, Call(c)
         PROVE  SafeInv'
    BY <1>0, <1>1, <1>2, <1>4, <1>9, <1>12, ProgramQueries DEF Call, InvalidateCache, Execute
  <1>13. ASSUME NEW c \in Clients, Step(c)
         PROVE  SafeInv'
    <2>1. CASE Evict(c)
      <3>1. KeyOf[req[c]] \in Keys
        BY <1>0, <2>1, KeyOfType DEF Evict, TypeOK, CallInv
      <3> QED BY <1>5, <2>1, <3>1
    <2> QED BY <1>2, <1>5, <1>6, <1>7, <1>8, <1>13, <2>1 DEF Step
  <1>14. ASSUME NEW c \in Clients, End(c)
         PROVE  SafeInv'
    BY <1>2, <1>10, <1>14 DEF End
  <1>15. CASE Environment
    BY <1>3, <1>11, <1>15 DEF Environment
  <1> QED BY <1>3, <1>12, <1>13, <1>14, <1>15 DEF Next

LEMMA InductiveInvariant == Spec => []IInv
  <1>1. IInv /\ [Next]_vars => IInv'
    BY TypeStep, SafeStep DEF IInv, SafeInv
  <1> QED BY InitIInv, <1>1, PTL DEF Spec

\* A Clear leaves nothing older than its start under the keys it has passed.
THEOREM ClearBarrier == Spec => []ClearIsABarrier
  BY InductiveInvariant, PTL DEF IInv

\* An entry read from the primary or in a transaction, whose rows a write
\* through execute has changed since, was stored by a query that overlapped it.
THEOREM SkippedOverlap == Spec => []SkippedOnlyIfOverlapping
  <1>1. IInv => SkippedOnlyIfOverlapping
    BY DEF IInv, ResultInv, OverlapsSkipped, SkippedOnlyIfOverlapping, Cached
  <1> QED BY InductiveInvariant, <1>1, PTL

\* Outside the windows Coherent names, a cached result is what the primary
\* holds.
THEOREM CacheCoherence == Spec => []Coherent
  <1>1. IInv => Coherent
    BY DEF IInv, ResultInv, CoherentWith, Coherent, Cached
  <1> QED BY InductiveInvariant, <1>1, PTL

===============================================================================
