---------------------------- MODULE StatementProofs ----------------------------
(***************************************************************************)
(* Proofs about Statement, for any number of hooks, attempts and rows:     *)
(* its safety properties hold with every policy.                           *)
(*                                                                         *)
(* IInv says how far the history has come at each place of the call: an    *)
(* attempt that runs has so many errors before it (Counted), all of them   *)
(* retryable (Failures); the context can have ended before one attempt     *)
(* only (Waits); of the done functions those outside the ones called are   *)
(* left (Stacked, Told).                                                   *)
(***************************************************************************)
EXTENDS Statement, TLAPS

InAttempt == pc \in {"before", "statement"}

AfterAttempt == pc \in {"dones", "decide", "backoff"}

\* How many attempts have ended, and that the number of one is in its bounds.
Counted ==
    /\ attempt \in 0 .. Limit(op, comments) - 1
    /\ Len(outcomes) \in 0 .. attempt + 1
    /\ InAttempt => Len(outcomes) = attempt
    /\ AfterAttempt \/ Returned => Len(outcomes) = attempt + 1
    /\ pc = "backoff" => attempt < Limit(op, comments) - 1
    /\ pc = "idle" /\ reply = "none" => Len(outcomes) = 0

\* What they ended with.
Failures ==
    /\ \A i \in 1 .. Len(outcomes) - 1 : outcomes[i] = "retryable"
    /\ InAttempt => \A i \in 1 .. Len(outcomes) : outcomes[i] = "retryable"
    /\ AfterAttempt => err = outcomes[Len(outcomes)]
    /\ pc = "backoff" => err = "retryable"
    /\ Returned =>
         \/ reply = outcomes[Len(outcomes)]
         \/ reply = "ctx" /\ cancelled /\ outcomes[Len(outcomes)] = "retryable"

\* Attempts that began after the context had ended.
Waits ==
    /\ late \in 0 .. 1
    /\ late = 1 => cancelled
    /\ pc = "backoff" => late = 0

\* Effects of a write.
Effects ==
    /\ applied \in 0 .. attempt + 1
    /\ InAttempt => applied <= attempt
    /\ op # "execute" => applied = 0

\* Rows that query holds.
Rows ==
    /\ op = "query" /\ pc \in {"dones", "decide"} /\ err = "nil" => got = [r \in 1 .. RowCount |-> r]
    /\ Returned /\ op = "query" /\ reply = "nil" => got = [r \in 1 .. RowCount |-> r]

\* dones is a stack: the hooks whose Before has run, or those of them that
\* have not been told yet, outermost first.
Stacked ==
    /\ \A i, j \in DOMAIN dones : i < j => dones[i] < dones[j]
    /\ \A i \in DOMAIN dones : dones[i] \notin Silent /\ dones[i] <= hook
    /\ \A i \in DOMAIN dones, h \in 1 .. Hooks \ Silent :
          h < dones[i] => \E j \in DOMAIN dones : dones[j] = h
    /\ InAttempt => \A h \in 1 .. hook \ Silent : \E i \in DOMAIN dones : dones[i] = h
    /\ pc \in {"statement", "dones"} => hook = Hooks
    /\ pc \in {"decide", "backoff"} => dones = << >>

\* While the done functions are called, hook h has been told of the attempt
\* unless its own is among those left.
TellingHook(h) ==
    Len(seen[h]) = IF \E i \in DOMAIN dones : dones[i] = h
                   THEN Len(outcomes) - 1 ELSE Len(outcomes)

\* A panic leaves all hooks told of the attempts so far, or ends the telling.
Panicked ==
    pc = "panicked" =>
        \/ \A h \in 1 .. Hooks \ Silent : Len(seen[h]) = Len(outcomes)
        \/ \A h \in 1 .. Hooks \ Silent : TellingHook(h)

\* What each hook's done functions have been told.
Told ==
    /\ Panicked
    /\ \A h \in 1 .. Hooks \ Silent :
        /\ Len(seen[h]) \in 0 .. Len(outcomes)
        /\ \A i \in 1 .. Len(seen[h]) : seen[h][i] = outcomes[i]
        /\ InAttempt => Len(seen[h]) = Len(outcomes)
        /\ pc = "dones" => TellingHook(h)
        /\ pc \in {"decide", "backoff", "idle"} => Len(seen[h]) = Len(outcomes)

IInv == TypeOK /\ Counted /\ Failures /\ Waits /\ Effects /\ Rows /\ Stacked /\ Told

-------------------------------------------------------------------------------
(* Types. *)

LEMMA LimitType ==
    ASSUME NEW o, NEW c
    PROVE  /\ Limit(o, c) \in Nat /\ 1 <= Limit(o, c) /\ Limit(o, c) <= MaxAttempts
           /\ MaxAttempts \in Nat
BY ConstantsAssumption DEF Limit, MaxAttempts

\* What Append adds to.
LEMMA Appended ==
    ASSUME NEW S, NEW s \in Seq(S), NEW x \in S
    PROVE  /\ Append(s, x) \in Seq(S)
           /\ Len(Append(s, x)) = Len(s) + 1
           /\ DOMAIN s = 1 .. Len(s) /\ DOMAIN Append(s, x) = 1 .. Len(s) + 1
           /\ \A i \in 1 .. Len(s) : Append(s, x)[i] = s[i]
           /\ Append(s, x)[Len(s) + 1] = x
           /\ Len(s) \in Nat
OBVIOUS

\* What taking the last element off leaves.
LEMMA Popped ==
    ASSUME NEW S, NEW s \in Seq(S), s # << >>
    PROVE  /\ SubSeq(s, 1, Len(s) - 1) \in Seq(S)
           /\ Len(SubSeq(s, 1, Len(s) - 1)) = Len(s) - 1
           /\ DOMAIN s = 1 .. Len(s)
           /\ DOMAIN SubSeq(s, 1, Len(s) - 1) = 1 .. Len(s) - 1
           /\ \A i \in 1 .. Len(s) - 1 : SubSeq(s, 1, Len(s) - 1)[i] = s[i]
           /\ \A i \in 1 .. Len(s) : s[i] \in S
           /\ Len(s) \in Nat \ {0}
<1> DEFINE t == SubSeq(s, 1, Len(s) - 1)
<1>1. Len(s) \in Nat \ {0} /\ DOMAIN s = 1 .. Len(s)
  OBVIOUS
<1>2. \A i \in 1 .. Len(s) : s[i] \in S
  OBVIOUS
<1>3. Len(t) = Len(s) - 1 /\ DOMAIN t = 1 .. Len(s) - 1
  BY <1>1
<1>4. \A i \in 1 .. Len(s) - 1 : t[i] = s[i]
  BY <1>1
<1>5. t \in Seq(S)
  BY <1>1, <1>2
<1> QED BY <1>1, <1>2, <1>3, <1>4, <1>5

LEMMA InitIInv == Init => IInv
<1> SUFFICES ASSUME Init PROVE IInv
  OBVIOUS
<1> USE ConstantsAssumption DEF Init
<1>1. op \in Ops
  BY DEF Ops
<1>2. Limit(op, comments) \in Nat /\ 1 <= Limit(op, comments) /\ Limit(op, comments) <= MaxAttempts /\ MaxAttempts \in Nat
  BY <1>1, LimitType
<1>3. TypeOK
  <2>1. dones \in Seq(1 .. Hooks) /\ Len(dones) <= hook
    OBVIOUS
  <2>2. got \in Seq(1 .. RowCount) /\ outcomes \in Seq(Outcomes)
    OBVIOUS
  <2>3. seen \in [1 .. Hooks -> Seq(Outcomes)]
    OBVIOUS
  <2>4. attempt \in 0 .. MaxAttempts - 1 /\ applied \in 0 .. MaxAttempts /\ late \in 0 .. MaxAttempts
    BY <1>2
  <2>5. hook \in 0 .. Hooks /\ row \in 0 .. RowCount /\ err \in Outcomes
    BY DEF Outcomes
  <2> QED BY <1>1, <2>1, <2>2, <2>3, <2>4, <2>5 DEF TypeOK
<1>4. Counted /\ Failures /\ Waits /\ Effects /\ Rows
  BY <1>2 DEF Counted, Failures, Waits, Effects, Rows, InAttempt, AfterAttempt, Returned
<1>5. Stacked /\ Told
  BY DEF Stacked, Told, Panicked, TellingHook, InAttempt
<1> QED BY <1>3, <1>4, <1>5 DEF IInv

-------------------------------------------------------------------------------
(* Steps. *)

LEMMA CancelIInv ==
    ASSUME IInv, Cancel PROVE IInv'
<1> USE DEF IInv
<1>1. TypeOK'
  BY ConstantsAssumption DEF TypeOK, Cancel, history
<1>2. Counted'
  BY DEF Counted, TypeOK, InAttempt, AfterAttempt, Returned, Cancel, history
<1>3. Failures'
  BY DEF Failures, TypeOK, InAttempt, AfterAttempt, Returned, Cancel, history
<1>4. Waits'
  BY DEF Waits, TypeOK, Cancel, history
<1>5. Effects'
  BY DEF Effects, TypeOK, InAttempt, Cancel, history
<1>6. Rows'
  BY DEF Rows, TypeOK, Returned, Cancel, history
<1>7. Stacked'
  BY DEF Stacked, TypeOK, InAttempt, Cancel, history
<1>8. Told'
  BY DEF Told, Panicked, TellingHook, TypeOK, InAttempt, Cancel, history
<1> QED BY <1>1, <1>2, <1>3, <1>4, <1>5, <1>6, <1>7, <1>8

LEMMA DecideIInv ==
    ASSUME IInv, Decide PROVE IInv'
<1> USE DEF IInv
<1>1. TypeOK'
  BY ConstantsAssumption DEF TypeOK, Decide, GiveUp, LastAttempt, history
<1>2. Counted'
  <2>1. Limit(op, comments) \in Nat /\ 1 <= Limit(op, comments) /\ op' = op /\ comments' = comments
    BY LimitType DEF TypeOK, Decide
  <2>2. pc = "decide" /\ UNCHANGED <<attempt, outcomes>>
    BY DEF Decide, history
  <2>3. attempt \in 0 .. Limit(op, comments) - 1 /\ Len(outcomes) = attempt + 1
    BY <2>2 DEF Counted, AfterAttempt
  <2>4. pc' = "backoff" => attempt # Limit(op, comments) - 1
    BY DEF Decide, GiveUp, LastAttempt
  <2>5. pc' \in {"idle", "backoff"} /\ (pc' = "idle" => reply' = err /\ err # "none")
    BY DEF Decide, TypeOK, Outcomes, Errors
  <2> HIDE DEF IInv
  <2> QED BY <2>1, <2>2, <2>3, <2>4, <2>5 DEF Counted, InAttempt, AfterAttempt, Returned
<1>3. Failures'
  <2>1. pc = "decide" /\ UNCHANGED <<outcomes, cancelled, err>>
    BY DEF Decide, history
  <2>2. err = outcomes[Len(outcomes)]
    BY <2>1 DEF Failures, AfterAttempt
  <2>3. \/ pc' = "idle" /\ reply' = err
        \/ pc' = "backoff" /\ err = "retryable"
    BY DEF Decide, GiveUp, TypeOK, Outcomes, Errors
  <2>4. \A i \in 1 .. Len(outcomes) - 1 : outcomes[i] = "retryable"
    BY DEF Failures
  <2> HIDE DEF IInv
  <2> QED BY <2>1, <2>2, <2>3, <2>4 DEF Failures, InAttempt, AfterAttempt, Returned
<1>4. Waits'
  BY DEF Waits, TypeOK, Decide, GiveUp, LastAttempt, history
<1>5. Effects'
  BY DEF Effects, TypeOK, InAttempt, Decide, GiveUp, LastAttempt, history
<1>6. Rows'
  BY DEF Rows, TypeOK, Returned, Decide, GiveUp, LastAttempt, history
<1>7. Stacked'
  BY DEF Stacked, TypeOK, InAttempt, Decide, GiveUp, LastAttempt, history
<1>8. Told'
  BY DEF Told, Panicked, TellingHook, TypeOK, InAttempt, Decide, GiveUp, LastAttempt, history
<1> QED BY <1>1, <1>2, <1>3, <1>4, <1>5, <1>6, <1>7, <1>8

LEMMA TimerFiresIInv ==
    ASSUME IInv, TimerFires PROVE IInv'
<1> USE DEF IInv
<1>0. /\ Limit(op, comments) \in Nat /\ 1 <= Limit(op, comments) /\ Limit(op, comments) <= MaxAttempts /\ MaxAttempts \in Nat
      /\ op' = op /\ comments' = comments /\ attempt' = attempt + 1 /\ attempt \in Nat /\ attempt' <= Limit(op, comments) - 1
  BY LimitType DEF TypeOK, TimerFires, Counted
<1>1. TypeOK'
  <2>1. dones' \in Seq(1 .. Hooks) /\ Len(dones') <= hook' /\ hook' \in 0 .. Hooks
    BY ConstantsAssumption DEF TimerFires, BeginAttempt
  <2>2. late' \in 0 .. MaxAttempts /\ attempt' \in 0 .. MaxAttempts - 1
    BY <1>0 DEF TimerFires, BeginAttempt, Waits
  <2>3. row' \in 0 .. RowCount /\ err' \in Outcomes
    BY ConstantsAssumption DEF TimerFires, BeginAttempt, Outcomes
  <2> QED BY <2>1, <2>2, <2>3 DEF TypeOK, TimerFires, BeginAttempt
<1>2. Counted'
  <2>1. pc = "backoff" /\ pc' = "before" /\ outcomes' = outcomes
    BY DEF TimerFires, BeginAttempt
  <2>2. Len(outcomes) = attempt + 1
    BY <2>1 DEF Counted, AfterAttempt
  <2> HIDE DEF IInv
  <2> QED BY <1>0, <2>1, <2>2 DEF Counted, InAttempt, AfterAttempt, Returned
<1>3. Failures'
  BY DEF Failures, TypeOK, InAttempt, AfterAttempt, Returned, TimerFires, BeginAttempt
<1>4. Waits'
  BY DEF Waits, TypeOK, TimerFires, BeginAttempt
<1>5. Effects'
  BY DEF Effects, TypeOK, InAttempt, TimerFires, BeginAttempt
<1>6. Rows'
  BY DEF Rows, TypeOK, Returned, TimerFires, BeginAttempt
<1>7. Stacked'
  BY DEF Stacked, TypeOK, InAttempt, TimerFires, BeginAttempt
<1>8. Told'
  BY DEF Told, Panicked, TellingHook, TypeOK, InAttempt, TimerFires, BeginAttempt
<1> QED BY <1>1, <1>2, <1>3, <1>4, <1>5, <1>6, <1>7, <1>8

LEMMA WaitCancelledIInv ==
    ASSUME IInv, WaitCancelled PROVE IInv'
<1> USE DEF IInv
<1>1. TypeOK'
  BY ConstantsAssumption DEF TypeOK, WaitCancelled, history
<1>2. Counted'
  BY DEF Counted, TypeOK, InAttempt, AfterAttempt, Returned, WaitCancelled, history
<1>3. Failures'
  BY DEF Failures, TypeOK, InAttempt, AfterAttempt, Returned, WaitCancelled, history
<1>4. Waits'
  BY DEF Waits, TypeOK, WaitCancelled, history
<1>5. Effects'
  BY DEF Effects, TypeOK, InAttempt, WaitCancelled, history
<1>6. Rows'
  BY DEF Rows, TypeOK, Returned, WaitCancelled, history
<1>7. Stacked'
  BY DEF Stacked, TypeOK, InAttempt, WaitCancelled, history
<1>8. Told'
  BY DEF Told, Panicked, TellingHook, TypeOK, InAttempt, WaitCancelled, history
<1> QED BY <1>1, <1>2, <1>3, <1>4, <1>5, <1>6, <1>7, <1>8

LEMMA BeforeIInv ==
    ASSUME IInv, Before PROVE IInv'
<1> USE DEF IInv
<1>1. TypeOK'
  <2>1. hook \in Nat /\ hook' = hook + 1 /\ hook' \in 1 .. Hooks
    BY ConstantsAssumption DEF TypeOK, Before
  <2>2. dones \in Seq(1 .. Hooks) /\ Len(dones) \in Nat /\ Len(dones) <= hook
    BY DEF TypeOK
  <2>3. dones' = dones \/ dones' = Append(dones, hook')
    BY <2>1 DEF Before
  <2>4. /\ Append(dones, hook') \in Seq(1 .. Hooks)
        /\ Len(Append(dones, hook')) = Len(dones) + 1
    <3> HIDE DEF IInv
    <3> QED BY <2>1, <2>2
  <2>5. dones' \in Seq(1 .. Hooks) /\ Len(dones') <= hook'
    <3> HIDE DEF IInv
    <3>1. CASE dones' = dones
      BY <2>1, <2>2, <3>1
    <3>2. CASE dones' = Append(dones, hook')
      BY <2>1, <2>2, <2>4, <3>2
    <3> QED BY <2>3, <3>1, <3>2
  <2> QED BY <2>1, <2>5 DEF TypeOK, Before, history
<1>2. Counted'
  BY DEF Counted, TypeOK, InAttempt, AfterAttempt, Returned, Before, history
<1>3. Failures'
  BY DEF Failures, TypeOK, InAttempt, AfterAttempt, Returned, Before, history
<1>4. Waits'
  BY DEF Waits, TypeOK, Before, history
<1>5. Effects'
  BY DEF Effects, TypeOK, InAttempt, Before, history
<1>6. Rows'
  BY DEF Rows, TypeOK, Returned, Before, history
<1>7. Stacked'
  <2> DEFINE n == Len(dones)
  <2>1. n \in Nat /\ hook \in Nat /\ hook' = hook + 1 /\ hook' \in 1 .. Hooks /\ pc = "before" /\ pc' = pc
    BY ConstantsAssumption DEF TypeOK, Before
  <2>2. CASE hook + 1 \in Silent
    <3>1. dones' = dones
      BY <2>2 DEF Before
    <3>2. /\ \A i, j \in DOMAIN dones : i < j => dones[i] < dones[j]
          /\ \A i \in DOMAIN dones : dones[i] \in Nat /\ dones[i] \notin Silent /\ dones[i] <= hook
          /\ \A i \in DOMAIN dones, h \in 1 .. Hooks \ Silent :
                h < dones[i] => \E j \in DOMAIN dones : dones[j] = h
          /\ \A h \in 1 .. hook \ Silent : \E i \in DOMAIN dones : dones[i] = h
      <4>1. dones \in Seq(1 .. Hooks)
        BY DEF TypeOK
      <4>2. \A i \in DOMAIN dones : dones[i] \in Nat
        <5> HIDE DEF IInv
        <5> QED BY <4>1, ConstantsAssumption
      <4> QED BY <2>1, <4>2 DEF Stacked, InAttempt
    <3> HIDE DEF IInv
    <3>3. \A i \in DOMAIN dones : dones[i] \notin Silent /\ dones[i] <= hook + 1
      BY <2>1, <3>2
    <3>4. \A h \in 1 .. hook + 1 \ Silent : \E i \in DOMAIN dones : dones[i] = h
      BY <2>1, <2>2, <3>2
    <3> QED BY <2>1, <3>1, <3>2, <3>3, <3>4 DEF Stacked
  <2>3. CASE hook + 1 \notin Silent
    <3>1. /\ DOMAIN dones = 1 .. n /\ DOMAIN dones' = 1 .. n + 1 /\ dones'[n + 1] = hook + 1
          /\ \A i \in 1 .. n : dones'[i] = dones[i] /\ dones[i] \in Nat /\ dones[i] <= hook
      <4>1. dones \in Seq(1 .. Hooks) /\ dones' = Append(dones, hook + 1) /\ hook + 1 \in 1 .. Hooks
        BY <2>1, <2>3 DEF Before, TypeOK
      <4>2. \A i \in 1 .. n : dones[i] <= hook
        <5>1. n = Len(dones) /\ DOMAIN dones = 1 .. Len(dones)
          BY <4>1
        <5>2. \A i \in DOMAIN dones : dones[i] <= hook
          BY DEF Stacked
        <5> QED BY <5>1, <5>2
      <4>3. \A i \in 1 .. n : dones[i] \in Nat
        BY <4>1, ConstantsAssumption
      <4>4. DOMAIN dones = 1 .. n
        BY <4>1
      <4> HIDE DEF IInv
      <4> QED BY <2>1, <4>1, <4>2, <4>3, <4>4, Appended
    <3>2. \A i, j \in DOMAIN dones' : i < j => dones'[i] < dones'[j]
      BY <2>1, <3>1 DEF Stacked
    <3>3. \A i \in DOMAIN dones' : dones'[i] \notin Silent /\ dones'[i] <= hook'
      BY <2>1, <2>3, <3>1 DEF Stacked
    <3>4. \A h \in 1 .. hook' \ Silent : \E i \in DOMAIN dones' : dones'[i] = h
      BY <2>1, <3>1 DEF Stacked, InAttempt
    <3>5. \A i \in DOMAIN dones', h \in 1 .. Hooks \ Silent :
             h < dones'[i] => \E j \in DOMAIN dones' : dones'[j] = h
      BY <2>1, <3>1, <3>3, <3>4
    <3> QED BY <2>1, <3>2, <3>3, <3>4, <3>5 DEF Stacked
  <2> QED BY <2>2, <2>3
<1>8. Told'
  BY DEF Told, Panicked, TellingHook, TypeOK, InAttempt, Before, history
<1> QED BY <1>1, <1>2, <1>3, <1>4, <1>5, <1>6, <1>7, <1>8

LEMMA AllBeforeIInv ==
    ASSUME IInv, AllBefore PROVE IInv'
<1> USE DEF IInv
<1>1. TypeOK'
  BY ConstantsAssumption DEF TypeOK, AllBefore, history
<1>2. Counted'
  BY DEF Counted, TypeOK, InAttempt, AfterAttempt, Returned, AllBefore, history
<1>3. Failures'
  BY DEF Failures, TypeOK, InAttempt, AfterAttempt, Returned, AllBefore, history
<1>4. Waits'
  BY DEF Waits, TypeOK, AllBefore, history
<1>5. Effects'
  BY DEF Effects, TypeOK, InAttempt, AllBefore, history
<1>6. Rows'
  BY DEF Rows, TypeOK, Returned, AllBefore, history
<1>7. Stacked'
  BY DEF Stacked, TypeOK, InAttempt, AllBefore, history
<1>8. Told'
  BY DEF Told, Panicked, TellingHook, TypeOK, InAttempt, AllBefore, history
<1> QED BY <1>1, <1>2, <1>3, <1>4, <1>5, <1>6, <1>7, <1>8

LEMMA DeliverIInv ==
    ASSUME IInv, Deliver PROVE IInv'
<1> USE DEF IInv
<1>1. TypeOK'
  <2>1. row \in Nat /\ row' = row + 1 /\ row' \in 1 .. RowCount
    BY ConstantsAssumption DEF TypeOK, Deliver
  <2>2. got \in Seq(1 .. RowCount) /\ (got' = got \/ got' = Append(got, row'))
    BY <2>1 DEF TypeOK, Deliver
  <2>3. Append(got, row') \in Seq(1 .. RowCount)
    <3> HIDE DEF IInv
    <3>1. row' \in 1 .. RowCount /\ got \in Seq(1 .. RowCount)
      BY <2>1, <2>2
    <3> HIDE <2>1, <2>2
    <3> QED BY <3>1, Appended
  <2>4. got' \in Seq(1 .. RowCount)
    <3> HIDE DEF IInv
    <3> QED BY <2>2, <2>3
  <2> QED BY <2>1, <2>4 DEF TypeOK, Deliver, history
<1>2. Counted'
  BY DEF Counted, TypeOK, InAttempt, AfterAttempt, Returned, Deliver, history
<1>3. Failures'
  BY DEF Failures, TypeOK, InAttempt, AfterAttempt, Returned, Deliver, history
<1>4. Waits'
  BY DEF Waits, TypeOK, Deliver, history
<1>5. Effects'
  BY DEF Effects, TypeOK, InAttempt, Deliver, history
<1>6. Rows'
  BY DEF Rows, TypeOK, Returned, Deliver, history
<1>7. Stacked'
  BY DEF Stacked, TypeOK, InAttempt, Deliver, history
<1>8. Told'
  BY DEF Told, Panicked, TellingHook, TypeOK, InAttempt, Deliver, history
<1> QED BY <1>1, <1>2, <1>3, <1>4, <1>5, <1>6, <1>7, <1>8

LEMMA PanicIInv ==
    ASSUME IInv, Panic PROVE IInv'
<1> USE DEF IInv
<1>1. TypeOK'
  BY ConstantsAssumption DEF TypeOK, Panic, LastAttempt, history
<1>2. Counted'
  BY DEF Counted, TypeOK, InAttempt, AfterAttempt, Returned, Panic, LastAttempt, history
<1>3. Failures'
  BY DEF Failures, TypeOK, InAttempt, AfterAttempt, Returned, Panic, LastAttempt, history
<1>4. Waits'
  BY DEF Waits, TypeOK, Panic, LastAttempt, history
<1>5. Effects'
  BY DEF Effects, TypeOK, InAttempt, Panic, LastAttempt, history
<1>6. Rows'
  BY DEF Rows, TypeOK, Returned, Panic, LastAttempt, history
<1>7. Stacked'
  BY DEF Stacked, TypeOK, InAttempt, Panic, LastAttempt, history
<1>8. Told'
  BY DEF Told, Panicked, TellingHook, TypeOK, InAttempt, Panic, LastAttempt, history
<1> QED BY <1>1, <1>2, <1>3, <1>4, <1>5, <1>6, <1>7, <1>8

\* An attempt that ends with e is one more outcome.
LEMMA FinishIInv ==
    ASSUME IInv, pc = "statement", NEW e \in Outcomes, Finish(e),
           row' = row, got' \in Seq(1 .. RowCount),
           op = "query" /\ e = "nil" => got' = [r \in 1 .. RowCount |-> r],
           applied' \in applied .. applied + 1, op # "execute" => applied' = applied
    PROVE  IInv'
<1> USE DEF IInv
<1> DEFINE n == Len(outcomes)
<1>1. outcomes \in Seq(Outcomes)
  BY DEF TypeOK
<1>2. /\ outcomes' \in Seq(Outcomes) /\ Len(outcomes') = n + 1 /\ n \in Nat
      /\ \A i \in 1 .. n : outcomes'[i] = outcomes[i]
      /\ outcomes'[n + 1] = e
  BY <1>1, Appended DEF Finish
<1>3. /\ attempt \in 0 .. Limit(op, comments) - 1 /\ n = attempt /\ applied \in 0 .. attempt
      /\ Limit(op, comments) \in Nat /\ Limit(op, comments) <= MaxAttempts /\ MaxAttempts \in Nat
  BY LimitType DEF Counted, Effects, TypeOK, InAttempt
<1>4. /\ pc' = "dones" /\ err' = e
      /\ UNCHANGED <<op, comments, attempt, hook, dones, row, cancelled, reply, seen, late>>
  BY DEF Finish
<1>5. TypeOK'
  <2>1. applied' \in 0 .. MaxAttempts
    BY <1>3
  <2> QED BY <1>2, <1>4, <2>1 DEF TypeOK
<1>6. Counted'
  <2> HIDE DEF IInv
  <2> QED BY <1>2, <1>3, <1>4 DEF Counted, InAttempt, AfterAttempt, Returned
<1>7. Failures'
  <2>1. \A i \in 1 .. n : outcomes[i] = "retryable"
    BY DEF Failures, InAttempt
  <2> HIDE DEF IInv
  <2>2. Len(outcomes') - 1 = n
    BY <1>2
  <2>3. \A i \in 1 .. Len(outcomes') - 1 : outcomes'[i] = "retryable"
    BY <1>2, <2>1, <2>2
  <2>4. err' = outcomes'[Len(outcomes')]
    BY <1>2, <1>4
  <2> QED BY <1>4, <2>3, <2>4 DEF Failures, InAttempt, AfterAttempt, Returned
<1>8. Waits'
  BY <1>4 DEF Waits
<1>9. Effects'
  <2>1. op # "execute" => applied = 0
    BY DEF Effects
  <2> HIDE DEF IInv
  <2> QED BY <1>3, <1>4, <2>1 DEF Effects, InAttempt
<1>10. Rows'
  BY <1>4 DEF Rows, Returned
<1>11. Stacked'
  BY <1>4 DEF Stacked, InAttempt
<1>12. Told'
  <2> SUFFICES ASSUME NEW h \in 1 .. Hooks \ Silent
               PROVE  /\ Len(seen[h]) \in 0 .. n + 1
                      /\ \A i \in 1 .. Len(seen[h]) : seen[h][i] = outcomes'[i]
                      /\ Len(seen[h]) = IF \E i \in DOMAIN dones : dones[i] = h THEN n ELSE n + 1
    BY <1>2, <1>4 DEF Told, Panicked, TellingHook, InAttempt
  <2>1. Len(seen[h]) = n /\ \A i \in 1 .. n : seen[h][i] = outcomes[i]
    BY DEF Told, Panicked, TellingHook, InAttempt
  <2>2. \E i \in DOMAIN dones : dones[i] = h
    <3>1. hook = Hooks
      BY DEF Stacked
    <3> QED BY <3>1 DEF Stacked, InAttempt
  <2> HIDE DEF IInv
  <2> QED BY <1>2, <2>1, <2>2
<1> QED BY <1>5, <1>6, <1>7, <1>8, <1>9, <1>10, <1>11, <1>12

LEMMA ReadEndsIInv ==
    ASSUME IInv, NEW e \in Outcomes, ReadEnds(e) PROVE IInv'
<1>1. row \in 0 .. RowCount /\ got \in Seq(1 .. RowCount) /\ applied \in Nat
  BY DEF IInv, TypeOK, Effects, MaxAttempts
<1>2. [r \in 1 .. row |-> r] \in Seq(1 .. RowCount)
  BY <1>1, ConstantsAssumption
<1>3. got' \in Seq(1 .. RowCount)
  <2>1. << >> \in Seq(1 .. RowCount)
    OBVIOUS
  <2>2. got' \in {got, << >>, [r \in 1 .. row |-> r]}
    BY DEF ReadEnds, Collected
  <2> QED BY <1>1, <1>2, <2>1, <2>2
<1>4. op = "query" /\ e = "nil" => got' = [r \in 1 .. RowCount |-> r]
  BY DEF ReadEnds, Collected
<1>5. applied' \in applied .. applied + 1 /\ applied' = applied
  BY <1>1 DEF ReadEnds
<1>6. pc = "statement" /\ row' = row /\ Finish(e)
  BY DEF ReadEnds
<1> QED BY <1>3, <1>4, <1>5, <1>6, FinishIInv

LEMMA CallbackFailsIInv ==
    ASSUME IInv, NEW e \in Errors, CallbackFails(e) PROVE IInv'
<1>1. got' \in Seq(1 .. RowCount) /\ applied \in Nat
  BY DEF IInv, TypeOK, CallbackFails
<1>2. op # "query" /\ e \in Outcomes
  BY DEF CallbackFails, Outcomes
<1>3. applied' \in applied .. applied + 1 /\ applied' = applied
  BY <1>1 DEF CallbackFails
<1>4. pc = "statement" /\ row' = row /\ Finish(e)
  BY DEF CallbackFails
<1> QED BY <1>1, <1>2, <1>3, <1>4, FinishIInv

LEMMA WriteEndsIInv ==
    ASSUME IInv, NEW e \in Outcomes, NEW effect \in 0 .. 1, WriteEnds(e, effect)
    PROVE  IInv'
<1>1. got' \in Seq(1 .. RowCount) /\ applied \in Nat
  BY DEF IInv, TypeOK, WriteEnds
<1>2. op = "execute"
  BY DEF WriteEnds
<1>3. applied' \in applied .. applied + 1
  BY <1>1 DEF WriteEnds
<1>4. pc = "statement" /\ row' = row /\ Finish(e)
  BY DEF WriteEnds
<1> QED BY <1>1, <1>2, <1>3, <1>4, FinishIInv

LEMMA AllDoneIInv ==
    ASSUME IInv, AllDone PROVE IInv'
<1> USE DEF IInv
<1>1. TypeOK'
  BY ConstantsAssumption DEF TypeOK, AllDone, history
<1>2. Counted'
  BY DEF Counted, TypeOK, InAttempt, AfterAttempt, Returned, AllDone, history
<1>3. Failures'
  BY DEF Failures, TypeOK, InAttempt, AfterAttempt, Returned, AllDone, history
<1>4. Waits'
  BY DEF Waits, TypeOK, AllDone, history
<1>5. Effects'
  BY DEF Effects, TypeOK, InAttempt, AllDone, history
<1>6. Rows'
  BY DEF Rows, TypeOK, Returned, AllDone, history
<1>7. Stacked'
  BY DEF Stacked, TypeOK, InAttempt, AllDone, history
<1>8. Told'
  BY DEF Told, Panicked, TellingHook, TypeOK, InAttempt, AllDone, history
<1> QED BY <1>1, <1>2, <1>3, <1>4, <1>5, <1>6, <1>7, <1>8

LEMMA StutterIInv ==
    ASSUME IInv, UNCHANGED vars PROVE IInv'
<1> USE DEF IInv
<1>1. TypeOK'
  BY ConstantsAssumption DEF TypeOK, vars
<1>2. Counted'
  BY DEF Counted, TypeOK, InAttempt, AfterAttempt, Returned, vars
<1>3. Failures'
  BY DEF Failures, TypeOK, InAttempt, AfterAttempt, Returned, vars
<1>4. Waits'
  BY DEF Waits, TypeOK, vars
<1>5. Effects'
  BY DEF Effects, TypeOK, InAttempt, vars
<1>6. Rows'
  BY DEF Rows, TypeOK, Returned, vars
<1>7. Stacked'
  BY DEF Stacked, TypeOK, InAttempt, vars
<1>8. Told'
  BY DEF Told, Panicked, TellingHook, TypeOK, InAttempt, vars
<1> QED BY <1>1, <1>2, <1>3, <1>4, <1>5, <1>6, <1>7, <1>8

\* A call begins; its context may be done already.
LEMMA StartIInv ==
    ASSUME IInv, NEW o \in Ops, Start(o) PROVE IInv'
<1>1. /\ Limit(o, comments') \in Nat /\ 1 <= Limit(o, comments')
      /\ Limit(o, comments') <= MaxAttempts /\ MaxAttempts \in Nat
  BY LimitType
<1>2. /\ op' = o /\ comments' \in Comments /\ attempt' = 0 /\ cancelled' \in BOOLEAN
      /\ pc' = "before" /\ hook' = 0 /\ dones' = << >> /\ row' = 0 /\ err' = "nil"
      /\ late' = (IF cancelled' THEN 1 ELSE 0)
      /\ got' = << >> /\ reply' = "none" /\ outcomes' = << >>
      /\ seen' = [h \in 1 .. Hooks |-> << >>] /\ applied' = 0
  BY DEF Start, BeginAttempt
<1>3. TypeOK'
  <2>1. dones' \in Seq(1 .. Hooks) /\ Len(dones') <= hook'
    BY <1>2
  <2>2. got' \in Seq(1 .. RowCount) /\ outcomes' \in Seq(Outcomes)
    BY <1>2
  <2>3. seen' \in [1 .. Hooks -> Seq(Outcomes)]
    BY <1>2
  <2>4. attempt' \in 0 .. MaxAttempts - 1 /\ applied' \in 0 .. MaxAttempts /\ late' \in 0 .. MaxAttempts
    BY <1>1, <1>2
  <2>5. hook' \in 0 .. Hooks /\ row' \in 0 .. RowCount /\ err' \in Outcomes
    BY <1>2, ConstantsAssumption DEF Outcomes
  <2> QED BY <1>2, <2>1, <2>2, <2>3, <2>4, <2>5 DEF TypeOK
<1>4. Counted' /\ Failures' /\ Effects' /\ Rows'
  <2>1. Len(outcomes') = 0
    BY <1>2
  <2> QED BY <1>1, <1>2, <2>1 DEF Counted, Failures, Effects, Rows, InAttempt, AfterAttempt, Returned
<1>5. Waits'
  BY <1>2 DEF Waits
<1>6. Stacked' /\ Told'
  BY <1>2 DEF Stacked, Told, Panicked, TellingHook, InAttempt
<1> QED BY <1>3, <1>4, <1>5, <1>6 DEF IInv

\* The innermost done function that is left is told.
LEMMA DoneIInv ==
    ASSUME IInv, Done PROVE IInv'
<1> USE DEF IInv
<1> DEFINE n == Len(dones)
           d == dones[n]
<1>1. /\ pc = "dones" /\ pc' = pc /\ dones # << >>
      /\ dones' = SubSeq(dones, 1, n - 1)
      /\ seen' = [seen EXCEPT ![d] = Append(seen[d], err)]
      /\ UNCHANGED <<op, comments, attempt, hook, row, err, got, cancelled, reply, outcomes, applied, late>>
  BY DEF Done
<1>2. dones \in Seq(1 .. Hooks) /\ n <= hook /\ seen \in [1 .. Hooks -> Seq(Outcomes)] /\ err \in Outcomes
  BY DEF TypeOK
<1>3. /\ dones' \in Seq(1 .. Hooks) /\ Len(dones') = n - 1
      /\ DOMAIN dones = 1 .. n /\ DOMAIN dones' = 1 .. n - 1
      /\ \A i \in 1 .. n - 1 : dones'[i] = dones[i]
      /\ \A i \in 1 .. n : dones[i] \in 1 .. Hooks
      /\ n \in Nat \ {0}
  <2> HIDE DEF IInv
  <2>1. /\ SubSeq(dones, 1, Len(dones) - 1) \in Seq(1 .. Hooks)
        /\ Len(SubSeq(dones, 1, Len(dones) - 1)) = Len(dones) - 1
        /\ DOMAIN dones = 1 .. Len(dones)
        /\ DOMAIN SubSeq(dones, 1, Len(dones) - 1) = 1 .. Len(dones) - 1
        /\ \A i \in 1 .. Len(dones) - 1 : SubSeq(dones, 1, Len(dones) - 1)[i] = dones[i]
        /\ \A i \in 1 .. Len(dones) : dones[i] \in 1 .. Hooks
        /\ Len(dones) \in Nat \ {0}
    <3> HIDE DEF n, d
    <3>1. dones \in Seq(1 .. Hooks) /\ dones # << >>
      BY <1>1, <1>2
    <3>2. \A S : \A s \in Seq(S) : s # << >> =>
             /\ SubSeq(s, 1, Len(s) - 1) \in Seq(S)
             /\ Len(SubSeq(s, 1, Len(s) - 1)) = Len(s) - 1
             /\ DOMAIN s = 1 .. Len(s)
             /\ DOMAIN SubSeq(s, 1, Len(s) - 1) = 1 .. Len(s) - 1
             /\ \A i \in 1 .. Len(s) - 1 : SubSeq(s, 1, Len(s) - 1)[i] = s[i]
             /\ \A i \in 1 .. Len(s) : s[i] \in S
             /\ Len(s) \in Nat \ {0}
      BY Popped, Zenon
    <3> QED BY <3>1, <3>2, Zenon
  <2> QED BY <1>1, <2>1
<1>4. /\ \A i, j \in 1 .. n : i < j => dones[i] < dones[j]
      /\ \A i \in 1 .. n : dones[i] \notin Silent /\ dones[i] <= hook
      /\ \A i \in 1 .. n, h \in 1 .. Hooks \ Silent :
            h < dones[i] => \E j \in 1 .. n : dones[j] = h
      /\ hook = Hooks
  BY <1>1, <1>3 DEF Stacked
<1>13. d \in 1 .. Hooks /\ Hooks \in Nat
  BY <1>3, ConstantsAssumption
<1>5. TypeOK'
  <2>1. Append(seen[d], err) \in Seq(Outcomes)
    BY <1>2, <1>13, Appended
  <2>2. seen' \in [1 .. Hooks -> Seq(Outcomes)]
    BY <1>1, <1>2, <1>13, <2>1
  <2>3. hook \in Nat
    BY ConstantsAssumption DEF TypeOK
  <2>4. Len(dones') <= hook'
    <3> HIDE DEF IInv
    <3> QED BY <1>1, <1>2, <1>3, <2>3
  <2> QED BY <1>1, <1>3, <2>2, <2>4 DEF TypeOK
<1>6. Counted'
  BY <1>1 DEF Counted, InAttempt, AfterAttempt, Returned
<1>7. Failures'
  BY <1>1 DEF Failures, InAttempt, AfterAttempt, Returned
<1>8. Waits'
  BY <1>1 DEF Waits
<1>9. Effects'
  BY <1>1 DEF Effects, InAttempt
<1>10. Rows'
  BY <1>1 DEF Rows, Returned
<1>11. Stacked'
  <2> HIDE DEF IInv
  <2>1. \A i, j \in DOMAIN dones' : i < j => dones'[i] < dones'[j]
    <3> SUFFICES ASSUME NEW i \in 1 .. n - 1, NEW j \in 1 .. n - 1, i < j
                 PROVE  dones'[i] < dones'[j]
      BY <1>3
    <3>1. i \in 1 .. n /\ j \in 1 .. n
      BY <1>3
    <3>2. dones[i] < dones[j]
      BY <1>4, <3>1
    <3> QED BY <1>3, <3>2
  <2>2. \A i \in DOMAIN dones' : dones'[i] \notin Silent /\ dones'[i] <= hook'
    BY <1>1, <1>3, <1>4
  <2>3. \A i \in DOMAIN dones', h \in 1 .. Hooks \ Silent :
           h < dones'[i] => \E j \in DOMAIN dones' : dones'[j] = h
    <3> SUFFICES ASSUME NEW i \in 1 .. n - 1, NEW h \in 1 .. Hooks \ Silent, h < dones[i]
                 PROVE  \E j \in 1 .. n - 1 : dones'[j] = h
      BY <1>3
    <3>1. PICK j \in 1 .. n : dones[j] = h
      BY <1>3, <1>4
    <3>2. i \in 1 .. n /\ dones[i] \in Nat /\ d \in Nat /\ h \in Nat
      <4>1. i \in 1 .. n
        BY <1>3
      <4>2. dones[i] \in 1 .. Hooks /\ d \in 1 .. Hooks
        BY <1>3, <4>1, <1>13
      <4> HIDE DEF d
      <4> QED BY <4>1, <4>2, ConstantsAssumption
    <3>3. dones[i] < d
      BY <1>3, <1>4, <3>2
    <3>4. j # n
      <4> SUFFICES ASSUME j = n PROVE FALSE
        OBVIOUS
      <4>1. d = h
        BY <3>1
      <4> HIDE DEF d
      <4> QED BY <3>2, <3>3, <4>1
    <3>5. j \in 1 .. n - 1
      BY <1>3, <3>4
    <3>6. dones'[j] = h
      BY <1>3, <3>1, <3>5
    <3> QED BY <3>5, <3>6
  <2> QED BY <1>1, <1>4, <2>1, <2>2, <2>3 DEF Stacked, InAttempt
<1>12. Told'
  <2> SUFFICES ASSUME NEW h \in 1 .. Hooks \ Silent
               PROVE  /\ Len(seen'[h]) \in 0 .. Len(outcomes)
                      /\ \A i \in 1 .. Len(seen'[h]) : seen'[h][i] = outcomes[i]
                      /\ Len(seen'[h]) = IF \E i \in DOMAIN dones' : dones'[i] = h
                                         THEN Len(outcomes) - 1 ELSE Len(outcomes)
    BY <1>1 DEF Told, Panicked, TellingHook, InAttempt
  <2>1. /\ Len(seen[h]) \in 0 .. Len(outcomes)
        /\ \A i \in 1 .. Len(seen[h]) : seen[h][i] = outcomes[i]
        /\ Len(seen[h]) = IF \E i \in 1 .. n : dones[i] = h
                          THEN Len(outcomes) - 1 ELSE Len(outcomes)
    BY <1>1, <1>3 DEF Told, Panicked, TellingHook
  <2>2. err = outcomes[Len(outcomes)]
    BY <1>1 DEF Failures, AfterAttempt
  <2>3. seen[h] \in Seq(Outcomes) /\ Len(outcomes) \in Nat /\ Len(seen[h]) \in Nat
    BY <1>2 DEF TypeOK
  <2> HIDE DEF IInv
  <2>4. CASE h = d
    <3>1. seen'[h] = Append(seen[h], err)
      BY <1>1, <1>2, <1>13, <2>4
    <3>2. Len(seen[h]) = Len(outcomes) - 1
      BY <1>3, <2>1, <2>4
    <3>3. /\ Len(seen'[h]) = Len(outcomes)
          /\ \A i \in 1 .. Len(seen[h]) : seen'[h][i] = seen[h][i]
          /\ seen'[h][Len(outcomes)] = err
      BY <1>2, <2>3, <3>1, <3>2, Appended
    <3>4. ~ \E i \in DOMAIN dones' : dones'[i] = h
      <4> SUFFICES ASSUME NEW i \in 1 .. n - 1, dones[i] = d PROVE FALSE
        BY <1>3, <2>4
      <4>1. dones[i] < d /\ d \in Nat
        <5>1. i \in 1 .. n /\ n \in 1 .. n /\ i < n
          BY <1>3
        <5>2. dones[i] < dones[n]
          BY <1>4, <5>1
        <5> QED BY <1>13, <5>2
      <4> QED BY <4>1
    <3>5. \A i \in 1 .. Len(outcomes) : seen'[h][i] = outcomes[i]
      BY <2>1, <2>2, <2>3, <3>2, <3>3
    <3> QED BY <2>3, <3>3, <3>4, <3>5
  <2>5. CASE h # d
    <3>1. seen'[h] = seen[h]
      BY <1>1, <1>2, <1>13, <2>5
    <3>2. (\E i \in DOMAIN dones' : dones'[i] = h) <=> (\E i \in 1 .. n : dones[i] = h)
      <4>1. ASSUME NEW i \in 1 .. n, dones[i] = h PROVE \E j \in DOMAIN dones' : dones'[j] = h
        <5>1. i # n
          BY <2>5, <4>1
        <5> QED BY <1>3, <4>1, <5>1
      <4>2. ASSUME NEW i \in DOMAIN dones', dones'[i] = h PROVE \E j \in 1 .. n : dones[j] = h
        BY <1>3, <4>2
      <4> QED BY <4>1, <4>2
    <3> QED BY <2>1, <3>1, <3>2
  <2> QED BY <2>4, <2>5
<1> QED BY <1>5, <1>6, <1>7, <1>8, <1>9, <1>10, <1>11, <1>12

LEMMA NextIInv ==
    ASSUME IInv, [Next]_vars PROVE IInv'
<1>1. ASSUME NEW o \in Ops, Start(o) PROVE IInv'
  BY <1>1, StartIInv
<1>2. CASE Before
  BY <1>2, BeforeIInv
<1>3. CASE AllBefore
  BY <1>3, AllBeforeIInv
<1>4. CASE Deliver
  BY <1>4, DeliverIInv
<1>5. ASSUME NEW e \in Outcomes, ReadEnds(e) PROVE IInv'
  BY <1>5, ReadEndsIInv
<1>6. ASSUME NEW e \in Errors, CallbackFails(e) PROVE IInv'
  BY <1>6, CallbackFailsIInv
<1>7. ASSUME NEW e \in Outcomes, NEW effect \in 0 .. 1, WriteEnds(e, effect) PROVE IInv'
  BY <1>7, WriteEndsIInv
<1>8. CASE Done
  BY <1>8, DoneIInv
<1>9. CASE AllDone
  BY <1>9, AllDoneIInv
<1>10. CASE Decide
  BY <1>10, DecideIInv
<1>11. CASE TimerFires
  BY <1>11, TimerFiresIInv
<1>12. CASE WaitCancelled
  BY <1>12, WaitCancelledIInv
<1>13. CASE Cancel
  BY <1>13, CancelIInv
<1>14. CASE Panic
  BY <1>14, PanicIInv
<1>15. CASE UNCHANGED vars
  BY <1>15, StutterIInv
<1> QED
  BY <1>1, <1>2, <1>3, <1>4, <1>5, <1>6, <1>7, <1>8, <1>9, <1>10, <1>11, <1>12,
     <1>13, <1>14, <1>15 DEF Next, Run

LEMMA AlwaysIInv == Spec => []IInv
<1>1. IInv /\ [Next]_vars => IInv'
  BY NextIInv
<1> QED BY <1>1, InitIInv, PTL DEF Spec

-------------------------------------------------------------------------------
(* What follows. *)

\* Every variable of a call has its type, and the number of the attempt is
\* below the policy's number of attempts.
THEOREM TypeCorrect == Spec => []TypeOK
<1>1. IInv => TypeOK
  BY DEF IInv
<1> QED BY <1>1, AlwaysIInv, PTL

\* However many hooks are registered, and whichever of them return no done,
\* they nest, and each is told of every attempt of a call once: the done
\* functions still to be called are those of the outer hooks (Stacked), each
\* one error short (Told).
THEOREM HooksAlwaysNest == Spec => []HooksNest
<1>1. IInv => HooksNest
  <2> SUFFICES ASSUME IInv, NEW h \in 1 .. Hooks \ Silent
               PROVE  /\ seen[h] = SubSeq(outcomes, 1, Len(seen[h]))
                      /\ \A g \in h .. Hooks \ Silent : Len(seen[h]) <= Len(seen[g])
                      /\ Returned => seen[h] = outcomes
    BY DEF HooksNest
  <2>1. h \in 1 .. Hooks /\ Hooks \in Nat
    BY ConstantsAssumption
  <2>2. seen[h] \in Seq(Outcomes) /\ outcomes \in Seq(Outcomes)
    BY <2>1 DEF IInv, TypeOK
  <2>3. /\ Len(seen[h]) \in 0 .. Len(outcomes)
        /\ \A i \in 1 .. Len(seen[h]) : seen[h][i] = outcomes[i]
    BY DEF IInv, Told
  <2>4. seen[h] = SubSeq(outcomes, 1, Len(seen[h]))
    BY <2>2, <2>3
  <2>5. ASSUME NEW g \in h .. Hooks \ Silent PROVE Len(seen[h]) <= Len(seen[g])
    <3>1. g \in 1 .. Hooks \ Silent /\ h <= g
      BY <2>1
    <3>2. Len(outcomes) \in Nat
      BY <2>2
    <3>3. CASE Len(seen[h]) = Len(outcomes) /\ Len(seen[g]) = Len(outcomes)
      BY <3>2, <3>3
    <3>4. CASE \A f \in 1 .. Hooks \ Silent : TellingHook(f)
      <4>1. \A i \in DOMAIN dones, f \in 1 .. Hooks \ Silent :
               f < dones[i] => \E j \in DOMAIN dones : dones[j] = f
        BY DEF IInv, Stacked
      <4>2. \A f \in 1 .. Hooks \ Silent :
               Len(seen[f]) = IF \E i \in DOMAIN dones : dones[i] = f
                             THEN Len(outcomes) - 1 ELSE Len(outcomes)
        BY <3>4 DEF TellingHook
      <4>3. (\E i \in DOMAIN dones : dones[i] = g) => \E j \in DOMAIN dones : dones[j] = h
        <5> SUFFICES ASSUME NEW i \in DOMAIN dones, dones[i] = g, h # g
                     PROVE  \E j \in DOMAIN dones : dones[j] = h
          OBVIOUS
        <5>1. h < dones[i]
          BY <2>1, <3>1
        <5> QED BY <4>1, <5>1
      <4> QED BY <3>1, <3>2, <4>2, <4>3
    <3>5. CASE pc = "panicked"
      BY <3>1, <3>3, <3>4, <3>5 DEF IInv, Told, Panicked
    <3>6. CASE pc # "panicked"
      BY <3>1, <3>3, <3>4, <3>6 DEF IInv, Told, TypeOK, InAttempt
    <3> QED BY <3>5, <3>6
  <2>6. ASSUME Returned PROVE seen[h] = outcomes
    <3>1. Len(seen[h]) = Len(outcomes)
      BY <2>6 DEF IInv, Told, Returned
    <3> QED BY <2>2, <2>3, <3>1
  <2> QED BY <2>4, <2>5, <2>6
<1> QED BY <1>1, AlwaysIInv, PTL

\* A write is not repeated unless the policy says so: its bound is one attempt,
\* and an attempt applies it at most once (Effects).
THEOREM WritesOnce == Spec => []WriteAtMostOnce
<1>1. IInv => WriteAtMostOnce
  <2> SUFFICES ASSUME IInv, ~RetryWrites PROVE applied <= 1
    BY DEF WriteAtMostOnce
  <2>1. CASE op = "execute"
    <3>1. Limit(op, comments) = 1
      BY <2>1 DEF Limit, IsRead
    <3> QED BY <3>1 DEF IInv, Counted, Effects
  <2>2. CASE op # "execute"
    BY <2>2 DEF IInv, Effects
  <2> QED BY <2>1, <2>2
<1> QED BY <1>1, AlwaysIInv, PTL

\* The attempts of a call are at most those of the policy, only a retryable
\* error is followed by one, and the answer is the last one's.
THEOREM AnswersTruthfully == Spec => []AnswerOfLastAttempt
<1>1. IInv => AnswerOfLastAttempt
  <2> SUFFICES ASSUME IInv PROVE AnswerOfLastAttempt
    OBVIOUS
  <2>1. attempt \in 0 .. MaxAttempts - 1 /\ MaxAttempts \in Nat
    BY ConstantsAssumption DEF IInv, TypeOK, MaxAttempts
  <2>2. Len(outcomes) \in 0 .. attempt + 1
    BY DEF IInv, Counted
  <2>3. Len(outcomes) <= MaxAttempts
    BY <2>1, <2>2
  <2> QED BY <2>3 DEF IInv, Failures, AnswerOfLastAttempt
<1> QED BY <1>1, AlwaysIInv, PTL

\* The context ends the attempts: one more at most begins after it has ended,
\* for a wait begins only while it has not (Waits).
THEOREM CancelEnds == Spec => []CancelEndsRetries
<1>1. IInv => CancelEndsRetries
  BY DEF IInv, Waits, CancelEndsRetries
<1> QED BY <1>1, AlwaysIInv, PTL

\* What query returns is the rows of one attempt, for results of any length.
THEOREM QueryOfOneAttempt == Spec => []QueryRowsOfOneAttempt
<1>1. IInv => QueryRowsOfOneAttempt
  BY DEF IInv, Rows, QueryRowsOfOneAttempt
<1> QED BY <1>1, AlwaysIInv, PTL

-------------------------------------------------------------------------------
(* Reads. *)

\* A retryable error is returned, the context alive, by the last attempt only.
UsesAll == Returned /\ reply = "retryable" /\ ~cancelled => LastAttempt

LEMMA NextUsesAll ==
    ASSUME UsesAll, [Next]_vars PROVE UsesAll'
<1>1. ASSUME NEW o \in Ops, Start(o) PROVE UsesAll'
  BY <1>1 DEF UsesAll, Returned, Start, BeginAttempt
<1>2. CASE Before \/ AllBefore
  BY <1>2 DEF UsesAll, Returned, Before, AllBefore
<1>3. CASE Deliver
  BY <1>3 DEF UsesAll, Returned, Deliver
<1>4. ASSUME NEW e \in Outcomes, Finish(e) PROVE UsesAll'
  BY <1>4 DEF UsesAll, Returned, Finish
<1>5. ASSUME NEW e \in Outcomes, ReadEnds(e) PROVE UsesAll'
  BY <1>4, <1>5 DEF ReadEnds
<1>6. ASSUME NEW e \in Errors, CallbackFails(e) PROVE UsesAll'
  BY <1>4, <1>6 DEF CallbackFails, Outcomes
<1>7. ASSUME NEW e \in Outcomes, NEW effect \in 0 .. 1, WriteEnds(e, effect) PROVE UsesAll'
  BY <1>4, <1>7 DEF WriteEnds
<1>8. CASE Done \/ AllDone
  BY <1>8 DEF UsesAll, Returned, Done, AllDone
<1>9. CASE Decide
  BY <1>9 DEF UsesAll, Returned, Decide, GiveUp, LastAttempt, history
<1>10. CASE TimerFires \/ WaitCancelled
  BY <1>10 DEF UsesAll, Returned, TimerFires, BeginAttempt, WaitCancelled
<1>11. CASE Cancel \/ Panic
  BY <1>11 DEF UsesAll, Returned, LastAttempt, Cancel, Panic
<1>12. CASE UNCHANGED vars
  BY <1>12 DEF UsesAll, Returned, LastAttempt, vars
<1> QED
  BY <1>1, <1>2, <1>3, <1>5, <1>6, <1>7, <1>8, <1>9, <1>10, <1>11, <1>12 DEF Next, Run

\* A call that gives up on a retryable error has used the attempts it has: all
\* of the policy's if it may be repeated, one if not, whatever their number and
\* the hooks.  A read of a repository that writes comments has one.
THEOREM ReadsAreEligible == Spec => []ReadsEligible
<1>1. Init => UsesAll
  BY DEF Init, UsesAll, Returned
<1>2. UsesAll /\ [Next]_vars => UsesAll'
  BY NextUsesAll
<1>3. IInv /\ UsesAll => ReadsEligible
  <2> DEFINE Bound == IF RetryWrites \/ (op # "execute" /\ ~comments) THEN MaxAttempts ELSE 1
  <2> SUFFICES ASSUME IInv, UsesAll, Returned, reply = "retryable", ~cancelled
               PROVE  Len(outcomes) = Bound
    BY DEF ReadsEligible
  <2>1. Limit(op, comments) = Bound
    BY ConstantsAssumption DEF Limit, IsRead, MaxAttempts
  <2>2. attempt = Limit(op, comments) - 1 /\ attempt \in Nat
    BY DEF UsesAll, LastAttempt, IInv, TypeOK
  <2>3. Len(outcomes) = attempt + 1
    BY DEF IInv, Counted
  <2>4. Bound \in Nat
    BY ConstantsAssumption DEF MaxAttempts
  <2> HIDE DEF Bound
  <2> QED BY <2>1, <2>2, <2>3, <2>4
<1> QED BY <1>1, <1>2, <1>3, AlwaysIInv, PTL DEF Spec
===============================================================================
