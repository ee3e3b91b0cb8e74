--------------------------- MODULE MethodNameProofs ---------------------------
(***************************************************************************)
(* Theorems about the parser of method names, for all entities and names   *)
(* of any length: what NameSpelling spells, Parse reads.                   *)
(***************************************************************************)
EXTENDS NameSpelling, StepLemmas, SequenceTheorems

-------------------------------------------------------------------------------
(* Suffixes. *)

\* IsSuffix, piece by piece.
LEMMA SuffixPieces ==
    ASSUME NEW X, NEW s \in Seq(X), NEW t \in Seq(X)
    PROVE  IsSuffix(t, s) <=> Len(t) <= Len(s) /\ \A i \in 1 .. Len(t) : t[i] = s[Len(s) - Len(t) + i]
<1> DEFINE m == Len(t)
           n == Len(s)
           rt == Reverse(t)
           rs == Reverse(s)
<1>1. m \in Nat /\ n \in Nat
  OBVIOUS
<1>2. rt \in Seq(X) /\ Len(rt) = m /\ \A i \in 1 .. m : rt[i] = t[m - i + 1]
  BY <1>1 DEF Reverse
<1>3. rs \in Seq(X) /\ Len(rs) = n /\ \A i \in 1 .. n : rs[i] = s[n - i + 1]
  BY <1>1 DEF Reverse
<1>4. IsSuffix(t, s) <=> m <= n /\ SubSeq(rt, 1, m) = SubSeq(rs, 1, m)
  BY <1>2, <1>3 DEF IsSuffix, IsPrefix
<1> HIDE DEF rt, rs
<1> SUFFICES ASSUME m <= n
             PROVE  SubSeq(rt, 1, m) = SubSeq(rs, 1, m) <=> \A i \in 1 .. m : t[i] = s[n - m + i]
  BY <1>4
<1>5. /\ SubSeq(rt, 1, m) \in Seq(X) /\ SubSeq(rs, 1, m) \in Seq(X)
      /\ Len(SubSeq(rt, 1, m)) = m /\ Len(SubSeq(rs, 1, m)) = m
      /\ \A i \in 1 .. m : SubSeq(rt, 1, m)[i] = t[m - i + 1] /\ SubSeq(rs, 1, m)[i] = s[n - i + 1]
  BY <1>1, <1>2, <1>3
<1>6. ASSUME SubSeq(rt, 1, m) = SubSeq(rs, 1, m), NEW i \in 1 .. m PROVE t[i] = s[n - m + i]
  <2>1. m - i + 1 \in 1 .. m /\ m - (m - i + 1) + 1 = i /\ n - (m - i + 1) + 1 = n - m + i
    BY <1>1
  <2> QED BY <1>5, <1>6, <2>1
<1>7. ASSUME \A i \in 1 .. m : t[i] = s[n - m + i] PROVE SubSeq(rt, 1, m) = SubSeq(rs, 1, m)
  <2>1. ASSUME NEW i \in 1 .. m PROVE t[m - i + 1] = s[n - i + 1]
    <3>1. m - i + 1 \in 1 .. m /\ n - m + (m - i + 1) = n - i + 1
      BY <1>1
    <3> QED BY <1>7, <3>1
  <2> QED BY <1>5, <2>1, SeqEqual
<1> QED BY <1>6, <1>7

\* What Trim leaves of a text with the suffix.
LEMMA TrimSuffix ==
    ASSUME NEW X, NEW s \in Seq(X), NEW t \in Seq(X)
    PROVE  IsSuffix(t, s \o t) /\ Trim(s \o t, t) = s
<1>1. s \o t \in Seq(X) /\ Len(s \o t) = Len(s) + Len(t) /\ Len(s) \in Nat /\ Len(t) \in Nat
  OBVIOUS
<1>2. ASSUME NEW i \in 1 .. Len(t) PROVE t[i] = (s \o t)[Len(s \o t) - Len(t) + i]
  <2>1. Len(s \o t) - Len(t) + i = Len(s) + i /\ Len(s) + i \in 1 .. Len(s) + Len(t)
    BY <1>1
  <2>2. ~(Len(s) + i <= Len(s)) /\ Len(s) + i - Len(s) = i
    BY <1>1
  <2>3. (s \o t)[Len(s) + i] = t[i]
    BY <2>1, <2>2, ConcatProperties
  <2> QED BY <2>1, <2>3
<1>3. IsSuffix(t, s \o t)
  <2> DEFINE w == s \o t
  <2>1. w \in Seq(X) /\ Len(t) <= Len(w) /\ \A i \in 1 .. Len(t) : t[i] = w[Len(w) - Len(t) + i]
    BY <1>1, <1>2
  <2> HIDE DEF w
  <2>2. IsSuffix(t, w)
    BY <2>1, SuffixPieces
  <2> QED BY <2>2 DEF w
<1>4. Trim(s \o t, t) = SubSeq(s \o t, 1, Len(s))
  BY <1>1, <1>3 DEF Trim
<1>5. SubSeq(s \o t, 1, Len(s)) = s
  <2> DEFINE u == SubSeq(s \o t, 1, Len(s))
  <2>1. u \in Seq(X) /\ Len(u) = Len(s) /\ \A i \in 1 .. Len(s) : u[i] = s[i]
    BY <1>1, ConcatProperties
  <2> HIDE DEF u
  <2>2. u = s
    BY <2>1, SeqEqual
  <2> QED BY <2>2 DEF u
<1> QED BY <1>3, <1>4, <1>5

\* A text with a suffix is what is left with the suffix after it.
LEMMA SuffixIs ==
    ASSUME NEW X, NEW s \in Seq(X), NEW t \in Seq(X), IsSuffix(t, s)
    PROVE  /\ Len(s) - Len(t) \in 0 .. Len(s)
           /\ Trim(s, t) = SubSeq(s, 1, Len(s) - Len(t))
           /\ Trim(s, t) \in Seq(X)
           /\ s = Trim(s, t) \o t
<1> DEFINE n == Len(s) - Len(t)
           u == SubSeq(s, 1, n)
<1>1. n \in 0 .. Len(s) /\ n + Len(t) = Len(s) /\ Len(s) \in Nat /\ Len(t) \in Nat /\ \A i \in 1 .. Len(t) : t[i] = s[n + i]
  BY SuffixPieces
<1>2. Trim(s, t) = u
  BY DEF Trim
<1>3. u \in Seq(X) /\ Len(u) = n /\ \A i \in 1 .. n : u[i] = s[i]
  BY <1>1
<1> HIDE DEF u, n
<1>4. u \o t \in Seq(X) /\ Len(u \o t) = Len(s)
  BY <1>1, <1>3, ConcatProperties
<1>5. ASSUME NEW i \in 1 .. Len(s) PROVE (u \o t)[i] = s[i]
  <2>1. CASE i <= n
    BY <1>1, <1>3, <2>1, ConcatProperties
  <2>2. CASE i > n
    <3>1. i - n \in 1 .. Len(t) /\ n + (i - n) = i
      BY <1>1, <2>2
    <3>2. (u \o t)[i] = t[i - n]
      BY <1>1, <1>3, <1>4, <2>2, ConcatProperties
    <3> QED BY <1>1, <3>1, <3>2
  <2>3. i <= n \/ i > n
    BY <1>1
  <2> QED BY <2>1, <2>2, <2>3
<1>6. u \o t = s
  BY <1>4, <1>5, SeqEqual
<1> QED BY <1>1, <1>2, <1>3, <1>6 DEF u, n

-------------------------------------------------------------------------------
(* Texts that are cut at a token. *)

\* A function that takes the steps next wherever it is in T is in T.
Stepping(T, base, n, next, f) ==
    /\ DOMAIN f = 0 .. n /\ f = [k \in DOMAIN f |-> f[k]] /\ f[0] = base
    /\ \A k \in 1 .. n : f[k - 1] \in T => f[k] = next[k][f[k - 1]]

\* Steps on a set stay in it.
LEMMA StepsStay ==
    ASSUME NEW T, NEW base \in T, NEW n \in Nat, NEW next \in [1 .. n -> [T -> T]], NEW f,
           Stepping(T, base, n, next, f)
    PROVE  f \in [0 .. n -> T]
<1> DEFINE S == {k \in Nat : k <= n => f[k] \in T}
<1> USE DEF Stepping
<1>1. 0 \in S
  OBVIOUS
<1>2. ASSUME NEW k \in Nat, k \in S PROVE k + 1 \in S
  <2> SUFFICES ASSUME k + 1 <= n PROVE f[k + 1] \in T
    OBVIOUS
  <2>1. f[k] \in T /\ k + 1 \in 1 .. n /\ (k + 1) - 1 = k
    BY <1>2
  <2>2. f[k + 1] = next[k + 1][f[k]] /\ next[k + 1] \in [T -> T]
    BY <2>1
  <2> QED BY <2>1, <2>2
<1> HIDE DEF S
<1>3. Nat \subseteq S
  BY <1>1, <1>2, Induction
<1>4. \A k \in 0 .. n : f[k] \in T
  BY <1>3 DEF S
<1> QED BY <1>4

\* SplitToken, one piece after another.
Scanned(X, s, tok) ==
    \E g \in [0 .. Len(s) -> Seq(Seq(X)) \ {<< >>}] :
        /\ g[0] = << << >> >>
        /\ \A k \in 1 .. Len(s) : g[k] = NextPiece(g[k - 1], s, k, tok)
        /\ SplitToken(s, tok) = g[Len(s)]

\* The next piece leaves a sequence of segments that is not empty.
LEMMA NextPieceIn ==
    ASSUME NEW X, NEW s \in Seq(X), NEW tok, NEW k \in 1 .. Len(s),
           NEW u \in Seq(Seq(X)) \ {<< >>}
    PROVE  NextPiece(u, s, k, tok) \in Seq(Seq(X)) \ {<< >>}
<1>1. Append(u, << >>) \in Seq(Seq(X)) \ {<< >>}
  BY AppendProperties
<1>2. Front(u) \in Seq(Seq(X)) /\ Last(u) \in Seq(X) /\ s[k] \in X
  BY DEF Front, Last
<1>3. Append(Last(u), s[k]) \in Seq(X)
  BY <1>2
<1>4. Append(Front(u), Append(Last(u), s[k])) \in Seq(Seq(X)) \ {<< >>}
  <2> DEFINE Y == Seq(X)
             v == Append(Last(u), s[k])
             w == Front(u)
  <2>1. w \in Seq(Y) /\ v \in Y
    BY <1>2, <1>3
  <2> HIDE DEF Y, v, w
  <2>2. Append(w, v) \in Seq(Y) /\ Append(w, v) # << >>
    BY <2>1, AppendProperties
  <2> QED BY <2>2 DEF Y, v, w
<1> QED BY <1>1, <1>4 DEF NextPiece

\* SplitToken goes through the text piece by piece.
LEMMA SplitSteps ==
    ASSUME NEW X, NEW s \in Seq(X), NEW tok
    PROVE  Scanned(X, s, tok)
<1> DEFINE n == Len(s)
           T == Seq(Seq(X)) \ {<< >>}
           base == << << >> >>
           next == [k \in 1 .. n |-> [u \in T |-> NextPiece(u, s, k, tok)]]
           Made(f) == f = [i \in 0 .. Len(s) |-> IF i = 0 THEN << << >> >> ELSE NextPiece(f[i - 1], s, i, tok)]
<1>1. n \in Nat /\ base \in T
  OBVIOUS
<1>2. \A k \in 1 .. n : \A u \in T : NextPiece(u, s, k, tok) \in T
  BY NextPieceIn
<1> HIDE DEF T, base
<1>3. next \in [1 .. n -> [T -> T]] /\ \A k \in 1 .. n, u \in T : next[k][u] = NextPiece(u, s, k, tok)
  BY <1>2
<1> HIDE DEF next
<1>4. \E f : Made(f)
  <2>1. Lead(T, base, n, next)
    BY <1>1, <1>3, StepByStep
  <2>2. PICK g \in [0 .. n -> T] : g[0] = base /\ \A k \in 1 .. n : g[k] = next[k][g[k - 1]]
    BY <2>1 DEF Lead
  <2>3. ASSUME NEW i \in 0 .. n PROVE g[i] = IF i = 0 THEN base ELSE NextPiece(g[i - 1], s, i, tok)
    <3>1. CASE i = 0
      BY <2>2, <3>1
    <3>2. CASE i # 0
      <4>1. i \in 1 .. n /\ i - 1 \in 0 .. n
        BY <1>1, <3>2
      <4> QED BY <1>3, <2>2, <3>2, <4>1
    <3> QED BY <3>1, <3>2
  <2>4. Made(g)
    BY <2>3 DEF base
  <2> HIDE DEF Made
  <2> QED BY <2>4
<1> DEFINE f == CHOOSE f : Made(f)
<1>5. Made(f)
  BY <1>4, Zenon
<1>6. SplitToken(s, tok) = f[n]
  BY DEF SplitToken
<1> HIDE DEF f
<1>7. DOMAIN f = 0 .. n /\ f = [k \in DOMAIN f |-> f[k]] /\ f[0] = base
  BY <1>1, <1>5 DEF base
<1>8. ASSUME NEW k \in 1 .. n PROVE f[k] = NextPiece(f[k - 1], s, k, tok)
  <2>1. k \in 0 .. n /\ k # 0
    BY <1>1
  <2> QED BY <1>5, <2>1
<1>9. f \in [0 .. n -> T]
  <2>1. \A k \in 1 .. n : f[k - 1] \in T => f[k] = next[k][f[k - 1]]
    BY <1>3, <1>8
  <2>2. Stepping(T, base, n, next, f)
    BY <1>7, <2>1 DEF Stepping
  <2> HIDE DEF Made, n
  <2> QED BY <1>1, <1>3, <2>2, StepsStay
<1> QED BY <1>6, <1>7, <1>8, <1>9 DEF Scanned, T, base

\* What Append puts at the end is the last element.
LEMMA FrontLast ==
    ASSUME NEW Y, NEW v \in Seq(Y), NEW w \in Y
    PROVE  Append(v, w) \in Seq(Y) \ {<< >>} /\ Front(Append(v, w)) = v /\ Last(Append(v, w)) = w
<1> DEFINE a == Append(v, w)
           u == SubSeq(a, 1, Len(v))
<1>1. /\ a \in Seq(Y) /\ a # << >> /\ Len(a) = Len(v) + 1 /\ Len(v) \in Nat
      /\ \A i \in 1 .. Len(v) : a[i] = v[i]
      /\ a[Len(v) + 1] = w
  BY AppendProperties
<1> HIDE DEF a
<1>2. Len(a) - 1 = Len(v)
  BY <1>1
<1>3. Front(a) = u
  BY <1>2 DEF Front
<1>4. u \in Seq(Y) /\ Len(u) = Len(v) /\ \A i \in 1 .. Len(v) : u[i] = v[i]
  BY <1>1
<1> HIDE DEF u
<1>5. u = v
  BY <1>4, SeqEqual
<1>6. Last(a) = w
  BY <1>1 DEF Last
<1> QED BY <1>1, <1>3, <1>5, <1>6 DEF a

\* A beginning that is one longer has the next element.
LEMMA PrefixNext ==
    ASSUME NEW Y, NEW v \in Seq(Y), NEW m \in Nat, m < Len(v)
    PROVE  /\ SubSeq(v, 1, m) \in Seq(Y) /\ Len(SubSeq(v, 1, m)) = m
           /\ SubSeq(v, 1, m + 1) = Append(SubSeq(v, 1, m), v[m + 1])
<1> DEFINE a == SubSeq(v, 1, m)
           b == SubSeq(v, 1, m + 1)
<1>1. a \in Seq(Y) /\ Len(a) = m /\ \A i \in 1 .. m : a[i] = v[i]
  OBVIOUS
<1>2. b \in Seq(Y) /\ Len(b) = m + 1 /\ \A i \in 1 .. m + 1 : b[i] = v[i]
  OBVIOUS
<1>3. v[m + 1] \in Y
  OBVIOUS
<1> HIDE DEF a, b
<1>4. Append(a, v[m + 1]) \in Seq(Y) /\ Len(Append(a, v[m + 1])) = m + 1
  BY <1>1, <1>3
<1>5. ASSUME NEW i \in 1 .. m + 1 PROVE Append(a, v[m + 1])[i] = v[i]
  <2>1. CASE i \in 1 .. m
    BY <1>1, <1>3, <2>1, AppendProperties
  <2>2. CASE i = m + 1
    BY <1>1, <1>3, <2>2, AppendProperties
  <2>3. i \in 1 .. m \/ i = m + 1
    OBVIOUS
  <2> QED BY <2>1, <2>2, <2>3
<1>6. b = Append(a, v[m + 1])
  BY <1>2, <1>4, <1>5, SeqEqual
<1> QED BY <1>1, <1>6 DEF a, b

\* A segment that is read without a cut: the token is in other words only.
Uncut(seg, tok) ==
    /\ seg # << >>
    /\ seg[1] \notin Lower
    /\ \A i \in DOMAIN seg : seg[i] = tok => i < Len(seg) /\ seg[i + 1] \in Lower

\* The segment stands in s after piece e.
StandsAt(seg, s, e) == e + Len(seg) <= Len(s) /\ \A i \in 1 .. Len(seg) : s[e + i] = seg[i]

\* Function g gives the segments read up to each piece.
Scans(g, s, tok) == \A k \in 1 .. Len(s) : g[k] = NextPiece(g[k - 1], s, k, tok)

\* A segment that begins after piece e of s becomes the last of the segments.
Begun(X, s, tok, v, seg, e, g) ==
    /\ s \in Seq(X) /\ seg \in Seq(X) /\ v \in Seq(Seq(X)) /\ e \in Nat
    /\ Uncut(seg, tok) /\ StandsAt(seg, s, e)
    /\ Scans(g, s, tok) /\ g[e] = Append(v, << >>)

\* Once a segment has begun, its pieces are all put into it.
LEMMA ReadSegment ==
    ASSUME NEW X, NEW s, NEW tok, NEW v, NEW seg, NEW e, NEW g, Begun(X, s, tok, v, seg, e, g)
    PROVE  g[e + Len(seg)] = Append(v, seg)
<1> USE DEF Begun, StandsAt, Scans
<1> DEFINE n == Len(seg)
           S == {m \in Nat : m <= n => g[e + m] = Append(v, SubSeq(seg, 1, m))}
<1>0. n \in Nat /\ Len(s) \in Nat /\ DOMAIN seg = 1 .. n
  OBVIOUS
<1>1. 0 \in S
  <2>1. SubSeq(seg, 1, 0) = << >> /\ e + 0 = e
    BY SubSeqEmpty
  <2> QED BY <2>1
<1>2. ASSUME NEW m \in Nat, m \in S PROVE m + 1 \in S
  <2> SUFFICES ASSUME m + 1 <= n PROVE g[e + (m + 1)] = Append(v, SubSeq(seg, 1, m + 1))
    OBVIOUS
  <2> DEFINE k == e + (m + 1)
             w == SubSeq(seg, 1, m)
  <2>1. k \in 1 .. Len(s) /\ k - 1 = e + m /\ s[k] = seg[m + 1] /\ m + 1 \in 1 .. n /\ k \in Nat
    BY <1>0
  <2>2. g[k - 1] = Append(v, w)
    BY <1>2, <2>1
  <2>3. w \in Seq(X) /\ SubSeq(seg, 1, m + 1) = Append(w, seg[m + 1])
    BY <1>0, PrefixNext
  <2>4. ~Cuts(s, k, tok)
    <3> SUFFICES ASSUME s[k] = tok PROVE k < Len(s) /\ s[k + 1] \in Lower
      BY DEF Cuts
    <3>1. m + 1 < n /\ seg[(m + 1) + 1] \in Lower
      BY <1>0, <2>1 DEF Uncut
    <3>2. k + 1 = e + (m + 2) /\ m + 2 \in 1 .. n /\ (m + 1) + 1 = m + 2 /\ k < Len(s)
      BY <1>0, <3>1
    <3>3. s[k + 1] = seg[m + 2]
      BY <3>2
    <3> QED BY <3>1, <3>2, <3>3
  <2> HIDE DEF k, w
  <2>5. Front(Append(v, w)) = v /\ Last(Append(v, w)) = w
    <3> DEFINE Y == Seq(X)
    <3>1. v \in Seq(Y) /\ w \in Y
      BY <2>3
    <3> HIDE DEF Y
    <3> QED BY <3>1, FrontLast
  <2>6. g[k] = NextPiece(Append(v, w), s, k, tok)
    BY <2>1, <2>2
  <2>7. g[k] = Append(v, Append(w, s[k]))
    BY <2>4, <2>5, <2>6 DEF NextPiece
  <2> QED BY <2>1, <2>3, <2>7 DEF k
<1> HIDE DEF S
<1>3. n \in S
  BY <1>0, <1>1, <1>2, Induction
<1>4. SubSeq(seg, 1, n) = seg
  BY SubSeqFull
<1> QED BY <1>0, <1>3, <1>4 DEF S

\* JoinedBy, one segment after another.
Chained(X, segs, tok) ==
    \E f \in [1 .. Len(segs) -> Seq(X)] :
        /\ f[1] = segs[1]
        /\ \A k \in 2 .. Len(segs) : f[k] = f[k - 1] \o <<tok>> \o segs[k]
        /\ JoinedBy(segs, tok) = f[Len(segs)]

\* JoinedBy joins segment by segment.
LEMMA JoinSteps ==
    ASSUME NEW X, NEW tok \in X, NEW segs \in Seq(Seq(X)), segs # << >>
    PROVE  Chained(X, segs, tok)
<1> DEFINE n == Len(segs)
           T == Seq(X)
           next == [k \in 1 .. n - 1 |-> [u \in T |-> u \o <<tok>> \o segs[k + 1]]]
           Made(f) == f = [k \in 1 .. Len(segs) |->
                              IF k = 1 THEN segs[k] ELSE f[k - 1] \o <<tok>> \o segs[k]]
<1>1. n \in Nat \ {0} /\ n - 1 \in Nat /\ \A k \in 1 .. n : segs[k] \in T
  OBVIOUS
<1>2. \A u \in T, v \in T : u \o <<tok>> \o v \in T
  OBVIOUS
<1> HIDE DEF T
<1>3. /\ next \in [1 .. n - 1 -> [T -> T]]
      /\ \A k \in 1 .. n - 1 : \A u \in T : next[k][u] = u \o <<tok>> \o segs[k + 1]
  <2>1. ASSUME NEW k \in 1 .. n - 1, NEW u \in T PROVE u \o <<tok>> \o segs[k + 1] \in T
    <3>1. k + 1 \in 1 .. n
      BY <1>1
    <3> QED BY <1>1, <1>2, <3>1
  <2> QED BY <2>1
<1> HIDE DEF next
<1>4. \E f : Made(f)
  <2>1. Lead(T, segs[1], n - 1, next)
    <3> DEFINE base == segs[1]
               m == n - 1
    <3>1. base \in T /\ m \in Nat /\ next \in [1 .. m -> [T -> T]]
      BY <1>1, <1>3
    <3> HIDE DEF base, m, Made
    <3>2. Lead(T, base, m, next)
      BY <3>1, StepByStep
    <3> QED BY <3>2 DEF base, m
  <2>2. PICK g \in [0 .. n - 1 -> T] :
           g[0] = segs[1] /\ \A k \in 1 .. n - 1 : g[k] = next[k][g[k - 1]]
    BY <2>1 DEF Lead
  <2> DEFINE f == [k \in 1 .. n |-> g[k - 1]]
  <2>3. ASSUME NEW k \in 1 .. n
        PROVE  f[k] = IF k = 1 THEN segs[k] ELSE f[k - 1] \o <<tok>> \o segs[k]
    <3>1. CASE k = 1
      BY <2>2, <3>1
    <3>2. CASE k # 1
      <4>1. k - 1 \in 1 .. n - 1 /\ k - 1 \in 1 .. n /\ (k - 1) - 1 \in 0 .. n - 1 /\ (k - 1) + 1 = k
        BY <1>1, <3>2
      <4>2. g[k - 1] = next[k - 1][g[(k - 1) - 1]] /\ g[(k - 1) - 1] \in T
        BY <2>2, <4>1
      <4>3. g[k - 1] = g[(k - 1) - 1] \o <<tok>> \o segs[k]
        BY <1>3, <4>1, <4>2
      <4>4. f[k] = g[k - 1] /\ f[k - 1] = g[(k - 1) - 1]
        BY <4>1
      <4> QED BY <3>2, <4>3, <4>4
    <3> QED BY <3>1, <3>2
  <2>4. Made(f)
    BY <2>3
  <2> HIDE DEF Made, f
  <2> QED BY <2>4
<1> DEFINE f == CHOOSE f : Made(f)
<1>5. Made(f)
  BY <1>4, Zenon
<1>6. JoinedBy(segs, tok) = f[n]
  BY DEF JoinedBy
<1> HIDE DEF f
<1>7. DOMAIN f = 1 .. n /\ f = [k \in 1 .. n |-> f[k]] /\ f[1] = segs[1]
  BY <1>1, <1>5
<1>8. ASSUME NEW k \in 2 .. n PROVE f[k] = f[k - 1] \o <<tok>> \o segs[k]
  <2>1. k \in 1 .. n /\ k # 1
    BY <1>1
  <2> QED BY <1>5, <2>1
<1>9. f \in [1 .. n -> T]
  <2> HIDE DEF Made
  <2> DEFINE h == [k \in 0 .. n - 1 |-> f[k + 1]]
  <2>1. ASSUME NEW k \in 1 .. n - 1, h[k - 1] \in T PROVE h[k] = next[k][h[k - 1]]
    <3>1. k + 1 \in 2 .. n /\ (k + 1) - 1 = k /\ k - 1 \in 0 .. n - 1 /\ k \in 0 .. n - 1 /\ (k - 1) + 1 = k
      BY <1>1
    <3>2. f[k + 1] = f[k] \o <<tok>> \o segs[k + 1]
      BY <1>8, <3>1
    <3>3. h[k] = f[k + 1] /\ h[k - 1] = f[k]
      BY <3>1
    <3> QED BY <1>3, <2>1, <3>2, <3>3
  <2>2. Stepping(T, segs[1], n - 1, next, h)
    <3>1. h[0] = segs[1]
      BY <1>1, <1>7
    <3> QED BY <2>1, <3>1 DEF Stepping
  <2>3. h \in [0 .. n - 1 -> T]
    <3> DEFINE base == segs[1]
               m == n - 1
    <3>1. base \in T /\ m \in Nat /\ next \in [1 .. m -> [T -> T]] /\ Stepping(T, base, m, next, h)
      BY <1>1, <1>3, <2>2
    <3> HIDE DEF base, m, h
    <3>2. h \in [0 .. m -> T]
      BY <3>1, StepsStay
    <3> QED BY <3>2 DEF m
  <2> HIDE DEF h
  <2>4. ASSUME NEW k \in 1 .. n PROVE f[k] \in T
    <3>1. k - 1 \in 0 .. n - 1 /\ (k - 1) + 1 = k
      BY <1>1
    <3>2. h[k - 1] = f[k]
      BY <3>1 DEF h
    <3> QED BY <2>3, <3>1, <3>2
  <2> QED BY <1>7, <2>4
<1> QED BY <1>6, <1>7, <1>8, <1>9 DEF Chained, T

\* Two texts and the token between them, piece by piece.
Spliced(X, w, u, tok, v) ==
    /\ w \in Seq(X) /\ Len(w) = Len(u) + 1 + Len(v)
    /\ \A i \in 1 .. Len(u) : w[i] = u[i]
    /\ w[Len(u) + 1] = tok
    /\ \A i \in 1 .. Len(v) : w[Len(u) + 1 + i] = v[i]

\* The pieces of two texts with a token between them.
LEMMA SplicedPieces ==
    ASSUME NEW X, NEW tok \in X, NEW u \in Seq(X), NEW v \in Seq(X)
    PROVE  Spliced(X, u \o <<tok>> \o v, u, tok, v)
<1> DEFINE a == u \o <<tok>>
           w == a \o v
<1>1. Len(u) \in Nat /\ Len(v) \in Nat
  OBVIOUS
<1>2. a \in Seq(X) /\ Len(a) = Len(u) + 1 /\ \A i \in 1 .. Len(u) : a[i] = u[i]
  OBVIOUS
<1>3. a[Len(u) + 1] = tok
  BY <1>1
<1> HIDE DEF a
<1>4. /\ w \in Seq(X) /\ Len(w) = Len(a) + Len(v)
      /\ \A i \in 1 .. Len(a) + Len(v) : w[i] = IF i <= Len(a) THEN a[i] ELSE v[i - Len(a)]
  BY <1>2, ConcatProperties
<1> HIDE DEF w
<1>5. ASSUME NEW i \in 1 .. Len(u) PROVE w[i] = u[i]
  BY <1>1, <1>2, <1>4
<1>6. w[Len(u) + 1] = tok
  BY <1>1, <1>2, <1>3, <1>4
<1>7. ASSUME NEW i \in 1 .. Len(v) PROVE w[Len(u) + 1 + i] = v[i]
  <2>1. /\ Len(u) + 1 + i \in 1 .. Len(a) + Len(v) /\ ~(Len(u) + 1 + i <= Len(a))
        /\ (Len(u) + 1 + i) - Len(a) = i
    BY <1>1, <1>2
  <2> QED BY <1>4, <2>1
<1>8. Len(w) = Len(u) + 1 + Len(v)
  BY <1>1, <1>2, <1>4
<1>9. Spliced(X, w, u, tok, v)
  BY <1>4, <1>5, <1>6, <1>7, <1>8 DEF Spliced
<1> QED BY <1>9 DEF w, a

\* Another token does not cut them either.
LEMMA UncutBetween ==
    ASSUME NEW X, NEW tok \in X, NEW other, other # tok, NEW u \in Seq(X), NEW v \in Seq(X),
           Uncut(u, other), Uncut(v, other)
    PROVE  Uncut(u \o <<tok>> \o v, other)
<1> DEFINE w == u \o <<tok>> \o v
           m == Len(u)
           n == Len(v)
<1>1. m \in Nat \ {0} /\ n \in Nat /\ DOMAIN u = 1 .. m /\ DOMAIN v = 1 .. n
  BY DEF Uncut
<1>2. /\ w \in Seq(X) /\ Len(w) = m + 1 + n
      /\ \A i \in 1 .. m : w[i] = u[i]
      /\ w[m + 1] = tok
      /\ \A i \in 1 .. n : w[m + 1 + i] = v[i]
  <2>1. Spliced(X, w, u, tok, v)
    BY SplicedPieces
  <2> HIDE DEF w
  <2> QED BY <2>1 DEF Spliced
<1> HIDE DEF w, m, n
<1>3. w # << >> /\ DOMAIN w = 1 .. m + 1 + n
  BY <1>1, <1>2
<1>4. w[1] \notin Lower
  <2>1. 1 \in 1 .. m
    BY <1>1
  <2> QED BY <1>2, <2>1 DEF Uncut
<1>5. ASSUME NEW i \in 1 .. m + 1 + n, w[i] = other PROVE i < Len(w) /\ w[i + 1] \in Lower
  <2>1. CASE i <= m
    <3>1. i \in 1 .. m /\ u[i] = other
      BY <1>1, <1>2, <1>5, <2>1
    <3>2. i < m /\ u[i + 1] \in Lower
      BY <1>1, <3>1 DEF Uncut, m
    <3>3. i + 1 \in 1 .. m /\ i < Len(w)
      BY <1>1, <1>2, <3>2
    <3> QED BY <1>2, <3>2, <3>3
  <2>2. CASE i = m + 1
    BY <1>2, <1>5, <2>2
  <2>3. CASE i > m + 1
    <3> DEFINE j == i - (m + 1)
    <3>1. j \in 1 .. n /\ m + 1 + j = i
      BY <1>1, <2>3
    <3> HIDE DEF j
    <3>2. v[j] = other
      BY <1>2, <1>5, <3>1
    <3>3. j < n /\ v[j + 1] \in Lower
      BY <1>1, <3>1, <3>2 DEF Uncut, n
    <3>4. j + 1 \in 1 .. n /\ m + 1 + (j + 1) = i + 1 /\ i < Len(w)
      BY <1>1, <1>2, <3>1, <3>3
    <3>5. w[i + 1] = v[j + 1]
      BY <1>2, <3>4
    <3> QED BY <3>3, <3>4, <3>5
  <2>4. i <= m \/ i = m + 1 \/ i > m + 1
    BY <1>1
  <2> QED BY <2>1, <2>2, <2>3, <2>4
<1>6. Uncut(w, other)
  BY <1>3, <1>4, <1>5 DEF Uncut
<1> QED BY <1>6 DEF w

\* Joined segments begin as the first does and end as the last, and another
\* token does not cut them.
LEMMA JoinKeeps ==
    ASSUME NEW X, NEW tok \in X, NEW other, other # tok, NEW segs \in Seq(Seq(X)), segs # << >>,
           \A k \in 1 .. Len(segs) : Uncut(segs[k], other)
    PROVE  JoinedBy(segs, tok) \in Seq(X) /\ Uncut(JoinedBy(segs, tok), other)
<1> DEFINE n == Len(segs)
<1>1. PICK f \in [1 .. n -> Seq(X)] :
         /\ f[1] = segs[1]
         /\ \A k \in 2 .. n : f[k] = f[k - 1] \o <<tok>> \o segs[k]
         /\ JoinedBy(segs, tok) = f[n]
  <2>1. Chained(X, segs, tok)
    BY JoinSteps
  <2> QED BY <2>1 DEF Chained
<1>2. n \in Nat \ {0} /\ \A k \in 1 .. n : segs[k] \in Seq(X)
  OBVIOUS
<1> DEFINE S == {m \in Nat : m + 1 <= n => Uncut(f[m + 1], other)}
<1> HIDE DEF n
<1>3. 0 \in S
  BY <1>1, <1>2 DEF n
<1>4. ASSUME NEW m \in Nat, m \in S PROVE m + 1 \in S
  <2> SUFFICES ASSUME (m + 1) + 1 <= n PROVE Uncut(f[(m + 1) + 1], other)
    OBVIOUS
  <2> DEFINE k == (m + 1) + 1
  <2>1. k \in 2 .. n /\ k - 1 = m + 1 /\ k \in 1 .. n /\ k - 1 \in 1 .. n
    BY <1>2
  <2>2. Uncut(f[k - 1], other)
    BY <1>2, <1>4, <2>1
  <2> HIDE DEF k
  <2>3. f[k] = f[k - 1] \o <<tok>> \o segs[k]
    BY <1>1, <2>1
  <2>4. Uncut(segs[k], other)
    BY <2>1 DEF n
  <2> DEFINE u == f[k - 1]
             v == segs[k]
  <2>5. u \in Seq(X) /\ v \in Seq(X) /\ Uncut(u, other) /\ Uncut(v, other)
    BY <1>1, <1>2, <2>1, <2>2, <2>4
  <2> HIDE DEF u, v
  <2>6. Uncut(u \o <<tok>> \o v, other)
    BY <2>5, UncutBetween
  <2> QED BY <2>3, <2>6 DEF u, v, k
<1> HIDE DEF S
<1>5. Nat \subseteq S
  BY <1>3, <1>4, Induction
<1>6. n - 1 \in Nat /\ (n - 1) + 1 = n /\ n \in 1 .. n
  BY <1>2
<1>7. Uncut(f[n], other)
  BY <1>5, <1>6 DEF S
<1> QED BY <1>1, <1>6, <1>7

\* What is joined with a token is cut at it: SplitToken gives the segments back.
THEOREM SplitJoined ==
    ASSUME NEW X, NEW tok \in X, NEW segs \in Seq(Seq(X)), segs # << >>,
           \A k \in 1 .. Len(segs) : Uncut(segs[k], tok)
    PROVE  SplitToken(JoinedBy(segs, tok), tok) = segs
<1> DEFINE n == Len(segs)
           s == JoinedBy(segs, tok)
<1>1. PICK f \in [1 .. n -> Seq(X)] :
         /\ f[1] = segs[1]
         /\ \A k \in 2 .. n : f[k] = f[k - 1] \o <<tok>> \o segs[k]
         /\ s = f[n]
  <2>1. Chained(X, segs, tok)
    BY JoinSteps
  <2> QED BY <2>1 DEF Chained
<1>2. n \in Nat \ {0} /\ \A k \in 1 .. n : segs[k] \in Seq(X)
  OBVIOUS
<1>3. \A k \in 1 .. n : Uncut(segs[k], tok)
  OBVIOUS
<1> HIDE DEF n, s
<1>4. s \in Seq(X)
  BY <1>1, <1>2
<1>5. PICK g \in [0 .. Len(s) -> Seq(Seq(X)) \ {<< >>}] :
         /\ g[0] = << << >> >>
         /\ \A k \in 1 .. Len(s) : g[k] = NextPiece(g[k - 1], s, k, tok)
         /\ SplitToken(s, tok) = g[Len(s)]
  <2>1. Scanned(X, s, tok)
    BY <1>4, SplitSteps
  <2> QED BY <2>1 DEF Scanned
<1>6. ASSUME NEW k \in 2 .. n PROVE Spliced(X, f[k], f[k - 1], tok, segs[k])
  <2> DEFINE u == f[k - 1]
             v == segs[k]
  <2>1. u \in Seq(X) /\ v \in Seq(X) /\ f[k] = u \o <<tok>> \o v
    <3>1. k - 1 \in 1 .. n /\ k \in 1 .. n
      BY <1>2
    <3> QED BY <1>1, <1>2, <3>1
  <2> HIDE DEF u, v
  <2>2. Spliced(X, u \o <<tok>> \o v, u, tok, v)
    BY <2>1, SplicedPieces
  <2> QED BY <2>1, <2>2 DEF u, v
<1> DEFINE Begins(k) == Len(f[k]) <= Len(s) /\ \A i \in 1 .. Len(f[k]) : s[i] = f[k][i]
           B == {m \in Nat : m < n => Begins(n - m)}
<1>7. ASSUME NEW k \in 1 .. n PROVE Begins(k)
  <2>1. 0 \in B
    BY <1>1, <1>2, <1>4
  <2>2. ASSUME NEW m \in Nat, m \in B PROVE m + 1 \in B
    <3> SUFFICES ASSUME m + 1 < n PROVE Begins(n - (m + 1))
      OBVIOUS
    <3> DEFINE j == n - m
    <3>1. j \in 2 .. n /\ j \in 1 .. n /\ j - 1 \in 1 .. n /\ j - 1 = n - (m + 1) /\ m < n
      BY <1>2
    <3>2. Begins(j)
      BY <2>2, <3>1
    <3> HIDE DEF j
    <3>3. Len(f[j]) = Len(f[j - 1]) + 1 + Len(segs[j]) /\ \A i \in 1 .. Len(f[j - 1]) : f[j][i] = f[j - 1][i]
      BY <1>6, <3>1 DEF Spliced
    <3>4. Len(f[j - 1]) \in Nat /\ Len(segs[j]) \in Nat /\ Len(s) \in Nat
      BY <1>1, <1>2, <1>4, <3>1
    <3>5. Len(f[j - 1]) <= Len(s) /\ \A i \in 1 .. Len(f[j - 1]) : i \in 1 .. Len(f[j])
      <4> DEFINE a == Len(f[j])
                 b == Len(f[j - 1])
                 c == Len(segs[j])
                 d == Len(s)
      <4>1. a <= d /\ a = b + 1 + c /\ b \in Nat /\ c \in Nat /\ d \in Nat
        BY <3>2, <3>3, <3>4
      <4> HIDE DEF a, b, c, d
      <4>2. b <= d /\ \A i \in 1 .. b : i \in 1 .. a
        BY <4>1
      <4> QED BY <4>2 DEF a, b, d
    <3>6. Begins(j - 1)
      BY <3>2, <3>3, <3>5
    <3> QED BY <3>1, <3>6
  <2> HIDE DEF B
  <2>3. Nat \subseteq B
    BY <2>1, <2>2, Induction
  <2>4. n - k \in Nat /\ n - k < n /\ n - (n - k) = k
    BY <1>2
  <2> HIDE DEF Begins
  <2> QED BY <2>3, <2>4 DEF B
<1> DEFINE S == {m \in Nat : m + 1 <= n => g[Len(f[m + 1])] = SubSeq(segs, 1, m + 1)}
<1>8. 0 \in S
  <2> DEFINE seg == segs[1]
             v == << >>
  <2>1. seg \in Seq(X) /\ Uncut(seg, tok) /\ f[1] = seg /\ v \in Seq(Seq(X)) /\ 1 \in 1 .. n
    BY <1>1, <1>2, <1>3
  <2>2. 0 + Len(seg) = Len(seg) /\ Len(seg) <= Len(s) /\ \A i \in 1 .. Len(seg) : s[0 + i] = seg[i]
    BY <1>7, <2>1
  <2> DEFINE e == 0
  <2>3. g[e] = Append(v, << >>) /\ e \in Nat /\ StandsAt(seg, s, e) /\ Scans(g, s, tok)
    BY <1>5, <2>2 DEF StandsAt, Scans
  <2> HIDE DEF seg, v, e
  <2>4. g[e + Len(seg)] = Append(v, seg)
    <3>1. Begun(X, s, tok, v, seg, e, g)
      BY <1>4, <2>1, <2>3 DEF Begun
    <3> QED BY <3>1, ReadSegment
  <2>5. SubSeq(segs, 1, 1) = Append(v, seg)
    <3> DEFINE Y == Seq(X)
    <3>1. segs \in Seq(Y) /\ 0 < Len(segs) /\ SubSeq(segs, 1, 0) = << >>
      BY <1>2, SubSeqEmpty DEF n
    <3> HIDE DEF Y
    <3>2. SubSeq(segs, 1, 0 + 1) = Append(SubSeq(segs, 1, 0), segs[0 + 1])
      BY <3>1, PrefixNext
    <3>3. 0 + 1 = 1
      OBVIOUS
    <3> QED BY <3>1, <3>2, <3>3 DEF seg, v
  <2> QED BY <2>1, <2>2, <2>4, <2>5 DEF seg, v, e
<1>9. ASSUME NEW m \in Nat, m \in S PROVE m + 1 \in S
  <2> SUFFICES ASSUME (m + 1) + 1 <= n PROVE g[Len(f[(m + 1) + 1])] = SubSeq(segs, 1, (m + 1) + 1)
    OBVIOUS
  <2> DEFINE j == m + 1
             k == j + 1
             seg == segs[k]
             v == SubSeq(segs, 1, j)
             e == Len(f[j]) + 1
  <2>1. j \in Nat /\ j \in 1 .. n /\ k \in 2 .. n /\ k \in 1 .. n /\ k - 1 = j /\ j < Len(segs) /\ j <= n
    BY <1>2 DEF n
  <2>2. g[Len(f[j])] = v
    BY <1>9, <2>1
  <2>3. v \in Seq(Seq(X)) /\ Len(v) = j /\ SubSeq(segs, 1, k) = Append(v, seg) /\ v[j] = segs[j]
    <3> DEFINE Y == Seq(X)
    <3>1. segs \in Seq(Y)
      OBVIOUS
    <3>2. v[j] = segs[j]
      BY <2>1
    <3> HIDE DEF Y, j
    <3>3. v \in Seq(Y) /\ Len(v) = j /\ SubSeq(segs, 1, k) = Append(v, seg)
      BY <2>1, <3>1, PrefixNext
    <3> QED BY <3>2, <3>3 DEF Y
  <2> HIDE DEF j, k, v
  <2>4. seg \in Seq(X) /\ Uncut(seg, tok) /\ segs[j] # << >> /\ seg # << >> /\ seg[1] \notin Lower
    BY <1>2, <1>3, <2>1 DEF Uncut
  <2>5. Spliced(X, f[k], f[j], tok, seg)
    BY <1>6, <2>1
  <2>6. Len(f[j]) \in Nat /\ Len(seg) \in Nat \ {0} /\ e \in Nat /\ Len(f[k]) = e + Len(seg) /\ Len(s) \in Nat
    BY <1>1, <1>4, <2>1, <2>4, <2>5 DEF Spliced
  <2>7. e + Len(seg) <= Len(s)
    BY <1>7, <2>1, <2>6
  <2> HIDE DEF seg
  <2>8. s[e] = tok /\ \A i \in 1 .. Len(seg) : s[e + i] = seg[i]
    <3>1. e \in 1 .. Len(f[k]) /\ \A i \in 1 .. Len(seg) : e + i \in 1 .. Len(f[k])
      BY <2>6
    <3>2. f[k][e] = tok /\ \A i \in 1 .. Len(seg) : f[k][e + i] = seg[i]
      BY <2>5 DEF Spliced
    <3> HIDE DEF e
    <3> QED BY <1>7, <2>1, <3>1, <3>2
  <2>9. Cuts(s, e, tok)
    <3>1. s[e + 1] = seg[1]
      BY <2>6, <2>8
    <3> QED BY <2>4, <2>8, <3>1 DEF Cuts
  <2>10. Last(v) # << >>
    BY <2>3, <2>4 DEF Last
  <2>11. e \in 1 .. Len(s) /\ e - 1 = Len(f[j])
    BY <2>6, <2>7
  <2>12. g[e] = NextPiece(v, s, e, tok)
    BY <1>5, <2>2, <2>11
  <2> HIDE DEF e
  <2>13. g[e] = Append(v, << >>)
    BY <2>9, <2>10, <2>12 DEF NextPiece
  <2>14. StandsAt(seg, s, e) /\ Scans(g, s, tok)
    BY <1>5, <2>7, <2>8 DEF StandsAt, Scans
  <2>15. g[e + Len(seg)] = Append(v, seg)
    <3>1. Begun(X, s, tok, v, seg, e, g)
      BY <1>4, <2>3, <2>4, <2>6, <2>13, <2>14 DEF Begun
    <3> QED BY <3>1, ReadSegment
  <2> QED BY <2>3, <2>6, <2>15 DEF j, k
<1> HIDE DEF S
<1>10. n \in 1 .. n /\ n - 1 \in Nat /\ (n - 1) + 1 = n
  BY <1>2
<1>11. n - 1 \in S
  BY <1>8, <1>9, <1>10, Induction
<1>12. g[Len(f[n])] = SubSeq(segs, 1, n)
  BY <1>10, <1>11 DEF S
<1>13. SubSeq(segs, 1, n) = segs
  BY SubSeqFull DEF n
<1> QED BY <1>1, <1>5, <1>12, <1>13 DEF s

-------------------------------------------------------------------------------
(* Parts. *)

\* The words of the parser's tokens and keywords, and the operators.
Words ==
    {"Is", "Not", "Null", "In", "Like", "Starting", "Starts", "Ending", "Ends", "With",
     "Containing", "Contains", "Between", "Before", "After", "Less", "Greater", "Than", "Equal",
     "True", "False", "Equals", "And", "Or", "der", "By", "Ignore", "Ignoring", "Case", "All",
     "Asc", "Desc"}

\* All operators, and records of the kind of Keywords.
Ops ==
    {"IsNotNull", "IsNull", "NotIn", "In", "NotLike", "Like", "StartingWith", "EndingWith",
     "NotContaining", "Containing", "Between", "LessThan", "GreaterThan", "LessThanEqual",
     "GreaterThanEqual", "True", "False", "Not", "Equals"}

KeywordType == [name : Seq(Words), op : Ops, args : Nat]

\* Keywords are words of the parser.
LEMMA KeywordTypes == Keywords \in Seq(KeywordType)
<1> DEFINE T == Seq(KeywordType)
           W == Seq(Words)
<1>1. ASSUME NEW words \in W, NEW op \in Ops, NEW args \in Nat
      PROVE  Is(words, op, args) \in T /\ <<Keyword(words, op, args)>> \in T
  <2>1. "Is" \in Words
    BY DEF Words
  <2>2. <<"Is">> \o words \in Seq(Words)
    BY <2>1
  <2> DEFINE a == Keyword(<<"Is">> \o words, op, args)
             b == Keyword(words, op, args)
  <2>3. a \in KeywordType /\ b \in KeywordType
    BY <2>2 DEF Keyword, KeywordType
  <2> HIDE DEF a, b
  <2>4. <<a, b>> \in T /\ <<b>> \in T
    BY <2>3
  <2> QED BY <2>4 DEF Is, a, b
<1>2. \A u \in T, v \in T : u \o v \in T
  OBVIOUS
<1> HIDE DEF T, W
<1>3. /\ <<"Not", "Null">> \in W /\ <<"Null">> \in W /\ <<"Not", "In">> \in W /\ <<"In">> \in W
      /\ <<"Not", "Like">> \in W /\ <<"Like">> \in W /\ <<"Starting", "With">> \in W
      /\ <<"Starts", "With">> \in W /\ <<"Ending", "With">> \in W /\ <<"Ends", "With">> \in W
  BY DEF W, Words
<1>4. /\ <<"Not", "Containing">> \in W /\ <<"Not", "Contains">> \in W /\ <<"Containing">> \in W
      /\ <<"Contains">> \in W /\ <<"Between">> \in W /\ <<"Before">> \in W /\ <<"After">> \in W
      /\ <<"Less", "Than", "Equal">> \in W /\ <<"Less", "Than">> \in W
  BY DEF W, Words
<1>5. /\ <<"Greater", "Than", "Equal">> \in W /\ <<"Greater", "Than">> \in W 
      /\ <<"True">> \in W /\ <<"False">> \in W /\ <<"Not">> \in W /\ <<"Is">> \in W /\ <<"Equals">> \in W 
  BY DEF W, Words
<1>6. <<Keyword(<<"Is">>, "Equals", 1), Keyword(<<"Equals">>, "Equals", 1)>> \in T
  BY <1>5 DEF T, W, Keyword, KeywordType, Ops
<1>7. /\ Is(<<"Not", "Null">>, "IsNotNull", 0) \in T
      /\ Is(<<"Null">>, "IsNull", 0) \in T
      /\ Is(<<"Not", "In">>, "NotIn", 1) \in T
      /\ Is(<<"In">>, "In", 1) \in T
  BY <1>1, <1>3, <1>4, <1>5 DEF Ops
<1>8. /\ Is(<<"Not", "Like">>, "NotLike", 1) \in T
      /\ Is(<<"Like">>, "Like", 1) \in T
      /\ Is(<<"Starting", "With">>, "StartingWith", 1) \in T
      /\ <<Keyword(<<"Starts", "With">>, "StartingWith", 1)>> \in T
  BY <1>1, <1>3, <1>4, <1>5 DEF Ops
<1>9. /\ Is(<<"Ending", "With">>, "EndingWith", 1) \in T
      /\ <<Keyword(<<"Ends", "With">>, "EndingWith", 1)>> \in T
      /\ Is(<<"Not", "Containing">>, "NotContaining", 1) \in T
      /\ <<Keyword(<<"Not", "Contains">>, "NotContaining", 1)>> \in T
  BY <1>1, <1>3, <1>4, <1>5 DEF Ops
<1>10. /\ Is(<<"Containing">>, "Containing", 1) \in T
      /\ <<Keyword(<<"Contains">>, "Containing", 1)>> \in T
      /\ Is(<<"Between">>, "Between", 2) \in T
      /\ Is(<<"Before">>, "LessThan", 1) \in T
  BY <1>1, <1>3, <1>4, <1>5 DEF Ops
<1>11. /\ Is(<<"After">>, "GreaterThan", 1) \in T
      /\ Is(<<"Less", "Than", "Equal">>, "LessThanEqual", 1) \in T
      /\ Is(<<"Less", "Than">>, "LessThan", 1) \in T
      /\ Is(<<"Greater", "Than", "Equal">>, "GreaterThanEqual", 1) \in T
  BY <1>1, <1>3, <1>4, <1>5 DEF Ops
<1>12. /\ Is(<<"Greater", "Than">>, "GreaterThan", 1) \in T
      /\ Is(<<"True">>, "True", 0) \in T
      /\ Is(<<"False">>, "False", 0) \in T
      /\ Is(<<"Not">>, "Not", 1) \in T
  BY <1>1, <1>3, <1>4, <1>5 DEF Ops
<1> QED BY <1>2, <1>6, <1>7, <1>8, <1>9, <1>10, <1>11, <1>12 DEF Keywords, T

\* A property without a keyword is one of Equals.
LEMMA BareType == Bare \in KeywordType /\ Bare.name = << >> /\ Bare.op = "Equals" /\ Bare.args = 1
<1>1. "Equals" \in Ops /\ << >> \in Seq(Words)
  BY DEF Ops
<1> QED BY <1>1 DEF Bare, Keyword, KeywordType

\* The words of IgnoreCase.
LEMMA IgnoreCaseWords ==
    /\ Range(IgnoreCase) = {<<"Ignore", "Case">>, <<"Ignoring", "Case">>}
    /\ IgnoreCase[1] = <<"Ignore", "Case">> /\ IgnoreCase[2] = <<"Ignoring", "Case">>
    /\ Range(IgnoreCase) \subseteq Seq(Words)
<1>1. DOMAIN IgnoreCase = {1, 2} /\ IgnoreCase[1] = <<"Ignore", "Case">> /\ IgnoreCase[2] = <<"Ignoring", "Case">>
  BY DEF IgnoreCase
<1>2. Range(IgnoreCase) = {<<"Ignore", "Case">>, <<"Ignoring", "Case">>}
  BY <1>1 DEF Range
<1>3. {"Ignore", "Ignoring", "Case"} \subseteq Words
  BY DEF Words
<1>4. <<"Ignore", "Case">> \in Seq(Words) /\ <<"Ignoring", "Case">> \in Seq(Words)
  BY <1>3
<1> QED BY <1>1, <1>2, <1>4

\* The pieces of a part.
PartPieces(X, p) ==
    /\ p.keyword \in KeywordType
    /\ p.words \in Seq(X) /\ p.words # << >>
    /\ p.keyword.name \in Seq(X) /\ p.ignore \in Seq(X)
    /\ Stem(p) \in Seq(X) /\ Segment(p) \in Seq(X) /\ Segment(p) # << >>

\* A criterion has pieces, and no And or Or of its own in them.
LEMMA PartsHavePieces ==
    ASSUME NEW X, Words \subseteq X, NEW p, IsPart(p), Range(p.words) \subseteq X
    PROVE  PartPieces(X, p) /\ Uncut(Segment(p), "And") /\ Uncut(Segment(p), "Or")
<1>1. p.words \in Seq(X) /\ p.words # << >>
  <2>1. p.words \in Seq(Range(p.words)) /\ p.words # << >>
    BY DEF IsPart, IsStem
  <2> QED BY <2>1, SeqMonotonic
<1>2. p.keyword \in KeywordType
  <2>1. p.keyword = Bare \/ p.keyword \in Range(Keywords)
    BY DEF IsPart, IsStem
  <2> QED BY <2>1, BareType, KeywordTypes, RangeOfSeq
<1>3. p.keyword.name \in Seq(X)
  <2>1. p.keyword.name \in Seq(Words)
    BY <1>2 DEF KeywordType
  <2> QED BY <2>1, SeqMonotonic
<1>4. p.ignore \in Seq(X)
  <2>1. p.ignore \in Seq(Words)
    <3>1. p.ignore \in Range(IgnoreCase) \cup {<< >>} /\ << >> \in Seq(Words)
      BY DEF IsPart
    <3> QED BY <3>1, IgnoreCaseWords
  <2> QED BY <2>1, SeqMonotonic
<1> DEFINE words == p.words
           name == p.keyword.name
           ignore == p.ignore
<1>5. words \in Seq(X) /\ words # << >> /\ name \in Seq(X) /\ ignore \in Seq(X)
  BY <1>1, <1>3, <1>4
<1>6. Stem(p) = words \o name /\ Segment(p) = (words \o name) \o ignore
  BY DEF Stem, Segment
<1> HIDE DEF words, name, ignore
<1>7. words \o name \in Seq(X) /\ words \o name # << >>
  BY <1>5
<1>8. Stem(p) \in Seq(X) /\ Segment(p) \in Seq(X) /\ Segment(p) # << >>
  BY <1>5, <1>6, <1>7
<1>9. Uncut(Segment(p), "And") /\ Uncut(Segment(p), "Or")
  BY <1>8 DEF Uncut, IsPart
<1> QED BY <1>1, <1>2, <1>3, <1>4, <1>8, <1>9 DEF PartPieces

\* A text without a piece is not trimmed of it.
LEMMA NothingToTrim ==
    ASSUME NEW X, NEW c \in X, NEW s \in Seq(X), c \notin Range(s)
    PROVE  Trim(s, <<c>>) = s
<1> SUFFICES ASSUME IsSuffix(<<c>>, s) PROVE FALSE
  BY DEF Trim
<1> DEFINE t == <<c>>
<1>1. t \in Seq(X) /\ Len(t) = 1 /\ t[1] = c /\ Len(s) \in Nat /\ IsSuffix(t, s)
  OBVIOUS
<1> HIDE DEF t
<1>2. Len(t) <= Len(s) /\ \A i \in 1 .. Len(t) : t[i] = s[Len(s) - Len(t) + i]
  BY <1>1, SuffixPieces
<1>3. Len(s) \in 1 .. Len(s) /\ Len(s) - 1 + 1 = Len(s) /\ 1 \in 1 .. Len(t)
  BY <1>1, <1>2
<1>4. s[Len(s)] = c
  BY <1>1, <1>2, <1>3
<1>5. DOMAIN s = 1 .. Len(s)
  OBVIOUS
<1> QED BY <1>3, <1>4, <1>5 DEF Range

\* Two texts of which one is not a suffix of the other: the words of
\* IgnoreCase have one length and differ in the next to last.
LEMMA OtherSuffix ==
    ASSUME NEW X, NEW s \in Seq(X), NEW a \in X, NEW b \in X, NEW c \in X, a # b
    PROVE  ~IsSuffix(<<a, c>>, s \o <<b, c>>)
<1> DEFINE t == <<a, c>>
           u == <<b, c>>
           w == s \o u
<1>1. t \in Seq(X) /\ u \in Seq(X) /\ Len(t) = 2 /\ Len(u) = 2 /\ t[1] = a /\ u[1] = b /\ Len(s) \in Nat
  OBVIOUS
<1> HIDE DEF t, u
<1>2. w \in Seq(X) /\ Len(w) = Len(s) + Len(u) /\ w[Len(s) + 1] = b
  <2>1. Len(s) + 1 \in 1 .. Len(s) + Len(u) /\ ~(Len(s) + 1 <= Len(s)) /\ Len(s) + 1 - Len(s) = 1
    BY <1>1
  <2>2. \A i \in 1 .. Len(s) + Len(u) : w[i] = IF i <= Len(s) THEN s[i] ELSE u[i - Len(s)]
    BY <1>1, ConcatProperties
  <2>3. w[Len(s) + 1] = u[1]
    BY <2>1, <2>2
  <2>4. w \in Seq(X) /\ Len(w) = Len(s) + Len(u)
    BY <1>1, ConcatProperties
  <2> HIDE DEF w
  <2> QED BY <1>1, <2>3, <2>4
<1> HIDE DEF w
<1>a. SUFFICES ASSUME IsSuffix(t, w) PROVE FALSE
  BY DEF t, u, w
<1>3. 1 \in 1 .. Len(t) /\ Len(w) - Len(t) + 1 = Len(s) + 1
  BY <1>1, <1>2
<1>4. \A i \in 1 .. Len(t) : t[i] = w[Len(w) - Len(t) + i]
  <2>1. t \in Seq(X) /\ w \in Seq(X)
    BY <1>1, <1>2
  <2> QED BY <1>a, <2>1, SuffixPieces
<1>5. t[1] = w[Len(s) + 1]
  BY <1>3, <1>4
<1> QED BY <1>1, <1>2, <1>5

\* The words of IgnoreCase are taken off, and nothing else.
LEMMA IgnoreCaseOff ==
    ASSUME NEW X, Words \subseteq X, NEW p, IsPart(p), PartPieces(X, p)
    PROVE  TrimBoth(Segment(p), IgnoreCase) = Stem(p) /\ (Stem(p) # Segment(p) <=> p.ignore # << >>)
<1> DEFINE s == Stem(p)
           a == <<"Ignore", "Case">>
           b == <<"Ignoring", "Case">>
<1>1. s \in Seq(X) /\ p.ignore \in Seq(X) /\ Segment(p) = s \o p.ignore
  BY DEF PartPieces, Segment
<1>2. a \in Seq(X) /\ b \in Seq(X) /\ IgnoreCase[1] = a /\ IgnoreCase[2] = b
  <2>1. a \in Seq(Words) /\ b \in Seq(Words)
    BY IgnoreCaseWords
  <2> QED BY <2>1, IgnoreCaseWords, SeqMonotonic
<1>3. ~IsSuffix(a, s) /\ ~IsSuffix(b, s) /\ p.ignore \in {<< >>, a, b}
  BY IgnoreCaseWords DEF IsPart
<1>4. ~IsSuffix(a, s \o b)
  <2>1. "Ignore" \in X /\ "Ignoring" \in X /\ "Case" \in X /\ "Ignore" # "Ignoring"
    BY DEF Words
  <2> HIDE DEF s
  <2> QED BY <1>1, <2>1, OtherSuffix
<1> HIDE DEF s, a, b
<1>5. TrimBoth(Segment(p), IgnoreCase) = Trim(Trim(s \o p.ignore, a), b)
  BY <1>1, <1>2 DEF TrimBoth
<1>6. Trim(s, a) = s /\ Trim(s, b) = s /\ Trim(s \o b, a) = s \o b
  BY <1>3, <1>4 DEF Trim
<1>7. Trim(s \o a, a) = s /\ Trim(s \o b, b) = s
  BY <1>1, <1>2, TrimSuffix
<1>8. s \o << >> = s
  BY <1>1, ConcatEmptySeq
<1>9. TrimBoth(Segment(p), IgnoreCase) = s
  BY <1>3, <1>5, <1>6, <1>7, <1>8
<1>10. s # s \o p.ignore <=> p.ignore # << >>
  BY <1>1, ConcatEqualIffEmpty
<1> QED BY <1>1, <1>9, <1>10 DEF s

\* A joined sequence has the elements of the first.
LEMMA RangeOfFirst ==
    ASSUME NEW X, NEW u \in Seq(X), NEW v \in Seq(X) PROVE Range(u) \subseteq Range(u \o v)
BY RangeConcatenation

\* Keywords, one by one.
LEMMA EachKeyword ==
    ASSUME NEW k \in DOMAIN Keywords
    PROVE  k \in Nat /\ Keywords[k] \in KeywordType /\ Keywords[k].name \in Seq(Words)
<1> DEFINE T == KeywordType
           s == Keywords
<1>1. s \in Seq(T) /\ k \in DOMAIN s
  BY KeywordTypes
<1> HIDE DEF T, s
<1>2. k \in 1 .. Len(s) /\ Len(s) \in Nat
  BY <1>1
<1>3. k \in Nat /\ s[k] \in T
  BY <1>1, <1>2
<1> QED BY <1>3 DEF s, T, KeywordType

\* A part is read as it is spelled.
LEMMA PartIsRead ==
    ASSUME NEW X, Words \subseteq X, "_" \in X, NEW p, IsPart(p), PartPieces(X, p)
    PROVE  ParsePart(Segment(p)) =
              Part(Column(p.words), p.keyword.op, p.keyword.args, p.ignore # << >>)
<1> DEFINE s == Stem(p)
           prop(k) == Trim(Trim(s, Keywords[k].name), <<"_">>)
           ks == {k \in DOMAIN Keywords : IsSuffix(Keywords[k].name, s) /\ Resolves(prop(k))}
           ic == p.ignore # << >>
<1> SUFFICES ParsePart(Segment(p)) = Part(Column(p.words), p.keyword.op, p.keyword.args, ic)
  OBVIOUS
<1>1. s \in Seq(X) /\ "_" \notin Range(s) /\ Resolves(p.words)
  BY DEF PartPieces, IsPart, IsStem
<1>2. TrimBoth(Segment(p), IgnoreCase) = s /\ (s # Segment(p)) = ic
  BY IgnoreCaseOff
<1>3. Trim(s, <<"_">>) = s
  <2> HIDE DEF s
  <2> QED BY <1>1, NothingToTrim
<1>4. ParsePart(Segment(p)) =
         IF Resolves(s) THEN Part(Column(s), "Equals", 1, ic)
         ELSE IF ks = {} THEN NoTree
         ELSE Part(Column(prop(Min(ks))), Keywords[Min(ks)].op, Keywords[Min(ks)].args, ic)
  <2> HIDE DEF s, ic
  <2> QED BY <1>2, <1>3 DEF ParsePart
<1>5. p.words \in Seq(X) /\ p.keyword.name \in Seq(X) /\ s = p.words \o p.keyword.name
  BY DEF PartPieces, Stem
<1>6. CASE p.keyword = Bare
  <2>1. s = p.words
    BY <1>5, <1>6, BareType, ConcatEmptySeq
  <2>2. p.keyword.op = "Equals" /\ p.keyword.args = 1
    BY <1>6, BareType
  <2>3. Resolves(s)
    BY <1>1, <2>1
  <2> HIDE DEF s, ks, ic
  <2>4. ParsePart(Segment(p)) = Part(Column(s), "Equals", 1, ic)
    BY <1>4, <2>3
  <2> QED BY <2>1, <2>2, <2>4
<1>7. CASE p.keyword # Bare
  <2>1. /\ p.keyword \in Range(Keywords)
        /\ ~Resolves(s)
        /\ \A n \in 0 .. Len(s), k \in DOMAIN Keywords :
              Resolves(SubSeq(s, 1, n)) /\ SubSeq(s, 1, n) \o Keywords[k].name = s
                  => Keywords[k] = p.keyword
    BY <1>7 DEF IsPart, IsStem
  <2> HIDE DEF s, ic
  <2>2. /\ IsSuffix(p.keyword.name, s)
        /\ Trim(Trim(s, p.keyword.name), <<"_">>) = p.words
    <3>1. IsSuffix(p.keyword.name, s) /\ Trim(s, p.keyword.name) = p.words
      BY <1>5, TrimSuffix
    <3>2. "_" \notin Range(p.words)
      <4>1. Range(p.words) \subseteq Range(p.words \o p.keyword.name)
        BY <1>5, RangeOfFirst
      <4> QED BY <1>1, <1>5, <4>1
    <3>3. Trim(p.words, <<"_">>) = p.words
      BY <1>5, <3>2, NothingToTrim
    <3> QED BY <3>1, <3>3
  <2>3. ks # {}
    <3>1. PICK k \in DOMAIN Keywords : Keywords[k] = p.keyword
      BY <2>1 DEF Range
    <3>2. k \in ks
      BY <1>1, <2>2, <3>1
    <3> QED BY <3>2
  <2>4. ASSUME NEW k \in ks PROVE Keywords[k] = p.keyword
    <3>1. k \in DOMAIN Keywords /\ IsSuffix(Keywords[k].name, s) /\ Resolves(prop(k))
      OBVIOUS
    <3>2. Keywords[k].name \in Seq(X)
      <4>1. Keywords[k].name \in Seq(Words)
        BY <3>1, EachKeyword
      <4> QED BY <4>1, SeqMonotonic
    <3> DEFINE name == Keywords[k].name
               n == Len(s) - Len(name)
               u == SubSeq(s, 1, n)
    <3>3. n \in 0 .. Len(s) /\ Trim(s, name) = u /\ u \in Seq(X) /\ s = u \o name
      <4>1. name \in Seq(X) /\ IsSuffix(name, s)
        BY <3>1, <3>2
      <4> HIDE DEF name
      <4>2. n \in 0 .. Len(s) /\ Trim(s, name) = u /\ Trim(s, name) \in Seq(X) /\ s = Trim(s, name) \o name
        BY <1>1, <4>1, SuffixIs
      <4> HIDE DEF u, n
      <4> QED BY <4>2
    <3>4. "_" \notin Range(u)
      <4>1. name \in Seq(X)
        BY <3>2
      <4> HIDE DEF u, name
      <4>2. Range(u) \subseteq Range(u \o name)
        BY <3>3, <4>1, RangeOfFirst
      <4> QED BY <1>1, <3>3, <4>2
    <3>5. Trim(u, <<"_">>) = u
      <4> HIDE DEF u
      <4> QED BY <3>3, <3>4, NothingToTrim
    <3>6. Resolves(u)
      BY <3>1, <3>3, <3>5
    <3> HIDE DEF n
    <3> QED BY <2>1, <3>1, <3>3, <3>6
  <2>5. Min(ks) \in ks
    <3>1. ks \subseteq Nat
      BY EachKeyword
    <3> HIDE DEF ks
    <3> QED BY <2>3, <3>1, MinIn
  <2>6. Keywords[Min(ks)] = p.keyword
    BY <2>4, <2>5
  <2>7. prop(Min(ks)) = p.words
    BY <2>2, <2>6
  <2>8. ~Resolves(s)
    BY <2>1
  <2> HIDE DEF ks, prop
  <2>9. ParsePart(Segment(p)) =
           Part(Column(prop(Min(ks))), Keywords[Min(ks)].op, Keywords[Min(ks)].args, ic)
    BY <1>4, <2>3, <2>8
  <2> QED BY <2>6, <2>7, <2>9
<1> QED BY <1>6, <1>7

\* Joined segments are a text, and not an empty one.
LEMMA JoinedText ==
    ASSUME NEW X, NEW tok \in X, NEW segs \in Seq(Seq(X)), segs # << >>, segs[1] # << >>
    PROVE  JoinedBy(segs, tok) \in Seq(X) /\ JoinedBy(segs, tok) # << >>
<1> DEFINE n == Len(segs)
<1>1. PICK f \in [1 .. n -> Seq(X)] :
         /\ f[1] = segs[1]
         /\ \A k \in 2 .. n : f[k] = f[k - 1] \o <<tok>> \o segs[k]
         /\ JoinedBy(segs, tok) = f[n]
  <2>1. Chained(X, segs, tok)
    BY JoinSteps
  <2> QED BY <2>1 DEF Chained
<1>2. n \in Nat \ {0} /\ \A k \in 1 .. n : segs[k] \in Seq(X)
  OBVIOUS
<1> HIDE DEF n
<1>3. CASE n = 1
  BY <1>1, <1>3
<1>4. CASE n # 1
  <2> DEFINE u == f[n - 1]
             v == segs[n]
  <2>1. u \in Seq(X) /\ v \in Seq(X) /\ f[n] = u \o <<tok>> \o v
    <3>1. n \in 2 .. n /\ n - 1 \in 1 .. n /\ n \in 1 .. n
      BY <1>2, <1>4
    <3> QED BY <1>1, <1>2, <3>1
  <2> HIDE DEF u, v
  <2>2. Spliced(X, u \o <<tok>> \o v, u, tok, v)
    BY <2>1, SplicedPieces
  <2>3. Len(f[n]) = Len(u) + 1 + Len(v) /\ f[n] \in Seq(X)
    BY <2>1, <2>2 DEF Spliced
  <2>4. f[n] # << >>
    BY <2>1, <2>3
  <2> QED BY <1>1, <2>3, <2>4
<1> QED BY <1>3, <1>4

\* What is known of a sequence that has a piece.
LEMMA SomePieces ==
    ASSUME NEW X, NEW s \in Seq(X), s # << >>
    PROVE  DOMAIN s = 1 .. Len(s) /\ Len(s) \in Nat \ {0} /\ 1 \in 1 .. Len(s)
OBVIOUS

\* A function of the first numbers is a sequence of its values.
Numbered(Y, n, f) == n \in Nat /\ f = [i \in 1 .. n |-> f[i]] /\ \A i \in 1 .. n : f[i] \in Y

\* A sequence of n elements; a function that numbers them is one.
SequenceIn(Y, n, f) == f \in Seq(Y) /\ Len(f) = n /\ DOMAIN f = 1 .. n /\ (n # 0 => f # << >>)

LEMMA SequenceOf == ASSUME NEW Y, NEW n, NEW f, Numbered(Y, n, f) PROVE SequenceIn(Y, n, f)
<1>1. f \in [1 .. n -> Y] /\ n \in Nat
  BY DEF Numbered
<1>2. f \in Seq(Y) /\ Len(f) = n /\ DOMAIN f = 1 .. n
  BY <1>1
<1>3. Len(<< >>) = 0
  OBVIOUS
<1>4. f = << >> => Len(f) = Len(<< >>)
  OBVIOUS
<1> QED BY <1>2, <1>3, <1>4 DEF SequenceIn

\* Parts in words of X.
PartsIn(X, parts) ==
    /\ parts \in Seq(Range(parts)) /\ parts # << >>
    /\ \A p \in Range(parts) : IsPart(p) /\ Range(p.words) \subseteq X

\* An alternative has no Or of its own and is cut into its criteria.
LEMMA AlternativeIsCut ==
    ASSUME NEW X, Words \subseteq X, NEW parts, PartsIn(X, parts)
    PROVE  /\ Alternative(parts) \in Seq(X) /\ Uncut(Alternative(parts), "Or")
           /\ SplitToken(Alternative(parts), "And") = [j \in DOMAIN parts |-> Segment(parts[j])]
<1> DEFINE segs == [j \in DOMAIN parts |-> Segment(parts[j])]
<1>1. ASSUME NEW j \in DOMAIN parts
      PROVE  Segment(parts[j]) \in Seq(X) /\ Uncut(Segment(parts[j]), "And") /\ Uncut(Segment(parts[j]), "Or")
  <2>1. parts[j] \in Range(parts)
    BY DEF Range
  <2>2. IsPart(parts[j]) /\ Range(parts[j].words) \subseteq X
    BY <2>1 DEF PartsIn
  <2> QED BY <2>2, PartsHavePieces DEF PartPieces
<1>2. DOMAIN parts = 1 .. Len(parts) /\ Len(parts) \in Nat \ {0}
  BY DEF PartsIn
<1>3. segs \in Seq(Seq(X)) /\ Len(segs) = Len(parts) /\ segs # << >>
  <2> DEFINE Y == Seq(X)
  <2>1. \A j \in 1 .. Len(parts) : Segment(parts[j]) \in Y
    BY <1>1, <1>2
  <2> HIDE DEF Y
  <2>2. segs \in Seq(Y) /\ Len(segs) = Len(parts)
    BY <1>2, <2>1
  <2>3. segs # << >>
    BY <1>2, <2>2
  <2> QED BY <2>2, <2>3 DEF Y
<1>4. \A j \in 1 .. Len(segs) : Uncut(segs[j], "And") /\ Uncut(segs[j], "Or")
  BY <1>1, <1>2, <1>3
<1>5. "And" \in X /\ "Or" # "And"
  BY DEF Words
<1>6. Alternative(parts) = JoinedBy(segs, "And")
  BY DEF Alternative
<1> HIDE DEF segs
<1>7. SplitToken(JoinedBy(segs, "And"), "And") = segs
  BY <1>3, <1>4, <1>5, SplitJoined
<1>8. JoinedBy(segs, "And") \in Seq(X) /\ Uncut(JoinedBy(segs, "And"), "Or")
  BY <1>3, <1>4, <1>5, JoinKeeps
<1> QED BY <1>6, <1>7, <1>8 DEF segs

\* What is read from a part of a spelling.
PartRead(p) == Part(Column(p.words), p.keyword.op, p.keyword.args, p.ignore # << >>)

\* The criteria are read as they are spelled.
CriteriaRead(X, sp) ==
    /\ CriteriaText(sp) \in Seq(X) /\ CriteriaText(sp) # << >>
    /\ ParseCriteria(CriteriaText(sp)) =
          [i \in DOMAIN sp.or |-> [j \in DOMAIN sp.or[i] |-> PartRead(sp.or[i][j])]]

\* The properties of a spelling are in words of X.
CriteriaIn(X, sp) ==
    \A parts \in Range(sp.or) : \A p \in Range(parts) : Range(p.words) \subseteq X

\* Criteria are read alternative by alternative, criterion by criterion.
LEMMA CriteriaAreRead ==
    ASSUME NEW X, Words \subseteq X, "_" \in X, NEW sp, IsCriteria(sp), sp.or # << >>, CriteriaIn(X, sp)
    PROVE  CriteriaRead(X, sp)
<1> DEFINE or == sp.or
           segs == [i \in DOMAIN or |-> Alternative(or[i])]
           text == CriteriaText(sp)
<1>1. DOMAIN or = 1 .. Len(or) /\ Len(or) \in Nat \ {0}
  <2>1. or \in Seq(Range(or)) /\ or # << >>
    BY DEF IsCriteria
  <2> HIDE DEF or
  <2> QED BY <2>1, SomePieces
<1>2. ASSUME NEW i \in DOMAIN or PROVE PartsIn(X, or[i])
  <2>1. or[i] \in Range(or)
    BY DEF Range
  <2> QED BY <2>1 DEF IsCriteria, CriteriaIn, PartsIn
<1>3. ASSUME NEW i \in DOMAIN or
      PROVE  /\ Alternative(or[i]) \in Seq(X) /\ Uncut(Alternative(or[i]), "Or")
             /\ SplitToken(Alternative(or[i]), "And") = [j \in DOMAIN or[i] |-> Segment(or[i][j])]
  BY <1>2, AlternativeIsCut
<1>4. segs \in Seq(Seq(X)) /\ Len(segs) = Len(or) /\ segs # << >>
  <2> DEFINE Y == Seq(X)
             n == Len(or)
  <2>1. \A i \in 1 .. n : segs[i] \in Y
    BY <1>1, <1>3
  <2>2. segs = [i \in 1 .. n |-> segs[i]] /\ n \in Nat
    BY <1>1
  <2>3. n # 0
    BY <1>1
  <2> HIDE DEF Y, or, segs, n
  <2>4. Numbered(Y, n, segs)
    BY <2>1, <2>2 DEF Numbered
  <2>5. SequenceIn(Y, n, segs)
    BY <2>4, SequenceOf
  <2>6. segs \in Seq(Y) /\ Len(segs) = n /\ segs # << >>
    BY <2>3, <2>5 DEF SequenceIn
  <2> QED BY <2>6 DEF Y, n
<1>5. \A i \in 1 .. Len(segs) : Uncut(segs[i], "Or")
  BY <1>1, <1>3, <1>4
<1>6. "Or" \in X /\ text = JoinedBy(segs, "Or")
  BY DEF Words, CriteriaText
<1> HIDE DEF segs, text
<1>8. SplitToken(text, "Or") = segs
  BY <1>4, <1>5, <1>6, SplitJoined
<1>9. text \in Seq(X) /\ text # << >>
  <2>0. 1 \in 1 .. Len(segs)
    BY <1>4, SomePieces
  <2>1. segs[1] # << >>
    BY <1>5, <2>0 DEF Uncut
  <2> QED BY <1>4, <1>6, <2>1, JoinedText
<1>10. ParseCriteria(text) =
          [i \in DOMAIN segs |-> [j \in DOMAIN SplitToken(segs[i], "And") |->
                                     ParsePart(SplitToken(segs[i], "And")[j])]]
  BY <1>8 DEF ParseCriteria
<1>11. DOMAIN segs = DOMAIN or /\ \A i \in DOMAIN or : segs[i] = Alternative(or[i])
  BY DEF segs
<1>12. ASSUME NEW i \in DOMAIN or
       PROVE  [j \in DOMAIN SplitToken(segs[i], "And") |-> ParsePart(SplitToken(segs[i], "And")[j])]
                 = [j \in DOMAIN or[i] |-> PartRead(or[i][j])]
  <2>1. SplitToken(segs[i], "And") = [j \in DOMAIN or[i] |-> Segment(or[i][j])]
    BY <1>3, <1>11
  <2>2. ASSUME NEW j \in DOMAIN or[i] PROVE ParsePart(Segment(or[i][j])) = PartRead(or[i][j])
    <3>1. or[i][j] \in Range(or[i])
      BY DEF Range
    <3>2. IsPart(or[i][j]) /\ Range(or[i][j].words) \subseteq X
      BY <1>2, <3>1 DEF PartsIn
    <3>3. PartPieces(X, or[i][j])
      BY <3>2, PartsHavePieces
    <3> QED BY <3>2, <3>3, PartIsRead DEF PartRead
  <2> HIDE DEF or
  <2> QED BY <2>1, <2>2
<1> HIDE DEF or
<1>13. ParseCriteria(text) = [i \in DOMAIN or |-> [j \in DOMAIN or[i] |-> PartRead(or[i][j])]]
  BY <1>10, <1>11, <1>12
<1> QED BY <1>9, <1>13 DEF CriteriaRead, text, or

-------------------------------------------------------------------------------
(* Places in joined texts. *)

\* The rest of a text, piece by piece.
RestOf(X, s, i) ==
    /\ From(s, i) \in Seq(X) /\ Len(From(s, i)) = Len(s) - i + 1
    /\ \A j \in 1 .. Len(s) - i + 1 : From(s, i)[j] = s[i - 1 + j]

\* The pieces from a place on.
LEMMA FromPieces ==
    ASSUME NEW X, NEW s \in Seq(X), NEW i \in 1 .. Len(s) + 1 PROVE RestOf(X, s, i)
<1> DEFINE n == Len(s)
<1>1. n \in Nat /\ i \in Nat
  OBVIOUS
<1>2. \A j \in i .. n : s[j] \in X
  OBVIOUS
<1>3. SubSeq(s, i, n) \in Seq(X) /\ Len(SubSeq(s, i, n)) = IF i <= n THEN n - i + 1 ELSE 0
  BY <1>1, <1>2
<1>4. \A j \in 1 .. n - i + 1 : SubSeq(s, i, n)[j] = s[i - 1 + j]
  <2> SUFFICES ASSUME NEW j \in 1 .. n - i + 1 PROVE SubSeq(s, i, n)[j] = s[i - 1 + j]
    OBVIOUS
  <2>1. i + j - 1 = i - 1 + j /\ j \in 1 .. n - i + 1
    BY <1>1
  <2> QED BY <1>1, <2>1
<1>5. Len(SubSeq(s, i, n)) = n - i + 1
  BY <1>1, <1>3
<1> QED BY <1>3, <1>4, <1>5 DEF RestOf, From

\* Nothing is left behind the end.
LEMMA FromEnd == ASSUME NEW X, NEW s \in Seq(X), NEW i \in Nat, i > Len(s) PROVE From(s, i) = << >>
BY SubSeqEmpty DEF From

\* The rest of a rest.
LEMMA FromFrom ==
    ASSUME NEW X, NEW s \in Seq(X), NEW i \in 1 .. Len(s) + 1, NEW k \in Nat, i + k <= Len(s) + 1
    PROVE  From(From(s, i), k + 1) = From(s, i + k)
<1> DEFINE r == From(s, i)
           n == Len(s)
           m == Len(r)
<1>1. n \in Nat /\ i \in 1 .. n + 1 /\ RestOf(X, s, i)
  BY FromPieces
<1>2. r \in Seq(X) /\ m = n - i + 1 /\ \A j \in 1 .. m : r[j] = s[i - 1 + j]
  BY <1>1 DEF RestOf
<1>3. i + k \in 1 .. n + 1 /\ k + 1 \in 1 .. m + 1
  BY <1>1, <1>2
<1>4. RestOf(X, s, i + k)
  <2> DEFINE l == i + k
  <2>1. l \in 1 .. Len(s) + 1
    BY <1>3
  <2> HIDE DEF l
  <2>2. RestOf(X, s, l)
    BY <2>1, FromPieces
  <2> QED BY <2>2 DEF l
<1> HIDE DEF r
<1>5. RestOf(X, r, k + 1)
  <2> DEFINE l == k + 1
  <2>1. l \in 1 .. Len(r) + 1
    BY <1>3
  <2> HIDE DEF l
  <2>2. RestOf(X, r, l)
    BY <1>2, <2>1, FromPieces
  <2> QED BY <2>2 DEF l
<1> DEFINE a == From(r, k + 1)
           b == From(s, i + k)
           c == n - i - k + 1
<1>6. a \in Seq(X) /\ Len(a) = c /\ \A j \in 1 .. c : a[j] = r[k + j]
  <2>1. Len(r) - (k + 1) + 1 = c /\ \A j \in 1 .. c : (k + 1) - 1 + j = k + j
    BY <1>1, <1>2
  <2>2. a \in Seq(X) /\ Len(a) = Len(r) - (k + 1) + 1
    BY <1>5 DEF RestOf
  <2>3. \A j \in 1 .. Len(r) - (k + 1) + 1 : a[j] = r[(k + 1) - 1 + j]
    BY <1>5 DEF RestOf
  <2> HIDE DEF a, c
  <2>4. \A j \in 1 .. c : a[j] = r[k + j]
    BY <2>1, <2>3
  <2> QED BY <2>1, <2>2, <2>4
<1>7. b \in Seq(X) /\ Len(b) = c /\ \A j \in 1 .. c : b[j] = s[i + k - 1 + j]
  <2>1. n - (i + k) + 1 = c
    BY <1>1
  <2> QED BY <1>4, <2>1 DEF RestOf
<1> HIDE DEF a, b
<1>8. ASSUME NEW j \in 1 .. c PROVE a[j] = b[j]
  <2>1. k + j \in 1 .. m /\ i - 1 + (k + j) = i + k - 1 + j
    BY <1>1, <1>2
  <2> QED BY <1>2, <1>6, <1>7, <2>1
<1>9. a = b
  BY <1>6, <1>7, <1>8, SeqEqual
<1> QED BY <1>9 DEF a, b, r

\* A text that stands in the first of two stands in both together, and the
\* second stands behind the first.
LEMMA StandsInBoth ==
    ASSUME NEW X, NEW u \in Seq(X), NEW v \in Seq(X)
    PROVE  /\ u \o v \in Seq(X) /\ Len(u \o v) = Len(u) + Len(v)
           /\ StandsAt(u, u \o v, 0) /\ StandsAt(v, u \o v, Len(u))
<1> DEFINE w == u \o v
<1>1. Len(u) \in Nat /\ Len(v) \in Nat
  OBVIOUS
<1>2. w \in Seq(X) /\ Len(w) = Len(u) + Len(v)
  BY ConcatProperties
<1>3. \A i \in 1 .. Len(u) + Len(v) : w[i] = IF i <= Len(u) THEN u[i] ELSE v[i - Len(u)]
  BY ConcatProperties
<1> HIDE DEF w
<1>4. ASSUME NEW i \in 1 .. Len(u) PROVE w[0 + i] = u[i]
  BY <1>1, <1>3
<1>5. ASSUME NEW i \in 1 .. Len(v) PROVE w[Len(u) + i] = v[i]
  <2>1. Len(u) + i \in 1 .. Len(u) + Len(v) /\ ~(Len(u) + i <= Len(u)) /\ (Len(u) + i) - Len(u) = i
    BY <1>1
  <2> QED BY <1>3, <2>1
<1>6. StandsAt(u, w, 0) /\ StandsAt(v, w, Len(u))
  BY <1>1, <1>2, <1>4, <1>5 DEF StandsAt
<1> QED BY <1>2, <1>6 DEF w

\* What stands in a part of a text stands in the text.
LEMMA StandsIn ==
    ASSUME NEW X, NEW seg \in Seq(X), NEW u \in Seq(X), NEW w \in Seq(X), NEW e \in Nat, NEW d \in Nat,
           StandsAt(seg, u, e), StandsAt(u, w, d)
    PROVE  StandsAt(seg, w, d + e)
<1>1. Len(seg) \in Nat /\ Len(u) \in Nat /\ Len(w) \in Nat
  OBVIOUS
<1>2. e + Len(seg) <= Len(u) /\ d + Len(u) <= Len(w)
  BY DEF StandsAt
<1>3. ASSUME NEW i \in 1 .. Len(seg) PROVE w[(d + e) + i] = seg[i]
  <2>1. e + i \in 1 .. Len(u) /\ d + (e + i) = (d + e) + i
    BY <1>1, <1>2
  <2>2. u[e + i] = seg[i]
    BY DEF StandsAt
  <2>3. w[d + (e + i)] = u[e + i]
    BY <2>1 DEF StandsAt
  <2> QED BY <2>1, <2>2, <2>3
<1>4. (d + e) + Len(seg) <= Len(w)
  BY <1>1, <1>2
<1> QED BY <1>3, <1>4 DEF StandsAt

\* A text that stands in another is a part of it.
LEMMA StandingIs ==
    ASSUME NEW X, NEW seg \in Seq(X), NEW s \in Seq(X), NEW e \in Nat, StandsAt(seg, s, e)
    PROVE  SubSeq(s, e + 1, e + Len(seg)) = seg
<1> DEFINE n == Len(seg)
           a == SubSeq(s, e + 1, e + n)
<1>1. n \in Nat /\ Len(s) \in Nat /\ e + n <= Len(s)
  BY DEF StandsAt
<1>2. \A j \in e + 1 .. e + n : s[j] \in X
  BY <1>1
<1>3. a \in Seq(X) /\ Len(a) = n
  BY <1>1, <1>2
<1>4. \A i \in 1 .. n : a[i] = s[e + i]
  BY <1>1
<1> HIDE DEF a
<1>5. \A i \in 1 .. n : a[i] = seg[i]
  BY <1>4 DEF StandsAt
<1>6. a = seg
  BY <1>3, <1>5, SeqEqual
<1> QED BY <1>6 DEF a

\* Joined sequences stand one behind another; at tells where they end.
Places(n, seqs, at) ==
    /\ at \in [0 .. n -> Nat] /\ at[0] = 0 /\ at[n] = Len(FlattenSeq(seqs))
    /\ \A i \in 1 .. n : at[i] = at[i - 1] + Len(seqs[i]) /\ StandsAt(seqs[i], FlattenSeq(seqs), at[i - 1])

\* The sequences stand in the flattened one, each behind those before it.
Placed(X, n, seqs) == FlattenSeq(seqs) \in Seq(X) /\ \E at : Places(n, seqs, at)

LEMMA FlattenPlaces ==
    ASSUME NEW X, NEW n \in Nat \ {0}, NEW seqs, Len(seqs) = n, \A i \in 1 .. n : seqs[i] \in Seq(X)
    PROVE  Placed(X, n, seqs)
<1>1. Joined(X, n, seqs)
  BY FlattenSteps
<1>2. PICK f \in [1 .. n -> Seq(X)] :
         /\ f[1] = seqs[1]
         /\ \A i \in 2 .. n : f[i] = f[i - 1] \o seqs[i]
         /\ FlattenSeq(seqs) = f[n]
  BY <1>1 DEF Joined
<1> DEFINE at == [i \in 0 .. n |-> IF i = 0 THEN 0 ELSE Len(f[i])]
<1>3. n \in 1 .. n /\ 1 \in 1 .. n /\ at \in [0 .. n -> Nat] /\ at[0] = 0 /\ at[n] = Len(f[n])
  <2>1. \A i \in 0 .. n : i # 0 => i \in 1 .. n
    OBVIOUS
  <2>2. \A i \in 1 .. n : Len(f[i]) \in Nat
    OBVIOUS
  <2>3. n \in 0 .. n /\ 0 \in 0 .. n /\ n # 0
    OBVIOUS
  <2> QED BY <2>1, <2>2, <2>3
<1>4. ASSUME NEW i \in 2 .. n
      PROVE  /\ Len(f[i]) = Len(f[i - 1]) + Len(seqs[i])
             /\ StandsAt(f[i - 1], f[i], 0) /\ StandsAt(seqs[i], f[i], Len(f[i - 1]))
  <2> DEFINE u == f[i - 1]
             v == seqs[i]
  <2>1. u \in Seq(X) /\ v \in Seq(X) /\ f[i] = u \o v
    <3>1. i - 1 \in 1 .. n /\ i \in 1 .. n
      OBVIOUS
    <3> QED BY <1>2, <3>1
  <2> HIDE DEF u, v
  <2>2. Len(u \o v) = Len(u) + Len(v) /\ StandsAt(u, u \o v, 0) /\ StandsAt(v, u \o v, Len(u))
    BY <2>1, StandsInBoth
  <2>3. Len(f[i]) = Len(u) + Len(v) /\ StandsAt(u, f[i], 0) /\ StandsAt(v, f[i], Len(u))
    BY <2>1, <2>2
  <2> QED BY <2>3 DEF u, v
<1>5. ASSUME NEW i \in 1 .. n PROVE at[i] = at[i - 1] + Len(seqs[i])
  <2>1. CASE i = 1
    BY <1>2, <1>3, <2>1
  <2>2. CASE i # 1
    <3>1. i \in 2 .. n /\ i - 1 \in 0 .. n /\ i - 1 # 0 /\ i \in 0 .. n /\ i # 0
      BY <2>2
    <3>2. at[i] = Len(f[i]) /\ at[i - 1] = Len(f[i - 1])
      BY <3>1
    <3> HIDE DEF at
    <3> QED BY <1>4, <3>1, <3>2
  <2> QED BY <2>1, <2>2
<1> DEFINE Stand(m) == \A i \in 1 .. m : StandsAt(seqs[i], f[m], at[i - 1])
           S == {k \in Nat : k + 1 <= n => Stand(k + 1)}
<1>6. 0 \in S
  <2>1. f[1] \in Seq(X)
    BY <1>3
  <2> DEFINE w == f[1]
  <2>2. StandsAt(w, w, 0)
    <3>1. w \in Seq(X) /\ Len(w) \in Nat
      BY <2>1
    <3> HIDE DEF w
    <3> QED BY <3>1 DEF StandsAt
  <2> HIDE DEF at
  <2>3. Stand(1)
    <3>1. ASSUME NEW i \in 1 .. 1 PROVE i = 1 /\ i - 1 = 0
      OBVIOUS
    <3> QED BY <1>2, <1>3, <2>2, <3>1
  <2> HIDE DEF Stand
  <2> QED BY <2>3
<1>7. ASSUME NEW k \in Nat, k \in S PROVE k + 1 \in S
  <2> DEFINE m == k + 1
             l == m + 1
  <2> SUFFICES ASSUME l <= n PROVE Stand(l)
    <3> HIDE DEF Stand
    <3> QED OBVIOUS
  <2>0. Stand(m)
    <3> HIDE DEF Stand
    <3> QED BY <1>7
  <2> SUFFICES ASSUME NEW i \in 1 .. l PROVE StandsAt(seqs[i], f[l], at[i - 1])
    OBVIOUS
  <2>1. m \in 1 .. n /\ l \in 2 .. n /\ l - 1 = m /\ l \in 1 .. n
    OBVIOUS
  <2>2. \A j \in 1 .. m : StandsAt(seqs[j], f[m], at[j - 1])
    <3> HIDE DEF at, m
    <3> QED BY <2>0
  <2>3. StandsAt(f[m], f[l], 0) /\ StandsAt(seqs[l], f[l], Len(f[m]))
    <3> HIDE DEF l, m
    <3>1. StandsAt(f[l - 1], f[l], 0) /\ StandsAt(seqs[l], f[l], Len(f[l - 1]))
      BY <1>4, <2>1
    <3> QED BY <2>1, <3>1
  <2>4. CASE i = l
    <3>1. at[i - 1] = Len(f[m])
      <4>1. m \in 0 .. n /\ m # 0
        BY <2>1
      <4> HIDE DEF m
      <4>2. at[m] = Len(f[m])
        BY <4>1
      <4> QED BY <2>1, <2>4, <4>2
    <3> HIDE DEF at, l, m
    <3>2. StandsAt(seqs[i], f[l], at[i - 1])
      BY <2>3, <2>4, <3>1
    <3> QED BY <3>2 DEF l, m
  <2>5. CASE i # l
    <3> DEFINE seg == seqs[i]
               u == f[m]
               w == f[l]
               e == at[i - 1]
    <3>1. i \in 1 .. m /\ i \in 1 .. n /\ i - 1 \in 0 .. n
      BY <2>1, <2>5
    <3>2. seg \in Seq(X) /\ u \in Seq(X) /\ w \in Seq(X) /\ e \in Nat
      <4> HIDE DEF at, l, m
      <4> QED BY <1>3, <2>1, <3>1
    <3>3. StandsAt(seg, u, e) /\ StandsAt(u, w, 0)
      <4> HIDE DEF at, l, m
      <4> QED BY <2>2, <2>3, <3>1
    <3> HIDE DEF seg, u, w, e
    <3>4. StandsAt(seg, w, 0 + e)
      BY <3>2, <3>3, StandsIn
    <3>5. StandsAt(seg, w, e)
      BY <3>2, <3>4
    <3> QED BY <3>5 DEF seg, u, w, e
  <2> QED BY <2>4, <2>5
<1> HIDE DEF at
<1>8. Nat \subseteq S
  <2> HIDE DEF S
  <2> QED BY <1>6, <1>7, Induction
<1>9. \A i \in 1 .. n : StandsAt(seqs[i], f[n], at[i - 1])
  <2>1. n - 1 \in Nat /\ (n - 1) + 1 = n
    OBVIOUS
  <2>2. n - 1 \in S
    BY <1>8, <2>1
  <2>3. Stand(n)
    <3> HIDE DEF Stand
    <3> QED BY <2>1, <2>2
  <2> QED BY <2>3
<1>10. Places(n, seqs, at)
  BY <1>2, <1>3, <1>5, <1>9 DEF Places
<1>11. FlattenSeq(seqs) \in Seq(X)
  BY <1>2, <1>3
<1> QED BY <1>10, <1>11 DEF Placed

-------------------------------------------------------------------------------
(* The order. *)

\* What is read from a sort key.
KeyRead(key) == [prop |-> key.words, desc |-> key.dir = <<"Desc">>]

\* A sort key of pieces that are known.
KeyIn(X, key) ==
    /\ key.words \in Seq(X) \ {<< >>} /\ key.dir \in {<<"Asc">>, <<"Desc">>, << >>}
    /\ {"Asc", "Desc"} \subseteq X
    /\ Resolves(key.words) /\ Capital(key.words[1])
    /\ \A i \in 2 .. Len(key.words) :
          key.words[i] \in {"Asc", "Desc"} => ~Resolves(SubSeq(key.words, 1, i - 1))

\* A text begins with a sort key, and behind its direction with another word.
KeyStands(X, key, rest) ==
    /\ KeyIn(X, key) /\ rest \in Seq(X) /\ StandsAt(SortKey(key), rest, 0)
    /\ key.dir = << >> => Len(rest) = Len(key.words)
    /\ Len(rest) > Len(SortKey(key)) => Capital(rest[Len(SortKey(key)) + 1])

\* Reading a text that begins with a key takes the key and leaves what follows.
KeyIsRead(key, rest) ==
    \A u : NextKey([keys |-> u, rest |-> rest]) =
              [keys |-> Append(u, KeyRead(key)), rest |-> From(rest, Len(SortKey(key)) + 1)]

\* The words of the key are the beginning of the text.
LEMMA KeyBegins ==
    ASSUME NEW X, NEW key, NEW rest, KeyStands(X, key, rest)
    PROVE  /\ Len(key.words) \in Nat \ {0} /\ Len(rest) \in Nat /\ Len(key.words) <= Len(rest)
           /\ \A i \in 1 .. Len(key.words) : SubSeq(rest, 1, i) = SubSeq(key.words, 1, i) /\ rest[i] = key.words[i]
           /\ Len(SortKey(key)) = Len(key.words) + Len(key.dir)
           /\ SubSeq(rest, 1, Len(key.words)) = key.words
<1> DEFINE u == key.words
           v == key.dir
<1>1. u \in Seq(X) /\ u # << >> /\ v \in Seq(X) /\ rest \in Seq(X)
  <2>1. <<"Asc">> \in Seq(X) /\ <<"Desc">> \in Seq(X) /\ << >> \in Seq(X)
    <3>1. "Asc" \in X /\ "Desc" \in X
      BY DEF KeyStands, KeyIn
    <3> QED BY <3>1, ElementOfSeq
  <2> QED BY <2>1 DEF KeyStands, KeyIn
<1>2. StandsAt(u \o v, rest, 0)
  BY DEF KeyStands, SortKey
<1>3. SortKey(key) = u \o v
  BY DEF SortKey
<1> HIDE DEF u, v
<1>4. u \o v \in Seq(X) /\ Len(u \o v) = Len(u) + Len(v) /\ StandsAt(u, u \o v, 0)
  BY <1>1, StandsInBoth
<1>5. StandsAt(u, rest, 0)
  <2> DEFINE w == u \o v
  <2>1. w \in Seq(X) /\ StandsAt(u, w, 0) /\ StandsAt(w, rest, 0)
    BY <1>2, <1>4
  <2> HIDE DEF w
  <2>2. StandsAt(u, rest, 0 + 0)
    BY <1>1, <2>1, StandsIn
  <2> QED BY <2>2
<1>6. Len(u) \in Nat \ {0} /\ Len(rest) \in Nat
  BY <1>1, SomePieces
<1>7. Len(u) <= Len(rest) /\ \A i \in 1 .. Len(u) : rest[i] = u[i]
  <2>1. 0 + Len(u) <= Len(rest) /\ \A i \in 1 .. Len(u) : rest[0 + i] = u[i]
    BY <1>5 DEF StandsAt
  <2>2. \A i \in 1 .. Len(u) : 0 + i = i
    OBVIOUS
  <2> QED BY <1>6, <2>1, <2>2
<1>8. ASSUME NEW i \in 1 .. Len(u) PROVE SubSeq(rest, 1, i) = SubSeq(u, 1, i)
  <2> DEFINE a == SubSeq(rest, 1, i)
             b == SubSeq(u, 1, i)
  <2>1. i \in Nat /\ 1 <= i /\ i <= Len(u) /\ i <= Len(rest)
    BY <1>6, <1>7
  <2>2. a \in Seq(X) /\ Len(a) = i /\ \A j \in 1 .. i : a[j] = rest[j]
    BY <1>1, <2>1
  <2>3. b \in Seq(X) /\ Len(b) = i /\ \A j \in 1 .. i : b[j] = u[j]
    BY <1>1, <2>1
  <2> HIDE DEF a, b
  <2>4. \A j \in 1 .. i : a[j] = b[j]
    BY <1>6, <1>7, <2>1, <2>2, <2>3
  <2>5. a = b
    BY <2>2, <2>3, <2>4, SeqEqual
  <2> QED BY <2>5 DEF a, b
<1>9. SubSeq(rest, 1, Len(u)) = u
  <2>1. Len(u) \in 1 .. Len(u)
    BY <1>6
  <2>2. SubSeq(rest, 1, Len(u)) = SubSeq(u, 1, Len(u))
    BY <1>8, <2>1
  <2> QED BY <1>1, <2>2, SubSeqFull
<1> QED BY <1>3, <1>4, <1>6, <1>7, <1>8, <1>9 DEF u, v

\* A direction ends a key, and nothing before it does; without one, the rest is the key.
LEMMA KeyIsNext ==
    ASSUME NEW X, NEW key, NEW rest, KeyStands(X, key, rest)
    PROVE  KeyIsRead(key, rest)
<1> DEFINE words == key.words
           m == Len(words)
           n == Len(rest)
<1>1. /\ m \in Nat \ {0} /\ n \in Nat /\ m <= n
      /\ \A i \in 1 .. m : SubSeq(rest, 1, i) = SubSeq(words, 1, i) /\ rest[i] = words[i]
      /\ Len(SortKey(key)) = m + Len(key.dir)
      /\ SubSeq(rest, 1, m) = words
  BY KeyBegins
<1>2. rest \in Seq(X) /\ rest # << >>
  <2>1. rest \in Seq(X)
    BY DEF KeyStands
  <2>2. rest = << >> => Len(rest) = 0
    OBVIOUS
  <2>3. n # 0
    BY <1>1
  <2> QED BY <2>1, <2>2, <2>3
<1>3. ASSUME NEW i \in 2 .. m PROVE i \notin Directions(rest)
  <2>1. i \in 1 .. m /\ i - 1 \in 1 .. m
    BY <1>1
  <2>2. SubSeq(rest, 1, i - 1) = SubSeq(words, 1, i - 1) /\ rest[i] = words[i]
    BY <1>1, <2>1
  <2>3. words[i] \in {"Asc", "Desc"} => ~Resolves(SubSeq(words, 1, i - 1))
    BY DEF KeyStands, KeyIn
  <2> HIDE DEF words, m
  <2> QED BY <2>2, <2>3 DEF Directions
<1>4. CASE key.dir = << >>
  <2>1. n = m /\ Len(key.dir) = 0
    BY <1>4 DEF KeyStands
  <2>2. Directions(rest) = {}
    <3>1. Directions(rest) \subseteq 2 .. n
      BY DEF Directions
    <3> HIDE DEF m, n
    <3> QED BY <1>3, <2>1, <3>1
  <2>3. KeyRead(key) = [prop |-> rest, desc |-> FALSE]
    <3>1. << >> # <<"Desc">>
      OBVIOUS
    <3>2. SubSeq(rest, 1, n) = rest
      BY <1>2, SubSeqFull
    <3>3. rest = words
      BY <1>1, <2>1, <3>2
    <3> HIDE DEF words
    <3> QED BY <1>4, <3>1, <3>3 DEF KeyRead, words
  <2>4. From(rest, Len(SortKey(key)) + 1) = << >>
    <3> DEFINE l == Len(SortKey(key)) + 1
    <3>1. l \in Nat /\ l > Len(rest)
      BY <1>1, <2>1
    <3> HIDE DEF l
    <3>2. From(rest, l) = << >>
      BY <1>2, <3>1, FromEnd
    <3> QED BY <3>2 DEF l
  <2> QED BY <1>2, <2>2, <2>3, <2>4 DEF NextKey, KeyIsRead
<1>5. CASE key.dir # << >>
  <2>1. PICK d \in {"Asc", "Desc"} : key.dir = <<d>>
    BY <1>5 DEF KeyStands, KeyIn
  <2>2. Len(SortKey(key)) = m + 1
    BY <1>1, <2>1
  <2>3. rest[m + 1] = d /\ m + 1 <= n
    <3>1. <<d>> \in Seq(X) /\ words \in Seq(X)
      <4>1. d \in X
        BY DEF KeyStands, KeyIn
      <4>2. words \in Seq(X)
        BY DEF KeyStands, KeyIn
      <4> QED BY <4>1, <4>2
    <3> DEFINE v == <<d>>
               w == words \o v
    <3>2. v \in Seq(X) /\ Len(v) = 1 /\ v[1] = d
      BY <3>1
    <3>3. StandsAt(w, rest, 0) /\ Len(w) = m + 1
      BY <2>1, <2>2 DEF KeyStands, SortKey
    <3> HIDE DEF v
    <3>4. StandsAt(v, w, m)
      <4> HIDE DEF words
      <4> QED BY <3>1, <3>2, StandsInBoth
    <3>5. w[m + 1] = d
      BY <3>2, <3>4 DEF StandsAt
    <3> HIDE DEF w
    <3>6. 0 + Len(w) <= n /\ \A i \in 1 .. Len(w) : rest[0 + i] = w[i]
      BY <3>3 DEF StandsAt
    <3>7. m + 1 \in 1 .. Len(w) /\ 0 + (m + 1) = m + 1
      BY <1>1, <3>3
    <3>8. rest[0 + (m + 1)] = w[m + 1]
      BY <3>6, <3>7
    <3> QED BY <1>1, <3>3, <3>5, <3>6, <3>7, <3>8
  <2> DEFINE i == m + 1
  <2>4. i \in Directions(rest)
    <3>1. i \in 2 .. n /\ i - 1 = m
      BY <1>1, <2>3
    <3>2. i < n => Capital(rest[i + 1])
      BY <1>1, <2>2 DEF KeyStands
    <3>3. Resolves(SubSeq(rest, 1, m))
      BY <1>1 DEF KeyStands, KeyIn
    <3>4. rest[i] \in {"Asc", "Desc"}
      BY <2>3
    <3> HIDE DEF i, m, n
    <3> QED BY <3>1, <3>2, <3>3, <3>4 DEF Directions, n
  <2>5. Min(Directions(rest)) = i
    <3> DEFINE D == Directions(rest)
    <3>1. D \in SUBSET Nat /\ D # {} /\ \A y \in D : y \in 2 .. n
      BY <2>4 DEF Directions
    <3> HIDE DEF D
    <3>2. Min(D) \in D /\ \A y \in D : Min(D) =< y
      BY <3>1, MinIn
    <3>3. \A y \in 2 .. m : y \notin D
      BY <1>3 DEF D
    <3>4. i \in D
      BY <2>4 DEF D
    <3> HIDE DEF m, n
    <3>5. m \in Nat
      BY <1>1
    <3>6. Min(D) \in 2 .. n /\ ~(Min(D) \in 2 .. m) /\ Min(D) =< i /\ n \in Nat
      BY <1>1, <3>1, <3>2, <3>3, <3>4
    <3>7. Min(D) = i
      BY <3>5, <3>6
    <3> QED BY <3>7 DEF D
  <2>6. SubSeq(rest, 1, i - 1) = words
    <3>1. i - 1 = m
      BY <1>1
    <3> QED BY <1>1, <3>1
  <2>7. (rest[i] = "Desc") = (key.dir = <<"Desc">>)
    <3>1. <<d>> = <<"Desc">> <=> d = "Desc"
      OBVIOUS
    <3> QED BY <2>1, <2>3, <3>1
  <2> HIDE DEF i, m, words
  <2>8. ASSUME NEW u
        PROVE  NextKey([keys |-> u, rest |-> rest]) =
                  [keys |-> Append(u, [prop |-> words, desc |-> key.dir = <<"Desc">>]),
                   rest |-> From(rest, i + 1)]
    <3>1. Directions(rest) # {}
      BY <2>4
    <3> QED BY <1>2, <2>5, <2>6, <2>7, <3>1 DEF NextKey
  <2>9. Len(SortKey(key)) = i
    BY <2>2 DEF i
  <2> QED BY <2>8, <2>9 DEF KeyIsRead, KeyRead, words
<1> QED BY <1>4, <1>5

\* ParseOrder, one sort key after another.
OrderStates(X) == [keys : Seq([prop : Seq(X), desc : BOOLEAN]), rest : Seq(X)]

\* ParseOrder takes key by key.
OrderSteps(X, s) ==
    \E g \in [0 .. Len(s) -> OrderStates(X)] :
        /\ g[0] = [keys |-> << >>, rest |-> s]
        /\ \A k \in 1 .. Len(s) : g[k] = NextKey(g[k - 1])
        /\ ParseOrder(s) = g[Len(s)].keys

\* A key more leaves keys and a rest.
LEMMA NextKeyIn == ASSUME NEW X, NEW u \in OrderStates(X) PROVE NextKey(u) \in OrderStates(X)
<1> DEFINE K == [prop : Seq(X), desc : BOOLEAN]
           rest == u.rest
           i == Min(Directions(rest))
           key == [prop |-> SubSeq(rest, 1, i - 1), desc |-> rest[i] = "Desc"]
<1>1. u.keys \in Seq(K) /\ rest \in Seq(X) /\ Len(rest) \in Nat
  BY DEF OrderStates
<1>2. CASE Directions(rest) = {}
  <2> DEFINE last1 == [prop |-> rest, desc |-> FALSE]
  <2>1. last1 \in K
    BY <1>1
  <2>2. OrderStates(X) = [keys : Seq(K), rest : Seq(X)] /\ << >> \in Seq(X)
    BY DEF OrderStates
  <2> HIDE DEF K, last1
  <2>3. Append(u.keys, last1) \in Seq(K)
    BY <1>1, <2>1, AppendProperties
  <2>4. [keys |-> Append(u.keys, last1), rest |-> << >>] \in OrderStates(X)
    BY <2>2, <2>3
  <2> QED BY <1>2, <2>4 DEF NextKey, last1
<1>3. CASE Directions(rest) # {}
  <2>1. i \in 2 .. Len(rest)
    <3> DEFINE D == Directions(rest)
    <3>1. D \in SUBSET Nat /\ \A y \in D : y \in 2 .. Len(rest)
      BY DEF Directions
    <3>2. Min(D) \in D
      <4> HIDE DEF D
      <4> QED BY <1>3, <3>1, MinIn DEF D
    <3> HIDE DEF D
    <3>3. Min(D) \in 2 .. Len(rest)
      BY <3>1, <3>2
    <3> QED BY <3>3 DEF D
  <2> HIDE DEF i
  <2>2. SubSeq(rest, 1, i - 1) \in Seq(X)
    <3>1. i - 1 \in Nat /\ i - 1 <= Len(rest)
      BY <1>1, <2>1
    <3>2. \A j \in 1 .. i - 1 : rest[j] \in X
      BY <1>1, <3>1
    <3> QED BY <3>1, <3>2
  <2>3. From(rest, i + 1) \in Seq(X)
    <3> DEFINE l == i + 1
    <3>1. l \in 1 .. Len(rest) + 1
      BY <1>1, <2>1
    <3> HIDE DEF l, rest
    <3>2. RestOf(X, rest, l)
      BY <1>1, <3>1, FromPieces
    <3> QED BY <3>2 DEF RestOf, l
  <2>4. key \in K
    BY <2>2
  <2>5. OrderStates(X) = [keys : Seq(K), rest : Seq(X)]
    BY DEF OrderStates
  <2> HIDE DEF K, key, rest
  <2>6. Append(u.keys, key) \in Seq(K)
    BY <1>1, <2>4, AppendProperties
  <2>7. [keys |-> Append(u.keys, key), rest |-> From(rest, i + 1)] \in OrderStates(X)
    BY <2>3, <2>5, <2>6
  <2>8. NextKey(u) = u \/ NextKey(u) = [keys |-> Append(u.keys, key), rest |-> From(rest, i + 1)]
    BY <1>3 DEF NextKey, key, rest, i
  <2> QED BY <2>7, <2>8
<1> QED BY <1>2, <1>3

\* ParseOrder takes key by key, whatever the text.
LEMMA OrderHasSteps == ASSUME NEW X, NEW s \in Seq(X) PROVE OrderSteps(X, s)
<1> DEFINE n == Len(s)
           T == OrderStates(X)
           base == [keys |-> << >>, rest |-> s]
           next == [k \in 1 .. n |-> [u \in T |-> NextKey(u)]]
           Made(f) == f = [k \in 0 .. Len(s) |-> IF k = 0 THEN [keys |-> << >>, rest |-> s] ELSE NextKey(f[k - 1])]
<1>1. n \in Nat /\ base \in T
  <2>1. << >> \in Seq([prop : Seq(X), desc : BOOLEAN])
    OBVIOUS
  <2> QED BY <2>1 DEF OrderStates
<1>2. \A u \in T : NextKey(u) \in T
  BY NextKeyIn
<1> HIDE DEF T, base
<1>3. next \in [1 .. n -> [T -> T]] /\ \A k \in 1 .. n, u \in T : next[k][u] = NextKey(u)
  BY <1>2
<1> HIDE DEF next
<1>4. \E f : Made(f)
  <2>1. Lead(T, base, n, next)
    BY <1>1, <1>3, StepByStep
  <2>2. PICK g \in [0 .. n -> T] : g[0] = base /\ \A k \in 1 .. n : g[k] = next[k][g[k - 1]]
    BY <2>1 DEF Lead
  <2>3. ASSUME NEW k \in 0 .. n PROVE g[k] = IF k = 0 THEN base ELSE NextKey(g[k - 1])
    <3>1. CASE k = 0
      BY <2>2, <3>1
    <3>2. CASE k # 0
      <4>1. k \in 1 .. n /\ k - 1 \in 0 .. n
        BY <1>1, <3>2
      <4> QED BY <1>3, <2>2, <3>2, <4>1
    <3> QED BY <3>1, <3>2
  <2>4. Made(g)
    BY <2>3 DEF base
  <2> HIDE DEF Made
  <2> QED BY <2>4
<1> DEFINE f == CHOOSE f : Made(f)
<1>5. Made(f)
  BY <1>4, Zenon
<1>6. ParseOrder(s) = f[n].keys
  BY DEF ParseOrder
<1> HIDE DEF f
<1>7. DOMAIN f = 0 .. n /\ f = [k \in DOMAIN f |-> f[k]] /\ f[0] = base
  BY <1>1, <1>5 DEF base
<1>8. ASSUME NEW k \in 1 .. n PROVE f[k] = NextKey(f[k - 1])
  <2>1. k \in 0 .. n /\ k # 0
    BY <1>1
  <2> QED BY <1>5, <2>1
<1>9. f \in [0 .. n -> T]
  <2>1. \A k \in 1 .. n : f[k - 1] \in T => f[k] = next[k][f[k - 1]]
    BY <1>3, <1>8
  <2>2. Stepping(T, base, n, next, f)
    BY <1>7, <2>1 DEF Stepping
  <2> HIDE DEF Made, n
  <2> QED BY <1>1, <1>3, <2>2, StepsStay
<1> QED BY <1>6, <1>7, <1>8, <1>9 DEF OrderSteps, T, base

\* Sort keys in words of X.
KeysIn(X, keys) ==
    /\ IsOrder(keys) /\ keys # << >> /\ {"Asc", "Desc"} \subseteq X
    /\ \A k \in DOMAIN keys : Range(keys[k].words) \subseteq X

\* Each sort key stands behind those before it.
KeysStand(X, keys, s, at) ==
    /\ s = SortKeys(keys) /\ s \in Seq(X) /\ at \in [0 .. Len(keys) -> Nat]
    /\ at[0] = 0 /\ at[Len(keys)] = Len(s)
    /\ \A k \in 1 .. Len(keys) :
          /\ KeyStands(X, keys[k], From(s, at[k - 1] + 1))
          /\ at[k] = at[k - 1] + Len(SortKey(keys[k])) /\ at[k] <= Len(s)

\* One of several keys.
KeySound(X, keys, k) ==
    /\ KeyIn(X, keys[k])
    /\ SortKey(keys[k]) \in Seq(X) /\ SortKey(keys[k])[1] = keys[k].words[1]
    /\ Len(SortKey(keys[k])) = Len(keys[k].words) + Len(keys[k].dir)
    /\ Len(keys[k].words) \in Nat \ {0} /\ Len(keys[k].dir) \in Nat
    /\ keys[k].dir = << >> => k = Len(keys)

\* Sort keys, one by one.
LEMMA KeysAreIn ==
    ASSUME NEW X, NEW keys, KeysIn(X, keys)
    PROVE  /\ Len(keys) \in Nat \ {0} /\ DOMAIN keys = 1 .. Len(keys)
           /\ \A k \in 1 .. Len(keys) : KeySound(X, keys, k)
<1>1. Len(keys) \in Nat \ {0} /\ DOMAIN keys = 1 .. Len(keys)
  <2>1. keys \in Seq(Range(keys)) /\ keys # << >>
    BY DEF KeysIn, IsOrder
  <2> QED BY <2>1, SomePieces
<1>2. ASSUME NEW k \in 1 .. Len(keys) PROVE KeySound(X, keys, k)
  <2> DEFINE words == keys[k].words
             dir == keys[k].dir
  <2>1. /\ words \in Seq(Range(words)) \ {<< >>} /\ Resolves(words) /\ Capital(words[1])
        /\ \A i \in 2 .. Len(words) : words[i] \in {"Asc", "Desc"} => ~Resolves(SubSeq(words, 1, i - 1))
        /\ dir \in {<<"Asc">>, <<"Desc">>} \cup (IF k = Len(keys) THEN {<< >>} ELSE {})
    BY <1>1 DEF KeysIn, IsOrder
  <2>2. Range(words) \subseteq X /\ "Asc" \in X /\ "Desc" \in X
    BY <1>1 DEF KeysIn
  <2>3. dir \in {<<"Asc">>, <<"Desc">>, << >>} /\ (dir = << >> => k = Len(keys))
    <3>1. << >> # <<"Asc">> /\ << >> # <<"Desc">>
      OBVIOUS
    <3> HIDE DEF words, dir
    <3> QED BY <2>1, <3>1
  <2>4. words \in Seq(X) \ {<< >>}
    <3> HIDE DEF words
    <3>1. words \in Seq(X)
      BY <2>1, <2>2, SeqMonotonic
    <3> QED BY <2>1, <3>1
  <2>5. dir \in Seq(X)
    <3>1. <<"Asc">> \in Seq(X) /\ <<"Desc">> \in Seq(X) /\ << >> \in Seq(X)
      BY <2>2, ElementOfSeq
    <3> QED BY <2>3, <3>1
  <2>6. KeyIn(X, keys[k])
    BY <2>1, <2>2, <2>3, <2>4 DEF KeyIn
  <2>7. SortKey(keys[k]) = words \o dir
    BY DEF SortKey
  <2> HIDE DEF words, dir
  <2>8. words \o dir \in Seq(X) /\ Len(words \o dir) = Len(words) + Len(dir) /\ StandsAt(words, words \o dir, 0)
    BY <2>4, <2>5, StandsInBoth
  <2>9. Len(words) \in Nat \ {0} /\ 1 \in 1 .. Len(words)
    BY <2>4, SomePieces
  <2>10. (words \o dir)[1] = words[1]
    <3> DEFINE w == words \o dir
    <3>1. StandsAt(words, w, 0)
      BY <2>8
    <3> HIDE DEF w
    <3>2. w[0 + 1] = words[1] /\ 0 + 1 = 1
      BY <2>9, <3>1 DEF StandsAt
    <3>3. w[1] = words[1]
      BY <3>2
    <3> QED BY <3>3 DEF w
  <2>11. Len(dir) \in Nat
    BY <2>5
  <2> QED BY <2>3, <2>6, <2>7, <2>8, <2>9, <2>10, <2>11 DEF words, dir, KeySound
<1> QED BY <1>1, <1>2

\* Sort keys stand in the text one behind another.
LEMMA KeysHavePlaces == ASSUME NEW X, NEW keys, KeysIn(X, keys) PROVE \E s, at : KeysStand(X, keys, s, at)
<1> DEFINE m == Len(keys)
           seqs == [k \in DOMAIN keys |-> SortKey(keys[k])]
           s == FlattenSeq(seqs)
<1>1. m \in Nat \ {0} /\ DOMAIN keys = 1 .. m
  BY KeysAreIn
<1>2. ASSUME NEW k \in 1 .. m PROVE KeySound(X, keys, k)
  BY KeysAreIn
<1>3. Len(seqs) = m /\ \A k \in 1 .. m : seqs[k] = SortKey(keys[k])
  <2> DEFINE Y == Seq(X)
  <2>0. \A k \in 1 .. m : SortKey(keys[k]) \in Y
    BY <1>2 DEF KeySound
  <2>1. seqs = [k \in 1 .. m |-> seqs[k]] /\ \A k \in 1 .. m : seqs[k] \in Y /\ seqs[k] = SortKey(keys[k])
    BY <1>1, <2>0
  <2> HIDE DEF seqs, Y, m
  <2>2. Numbered(Y, m, seqs)
    BY <1>1, <2>1 DEF Numbered
  <2>3. SequenceIn(Y, m, seqs)
    BY <2>2, SequenceOf
  <2> QED BY <2>1, <2>3 DEF SequenceIn
<1>4. s = SortKeys(keys)
  BY DEF SortKeys
<1> HIDE DEF seqs, m
<1>5. Placed(X, m, seqs)
  <2>1. \A k \in 1 .. m : seqs[k] \in Seq(X)
    BY <1>2, <1>3 DEF KeySound
  <2> QED BY <1>1, <1>3, <2>1, FlattenPlaces
<1>6. s \in Seq(X) /\ \E at : Places(m, seqs, at)
  BY <1>5 DEF Placed
<1>7. PICK at : Places(m, seqs, at)
  BY <1>6
<1>8. /\ at \in [0 .. m -> Nat] /\ at[0] = 0 /\ at[m] = Len(s)
      /\ \A k \in 1 .. m : at[k] = at[k - 1] + Len(seqs[k]) /\ StandsAt(seqs[k], s, at[k - 1])
  BY <1>7 DEF Places
<1> HIDE DEF s
<1>9. ASSUME NEW k \in 1 .. m
      PROVE  /\ at[k - 1] \in Nat /\ at[k] \in Nat /\ Len(s) \in Nat
             /\ at[k] = at[k - 1] + Len(SortKey(keys[k])) /\ at[k] <= Len(s)
             /\ StandsAt(SortKey(keys[k]), s, at[k - 1])
  <2>1. k - 1 \in 0 .. m /\ k \in 0 .. m
    BY <1>1
  <2>2. StandsAt(SortKey(keys[k]), s, at[k - 1]) /\ at[k] = at[k - 1] + Len(SortKey(keys[k]))
    BY <1>3, <1>8
  <2>3. at[k - 1] + Len(SortKey(keys[k])) <= Len(s)
    BY <2>2 DEF StandsAt
  <2> QED BY <1>6, <1>8, <2>1, <2>2, <2>3
<1>10. ASSUME NEW k \in 1 .. m PROVE KeyStands(X, keys[k], From(s, at[k - 1] + 1))
  <2> DEFINE e == at[k - 1]
             l == e + 1
             key == SortKey(keys[k])
             n == Len(key)
             rest == From(s, l)
  <2>1. /\ e \in Nat /\ Len(s) \in Nat /\ n \in Nat /\ at[k] = e + n /\ at[k] <= Len(s)
        /\ key \in Seq(X) /\ StandsAt(key, s, e)
    <3>1. key \in Seq(X)
      BY <1>2 DEF KeySound
    <3>2. n \in Nat
      <4> HIDE DEF key
      <4> QED BY <3>1
    <3> QED BY <1>9, <3>1, <3>2
  <2>2. l \in 1 .. Len(s) + 1
    BY <2>1
  <2>3. RestOf(X, s, l)
    <3> HIDE DEF l
    <3> QED BY <1>6, <2>2, FromPieces
  <2>4. rest \in Seq(X) /\ Len(rest) = Len(s) - e /\ \A j \in 1 .. Len(s) - e : rest[j] = s[e + j]
    <3>1. Len(s) - l + 1 = Len(s) - e /\ l - 1 = e
      BY <2>1
    <3> HIDE DEF l, e
    <3> QED BY <2>3, <3>1 DEF RestOf
  <2> HIDE DEF l, rest
  <2>5. StandsAt(key, rest, 0)
    <3> HIDE DEF e, key
    <3>1. ASSUME NEW i \in 1 .. n PROVE rest[0 + i] = key[i]
      <4>1. i \in 1 .. Len(s) - e /\ 0 + i = i
        BY <2>1
      <4>2. s[e + i] = key[i]
        BY <2>1 DEF StandsAt
      <4> QED BY <2>4, <4>1, <4>2
    <3>2. 0 + n <= Len(rest)
      BY <2>1, <2>4
    <3> QED BY <3>1, <3>2 DEF StandsAt
  <2>6. k = m => Len(rest) = n
    BY <1>8, <2>1, <2>4
  <2>7. ASSUME keys[k].dir = << >> PROVE Len(rest) = Len(keys[k].words)
    <3> DEFINE a == Len(keys[k].words)
               b == Len(keys[k].dir)
    <3>1. b = 0
      BY <2>7
    <3>2. k = m /\ n = a + b /\ a \in Nat
      BY <1>2, <2>7 DEF KeySound, m
    <3>3. Len(rest) = n
      BY <2>6, <3>2
    <3> HIDE DEF n, a, b
    <3>4. Len(rest) = a
      BY <3>1, <3>2, <3>3
    <3> QED BY <3>4 DEF a
  <2>8. ASSUME Len(rest) > n PROVE Capital(rest[n + 1])
    <3> DEFINE j == k + 1
               next == SortKey(keys[j])
    <3>1. k # m
      BY <2>1, <2>4, <2>6, <2>8
    <3>2. j \in 1 .. m /\ j - 1 = k
      BY <1>1, <3>1
    <3>3. StandsAt(next, s, at[k]) /\ KeyIn(X, keys[j]) /\ next[1] = keys[j].words[1] /\ Len(next) \in Nat \ {0}
      <4> HIDE DEF j
      <4>1. StandsAt(next, s, at[k])
        BY <1>9, <3>2
      <4>2. KeySound(X, keys, j)
        BY <1>2, <3>2
      <4>3. KeyIn(X, keys[j]) /\ next[1] = keys[j].words[1]
        BY <4>2 DEF KeySound
      <4> DEFINE a == Len(keys[j].words)
                 b == Len(keys[j].dir)
      <4>4. Len(next) = a + b
        BY <4>2 DEF KeySound
      <4>5. a \in Nat \ {0} /\ b \in Nat
        BY <4>2 DEF KeySound
      <4> HIDE DEF next, a, b
      <4>6. Len(next) \in Nat \ {0}
        BY <4>4, <4>5
      <4> QED BY <4>1, <4>3, <4>6
    <3> HIDE DEF next, j
    <3>4. s[at[k] + 1] = next[1]
      <4>1. 1 \in 1 .. Len(next)
        BY <3>3
      <4> QED BY <3>3, <4>1 DEF StandsAt
    <3>5. rest[n + 1] = s[e + (n + 1)]
      <4>1. n + 1 \in 1 .. Len(s) - e
        BY <2>1, <2>4, <2>8
      <4> HIDE DEF e, n
      <4> QED BY <2>4, <4>1
    <3>6. e + (n + 1) = at[k] + 1
      BY <2>1
    <3>7. Capital(keys[j].words[1])
      BY <3>3 DEF KeyIn
    <3> QED BY <3>3, <3>4, <3>5, <3>6, <3>7
  <2>9. KeyIn(X, keys[k])
    BY <1>2 DEF KeySound
  <2>10. KeyStands(X, keys[k], rest)
    BY <2>4, <2>5, <2>7, <2>8, <2>9 DEF KeyStands
  <2> QED BY <2>10 DEF rest, l
<1>11. KeysStand(X, keys, s, at)
  BY <1>4, <1>6, <1>8, <1>9, <1>10 DEF KeysStand, m
<1> QED BY <1>11

\* A sequence of the first values with the next one.
LEMMA NextOf ==
    ASSUME NEW Y, NEW n \in Nat, NEW h \in [1 .. n + 1 -> Y]
    PROVE  /\ [j \in 1 .. n + 1 |-> h[j]] = Append([j \in 1 .. n |-> h[j]], h[n + 1])
           /\ [j \in 1 .. n |-> h[j]] \in Seq(Y)
<1> DEFINE a == [j \in 1 .. n |-> h[j]]
           b == [j \in 1 .. n + 1 |-> h[j]]
<1>1. a \in Seq(Y) /\ Len(a) = n /\ \A j \in 1 .. n : a[j] = h[j]
  OBVIOUS
<1>2. b \in Seq(Y) /\ Len(b) = n + 1 /\ \A j \in 1 .. n + 1 : b[j] = h[j]
  OBVIOUS
<1>3. h[n + 1] \in Y
  OBVIOUS
<1> HIDE DEF a, b
<1>4. Append(a, h[n + 1]) \in Seq(Y) /\ Len(Append(a, h[n + 1])) = n + 1
  BY <1>1, <1>3
<1>5. ASSUME NEW j \in 1 .. n + 1 PROVE Append(a, h[n + 1])[j] = b[j]
  <2>1. CASE j \in 1 .. n
    BY <1>1, <1>2, <1>3, <2>1, AppendProperties
  <2>2. CASE j = n + 1
    BY <1>1, <1>2, <1>3, <2>2, AppendProperties
  <2>3. j \in 1 .. n \/ j = n + 1
    OBVIOUS
  <2> QED BY <2>1, <2>2, <2>3
<1>6. b = Append(a, h[n + 1])
  BY <1>2, <1>4, <1>5, SeqEqual
<1> QED BY <1>1, <1>6 DEF a, b

\* Sort keys are read one after another, and then nothing is left.
LEMMA KeysAreRead ==
    ASSUME NEW X, NEW keys, KeysIn(X, keys)
    PROVE  SortKeys(keys) \in Seq(X) /\ ParseOrder(SortKeys(keys)) = [k \in DOMAIN keys |-> KeyRead(keys[k])]
<1>1. PICK s, at : KeysStand(X, keys, s, at)
  BY KeysHavePlaces
<1> DEFINE m == Len(keys)
           n == Len(s)
           h == [k \in 1 .. m |-> KeyRead(keys[k])]
           KeysTo(k) == [j \in 1 .. k |-> h[j]]
<1>2. m \in Nat \ {0} /\ DOMAIN keys = 1 .. m
  BY KeysAreIn
<1>3. /\ s = SortKeys(keys) /\ s \in Seq(X) /\ at \in [0 .. m -> Nat] /\ at[0] = 0 /\ at[m] = n
      /\ \A k \in 1 .. m :
            /\ KeyStands(X, keys[k], From(s, at[k - 1] + 1))
            /\ at[k] = at[k - 1] + Len(SortKey(keys[k])) /\ at[k] <= n
  BY <1>1 DEF KeysStand
<1>4. PICK g \in [0 .. n -> OrderStates(X)] :
         /\ g[0] = [keys |-> << >>, rest |-> s]
         /\ \A k \in 1 .. n : g[k] = NextKey(g[k - 1])
         /\ ParseOrder(s) = g[n].keys
  <2>1. OrderSteps(X, s)
    BY <1>3, OrderHasSteps
  <2> QED BY <2>1 DEF OrderSteps
<1>5. n \in Nat
  BY <1>3
<1> DEFINE K == [prop : Seq(X), desc : BOOLEAN]
<1>6. h \in [1 .. m -> K]
  <2>1. ASSUME NEW k \in 1 .. m PROVE KeyRead(keys[k]) \in K
    <3>1. KeySound(X, keys, k)
      BY KeysAreIn
    <3>2. keys[k].words \in Seq(X)
      BY <3>1 DEF KeySound, KeyIn
    <3> QED BY <3>2 DEF KeyRead
  <2> HIDE DEF K
  <2> QED BY <2>1
<1> DEFINE Reached(k) == k <= at[k] /\ k <= n /\ g[k] = [keys |-> KeysTo(k), rest |-> From(s, at[k] + 1)]
           S == {k \in Nat : k <= m => Reached(k)}
<1> HIDE DEF h, K
<1>7. 0 \in S
  <2>1. KeysTo(0) = << >>
    OBVIOUS
  <2>2. From(s, 0 + 1) = s
    BY <1>3, SubSeqFull DEF From
  <2> HIDE DEF KeysTo
  <2> QED BY <1>2, <1>3, <1>4, <1>5, <2>1, <2>2
<1>8. ASSUME NEW k \in Nat, k \in S PROVE k + 1 \in S
  <2> DEFINE l == k + 1
  <2> SUFFICES ASSUME l <= m PROVE Reached(l)
    <3> HIDE DEF Reached
    <3> QED OBVIOUS
  <2>1. l \in 1 .. m /\ l - 1 = k /\ k \in 0 .. m /\ l \in 0 .. m
    OBVIOUS
  <2>2. Reached(k)
    <3> HIDE DEF Reached
    <3> QED BY <1>8, <2>1
  <2> DEFINE key == keys[l]
             e == at[k]
             rest == From(s, e + 1)
             c == Len(SortKey(key))
  <2>3. KeyStands(X, key, rest) /\ at[l] = e + c /\ at[l] <= n /\ e \in Nat /\ at[l] \in Nat
    <3> HIDE DEF l, m, n
    <3>1. KeyStands(X, keys[l], From(s, at[l - 1] + 1)) /\ at[l] = at[l - 1] + Len(SortKey(keys[l])) /\ at[l] <= n
      BY <1>3, <2>1
    <3>2. at[k] \in Nat /\ at[l] \in Nat
      BY <1>3, <2>1
    <3> QED BY <2>1, <3>1, <3>2
  <2>4. c \in Nat \ {0}
    <3>1. KeySound(X, keys, l)
      <4> HIDE DEF l
      <4> QED BY <2>1, KeysAreIn
    <3> DEFINE a == Len(key.words)
               b == Len(key.dir)
    <3>2. c = a + b /\ a \in Nat \ {0} /\ b \in Nat
      BY <3>1 DEF KeySound
    <3> HIDE DEF a, b, c
    <3> QED BY <3>2
  <2>5. l <= at[l] /\ l <= n
    <3> HIDE DEF e, c, n
    <3>1. k <= e
      BY <2>2 DEF e
    <3> QED BY <1>5, <2>3, <2>4, <3>1
  <2>6. g[l] = NextKey(g[k])
    <3>1. l \in 1 .. n
      BY <1>5, <2>5
    <3> HIDE DEF l
    <3> QED BY <1>4, <2>1, <3>1
  <2>7. g[k] = [keys |-> KeysTo(k), rest |-> rest]
    BY <2>2
  <2>8. KeyIsRead(key, rest)
    <3> HIDE DEF key, rest
    <3> QED BY <2>3, KeyIsNext
  <2>9. From(rest, c + 1) = From(s, at[l] + 1)
    <3> DEFINE i == e + 1
    <3>1. i \in 1 .. Len(s) + 1 /\ i + c <= Len(s) + 1 /\ i + c = at[l] + 1
      <4> HIDE DEF e, c, l
      <4> QED BY <1>5, <2>3, <2>4
    <3> HIDE DEF i, c
    <3>2. From(From(s, i), c + 1) = From(s, i + c)
      BY <1>3, <2>4, <3>1, FromFrom
    <3> QED BY <3>1, <3>2 DEF i
  <2>10. Append(KeysTo(k), KeyRead(key)) = KeysTo(l)
    <3> DEFINE f == [j \in 1 .. k + 1 |-> h[j]]
    <3>1. f \in [1 .. k + 1 -> K]
      BY <1>6, <2>1
    <3>2. f[k + 1] = KeyRead(key)
      BY <2>1 DEF h
    <3>3. [j \in 1 .. k + 1 |-> f[j]] = KeysTo(l) /\ [j \in 1 .. k |-> f[j]] = KeysTo(k)
      OBVIOUS
    <3> HIDE DEF f, KeysTo
    <3>4. [j \in 1 .. k + 1 |-> f[j]] = Append([j \in 1 .. k |-> f[j]], f[k + 1])
      BY <3>1, NextOf
    <3> QED BY <3>2, <3>3, <3>4
  <2> HIDE DEF KeysTo, rest, key, c
  <2>11. NextKey([keys |-> KeysTo(k), rest |-> rest]) = [keys |-> Append(KeysTo(k), KeyRead(key)), rest |-> From(rest, c + 1)]
    BY <2>8 DEF KeyIsRead, c
  <2>12. g[l] = [keys |-> KeysTo(l), rest |-> From(s, at[l] + 1)]
    BY <2>6, <2>7, <2>9, <2>10, <2>11
  <2> QED BY <2>5, <2>12
<1> HIDE DEF Reached
<1>9. Nat \subseteq S
  <2> HIDE DEF S
  <2> QED BY <1>7, <1>8, Induction
<1>10. Reached(m)
  <2>1. m \in Nat
    BY <1>2
  <2> HIDE DEF m
  <2> QED BY <1>9, <2>1
<1>11. g[m] = [keys |-> h, rest |-> << >>] /\ m <= n
  <2>1. From(s, n + 1) = << >>
    <3> DEFINE l == n + 1
    <3>1. l \in Nat /\ l > Len(s)
      BY <1>5
    <3> HIDE DEF l
    <3>2. From(s, l) = << >>
      BY <1>3, <3>1, FromEnd
    <3> QED BY <3>2 DEF l
  <2>2. KeysTo(m) = h
    BY <1>6
  <2> HIDE DEF KeysTo, m, n
  <2>3. g[m] = [keys |-> KeysTo(m), rest |-> From(s, at[m] + 1)] /\ m <= n
    BY <1>10 DEF Reached
  <2> QED BY <1>3, <2>1, <2>2, <2>3
<1> DEFINE Z == {d \in Nat : m + d <= n => g[m + d] = g[m]}
<1>12. 0 \in Z
  BY <1>2
<1>13. ASSUME NEW d \in Nat, d \in Z PROVE d + 1 \in Z
  <2> SUFFICES ASSUME m + (d + 1) <= n PROVE g[m + (d + 1)] = g[m]
    OBVIOUS
  <2> DEFINE l == m + (d + 1)
  <2>1. l \in 1 .. n /\ l - 1 = m + d /\ m + d <= n
    BY <1>2, <1>5
  <2>2. g[m + d] = g[m]
    BY <1>13, <2>1
  <2> HIDE DEF l
  <2>3. g[l] = NextKey(g[l - 1])
    BY <1>4, <2>1
  <2>4. NextKey(g[m]) = g[m]
    BY <1>11 DEF NextKey
  <2>5. g[l] = g[m]
    BY <2>1, <2>2, <2>3, <2>4
  <2> QED BY <2>5 DEF l
<1>14. g[n] = g[m]
  <2>1. n - m \in Nat /\ m + (n - m) = n
    BY <1>2, <1>5, <1>11
  <2>2. Nat \subseteq Z
    <3> HIDE DEF Z
    <3> QED BY <1>12, <1>13, Induction
  <2>3. n - m \in Z
    BY <2>1, <2>2
  <2> QED BY <2>1, <2>3
<1> QED BY <1>2, <1>3, <1>4, <1>11, <1>14 DEF h

\* No words, no sort keys.
LEMMA NoKeysRead == ParseOrder(<< >>) = << >>
<1> DEFINE s == << >>
<1>1. s \in Seq({}) /\ Len(s) = 0
  OBVIOUS
<1> HIDE DEF s
<1>2. OrderSteps({}, s)
  BY <1>1, OrderHasSteps
<1>3. ParseOrder(s) = << >>
  BY <1>1, <1>2 DEF OrderSteps
<1> QED BY <1>3 DEF s

-------------------------------------------------------------------------------
(* Places in a name. *)

\* The first piece of a set is where none is before it.
LEMMA FirstIs ==
    ASSUME NEW X, NEW s \in Seq(X), NEW pieces, NEW k \in 1 .. Len(s) + 1,
           \A i \in 1 .. k - 1 : s[i] \notin pieces, k <= Len(s) => s[k] \in pieces
    PROVE  First(s, pieces) = k
<1> DEFINE n == Len(s)
           S == {i \in DOMAIN s : s[i] \in pieces} \cup {n + 1}
<1>1. n \in Nat /\ DOMAIN s = 1 .. n
  OBVIOUS
<1>2. S \in SUBSET Nat /\ k \in S /\ \A y \in S : y \in 1 .. n + 1 /\ ~(y \in 1 .. k - 1)
  <2>1. S \subseteq 1 .. n + 1
    BY <1>1
  <2>2. k \in S
    BY <1>1
  <2>3. ASSUME NEW y \in S PROVE ~(y \in 1 .. k - 1)
    BY <1>1
  <2> HIDE DEF S, n
  <2> QED BY <1>1, <2>1, <2>2, <2>3
<1>3. First(s, pieces) = Min(S)
  BY DEF First
<1> HIDE DEF S
<1>4. Min(S) \in S /\ \A y \in S : Min(S) =< y
  BY <1>2, MinIn
<1>5. Min(S) \in 1 .. n + 1 /\ ~(Min(S) \in 1 .. k - 1) /\ Min(S) =< k
  BY <1>2, <1>4
<1> HIDE DEF n
<1>6. Min(S) = k
  BY <1>1, <1>5 DEF n
<1> QED BY <1>3, <1>6

\* Both texts are found again.
Parted(X, u, v) ==
    /\ u \o v \in Seq(X) /\ Len(u \o v) = Len(u) + Len(v)
    /\ \A i \in 1 .. Len(u) : (u \o v)[i] = u[i]
    /\ \A i \in 1 .. Len(v) : (u \o v)[Len(u) + i] = v[i]
    /\ SubSeq(u \o v, 1, Len(u)) = u /\ From(u \o v, Len(u) + 1) = v
    /\ Len(u) \in Nat /\ Len(v) \in Nat

\* A joined sequence is cut into the two it was joined from.
LEMMA PartsOfBoth == ASSUME NEW X, NEW u \in Seq(X), NEW v \in Seq(X) PROVE Parted(X, u, v)
<1> DEFINE w == u \o v
           m == Len(u)
           n == Len(v)
<1>1. m \in Nat /\ n \in Nat
  OBVIOUS
<1>2. w \in Seq(X) /\ Len(w) = m + n /\ StandsAt(u, w, 0) /\ StandsAt(v, w, m)
  BY StandsInBoth
<1> HIDE DEF w
<1>3. \A i \in 1 .. m : w[i] = u[i]
  <2>1. \A i \in 1 .. m : w[0 + i] = u[i] /\ 0 + i = i
    BY <1>2 DEF StandsAt
  <2> QED BY <2>1
<1>4. \A i \in 1 .. n : w[m + i] = v[i]
  BY <1>2 DEF StandsAt
<1>5. SubSeq(w, 1, m) = u
  <2>1. SubSeq(w, 0 + 1, 0 + Len(u)) = u
    BY <1>2, StandingIs
  <2>2. 0 + 1 = 1 /\ 0 + Len(u) = m
    BY <1>1
  <2> QED BY <2>1, <2>2
<1>6. From(w, m + 1) = v
  <2>1. SubSeq(w, m + 1, m + Len(v)) = v
    BY <1>1, <1>2, StandingIs
  <2>2. m + Len(v) = Len(w)
    BY <1>2
  <2> QED BY <2>1, <2>2 DEF From
<1> QED BY <1>1, <1>2, <1>3, <1>4, <1>5, <1>6 DEF Parted, w

\* What is behind the first piece.
LEMMA TailIs ==
    ASSUME NEW X, NEW c \in X, NEW s \in Seq(X)
    PROVE  /\ <<c>> \o s \in Seq(X) /\ <<c>> \o s # << >> /\ (<<c>> \o s)[1] = c
           /\ Tail(<<c>> \o s) = s
<1> DEFINE u == <<c>>
           w == u \o s
<1>1. u \in Seq(X) /\ Len(u) = 1 /\ u[1] = c
  OBVIOUS
<1> HIDE DEF u
<1>2. Parted(X, u, s)
  BY <1>1, PartsOfBoth
<1>3. w \in Seq(X) /\ Len(w) = 1 + Len(s) /\ w[1] = c /\ From(w, 1 + 1) = s /\ Len(s) \in Nat
  BY <1>1, <1>2 DEF Parted
<1> HIDE DEF w
<1>4. w # << >>
  <2>1. w = << >> => Len(w) = 0
    OBVIOUS
  <2>2. Len(w) # 0
    BY <1>3
  <2> QED BY <2>1, <2>2
<1>5. Tail(w) = s
  <2> DEFINE a == Tail(w)
  <2>1. a \in Seq(X) /\ Len(a) = Len(s)
    BY <1>3, <1>4
  <2>2. \A i \in 1 .. Len(s) : a[i] = w[1 + i]
    BY <1>3, <1>4
  <2>3. \A i \in 1 .. Len(s) : w[1 + i] = s[i]
    BY <1>1, <1>2 DEF Parted, w
  <2> HIDE DEF a
  <2>4. \A i \in 1 .. Len(s) : a[i] = s[i]
    BY <2>2, <2>3
  <2>5. a = s
    BY <2>1, <2>4, SeqEqual
  <2> QED BY <2>5 DEF a
<1> QED BY <1>3, <1>4, <1>5 DEF w, u

\* First and Top are read with their number where they stand.
SubjectIn(X, sp) ==
    IsSubject(sp) /\ sp.before \in Seq(X) /\ sp.limit \in Seq(X) /\ sp.after \in Seq(X)

\* The limit is the number behind First or Top, or 1 without one.
LEMMA LimitIsRead ==
    ASSUME NEW X, NEW sp, SubjectIn(X, sp)
    PROVE  Subject(sp) \in Seq(X) /\ LimitOf(Subject(sp)) = LimitIs(sp.limit)
<1> DEFINE a == sp.before
           b == sp.limit
           c == sp.after
           s == Subject(sp)
           ab == a \o b
           pieces == {"First", "Top"}
           m == Len(a)
           l == Len(b)
           o == Len(c)
           n == Len(s)
<1>1. a \in Seq(X) /\ b \in Seq(X) /\ c \in Seq(X) /\ s = ab \o c
  BY DEF SubjectIn, Subject
<1>2. /\ \/ b = << >> /\ pieces \cap Range(c) = {}
         \/ b \in {<<"First">>, <<"Top">>} /\ (c # << >> => c[1] \notin DOMAIN Number)
         \/ b \in {<<word, num>> : word \in pieces, num \in DOMAIN Number}
      /\ pieces \cap Range(a) = {}
  BY DEF SubjectIn, IsSubject
<1> HIDE DEF a, b, c, s, pieces
<1>3. Parted(X, a, b)
  BY <1>1, PartsOfBoth
<1>4. ab \in Seq(X) /\ Len(ab) = m + l /\ m \in Nat /\ l \in Nat
      /\ (\A i \in 1 .. m : ab[i] = a[i]) /\ \A i \in 1 .. l : ab[m + i] = b[i]
  BY <1>3 DEF Parted
<1> HIDE DEF ab
<1>5. Parted(X, ab, c)
  BY <1>1, <1>4, PartsOfBoth
<1>6. s \in Seq(X) /\ n = (m + l) + o /\ o \in Nat
      /\ (\A i \in 1 .. m + l : s[i] = ab[i]) /\ \A i \in 1 .. o : s[(m + l) + i] = c[i]
  BY <1>1, <1>4, <1>5 DEF Parted
<1>7. ASSUME NEW i \in 1 .. m PROVE s[i] \notin pieces
  <2>1. i \in 1 .. m + l /\ i \in DOMAIN a
    BY <1>1, <1>4
  <2>2. s[i] = a[i]
    BY <1>4, <1>6, <2>1
  <2>3. a[i] \in Range(a)
    BY <2>1 DEF Range
  <2> QED BY <1>2, <2>2, <2>3
<1>8. ASSUME NEW i \in 1 .. l PROVE s[m + i] = b[i]
  <2>1. m + i \in 1 .. m + l
    BY <1>4
  <2> QED BY <1>4, <1>6, <2>1
<1>9. CASE b = << >> /\ pieces \cap Range(c) = {}
  <2>1. l = 0
    BY <1>9
  <2> DEFINE k == n + 1
  <2>2. k \in 1 .. n + 1 /\ ~(k <= n) /\ k - 1 = n /\ n \in Nat
    BY <1>4, <1>6
  <2>3. ASSUME NEW i \in 1 .. n PROVE s[i] \notin pieces
    <3>1. CASE i <= m
      BY <1>7, <3>1
    <3>2. CASE ~(i <= m)
      <4> DEFINE j == i - m
      <4>1. j \in 1 .. o /\ (m + l) + j = i
        BY <1>4, <1>6, <2>1, <3>2
      <4> HIDE DEF j
      <4>2. s[i] = c[j]
        BY <1>6, <4>1
      <4>3. c[j] \in Range(c)
        BY <1>1, <4>1 DEF Range
      <4> QED BY <1>9, <4>2, <4>3
    <3> QED BY <3>1, <3>2
  <2> HIDE DEF k, n
  <2>4. First(s, pieces) = k
    BY <1>6, <2>2, <2>3, FirstIs DEF n
  <2>5. First(s, pieces) > Len(s)
    BY <2>2, <2>4 DEF k, n
  <2>6. LimitOf(s) = 0
    BY <2>5 DEF LimitOf, pieces
  <2> QED BY <1>6, <1>9, <2>6 DEF LimitIs, s, b
<1> DEFINE k == m + 1
<1>10. ASSUME l >= 1, b[1] \in pieces PROVE First(s, pieces) = k /\ k <= n
  <2>1. k \in 1 .. n + 1 /\ k - 1 = m /\ k <= n /\ 1 \in 1 .. l
    BY <1>4, <1>6, <1>10
  <2>2. s[k] \in pieces
    BY <1>8, <1>10, <2>1
  <2> HIDE DEF k, m, n
  <2> QED BY <1>6, <1>7, <2>1, <2>2, FirstIs DEF n
<1>11. CASE b \in {<<"First">>, <<"Top">>} /\ (c # << >> => c[1] \notin DOMAIN Number)
  <2>1. l = 1 /\ b[1] \in pieces
    BY <1>11 DEF pieces
  <2>2. First(s, pieces) = k /\ k <= n
    BY <1>10, <2>1
  <2>3. ~(k < n /\ s[k + 1] \in DOMAIN Number)
    <3>1. SUFFICES ASSUME k < n PROVE s[k + 1] \notin DOMAIN Number
      OBVIOUS
    <3>2. 1 \in 1 .. o /\ (m + l) + 1 = k + 1
      BY <1>4, <1>6, <2>1, <3>1
    <3>3. s[k + 1] = c[1]
      <4> HIDE DEF k, m, l, o
      <4> QED BY <1>6, <3>2
    <3>4. c # << >>
      <4>1. c = << >> => Len(c) = 0
        OBVIOUS
      <4> QED BY <3>2, <4>1
    <3> QED BY <1>11, <3>3, <3>4
  <2>4. b # << >>
    BY <1>11
  <2>5. LimitOf(s) = 1
    <3>1. ~(k > Len(s))
      BY <1>4, <1>6, <2>2
    <3> HIDE DEF k
    <3> QED BY <2>2, <2>3, <3>1 DEF LimitOf, pieces
  <2>6. LimitIs(b) = 1
    BY <2>1, <2>4 DEF LimitIs
  <2> QED BY <1>6, <2>5, <2>6 DEF s, b
<1>12. CASE b \in {<<word, num>> : word \in pieces, num \in DOMAIN Number}
  <2>1. PICK word \in pieces, num \in DOMAIN Number : b = <<word, num>>
    BY <1>12
  <2>2. l = 2 /\ b[1] = word /\ b[2] = num /\ b # << >>
    BY <2>1
  <2>3. First(s, pieces) = k /\ k <= n
    BY <1>10, <2>2
  <2>4. k < n /\ s[k + 1] = num
    <3>1. 2 \in 1 .. l /\ m + 2 = k + 1
      BY <1>4, <2>2
    <3>2. s[m + 2] = b[2]
      BY <1>8, <3>1
    <3> QED BY <1>4, <1>6, <2>2, <3>1, <3>2
  <2>5. ~(k > Len(s))
    BY <1>4, <1>6, <2>3
  <2> HIDE DEF k
  <2>6. LimitOf(s) = IF Number[num] > 0 THEN Number[num] ELSE 1
    BY <2>3, <2>4, <2>5 DEF LimitOf, pieces
  <2>7. LimitIs(b) = IF Number[num] > 0 THEN Number[num] ELSE 1
    BY <2>2 DEF LimitIs
  <2> QED BY <1>6, <2>6, <2>7 DEF s, b
<1> QED BY <1>2, <1>9, <1>11, <1>12

\* Two endings of one length that differ are not both endings of a text.
LEMMA OtherEnding ==
    ASSUME NEW X, NEW s \in Seq(X), NEW t \in Seq(X), NEW u \in Seq(X), Len(t) = Len(u),
           NEW i \in 1 .. Len(t), t[i] # u[i]
    PROVE  ~IsSuffix(t, s \o u)
<1> DEFINE w == s \o u
<1>1. Parted(X, s, u)
  BY PartsOfBoth
<1>2. w \in Seq(X) /\ Len(w) = Len(s) + Len(u) /\ \A j \in 1 .. Len(u) : w[Len(s) + j] = u[j]
  BY <1>1 DEF Parted
<1>3. Len(s) \in Nat /\ Len(u) \in Nat
  OBVIOUS
<1> HIDE DEF w
<1>4. ASSUME IsSuffix(t, w) PROVE FALSE
  <2>0. w \in Seq(X)
    BY <1>2
  <2>1. \A j \in 1 .. Len(t) : t[j] = w[Len(w) - Len(t) + j]
    BY <1>4, <2>0, SuffixPieces
  <2>2. Len(w) - Len(t) + i = Len(s) + i
    BY <1>2, <1>3
  <2>3. t[i] = w[Len(s) + i] /\ w[Len(s) + i] = u[i]
    BY <1>2, <2>1, <2>2
  <2> QED BY <2>3
<1> QED BY <1>4 DEF w

\* The words of AllIgnoreCase.
LEMMA AllIgnoreCaseWords ==
    /\ Range(AllIgnoreCase) = {<<"All", "Ignore", "Case">>, <<"All", "Ignoring", "Case">>}
    /\ AllIgnoreCase[1] = <<"All", "Ignore", "Case">> /\ AllIgnoreCase[2] = <<"All", "Ignoring", "Case">>
<1>1. DOMAIN AllIgnoreCase = {1, 2} /\ AllIgnoreCase[1] = <<"All", "Ignore", "Case">>
      /\ AllIgnoreCase[2] = <<"All", "Ignoring", "Case">>
  BY DEF AllIgnoreCase
<1> QED BY <1>1 DEF Range

\* The words of AllIgnoreCase are taken off, and nothing else.
AllOff(X, text, all) ==
    /\ text \o all \in Seq(X) /\ all \in Seq(X)
    /\ TrimBoth(text \o all, AllIgnoreCase) = text
    /\ text # text \o all <=> all # << >>

\* The words of AllIgnoreCase are taken off, and nothing else.
LEMMA AllIgnoreCaseOff ==
    ASSUME NEW X, Words \subseteq X, NEW text \in Seq(X), NEW all \in Range(AllIgnoreCase) \cup {<< >>},
           \A suffix \in Range(AllIgnoreCase) : ~IsSuffix(suffix, text)
    PROVE  AllOff(X, text, all)
<1> DEFINE a == <<"All", "Ignore", "Case">>
           b == <<"All", "Ignoring", "Case">>
<1>1. a \in Seq(X) /\ b \in Seq(X) /\ Len(a) = 3 /\ Len(b) = 3 /\ a[2] # b[2] /\ b[2] # a[2]
  <2>1. "All" \in X /\ "Ignore" \in X /\ "Ignoring" \in X /\ "Case" \in X
    BY DEF Words
  <2> QED BY <2>1
<1>2. AllIgnoreCase[1] = a /\ AllIgnoreCase[2] = b /\ all \in {a, b, << >>}
      /\ ~IsSuffix(a, text) /\ ~IsSuffix(b, text)
  BY AllIgnoreCaseWords
<1> HIDE DEF a, b
<1>3. ~IsSuffix(a, text \o b)
  <2>1. 2 \in 1 .. Len(a)
    BY <1>1
  <2> QED BY <1>1, <2>1, OtherEnding
<1>4. all \in Seq(X)
  <2>1. << >> \in Seq(X)
    OBVIOUS
  <2> QED BY <1>1, <1>2, <2>1
<1>5. TrimBoth(text \o all, AllIgnoreCase) = Trim(Trim(text \o all, a), b)
  BY <1>2 DEF TrimBoth
<1>6. Trim(text, a) = text /\ Trim(text, b) = text /\ Trim(text \o b, a) = text \o b
  BY <1>2, <1>3 DEF Trim
<1>7. Trim(text \o a, a) = text /\ Trim(text \o b, b) = text
  BY <1>1, TrimSuffix
<1>8. text \o << >> = text
  BY ConcatEmptySeq
<1>9. TrimBoth(text \o all, AllIgnoreCase) = text
  BY <1>2, <1>5, <1>6, <1>7, <1>8
<1>10. text # text \o all <=> all # << >>
  BY <1>4, ConcatEqualIffEmpty
<1>11. text \o all \in Seq(X)
  BY <1>4, ConcatProperties
<1> QED BY <1>4, <1>9, <1>10, <1>11 DEF AllOff

\* Where OrderBy is not.
OrderPlaces(s) == {i \in DOMAIN s : i + 2 <= Len(s) /\ SubSeq(s, i, i + 2) = <<"Or", "der", "By">>}

\* OrderBy stands where its three pieces do.
LEMMA OrderPlace ==
    ASSUME NEW X, NEW s \in Seq(X), NEW i \in 1 .. Len(s)
    PROVE  i \in OrderPlaces(s) <=>
              i + 2 <= Len(s) /\ s[i] = "Or" /\ s[i + 1] = "der" /\ s[i + 2] = "By"
<1> SUFFICES ASSUME i + 2 <= Len(s)
             PROVE  SubSeq(s, i, i + 2) = <<"Or", "der", "By">>
                       <=> s[i] = "Or" /\ s[i + 1] = "der" /\ s[i + 2] = "By"
  <2>1. i \in DOMAIN s
    OBVIOUS
  <2> QED BY <2>1 DEF OrderPlaces
<1> DEFINE a == SubSeq(s, i, i + 2)
<1>1. i \in Nat /\ Len(s) \in Nat /\ \A j \in i .. i + 2 : s[j] \in X
  OBVIOUS
<1>2. a \in Seq(X) /\ Len(a) = 3
  <2>1. a \in Seq(X)
    BY <1>1
  <2>2. Len(a) = (i + 2) - i + 1
    BY <1>1
  <2>3. (i + 2) - i + 1 = 3
    BY <1>1
  <2> HIDE DEF a
  <2> QED BY <2>1, <2>2, <2>3
<1>3. a[1] = s[i] /\ a[2] = s[i + 1] /\ a[3] = s[i + 2]
  BY <1>1
<1> HIDE DEF a
<1>4. a = <<a[1], a[2], a[3]>>
  <2>1. a = [j \in 1 .. 3 |-> a[j]]
    BY <1>2
  <2> QED BY <2>1
<1>5. <<a[1], a[2], a[3]>> = <<"Or", "der", "By">> <=> a[1] = "Or" /\ a[2] = "der" /\ a[3] = "By"
  OBVIOUS
<1> QED BY <1>3, <1>4, <1>5 DEF a

\* OrderAt is the first place of OrderBy.
LEMMA OrderAtMin ==
    ASSUME NEW X, NEW s \in Seq(X), NEW k \in 1 .. Len(s) + 1,
           k \in OrderPlaces(s) \cup {Len(s) + 1}, \A i \in 1 .. k - 1 : i \notin OrderPlaces(s)
    PROVE  OrderAt(s) = k
<1> DEFINE n == Len(s)
           S == OrderPlaces(s) \cup {n + 1}
<1>1. n \in Nat /\ DOMAIN s = 1 .. n
  OBVIOUS
<1>2. S \in SUBSET Nat /\ k \in S /\ \A y \in S : y \in 1 .. n + 1 /\ ~(y \in 1 .. k - 1)
  <2>1. OrderPlaces(s) \subseteq 1 .. n
    BY <1>1 DEF OrderPlaces
  <2>2. ~(n + 1 \in 1 .. k - 1)
    BY <1>1
  <2>3. \A y \in OrderPlaces(s) : y \in 1 .. n + 1
    BY <1>1, <2>1
  <2> HIDE DEF n
  <2> QED BY <1>1, <2>1, <2>2, <2>3 DEF n
<1>3. OrderAt(s) = Min(S)
  BY DEF OrderAt, OrderPlaces
<1> HIDE DEF S
<1>4. Min(S) \in S /\ \A y \in S : Min(S) =< y
  BY <1>2, MinIn
<1>5. Min(S) \in 1 .. n + 1 /\ ~(Min(S) \in 1 .. k - 1) /\ Min(S) =< k
  BY <1>2, <1>4
<1> HIDE DEF n
<1>6. Min(S) = k
  BY <1>1, <1>5 DEF n
<1> QED BY <1>3, <1>6

\* A text without OrderBy.
LEMMA NoOrderIn ==
    ASSUME NEW X, NEW s \in Seq(X), OrderAt(s) > Len(s)
    PROVE  OrderAt(s) = Len(s) + 1 /\ \A i \in 1 .. Len(s) : i \notin OrderPlaces(s)
<1> DEFINE n == Len(s)
           S == OrderPlaces(s) \cup {n + 1}
<1>1. n \in Nat /\ DOMAIN s = 1 .. n
  OBVIOUS
<1>2. S \in SUBSET Nat /\ n + 1 \in S
  BY <1>1 DEF OrderPlaces
<1>3. OrderAt(s) = Min(S)
  BY DEF OrderAt, OrderPlaces
<1>4. \A i \in OrderPlaces(s) : i \in S
  OBVIOUS
<1> HIDE DEF S
<1>5. Min(S) \in Nat /\ Min(S) =< n + 1 /\ \A i \in OrderPlaces(s) : Min(S) =< i
  BY <1>2, <1>4, MinIn
<1>6. ASSUME NEW i \in 1 .. n PROVE i \notin OrderPlaces(s)
  BY <1>1, <1>3, <1>5
<1>7. OrderAt(s) = n + 1
  BY <1>1, <1>3, <1>5
<1> QED BY <1>6, <1>7

\* OrderBy behind such a text is where the text ends, and its words overlap
\* none of the text.
LEMMA OrderIsBehind ==
    ASSUME NEW X, Words \subseteq X, NEW u \in Seq(X), NEW v \in Seq(X), OrderAt(u) > Len(u)
    PROVE  /\ OrderBy \o v \in Seq(X)
           /\ OrderAt(u \o (OrderBy \o v)) = Len(u) + 1
           /\ From(u \o (OrderBy \o v), Len(u) + 4) = v
<1> DEFINE b == <<"Or", "der", "By">>
           bv == b \o v
           s == u \o bv
           m == Len(u)
<1>1. b \in Seq(X) /\ Len(b) = 3 /\ b[1] = "Or" /\ b[2] = "der" /\ b[3] = "By"
  <2>1. "Or" \in X /\ "der" \in X /\ "By" \in X
    BY DEF Words
  <2> QED BY <2>1
<1>2. OrderBy = b
  BY DEF OrderBy
<1> HIDE DEF b
<1>3. Parted(X, b, v)
  BY <1>1, PartsOfBoth
<1>4. /\ bv \in Seq(X) /\ Len(bv) = 3 + Len(v) /\ Len(v) \in Nat /\ From(bv, 4) = v
      /\ bv[1] = "Or" /\ bv[2] = "der" /\ bv[3] = "By"
  <2>1. 1 \in 1 .. 3 /\ 2 \in 1 .. 3 /\ 3 \in 1 .. 3 /\ 3 + 1 = 4
    OBVIOUS
  <2>2. \A i \in 1 .. 3 : bv[i] = b[i]
    BY <1>1, <1>3 DEF Parted
  <2>3. bv \in Seq(X) /\ Len(bv) = 3 + Len(v) /\ Len(v) \in Nat /\ From(bv, 3 + 1) = v
    BY <1>1, <1>3 DEF Parted
  <2> HIDE DEF bv
  <2> QED BY <1>1, <2>1, <2>2, <2>3
<1> HIDE DEF bv
<1>5. Parted(X, u, bv)
  BY <1>4, PartsOfBoth
<1>6. /\ s \in Seq(X) /\ Len(s) = m + 3 + Len(v) /\ m \in Nat /\ From(s, m + 1) = bv
      /\ (\A i \in 1 .. m : s[i] = u[i])
      /\ s[m + 1] = "Or" /\ s[m + 2] = "der" /\ s[m + 3] = "By"
  <2>1. 1 \in 1 .. Len(bv) /\ 2 \in 1 .. Len(bv) /\ 3 \in 1 .. Len(bv)
    BY <1>4
  <2>2. /\ s \in Seq(X) /\ Len(s) = m + Len(bv) /\ m \in Nat /\ From(s, m + 1) = bv
        /\ (\A i \in 1 .. m : s[i] = u[i]) /\ \A i \in 1 .. Len(bv) : s[m + i] = bv[i]
    BY <1>5 DEF Parted
  <2>3. s[m + 1] = bv[1] /\ s[m + 2] = bv[2] /\ s[m + 3] = bv[3]
    BY <2>1, <2>2
  <2> HIDE DEF s, m
  <2> QED BY <1>4, <2>2, <2>3
<1> HIDE DEF s
<1> DEFINE k == m + 1
<1>7. k \in OrderPlaces(s) /\ k \in 1 .. Len(s) + 1
  <2>1. k \in 1 .. Len(s) /\ k + 2 <= Len(s) /\ k + 1 = m + 2 /\ k + 2 = m + 3
    BY <1>4, <1>6
  <2>2. s[k] = "Or" /\ s[k + 1] = "der" /\ s[k + 2] = "By"
    BY <1>6, <2>1
  <2> HIDE DEF k
  <2> QED BY <1>6, <2>1, <2>2, OrderPlace
<1>8. ASSUME NEW i \in 1 .. m PROVE i \notin OrderPlaces(s)
  <2>1. i \in 1 .. Len(s)
    BY <1>4, <1>6
  <2> SUFFICES ASSUME s[i] = "Or", s[i + 1] = "der", s[i + 2] = "By" PROVE FALSE
    BY <1>6, <2>1, OrderPlace
  <2>2. i = m \/ i + 1 = m \/ i + 2 <= m
    BY <1>6
  <2>3. "Or" # "der" /\ "Or" # "By" /\ "der" # "By"
    OBVIOUS
  <2>4. CASE i = m
    BY <1>6, <2>3, <2>4
  <2>5. CASE i + 1 = m
    <3>1. i + 2 = m + 1
      BY <1>6, <2>5
    <3> QED BY <1>6, <2>3, <3>1
  <2>6. CASE i + 2 <= m
    <3>1. i \in 1 .. m /\ i + 1 \in 1 .. m /\ i + 2 \in 1 .. m
      BY <1>6, <2>6
    <3>2. u[i] = "Or" /\ u[i + 1] = "der" /\ u[i + 2] = "By"
      BY <1>6, <3>1
    <3>3. i \in OrderPlaces(u)
      BY <2>6, <3>2, OrderPlace
    <3>4. i \notin OrderPlaces(u)
      BY NoOrderIn
    <3> QED BY <3>3, <3>4
  <2> QED BY <2>2, <2>4, <2>5, <2>6
<1>9. OrderAt(s) = k
  <2>1. k - 1 = m
    BY <1>6
  <2> HIDE DEF k, m
  <2> QED BY <1>6, <1>7, <1>8, <2>1, OrderAtMin
<1>10. From(s, m + 4) = v
  <2> DEFINE c == 3
  <2>1. k \in 1 .. Len(s) + 1 /\ c \in Nat /\ k + c <= Len(s) + 1 /\ c + 1 = 4 /\ k + c = m + 4
    BY <1>4, <1>6
  <2> HIDE DEF k, c
  <2>2. From(From(s, k), c + 1) = From(s, k + c)
    BY <1>6, <2>1, FromFrom
  <2>3. From(s, k) = bv
    BY <1>6 DEF k
  <2> QED BY <1>4, <2>1, <2>2, <2>3
<1> QED BY <1>2, <1>4, <1>9, <1>10 DEF s, bv

-------------------------------------------------------------------------------
(* The name. *)

\* The words of a spelling are in X.
SpelledIn(X, sp) ==
    /\ IsSpelling(sp) /\ Words \subseteq X /\ "_" \in X /\ sp.verb \in X
    /\ SubjectIn(X, sp) /\ CriteriaIn(X, sp)
    /\ \A k \in DOMAIN sp.keys : Range(sp.keys[k].words) \subseteq X

\* What is read of sort keys and of criteria.
KeysRead(keys) == [k \in DOMAIN keys |-> KeyRead(keys[k])]

PartsRead(or) == [i \in DOMAIN or |-> [j \in DOMAIN or[i] |-> PartRead(or[i][j])]]

\* The predicate is cut where OrderBy is, and its words are read.
PredicateRead(X, sp, predicate, text, criteria) ==
    /\ predicate \in Seq(X)
    /\ SubSeq(predicate, 1, OrderAt(predicate) - 1) = text
    /\ ParseOrder(From(predicate, OrderAt(predicate) + 3)) = KeysRead(sp.keys)
    /\ TrimBoth(text, AllIgnoreCase) = criteria
    /\ (criteria # text) = (sp.all # << >>)
    /\ (IF criteria = << >> THEN << >> ELSE ParseCriteria(criteria)) = PartsRead(sp.or)

\* The criteria and the words of AllIgnoreCase.
TextRead(X, sp, text, criteria) ==
    /\ text \in Seq(X) /\ OrderAt(text) > Len(text)
    /\ TrimBoth(text, AllIgnoreCase) = criteria
    /\ (criteria # text) = (sp.all # << >>)
    /\ (IF criteria = << >> THEN << >> ELSE ParseCriteria(criteria)) = PartsRead(sp.or)
    /\ sp.or = << >> => text = << >>

\* The text of the criteria is read, AllIgnoreCase is taken off.
LEMMA CriteriaTextIsRead ==
    ASSUME NEW X, NEW sp, SpelledIn(X, sp)
    PROVE  TextRead(X, sp, CriteriaText(sp) \o sp.all, CriteriaText(sp))
<1> DEFINE c == CriteriaText(sp)
           all == sp.all
           text == c \o all
<1>1. /\ IsCriteria(sp) /\ Words \subseteq X /\ "_" \in X /\ CriteriaIn(X, sp)
      /\ all \in Range(AllIgnoreCase) \cup {<< >>}
      /\ \A suffix \in Range(AllIgnoreCase) : ~IsSuffix(suffix, c)
      /\ sp.or = << >> => all = << >>
      /\ OrderAt(text) > Len(text)
  BY DEF SpelledIn, IsSpelling, IsCriteria
<1>2. c \in Seq(X) /\ (IF c = << >> THEN << >> ELSE ParseCriteria(c)) = PartsRead(sp.or)
      /\ (sp.or = << >> => c = << >>)
  <2>1. CASE sp.or = << >>
    <3>1. [i \in DOMAIN sp.or |-> Alternative(sp.or[i])] = << >>
      BY <2>1
    <3>2. c = << >>
      BY <3>1 DEF CriteriaText, JoinedBy
    <3>3. PartsRead(sp.or) = << >>
      BY <2>1 DEF PartsRead
    <3>4. << >> \in Seq(X)
      OBVIOUS
    <3> HIDE DEF c
    <3> QED BY <3>2, <3>3, <3>4
  <2>2. CASE sp.or # << >>
    <3>1. CriteriaRead(X, sp)
      BY <1>1, <2>2, CriteriaAreRead
    <3>2. c \in Seq(X) /\ c # << >> /\ ParseCriteria(c) = PartsRead(sp.or)
      BY <3>1 DEF CriteriaRead, PartsRead
    <3> HIDE DEF c
    <3> QED BY <2>2, <3>2
  <2> QED BY <2>1, <2>2
<1> HIDE DEF c, all
<1>3. AllOff(X, c, all)
  BY <1>1, <1>2, AllIgnoreCaseOff
<1>4. text \in Seq(X) /\ TrimBoth(text, AllIgnoreCase) = c /\ (c # text) = (all # << >>)
  BY <1>3 DEF AllOff
<1>5. sp.or = << >> => text = << >>
  BY <1>1, <1>2, <1>4
<1> HIDE DEF text
<1> QED BY <1>1, <1>2, <1>4, <1>5 DEF TextRead, text, c, all

\* Criteria and sort keys are cut from each other at OrderBy.
LEMMA PredicateIsRead ==
    ASSUME NEW X, NEW sp, SpelledIn(X, sp)
    PROVE  PredicateRead(X, sp, Predicate(sp), CriteriaText(sp) \o sp.all, CriteriaText(sp))
<1> DEFINE c == CriteriaText(sp)
           text == c \o sp.all
           keys == sp.keys
           order == IF keys = << >> THEN << >> ELSE OrderBy \o SortKeys(keys)
           predicate == text \o order
<1>1. TextRead(X, sp, text, c)
  BY CriteriaTextIsRead
<1>2. Predicate(sp) = predicate
  BY DEF Predicate
<1>3. IsOrder(keys) /\ Words \subseteq X /\ \A k \in DOMAIN keys : Range(keys[k].words) \subseteq X
  BY DEF SpelledIn, IsSpelling
<1>4. text \in Seq(X) /\ OrderAt(text) > Len(text) /\ Len(text) \in Nat
  <2>1. text \in Seq(X) /\ OrderAt(text) > Len(text)
    BY <1>1 DEF TextRead
  <2> HIDE DEF text
  <2> QED BY <2>1
<1> HIDE DEF text, c, keys
<1> SUFFICES /\ predicate \in Seq(X)
             /\ SubSeq(predicate, 1, OrderAt(predicate) - 1) = text
             /\ ParseOrder(From(predicate, OrderAt(predicate) + 3)) = KeysRead(keys)
  BY <1>1, <1>2 DEF TextRead, PredicateRead, keys, text, c
<1>5. CASE keys = << >>
  <2>1. predicate = text
    BY <1>4, <1>5, ConcatEmptySeq
  <2>2. OrderAt(text) = Len(text) + 1
    BY <1>4, NoOrderIn
  <2> DEFINE l == OrderAt(text) + 3
  <2>3. l \in Nat /\ l > Len(text) /\ OrderAt(text) - 1 = Len(text)
    BY <1>4, <2>2
  <2> HIDE DEF l
  <2>4. From(text, l) = << >>
    BY <1>4, <2>3, FromEnd
  <2>5. SubSeq(text, 1, Len(text)) = text
    BY <1>4, SubSeqFull
  <2>6. KeysRead(keys) = << >>
    BY <1>5 DEF KeysRead
  <2> HIDE DEF predicate
  <2> QED BY <1>4, <2>1, <2>3, <2>4, <2>5, <2>6, NoKeysRead DEF l
<1>6. CASE keys # << >>
  <2> DEFINE v == SortKeys(keys)
             ov == OrderBy \o v
  <2>1. predicate = text \o ov
    BY <1>6
  <2>2. "Asc" \in X /\ "Desc" \in X
    BY <1>3 DEF Words
  <2>3. KeysIn(X, keys)
    BY <1>3, <1>6, <2>2 DEF KeysIn
  <2>4. v \in Seq(X) /\ ParseOrder(v) = KeysRead(keys)
    BY <2>3, KeysAreRead DEF KeysRead
  <2> HIDE DEF v, predicate
  <2>5. ov \in Seq(X) /\ OrderAt(text \o ov) = Len(text) + 1 /\ From(text \o ov, Len(text) + 4) = v
    BY <1>3, <1>4, <2>4, OrderIsBehind
  <2> HIDE DEF ov
  <2>6. Parted(X, text, ov)
    BY <1>4, <2>5, PartsOfBoth
  <2>7. predicate \in Seq(X) /\ SubSeq(predicate, 1, Len(text)) = text
    BY <2>1, <2>6 DEF Parted
  <2>8. OrderAt(predicate) - 1 = Len(text) /\ OrderAt(predicate) + 3 = Len(text) + 4
    BY <1>4, <2>1, <2>5
  <2> QED BY <2>1, <2>4, <2>5, <2>7, <2>8
<1> QED BY <1>5, <1>6

\* The subject ends where By is, and the predicate is behind it.
NameRead(X, sp, name) ==
    /\ name # << >> /\ name[1] = sp.verb
    /\ LET rest == Tail(name)
           by   == First(rest, {"By"})
       IN SubSeq(rest, 1, by - 1) = Subject(sp) /\ From(rest, by + 1) = Predicate(sp)

\* Subject and predicate are cut from each other at By.
LEMMA NameIsCut == ASSUME NEW X, NEW sp, SpelledIn(X, sp) PROVE NameRead(X, sp, NameOf(sp))
<1> DEFINE v == <<sp.verb>>
           u == Subject(sp)
           p == Predicate(sp)
           none == sp.or = << >> /\ sp.keys = << >>
           b == <<"By">>
           tail == IF none THEN << >> ELSE b \o p
           rest == u \o tail
           m == Len(u)
           k == m + 1
<1>1. /\ sp.verb \in X /\ "By" \in X /\ "By" \notin Range(u) /\ SubjectIn(X, sp)
  <2>1. sp.verb \in X /\ Words \subseteq X /\ SubjectIn(X, sp) /\ IsSpelling(sp)
    BY DEF SpelledIn
  <2>2. "By" \in Words
    BY DEF Words
  <2>3. "By" \notin Range(u)
    BY <2>1 DEF IsSpelling, IsSubject
  <2> HIDE DEF u
  <2> QED BY <2>1, <2>2, <2>3
<1>2. u \in Seq(X)
  BY <1>1, LimitIsRead
<1>3. p \in Seq(X)
  BY PredicateIsRead DEF PredicateRead
<1>4. none => p = << >>
  <2> SUFFICES ASSUME none PROVE p = << >>
    OBVIOUS
  <2>1. TextRead(X, sp, CriteriaText(sp) \o sp.all, CriteriaText(sp))
    BY CriteriaTextIsRead
  <2>2. CriteriaText(sp) \o sp.all = << >> /\ sp.keys = << >>
    BY <2>1 DEF TextRead
  <2> QED BY <2>2 DEF Predicate
<1>5. NameOf(sp) = (v \o u) \o tail
  BY DEF NameOf
<1> HIDE DEF u, p, none
<1>6. b \in Seq(X) /\ Len(b) = 1 /\ b[1] = "By" /\ v \in Seq(X)
  BY <1>1
<1> HIDE DEF b
<1>7. Parted(X, b, p)
  BY <1>3, <1>6, PartsOfBoth
<1>8. /\ tail \in Seq(X)
      /\ none => tail = << >>
      /\ ~none => tail[1] = "By" /\ From(tail, 2) = p /\ Len(tail) \in Nat \ {0}
  <2>1. << >> \in Seq(X)
    OBVIOUS
  <2> DEFINE w == b \o p
  <2>2. /\ w \in Seq(X) /\ Len(w) = 1 + Len(p) /\ Len(p) \in Nat
        /\ (\A i \in 1 .. 1 : w[i] = b[i]) /\ From(w, 1 + 1) = p
    BY <1>6, <1>7 DEF Parted
  <2>3. 1 \in 1 .. 1 /\ 1 + 1 = 2
    OBVIOUS
  <2> HIDE DEF w
  <2>4. w \in Seq(X) /\ w[1] = "By" /\ From(w, 2) = p /\ Len(w) \in Nat \ {0}
    BY <1>6, <2>2, <2>3
  <2>5. tail = IF none THEN << >> ELSE w
    BY DEF w
  <2> HIDE DEF tail
  <2> QED BY <2>1, <2>4, <2>5
<1> HIDE DEF tail
<1>9. Parted(X, u, tail)
  BY <1>2, <1>8, PartsOfBoth
<1>10. /\ rest \in Seq(X) /\ Len(rest) = m + Len(tail) /\ m \in Nat /\ Len(tail) \in Nat
       /\ (\A i \in 1 .. m : rest[i] = u[i]) /\ (\A i \in 1 .. Len(tail) : rest[m + i] = tail[i])
       /\ SubSeq(rest, 1, m) = u /\ From(rest, k) = tail
  BY <1>9 DEF Parted
<1> HIDE DEF rest
<1>11. First(rest, {"By"}) = k
  <2> DEFINE pieces == {"By"}
  <2>1. k \in 1 .. Len(rest) + 1 /\ k - 1 = m
    BY <1>10
  <2>2. ASSUME NEW i \in 1 .. m PROVE rest[i] \notin pieces
    <3>1. u[i] \in Range(u)
      <4>1. i \in DOMAIN u
        BY <1>2
      <4> QED BY <4>1 DEF Range
    <3>2. rest[i] = u[i]
      BY <1>10
    <3> QED BY <1>1, <3>1, <3>2 DEF u
  <2>3. ASSUME k <= Len(rest) PROVE rest[k] \in pieces
    <3>1. Len(tail) >= 1
      BY <1>10, <2>3
    <3>2. tail = << >> => Len(tail) = 0
      OBVIOUS
    <3>3. ~none
      BY <1>8, <3>1, <3>2
    <3>4. 1 \in 1 .. Len(tail)
      BY <1>10, <3>1
    <3>5. rest[m + 1] = tail[1]
      BY <1>10, <3>4
    <3> QED BY <1>8, <3>3, <3>5
  <2> HIDE DEF k, m, pieces
  <2>4. First(rest, pieces) = k
    BY <1>10, <2>1, <2>2, <2>3, FirstIs
  <2> QED BY <2>4 DEF pieces
<1>12. From(rest, k + 1) = p
  <2>1. CASE none
    <3> DEFINE l == k + 1
    <3>1. Len(tail) = 0
      BY <1>8, <2>1
    <3>2. l \in Nat /\ l > Len(rest)
      BY <1>10, <3>1
    <3> HIDE DEF l
    <3>3. From(rest, l) = << >>
      BY <1>10, <3>2, FromEnd
    <3> QED BY <1>4, <2>1, <3>3 DEF l
  <2>2. CASE ~none
    <3> DEFINE c == 1
    <3>1. k \in 1 .. Len(rest) + 1 /\ c \in Nat /\ k + c <= Len(rest) + 1 /\ c + 1 = 2 /\ k + c = k + 1
      BY <1>8, <1>10, <2>2
    <3> HIDE DEF k, c
    <3>2. From(From(rest, k), c + 1) = From(rest, k + c)
      BY <1>10, <3>1, FromFrom
    <3> QED BY <1>8, <1>10, <2>2, <3>1, <3>2
  <2> QED BY <2>1, <2>2
<1>13. k - 1 = m
  BY <1>10
<1>14. NameOf(sp) = v \o rest
  BY <1>2, <1>5, <1>6, <1>8, ConcatAssociative DEF rest
<1>15. v \o rest # << >> /\ (v \o rest)[1] = sp.verb /\ Tail(v \o rest) = rest
  BY <1>1, <1>10, TailIs
<1> HIDE DEF k, v
<1>16. SubSeq(rest, 1, First(rest, {"By"}) - 1) = Subject(sp)
       /\ From(rest, First(rest, {"By"}) + 1) = Predicate(sp)
  BY <1>10, <1>11, <1>12, <1>13 DEF u, p
<1> QED BY <1>14, <1>15, <1>16 DEF NameRead

\* The tree of a spelling.
TreePart(p, all) ==
    Part(Column(p.words), p.keyword.op, p.keyword.args, p.ignore # << >> \/ all # << >>)

\* The tree of a spelling.
TreeOf(sp) ==
    [verb     |-> Verbs[sp.verb],
     distinct |-> "Distinct" \in Range(Subject(sp)),
     limit    |-> LimitIs(sp.limit),
     or       |-> [i \in DOMAIN sp.or |-> [j \in DOMAIN sp.or[i] |-> TreePart(sp.or[i][j], sp.all)]],
     order    |-> [k \in DOMAIN sp.keys |->
                      [prop |-> Column(sp.keys[k].words), desc |-> sp.keys[k].dir = <<"Desc">>]]]

\* A property has a column.
LEMMA ColumnIn == ASSUME NEW words, Resolves(words) PROVE Column(words) \in Range(ColumnOf)
BY DEF Resolves, Column, Range

\* What is read from a part is a part.
LEMMA PartIn ==
    ASSUME NEW X, Words \subseteq X, NEW p, IsPart(p), Range(p.words) \subseteq X, NEW ic \in BOOLEAN
    PROVE  Part(Column(p.words), p.keyword.op, p.keyword.args, ic) \in ReadPart
<1>1. Column(p.words) \in Range(ColumnOf)
  BY ColumnIn DEF IsPart, IsStem
<1>2. p.keyword \in KeywordType /\ (p.keyword = Bare \/ p.keyword \in Range(Keywords))
  <2>1. PartPieces(X, p)
    BY PartsHavePieces
  <2> QED BY <2>1 DEF PartPieces, IsPart, IsStem
<1>3. p.keyword.args \in Nat
  BY <1>2 DEF KeywordType
<1>4. p.keyword.op \in {"Equals"} \cup {Keywords[k].op : k \in DOMAIN Keywords}
  <2>1. CASE p.keyword = Bare
    BY <2>1, BareType
  <2>2. CASE p.keyword \in Range(Keywords)
    BY <2>2 DEF Range
  <2> QED BY <1>2, <2>1, <2>2
<1> QED BY <1>1, <1>3, <1>4 DEF ReadPart, Part

\* A limit is a number.
LEMMA LimitIn == ASSUME NEW sp, IsSubject(sp) PROVE LimitIs(sp.limit) \in Nat
<1>1. \A n \in DOMAIN Number : Number[n] \in Nat
  BY NameAssumption
<1>2. \/ sp.limit = << >>
      \/ sp.limit \in {<<"First">>, <<"Top">>}
      \/ sp.limit \in {<<word, n>> : word \in {"First", "Top"}, n \in DOMAIN Number}
  BY DEF IsSubject
<1>3. ASSUME sp.limit # << >>, Len(sp.limit) = 2 PROVE Number[sp.limit[2]] \in Nat
  BY <1>1, <1>2, <1>3
<1>4. CASE sp.limit # << >> /\ Len(sp.limit) = 2 /\ Number[sp.limit[2]] > 0
  <2>1. LimitIs(sp.limit) = Number[sp.limit[2]]
    BY <1>4 DEF LimitIs
  <2> QED BY <1>3, <1>4, <2>1
<1>5. CASE ~(sp.limit # << >> /\ Len(sp.limit) = 2 /\ Number[sp.limit[2]] > 0)
  <2>1. LimitIs(sp.limit) = 0 \/ LimitIs(sp.limit) = 1
    BY <1>5 DEF LimitIs
  <2> QED BY <2>1
<1> QED BY <1>4, <1>5

\* What is known of the parts of a spelling.
PartsKnown(X, or) ==
    /\ Len(or) \in Nat /\ DOMAIN or = 1 .. Len(or) /\ (or # << >> => Len(or) # 0)
    /\ \A i \in DOMAIN or :
          /\ Len(or[i]) \in Nat \ {0} /\ DOMAIN or[i] = 1 .. Len(or[i])
          /\ \A j \in DOMAIN or[i] : IsPart(or[i][j]) /\ Range(or[i][j].words) \subseteq X

\* What is read of criteria has columns and operators.
LEMMA PartsAreKnown == ASSUME NEW X, NEW sp, SpelledIn(X, sp) PROVE PartsKnown(X, sp.or)
<1> DEFINE or == sp.or
<1>1. /\ or \in Seq(Range(or))
      /\ \A parts \in Range(or) : parts \in Seq(Range(parts)) \ {<< >>}
      /\ \A parts \in Range(or) : \A p \in Range(parts) : IsPart(p) /\ Range(p.words) \subseteq X
  BY DEF SpelledIn, IsSpelling, IsCriteria, CriteriaIn
<1> HIDE DEF or
<1>2. Len(or) \in Nat /\ DOMAIN or = 1 .. Len(or) /\ (or # << >> => Len(or) # 0)
  <2>1. Len(or) \in Nat /\ DOMAIN or = 1 .. Len(or)
    BY <1>1
  <2>2. or # << >> => Len(or) # 0
    BY <1>1, SomePieces
  <2> QED BY <2>1, <2>2
<1>3. ASSUME NEW i \in DOMAIN or
      PROVE  /\ Len(or[i]) \in Nat \ {0} /\ DOMAIN or[i] = 1 .. Len(or[i])
             /\ \A j \in DOMAIN or[i] : IsPart(or[i][j]) /\ Range(or[i][j].words) \subseteq X
  <2> DEFINE parts == or[i]
  <2>1. parts \in Range(or)
    BY DEF Range
  <2>2. parts \in Seq(Range(parts)) /\ parts # << >>
    BY <1>1, <2>1
  <2>3. \A p \in Range(parts) : IsPart(p) /\ Range(p.words) \subseteq X
    BY <1>1, <2>1
  <2> HIDE DEF parts
  <2>4. Len(parts) \in Nat \ {0} /\ DOMAIN parts = 1 .. Len(parts)
    BY <2>2, SomePieces
  <2>5. \A j \in DOMAIN parts : parts[j] \in Range(parts)
    BY DEF Range
  <2>6. \A j \in DOMAIN parts : IsPart(parts[j]) /\ Range(parts[j].words) \subseteq X
    BY <2>3, <2>5
  <2> QED BY <2>4, <2>6 DEF parts
<1>4. PartsKnown(X, or)
  BY <1>2, <1>3 DEF PartsKnown
<1> QED BY <1>4 DEF or

\* What is read from the parts, with f for each of them.
NumberedParts(Y, n, or, f) ==
    /\ n \in Nat /\ f = [i \in 1 .. n |-> f[i]]
    /\ \A i \in 1 .. n :
          /\ Len(or[i]) \in Nat /\ f[i] = [j \in 1 .. Len(or[i]) |-> f[i][j]]
          /\ \A j \in 1 .. Len(or[i]) : f[i][j] \in Y

\* Sequences that are numbered are a sequence of sequences.
LEMMA AlternativesIn ==
    ASSUME NEW Y, NEW n, NEW f, NEW or, NumberedParts(Y, n, or, f)
    PROVE  f \in Seq(Seq(Y)) /\ Len(f) = n
<1> DEFINE T == Seq(Y)
<1> USE DEF NumberedParts
<1>1. ASSUME NEW i \in 1 .. n PROVE f[i] \in T
  <2> DEFINE m == Len(or[i])
             g == f[i]
  <2>1. m \in Nat /\ g = [j \in 1 .. m |-> g[j]] /\ \A j \in 1 .. m : g[j] \in Y
    OBVIOUS
  <2> HIDE DEF m, g
  <2>2. Numbered(Y, m, g)
    BY <2>1 DEF Numbered
  <2>3. SequenceIn(Y, m, g)
    BY <2>2, SequenceOf
  <2>4. g \in Seq(Y)
    BY <2>3 DEF SequenceIn
  <2> QED BY <2>4 DEF g
<1> HIDE DEF T
<1>2. Numbered(T, n, f)
  BY <1>1 DEF Numbered
<1>3. SequenceIn(T, n, f)
  BY <1>2, SequenceOf
<1>4. f \in Seq(T) /\ Len(f) = n
  BY <1>3 DEF SequenceIn
<1> QED BY <1>4 DEF T

\* The tree of a spelling is a tree, and therefore not an error.
LEMMA TreeIn == ASSUME NEW X, NEW sp, SpelledIn(X, sp) PROVE TreeOf(sp) \in ReadTree
<1> DEFINE or == sp.or
           all == sp.all
           keys == sp.keys
           n == Len(or)
           m == Len(keys)
           f == [i \in DOMAIN or |-> [j \in DOMAIN or[i] |-> TreePart(or[i][j], all)]]
           K == [prop : Range(ColumnOf), desc : BOOLEAN]
           g == [k \in DOMAIN keys |->
                    [prop |-> Column(keys[k].words), desc |-> keys[k].dir = <<"Desc">>]]
<1>1. PartsKnown(X, or) /\ Words \subseteq X
  BY PartsAreKnown DEF SpelledIn
<1>2. f \in Seq(Seq(ReadPart))
  <2> HIDE DEF or, all
  <2>1. ASSUME NEW i \in DOMAIN or, NEW j \in DOMAIN or[i] PROVE TreePart(or[i][j], all) \in ReadPart
    <3> DEFINE p == or[i][j]
               ic == p.ignore # << >> \/ all # << >>
    <3>1. IsPart(p) /\ Range(p.words) \subseteq X /\ ic \in BOOLEAN
      BY <1>1 DEF PartsKnown
    <3>2. TreePart(p, all) = Part(Column(p.words), p.keyword.op, p.keyword.args, ic)
      BY DEF TreePart
    <3> HIDE DEF p, ic
    <3>3. Part(Column(p.words), p.keyword.op, p.keyword.args, ic) \in ReadPart
      BY <1>1, <3>1, PartIn
    <3> QED BY <3>2, <3>3 DEF p
  <2> DEFINE Y == ReadPart
  <2>2. n \in Nat /\ DOMAIN or = 1 .. n /\ f = [i \in 1 .. n |-> f[i]]
    BY <1>1 DEF PartsKnown
  <2>3. ASSUME NEW i \in 1 .. n
        PROVE  /\ Len(or[i]) \in Nat
               /\ f[i] = [j \in 1 .. Len(or[i]) |-> f[i][j]]
               /\ \A j \in 1 .. Len(or[i]) : f[i][j] \in Y
    <3>1. i \in DOMAIN or /\ Len(or[i]) \in Nat /\ DOMAIN or[i] = 1 .. Len(or[i])
      BY <1>1, <2>2 DEF PartsKnown
    <3>2. f[i] = [j \in DOMAIN or[i] |-> TreePart(or[i][j], all)]
      BY <3>1
    <3> HIDE DEF f
    <3> QED BY <2>1, <3>1, <3>2
  <2> HIDE DEF f, Y, n
  <2>4. NumberedParts(Y, n, or, f)
    BY <2>2, <2>3 DEF NumberedParts
  <2>5. f \in Seq(Seq(Y))
    BY <2>4, AlternativesIn
  <2> QED BY <2>5 DEF Y
<1>3. IsOrder(keys) /\ IsSubject(sp) /\ sp.verb \in DOMAIN Verbs
  BY DEF SpelledIn, IsSpelling
<1>4. g \in Seq(K)
  <2> HIDE DEF keys
  <2>1. keys \in Seq(Range(keys)) /\ \A k \in DOMAIN keys : Resolves(keys[k].words)
    BY <1>3 DEF IsOrder
  <2>2. m \in Nat /\ DOMAIN keys = 1 .. m
    BY <2>1
  <2>3. \A k \in DOMAIN keys : Column(keys[k].words) \in Range(ColumnOf)
    BY <2>1, ColumnIn
  <2>4. g = [k \in 1 .. m |-> g[k]] /\ \A k \in 1 .. m : g[k] \in K
    BY <2>2, <2>3
  <2> HIDE DEF g, K, m
  <2>5. Numbered(K, m, g)
    BY <2>2, <2>4 DEF Numbered
  <2>6. SequenceIn(K, m, g)
    BY <2>5, SequenceOf
  <2> QED BY <2>6 DEF SequenceIn
<1>5. Verbs[sp.verb] \in Range(Verbs)
  BY <1>3 DEF Range
<1>6. LimitIs(sp.limit) \in Nat
  BY <1>3, LimitIn
<1>7. TreeOf(sp) = [verb |-> Verbs[sp.verb], distinct |-> "Distinct" \in Range(Subject(sp)),
                    limit |-> LimitIs(sp.limit), or |-> f, order |-> g]
  BY DEF TreeOf
<1>8. ("Distinct" \in Range(Subject(sp))) \in BOOLEAN
  OBVIOUS
<1> HIDE DEF f, g
<1> QED BY <1>2, <1>4, <1>5, <1>6, <1>7, <1>8 DEF ReadTree

\* Parse, from its parts.
ParsesTo(name, rest, by, text, criteria, parts, order) ==
    Parse(name) =
        IF \/ NoTree \in UNION {Range(parts[i]) : i \in DOMAIN parts}
           \/ \E i \in DOMAIN order : ~Resolves(order[i].prop)
        THEN NoTree
        ELSE Tree(Verbs[name[1]], SubSeq(rest, 1, by - 1),
                  [i \in DOMAIN parts |-> [j \in DOMAIN parts[i] |->
                      [parts[i][j] EXCEPT !.ic = @ \/ criteria # text]]],
                  order)

\* Parse, from the parts it cuts a name into.
LEMMA ParseParts ==
    ASSUME NEW name, name # << >>, name[1] \in DOMAIN Verbs
    PROVE  LET rest      == Tail(name)
               by        == First(rest, {"By"})
               predicate == From(rest, by + 1)
               at        == OrderAt(predicate)
               text      == SubSeq(predicate, 1, at - 1)
               criteria  == TrimBoth(text, AllIgnoreCase)
               parts     == IF criteria = << >> THEN << >> ELSE ParseCriteria(criteria)
               order     == ParseOrder(From(predicate, at + 3))
           IN ParsesTo(name, rest, by, text, criteria, parts, order)
<1>1. ~(name = << >> \/ name[1] \notin DOMAIN Verbs)
  OBVIOUS
<1> QED BY <1>1, Zenon DEF Parse, ParsesTo

\* What is spelled is what is read.
THEOREM NameIsRead ==
    ASSUME NEW X, NEW sp, SpelledIn(X, sp)
    PROVE  Parse(NameOf(sp)) = TreeOf(sp) /\ TreeOf(sp) # NoTree
<1> DEFINE name == NameOf(sp)
           rest == Tail(name)
           by == First(rest, {"By"})
           predicate == From(rest, by + 1)
           at == OrderAt(predicate)
           text == SubSeq(predicate, 1, at - 1)
           criteria == TrimBoth(text, AllIgnoreCase)
           parts == IF criteria = << >> THEN << >> ELSE ParseCriteria(criteria)
           order == ParseOrder(From(predicate, at + 3))
<1>1. sp.verb \in DOMAIN Verbs /\ IsOrder(sp.keys) /\ PartsKnown(X, sp.or) /\ Words \subseteq X
  BY PartsAreKnown DEF SpelledIn, IsSpelling
<1>2. name # << >> /\ name[1] = sp.verb /\ SubSeq(rest, 1, by - 1) = Subject(sp) /\ predicate = Predicate(sp)
  BY NameIsCut DEF NameRead
<1>3. ParsesTo(name, rest, by, text, criteria, parts, order)
  <2>1. name # << >> /\ name[1] \in DOMAIN Verbs
    BY <1>1, <1>2
  <2> HIDE DEF name
  <2> QED BY <2>1, ParseParts, Zenon
<1> HIDE DEF name, rest, by, predicate
<1>4. PredicateRead(X, sp, predicate, CriteriaText(sp) \o sp.all, CriteriaText(sp))
  BY <1>2, PredicateIsRead
<1>5. text = CriteriaText(sp) \o sp.all /\ order = KeysRead(sp.keys)
  BY <1>4 DEF PredicateRead
<1> HIDE DEF text, order
<1>6. criteria = CriteriaText(sp)
  BY <1>4, <1>5 DEF PredicateRead
<1> HIDE DEF criteria
<1>7. parts = PartsRead(sp.or) /\ (criteria # text) = (sp.all # << >>)
  BY <1>4, <1>5, <1>6 DEF PredicateRead
<1> HIDE DEF parts
<1> DEFINE or == sp.or
           keys == sp.keys
           all == sp.all
<1>8. ASSUME NEW i \in DOMAIN or, NEW j \in DOMAIN or[i]
      PROVE  /\ PartRead(or[i][j]) # NoTree
             /\ [PartRead(or[i][j]) EXCEPT !.ic = @ \/ criteria # text] = TreePart(or[i][j], all)
  <2> DEFINE p == or[i][j]
             ic == p.ignore # << >>
  <2>1. IsPart(p) /\ Range(p.words) \subseteq X /\ ic \in BOOLEAN
    BY <1>1 DEF PartsKnown
  <2>2. PartRead(p) = Part(Column(p.words), p.keyword.op, p.keyword.args, ic)
    BY DEF PartRead
  <2>3. TreePart(p, all) = Part(Column(p.words), p.keyword.op, p.keyword.args, ic \/ all # << >>)
    BY DEF TreePart
  <2> HIDE DEF or, all
  <2>4. [PartRead(p) EXCEPT !.ic = @ \/ criteria # text] = TreePart(p, all)
    <3>1. (criteria # text) = (all # << >>)
      BY <1>7 DEF all
    <3> HIDE DEF ic, p
    <3> QED BY <2>2, <2>3, <3>1 DEF Part
  <2> HIDE DEF ic, p
  <2>5. PartRead(p) \in ReadPart
    BY <1>1, <2>1, <2>2, PartIn
  <2>6. PartRead(p) # NoTree
    BY <2>5, NameAssumption
  <2> QED BY <2>4, <2>6 DEF p
<1> HIDE DEF or, keys, all
<1>9. DOMAIN parts = DOMAIN or /\ \A i \in DOMAIN or : parts[i] = [j \in DOMAIN or[i] |-> PartRead(or[i][j])]
  BY <1>7 DEF PartsRead, or
<1>10. NoTree \notin UNION {Range(parts[i]) : i \in DOMAIN parts}
  <2>1. ASSUME NEW i \in DOMAIN parts, NoTree \in Range(parts[i]) PROVE FALSE
    <3>1. i \in DOMAIN or /\ parts[i] = [j \in DOMAIN or[i] |-> PartRead(or[i][j])]
      BY <1>9
    <3>2. PICK j \in DOMAIN or[i] : NoTree = PartRead(or[i][j])
      BY <2>1, <3>1 DEF Range
    <3> QED BY <1>8, <3>1, <3>2
  <2> QED BY <2>1
<1>11. [i \in DOMAIN parts |-> [j \in DOMAIN parts[i] |->
           [parts[i][j] EXCEPT !.ic = @ \/ criteria # text]]]
       = [i \in DOMAIN or |-> [j \in DOMAIN or[i] |-> TreePart(or[i][j], all)]]
  <2>1. ASSUME NEW i \in DOMAIN or
        PROVE  [j \in DOMAIN parts[i] |-> [parts[i][j] EXCEPT !.ic = @ \/ criteria # text]]
                  = [j \in DOMAIN or[i] |-> TreePart(or[i][j], all)]
    <3>1. DOMAIN parts[i] = DOMAIN or[i] /\ \A j \in DOMAIN or[i] : parts[i][j] = PartRead(or[i][j])
      BY <1>9
    <3> QED BY <1>8, <3>1
  <2> QED BY <1>9, <2>1
<1>12. DOMAIN order = DOMAIN keys /\ \A k \in DOMAIN keys : order[k] = KeyRead(keys[k])
  BY <1>5 DEF KeysRead, keys
<1>13. ~ \E i \in DOMAIN order : ~Resolves(order[i].prop)
  <2>1. \A k \in DOMAIN keys : Resolves(keys[k].words)
    BY <1>1 DEF IsOrder, keys
  <2> QED BY <1>12, <2>1 DEF KeyRead
<1>14. [i \in DOMAIN order |-> [prop |-> Column(order[i].prop), desc |-> order[i].desc]]
       = [k \in DOMAIN keys |-> [prop |-> Column(keys[k].words), desc |-> keys[k].dir = <<"Desc">>]]
  <2>1. \A k \in DOMAIN keys : order[k].prop = keys[k].words /\ order[k].desc = (keys[k].dir = <<"Desc">>)
    BY <1>12 DEF KeyRead
  <2> QED BY <1>12, <2>1
<1>15. LimitOf(Subject(sp)) = LimitIs(sp.limit)
  <2>1. SubjectIn(X, sp)
    BY DEF SpelledIn
  <2> QED BY <2>1, LimitIsRead
<1>16. Parse(name) = Tree(Verbs[sp.verb], Subject(sp),
                          [i \in DOMAIN or |-> [j \in DOMAIN or[i] |-> TreePart(or[i][j], all)]], order)
  BY <1>2, <1>3, <1>10, <1>11, <1>13 DEF ParsesTo
<1>17. Parse(name) = TreeOf(sp)
  BY <1>14, <1>15, <1>16 DEF Tree, TreeOf, or, keys, all
<1>18. TreeOf(sp) # NoTree
  BY TreeIn, NameAssumption
<1> QED BY <1>17, <1>18 DEF name

-------------------------------------------------------------------------------
(* The arguments. *)

\* Totals, one number after another.
TotalsAre(n, ns) ==
    /\ Totals(ns) \in [0 .. n -> Nat] /\ Totals(ns)[0] = 0
    /\ \A k \in 1 .. n : Totals(ns)[k] = Totals(ns)[k - 1] + ns[k]

\* Totals adds one number after another.
LEMMA TotalsSteps ==
    ASSUME NEW ns, NEW n \in Nat, Len(ns) = n, \A k \in 1 .. n : ns[k] \in Nat
    PROVE  TotalsAre(n, ns)
<1> DEFINE next == [k \in 1 .. n |-> [u \in Nat |-> u + ns[k]]]
           Made(f) == f = [k \in 0 .. Len(ns) |-> IF k = 0 THEN 0 ELSE f[k - 1] + ns[k]]
<1>1. next \in [1 .. n -> [Nat -> Nat]] /\ \A k \in 1 .. n, u \in Nat : next[k][u] = u + ns[k]
  OBVIOUS
<1> HIDE DEF next
<1>2. \E f : Made(f)
  <2>1. Lead(Nat, 0, n, next)
    BY <1>1, StepByStep
  <2>2. PICK g \in [0 .. n -> Nat] : g[0] = 0 /\ \A k \in 1 .. n : g[k] = next[k][g[k - 1]]
    BY <2>1 DEF Lead
  <2>3. ASSUME NEW k \in 0 .. n PROVE g[k] = IF k = 0 THEN 0 ELSE g[k - 1] + ns[k]
    <3>1. CASE k = 0
      BY <2>2, <3>1
    <3>2. CASE k # 0
      <4>1. k \in 1 .. n /\ k - 1 \in 0 .. n
        BY <3>2
      <4> QED BY <1>1, <2>2, <3>2, <4>1
    <3> QED BY <3>1, <3>2
  <2>4. Made(g)
    BY <2>3
  <2> HIDE DEF Made
  <2> QED BY <2>4
<1> DEFINE f == CHOOSE f : Made(f)
<1>3. Made(f)
  BY <1>2, Zenon
<1>4. Totals(ns) = f
  BY DEF Totals
<1> HIDE DEF f
<1>5. DOMAIN f = 0 .. n /\ f = [k \in DOMAIN f |-> f[k]] /\ f[0] = 0
  BY <1>3
<1>6. ASSUME NEW k \in 1 .. n PROVE f[k] = f[k - 1] + ns[k]
  <2>1. k \in 0 .. n /\ k # 0
    OBVIOUS
  <2> QED BY <1>3, <2>1
<1>7. f \in [0 .. n -> Nat]
  <2>1. \A k \in 1 .. n : f[k - 1] \in Nat => f[k] = next[k][f[k - 1]]
    BY <1>1, <1>6
  <2>2. Stepping(Nat, 0, n, next, f)
    BY <1>5, <2>1 DEF Stepping
  <2> HIDE DEF Made
  <2> QED BY <1>1, <2>2, StepsStay
<1> QED BY <1>4, <1>5, <1>6, <1>7 DEF TotalsAre

\* Sequences of known lengths.
Summed(X, n, seqs, ns) ==
    /\ n \in Nat /\ Len(seqs) = n /\ Len(ns) = n
    /\ \A i \in 1 .. n : seqs[i] \in Seq(X) /\ ns[i] = Len(seqs[i])
    /\ n = 0 => seqs = << >>

\* They are joined at the totals of their lengths.
JoinedAt(X, n, seqs, ns) ==
    /\ FlattenSeq(seqs) \in Seq(X) /\ Totals(ns)[n] = Len(FlattenSeq(seqs))
    /\ \A i \in 1 .. n :
          Totals(ns)[i - 1] \in Nat /\ StandsAt(seqs[i], FlattenSeq(seqs), Totals(ns)[i - 1])

\* Sequences that are joined stand at the sums of the lengths before them.
LEMMA JoinedAtTotals == ASSUME NEW X, NEW n, NEW seqs, NEW ns, Summed(X, n, seqs, ns) PROVE JoinedAt(X, n, seqs, ns)
<1> DEFINE t == Totals(ns)
           s == FlattenSeq(seqs)
<1>1. /\ n \in Nat /\ Len(seqs) = n /\ Len(ns) = n
      /\ \A i \in 1 .. n : seqs[i] \in Seq(X) /\ ns[i] = Len(seqs[i]) /\ ns[i] \in Nat
  BY DEF Summed
<1>2. TotalsAre(n, ns)
  BY <1>1, TotalsSteps
<1>3. t \in [0 .. n -> Nat] /\ t[0] = 0 /\ \A k \in 1 .. n : t[k] = t[k - 1] + ns[k]
  BY <1>2 DEF TotalsAre
<1> HIDE DEF t
<1>4. CASE n = 0
  <2>1. s = << >>
    <3>1. seqs = << >>
      BY <1>4 DEF Summed
    <3> QED BY <3>1 DEF FlattenSeq
  <2> HIDE DEF s
  <2>2. s \in Seq(X) /\ Len(s) = 0
    BY <2>1
  <2> QED BY <1>3, <1>4, <2>2 DEF JoinedAt, s, t
<1>5. CASE n # 0
  <2>1. Placed(X, n, seqs)
    BY <1>1, <1>5, FlattenPlaces
  <2>2. PICK at : Places(n, seqs, at)
    BY <2>1 DEF Placed
  <2>3. s \in Seq(X)
    BY <2>1 DEF Placed
  <2>4. /\ at \in [0 .. n -> Nat] /\ at[0] = 0 /\ at[n] = Len(s)
        /\ \A i \in 1 .. n : at[i] = at[i - 1] + Len(seqs[i]) /\ StandsAt(seqs[i], s, at[i - 1])
    BY <2>2 DEF Places
  <2> HIDE DEF s
  <2> DEFINE S == {k \in Nat : k <= n => at[k] = t[k]}
  <2>5. 0 \in S
    BY <1>3, <2>4
  <2>6. ASSUME NEW k \in Nat, k \in S PROVE k + 1 \in S
    <3> SUFFICES ASSUME k + 1 <= n PROVE at[k + 1] = t[k + 1]
      OBVIOUS
    <3> DEFINE l == k + 1
    <3>1. l \in 1 .. n /\ l - 1 = k /\ at[k] = t[k]
      BY <1>1, <2>6
    <3> HIDE DEF l
    <3>2. at[l] = at[l - 1] + Len(seqs[l]) /\ t[l] = t[l - 1] + ns[l] /\ ns[l] = Len(seqs[l])
      BY <1>1, <1>3, <2>4, <3>1
    <3>3. at[l] = t[l]
      BY <3>1, <3>2
    <3> QED BY <3>3 DEF l
  <2>7. Nat \subseteq S
    <3> HIDE DEF S
    <3> QED BY <2>5, <2>6, Induction
  <2>8. \A k \in 0 .. n : at[k] = t[k]
    BY <1>1, <2>7
  <2>9. n \in 0 .. n /\ \A i \in 1 .. n : i - 1 \in 0 .. n
    BY <1>1
  <2>10. t[n] = Len(s) /\ \A i \in 1 .. n : t[i - 1] \in Nat /\ StandsAt(seqs[i], s, t[i - 1])
    BY <1>3, <2>4, <2>8, <2>9
  <2> QED BY <2>3, <2>10 DEF JoinedAt, s, t
<1> QED BY <1>4, <1>5

\* The parts of an alternative and what is read from them.
PartsTake(Z, parts, read) ==
    /\ Len(parts) \in Nat \ {0} /\ DOMAIN parts = 1 .. Len(parts)
    /\ Len(read) = Len(parts) /\ DOMAIN read = 1 .. Len(parts)
    /\ \A j \in 1 .. Len(parts) : parts[j].args \in Seq(Z) /\ read[j].n = Len(parts[j].args)

\* The arguments of the criteria of an alternative.
ArgsOf(parts) == [j \in DOMAIN parts |-> parts[j].args]

\* Its arguments are where PartArgs counts them.
PartsTaken(Z, parts, read) ==
    /\ FlattenSeq(ArgsOf(parts)) \in Seq(Z)
    /\ PartArgs(read)[Len(read)] = Len(FlattenSeq(ArgsOf(parts)))
    /\ \A j \in 1 .. Len(parts) :
          /\ PartArgs(read)[j - 1] \in Nat
          /\ StandsAt(parts[j].args, FlattenSeq(ArgsOf(parts)), PartArgs(read)[j - 1])

\* The criteria of an alternative take its arguments, each its own.
LEMMA PartsTakeArgs ==
    ASSUME NEW Z, NEW parts, NEW read, PartsTake(Z, parts, read) PROVE PartsTaken(Z, parts, read)
<1> DEFINE n == Len(parts)
           seqs == ArgsOf(parts)
           ns == [j \in DOMAIN read |-> read[j].n]
           Y == Seq(Z)
<1>1. /\ n \in Nat \ {0} /\ DOMAIN parts = 1 .. n /\ DOMAIN read = 1 .. n /\ Len(read) = n
      /\ \A j \in 1 .. n : parts[j].args \in Y /\ read[j].n = Len(parts[j].args) /\ read[j].n \in Nat
  BY DEF PartsTake
<1> HIDE DEF n, Y
<1>2. /\ seqs = [j \in 1 .. n |-> seqs[j]] /\ ns = [j \in 1 .. n |-> ns[j]]
      /\ \A j \in 1 .. n : seqs[j] = parts[j].args /\ ns[j] = read[j].n
  BY <1>1 DEF ArgsOf
<1>3. PartArgs(read) = Totals(ns)
  BY DEF PartArgs
<1> HIDE DEF seqs, ns
<1>4. Len(seqs) = n
  <2>1. Numbered(Y, n, seqs)
    BY <1>1, <1>2 DEF Numbered
  <2>2. SequenceIn(Y, n, seqs)
    BY <2>1, SequenceOf
  <2> QED BY <2>2 DEF SequenceIn
<1>5. Len(ns) = n
  <2>1. Numbered(Nat, n, ns)
    BY <1>1, <1>2 DEF Numbered
  <2>2. SequenceIn(Nat, n, ns)
    BY <2>1, SequenceOf
  <2> QED BY <2>2 DEF SequenceIn
<1>6. Summed(Z, n, seqs, ns)
  <2>1. \A j \in 1 .. n : seqs[j] \in Seq(Z) /\ ns[j] = Len(seqs[j])
    BY <1>1, <1>2 DEF Y
  <2>2. n \in Nat /\ n # 0
    BY <1>1
  <2> QED BY <1>4, <1>5, <2>1, <2>2 DEF Summed
<1>7. JoinedAt(Z, n, seqs, ns)
  BY <1>6, JoinedAtTotals
<1>8. /\ FlattenSeq(seqs) \in Seq(Z) /\ PartArgs(read)[n] = Len(FlattenSeq(seqs))
      /\ \A j \in 1 .. n :
            PartArgs(read)[j - 1] \in Nat /\ StandsAt(seqs[j], FlattenSeq(seqs), PartArgs(read)[j - 1])
  BY <1>3, <1>7 DEF JoinedAt
<1>9. \A j \in 1 .. n :
         PartArgs(read)[j - 1] \in Nat /\ StandsAt(parts[j].args, FlattenSeq(seqs), PartArgs(read)[j - 1])
  BY <1>2, <1>8
<1> QED BY <1>1, <1>8, <1>9 DEF PartsTaken, seqs, n

\* Alternatives and what is read from them.
AllTake(Z, or, read) ==
    /\ Len(or) \in Nat /\ DOMAIN or = 1 .. Len(or) /\ (Len(or) = 0 => or = << >>)
    /\ Len(read) = Len(or) /\ DOMAIN read = 1 .. Len(or)
    /\ \A i \in 1 .. Len(or) : PartsTake(Z, or[i], read[i])

\* The arguments of each alternative, and how many come before a criterion.
ArgsOfAll(or) == [i \in DOMAIN or |-> FlattenSeq(ArgsOf(or[i]))]

Before(read, i, j) == OrArgs(read)[i - 1] + PartArgs(read[i])[j - 1]

\* Each part takes its arguments.
AllTaken(or, read, args) ==
    /\ OrArgs(read)[Len(read)] = Len(args)
    /\ \A i \in 1 .. Len(or) : \A j \in 1 .. Len(or[i]) :
          SubSeq(args, Before(read, i, j) + 1, Before(read, i, j) + read[i][j].n) = or[i][j].args

\* All criteria take the arguments, each its own.
LEMMA AllTakeArgs ==
    ASSUME NEW Z, NEW or, NEW read, AllTake(Z, or, read)
    PROVE  AllTaken(or, read, FlattenSeq(ArgsOfAll(or)))
<1> DEFINE n == Len(or)
           seqs == ArgsOfAll(or)
           ns == [i \in DOMAIN read |-> PartArgs(read[i])[Len(read[i])]]
           Y == Seq(Z)
           all == FlattenSeq(seqs)
<1>1. /\ n \in Nat /\ DOMAIN or = 1 .. n /\ DOMAIN read = 1 .. n /\ Len(read) = n /\ (n = 0 => or = << >>)
      /\ \A i \in 1 .. n : PartsTake(Z, or[i], read[i])
  BY DEF AllTake
<1> HIDE DEF n
<1>2. /\ seqs = [i \in 1 .. n |-> seqs[i]] /\ ns = [i \in 1 .. n |-> ns[i]]
      /\ \A i \in 1 .. n : /\ seqs[i] = FlattenSeq(ArgsOf(or[i]))
                           /\ ns[i] = PartArgs(read[i])[Len(read[i])]
  BY <1>1 DEF ArgsOfAll
<1>3. OrArgs(read) = Totals(ns)
  BY DEF OrArgs
<1>4. n = 0 => seqs = << >>
  BY <1>1 DEF ArgsOfAll
<1> HIDE DEF seqs, ns
<1>5. ASSUME NEW i \in 1 .. n
      PROVE  /\ seqs[i] \in Y /\ ns[i] = Len(seqs[i]) /\ ns[i] \in Nat
             /\ \A j \in 1 .. Len(or[i]) :
                   /\ PartArgs(read[i])[j - 1] \in Nat
                   /\ StandsAt(or[i][j].args, seqs[i], PartArgs(read[i])[j - 1])
  <2> DEFINE parts == or[i]
             r == read[i]
  <2>1. PartsTake(Z, parts, r)
    BY <1>1
  <2> HIDE DEF parts, r
  <2>2. PartsTaken(Z, parts, r)
    BY <2>1, PartsTakeArgs
  <2>3. /\ FlattenSeq(ArgsOf(parts)) \in Seq(Z)
        /\ PartArgs(r)[Len(r)] = Len(FlattenSeq(ArgsOf(parts)))
        /\ \A j \in 1 .. Len(parts) :
              /\ PartArgs(r)[j - 1] \in Nat
              /\ StandsAt(parts[j].args, FlattenSeq(ArgsOf(parts)), PartArgs(r)[j - 1])
    BY <2>2 DEF PartsTaken
  <2> DEFINE s == FlattenSeq(ArgsOf(parts))
  <2>4. seqs[i] = s /\ ns[i] = PartArgs(r)[Len(r)]
    BY <1>2 DEF parts, r
  <2> HIDE DEF s
  <2>5. s \in Seq(Z) /\ PartArgs(r)[Len(r)] = Len(s)
        /\ \A j \in 1 .. Len(parts) : PartArgs(r)[j - 1] \in Nat /\ StandsAt(parts[j].args, s, PartArgs(r)[j - 1])
    BY <2>3 DEF s
  <2>6. Len(s) \in Nat
    BY <2>5
  <2> QED BY <2>4, <2>5, <2>6 DEF parts, r, Y
<1> HIDE DEF Y
<1>6. Len(seqs) = n
  <2>1. Numbered(Y, n, seqs)
    BY <1>1, <1>2, <1>5 DEF Numbered
  <2>2. SequenceIn(Y, n, seqs)
    BY <2>1, SequenceOf
  <2> QED BY <2>2 DEF SequenceIn
<1>7. Len(ns) = n
  <2>1. Numbered(Nat, n, ns)
    BY <1>1, <1>2, <1>5 DEF Numbered
  <2>2. SequenceIn(Nat, n, ns)
    BY <2>1, SequenceOf
  <2> QED BY <2>2 DEF SequenceIn
<1>8. Summed(Z, n, seqs, ns)
  <2>1. \A i \in 1 .. n : seqs[i] \in Seq(Z) /\ ns[i] = Len(seqs[i])
    BY <1>5 DEF Y
  <2> QED BY <1>1, <1>4, <1>6, <1>7, <2>1 DEF Summed
<1>9. JoinedAt(Z, n, seqs, ns)
  BY <1>8, JoinedAtTotals
<1>10. /\ all \in Seq(Z) /\ OrArgs(read)[n] = Len(all)
       /\ \A i \in 1 .. n : OrArgs(read)[i - 1] \in Nat /\ StandsAt(seqs[i], all, OrArgs(read)[i - 1])
  BY <1>3, <1>9 DEF JoinedAt
<1> HIDE DEF all
<1>11. ASSUME NEW i \in 1 .. n, NEW j \in 1 .. Len(or[i])
       PROVE  SubSeq(all, Before(read, i, j) + 1, Before(read, i, j) + read[i][j].n) = or[i][j].args
  <2> DEFINE seg == or[i][j].args
             u == seqs[i]
             d == OrArgs(read)[i - 1]
             e == PartArgs(read[i])[j - 1]
             b == d + e
  <2>1. seg \in Seq(Z) /\ read[i][j].n = Len(seg)
    BY <1>1 DEF PartsTake
  <2>2. u \in Seq(Z) /\ d \in Nat /\ e \in Nat /\ StandsAt(seg, u, e) /\ StandsAt(u, all, d)
    BY <1>5, <1>10 DEF Y
  <2>3. Before(read, i, j) = b
    BY DEF Before
  <2> HIDE DEF seg, u, d, e
  <2>4. StandsAt(seg, all, b)
    BY <1>10, <2>1, <2>2, StandsIn
  <2>5. b \in Nat
    BY <2>2
  <2> HIDE DEF b
  <2>6. SubSeq(all, b + 1, b + Len(seg)) = seg
    BY <1>10, <2>1, <2>4, <2>5, StandingIs
  <2> QED BY <2>1, <2>3, <2>6 DEF seg
<1> QED BY <1>1, <1>10, <1>11 DEF AllTaken, all, seqs, n

\* The words of a spelling.
LEMMA SpellingHasWords == ASSUME NEW sp, IsSpelling(sp) PROVE \E X : SpelledIn(X, sp)
<1> DEFINE inParts == UNION {UNION {Range(p.words) : p \in Range(parts)} : parts \in Range(sp.or)}
           inKeys == UNION {Range(sp.keys[k].words) : k \in DOMAIN sp.keys}
           X == Words \cup {"_", sp.verb} \cup Range(sp.before) \cup Range(sp.limit)
                  \cup Range(sp.after) \cup inParts \cup inKeys
<1>1. Range(sp.before) \subseteq X /\ Range(sp.limit) \subseteq X /\ Range(sp.after) \subseteq X
  OBVIOUS
<1>2. Words \subseteq X /\ "_" \in X /\ sp.verb \in X
  OBVIOUS
<1>3. CriteriaIn(X, sp)
  <2>1. ASSUME NEW parts \in Range(sp.or), NEW p \in Range(parts) PROVE Range(p.words) \subseteq X
    <3>1. UNION {Range(q.words) : q \in Range(parts)} \subseteq inParts
      OBVIOUS
    <3>2. Range(p.words) \subseteq UNION {Range(q.words) : q \in Range(parts)}
      OBVIOUS
    <3>3. inParts \subseteq X
      OBVIOUS
    <3> HIDE DEF X, inParts
    <3> QED BY <3>1, <3>2, <3>3
  <2> HIDE DEF X
  <2> QED BY <2>1 DEF CriteriaIn
<1>4. \A k \in DOMAIN sp.keys : Range(sp.keys[k].words) \subseteq X
  OBVIOUS
<1> HIDE DEF X
<1>5. IsSubject(sp)
  BY DEF IsSpelling
<1>6. sp.before \in Seq(X) /\ sp.after \in Seq(X)
  <2>1. sp.before \in Seq(Range(sp.before)) /\ sp.after \in Seq(Range(sp.after))
    BY <1>5 DEF IsSubject
  <2> QED BY <1>1, <2>1, SeqMonotonic
<1>7. sp.limit \in Seq(X)
  <2>1. sp.limit \in Seq(Range(sp.limit))
    <3>1. \/ sp.limit = << >>
          \/ sp.limit \in {<<"First">>, <<"Top">>}
          \/ sp.limit \in {<<word, n>> : word \in {"First", "Top"}, n \in DOMAIN Number}
      BY <1>5 DEF IsSubject
    <3>2. CASE sp.limit = << >>
      BY <3>2
    <3>3. CASE sp.limit \in {<<"First">>, <<"Top">>}
      BY <3>3 DEF Range
    <3>4. CASE sp.limit \in {<<word, n>> : word \in {"First", "Top"}, n \in DOMAIN Number}
      <4>1. PICK word \in {"First", "Top"}, n \in DOMAIN Number : sp.limit = <<word, n>>
        BY <3>4
      <4> DEFINE R == Range(<<word, n>>)
      <4>2. word \in R /\ n \in R
        BY DEF Range
      <4> HIDE DEF R
      <4>3. <<word, n>> \in Seq(R)
        BY <4>2
      <4> QED BY <4>1, <4>3 DEF R
    <3> QED BY <3>1, <3>2, <3>3, <3>4
  <2> QED BY <1>1, <2>1, SeqMonotonic
<1> QED BY <1>2, <1>3, <1>4, <1>5, <1>6, <1>7 DEF SpelledIn, SubjectIn

\* What is read from the alternatives.
TreeParts(sp) ==
    [i \in DOMAIN sp.or |-> [j \in DOMAIN sp.or[i] |-> TreePart(sp.or[i][j], sp.all)]]

\* The criteria that are read need as many arguments as the spelling gives them.
LEMMA SpellingTakes ==
    ASSUME NEW X, NEW sp, SpelledIn(X, sp)
    PROVE  \E Z : AllTake(Z, sp.or, TreeParts(sp))
<1> DEFINE or == sp.or
           all == sp.all
           read == TreeParts(sp)
           n == Len(or)
           Z == UNION {UNION {Range(or[i][j].args) : j \in DOMAIN or[i]} : i \in DOMAIN or}
           Y == ReadPart
<1>1. /\ n \in Nat /\ DOMAIN or = 1 .. n /\ (or # << >> => n # 0)
      /\ \A i \in DOMAIN or :
            /\ Len(or[i]) \in Nat \ {0} /\ DOMAIN or[i] = 1 .. Len(or[i])
            /\ \A j \in DOMAIN or[i] : IsPart(or[i][j]) /\ Range(or[i][j].words) \subseteq X
  <2>1. PartsKnown(X, or)
    BY PartsAreKnown
  <2> HIDE DEF or
  <2> QED BY <2>1 DEF PartsKnown
<1>2. \A i \in DOMAIN or : \A j \in DOMAIN or[i] : Range(or[i][j].args) \subseteq Z
  OBVIOUS
<1>3. read = [i \in 1 .. n |-> read[i]] /\ \A i \in 1 .. n : read[i] = [j \in DOMAIN or[i] |-> TreePart(or[i][j], all)]
  BY <1>1 DEF TreeParts
<1>4. Words \subseteq X
  BY DEF SpelledIn
<1> HIDE DEF or, all, read, n, Z
<1>5. ASSUME NEW i \in 1 .. n PROVE PartsTake(Z, or[i], read[i]) /\ read[i] \in Seq(Y)
  <2> DEFINE parts == or[i]
             r == read[i]
             m == Len(parts)
  <2>1. /\ m \in Nat \ {0} /\ DOMAIN parts = 1 .. m /\ r = [j \in 1 .. m |-> TreePart(parts[j], all)]
        /\ \A j \in 1 .. m : IsPart(parts[j]) /\ Range(parts[j].words) \subseteq X /\ Range(parts[j].args) \subseteq Z
    BY <1>1, <1>2, <1>3
  <2> HIDE DEF parts, m, r
  <2>2. ASSUME NEW j \in 1 .. m
        PROVE  parts[j].args \in Seq(Z) /\ r[j].n = Len(parts[j].args) /\ r[j] \in Y
    <3> DEFINE p == parts[j]
               ic == p.ignore # << >> \/ all # << >>
    <3>1. IsPart(p) /\ Range(p.words) \subseteq X /\ Range(p.args) \subseteq Z /\ ic \in BOOLEAN
      BY <2>1
    <3>2. r[j] = Part(Column(p.words), p.keyword.op, p.keyword.args, ic)
      BY <2>1 DEF TreePart
    <3> HIDE DEF p, ic
    <3>3. r[j] \in Y
      BY <1>4, <3>1, <3>2, PartIn
    <3>4. p.args \in Seq(Range(p.args)) /\ Len(p.args) = p.keyword.args
      BY <3>1 DEF IsPart
    <3>5. p.args \in Seq(Z)
      BY <3>1, <3>4, SeqMonotonic
    <3>6. r[j].n = Len(p.args)
      BY <3>2, <3>4 DEF Part
    <3> QED BY <3>3, <3>5, <3>6 DEF p
  <2> HIDE DEF Y
  <2>3. Numbered(Y, m, r)
    BY <2>1, <2>2 DEF Numbered
  <2>4. SequenceIn(Y, m, r)
    BY <2>3, SequenceOf
  <2>5. r \in Seq(Y) /\ Len(r) = m /\ DOMAIN r = 1 .. m
    BY <2>4 DEF SequenceIn
  <2>6. PartsTake(Z, parts, r)
    BY <2>1, <2>2, <2>5 DEF PartsTake, m
  <2> QED BY <2>5, <2>6 DEF parts, r
<1> DEFINE T == Seq(Y)
<1>6. \A i \in 1 .. n : read[i] \in T
  BY <1>5
<1> HIDE DEF T
<1>7. Numbered(T, n, read)
  BY <1>1, <1>3, <1>6 DEF Numbered
<1>8. SequenceIn(T, n, read)
  BY <1>7, SequenceOf
<1>9. Len(read) = n /\ DOMAIN read = 1 .. n
  BY <1>8 DEF SequenceIn
<1>10. AllTake(Z, or, read)
  BY <1>1, <1>5, <1>9 DEF AllTake, n
<1> QED BY <1>10 DEF or, read

\* A call of a spelled name means what its name and its arguments spell.
THEOREM SpelledIsUnderstood == ASSUME NEW sp, IsSpelling(sp) PROVE Understood(CallOf(sp)) = MeansOf(sp)
<1> DEFINE or == sp.or
           read == TreeParts(sp)
           args == GivenOf(sp)
           all == sp.all
<1>1. PICK X : SpelledIn(X, sp)
  BY SpellingHasWords
<1>2. PICK Z : AllTake(Z, or, read)
  BY <1>1, SpellingTakes
<1>3. Parse(NameOf(sp)) = TreeOf(sp) /\ TreeOf(sp) # NoTree
  BY <1>1, NameIsRead
<1>4. args = FlattenSeq(ArgsOfAll(or))
  BY DEF GivenOf, ArgsOfAll, ArgsOf
<1>5. TreeOf(sp) = [verb |-> Verbs[sp.verb], distinct |-> "Distinct" \in Range(Subject(sp)),
                    limit |-> LimitIs(sp.limit), or |-> read,
                    order |-> [k \in DOMAIN sp.keys |->
                        [prop |-> Column(sp.keys[k].words), desc |-> sp.keys[k].dir = <<"Desc">>]]]
  BY DEF TreeOf, TreeParts
<1>6. DOMAIN read = DOMAIN or /\ \A i \in DOMAIN or : read[i] = [j \in DOMAIN or[i] |-> TreePart(or[i][j], all)]
  BY DEF TreeParts
<1>7. PartsKnown(X, or)
  BY <1>1, PartsAreKnown
<1>8. MeansOf(sp) = [verb |-> Verbs[sp.verb], distinct |-> "Distinct" \in Range(Subject(sp)),
                     limit |-> LimitIs(sp.limit),
                     or |-> [i \in DOMAIN or |-> [j \in DOMAIN or[i] |-> PartIs(or[i][j], all)]],
                     order |-> [k \in DOMAIN sp.keys |->
                        [prop |-> Column(sp.keys[k].words), desc |-> sp.keys[k].dir = <<"Desc">>]]]
  BY DEF MeansOf
<1>9. CallOf(sp).name = NameOf(sp) /\ CallOf(sp).given = args
  BY DEF CallOf
<1> HIDE DEF or, read, args, all
<1>10. AllTaken(or, read, args)
  BY <1>2, <1>4, AllTakeArgs
<1>11. Len(args) = NumArgs(TreeOf(sp))
  BY <1>5, <1>10 DEF AllTaken, NumArgs
<1>12. Understood(CallOf(sp)) = [TreeOf(sp) EXCEPT !.or = WithArgs(@, args)]
  <2> DEFINE tree == TreeOf(sp)
             call == CallOf(sp)
  <2> HIDE DEF tree, call
  <2>1. Parse(call.name) = tree /\ tree # NoTree /\ call.given = args /\ Len(call.given) = NumArgs(tree)
    BY <1>3, <1>9, <1>11 DEF tree, call
  <2>2. Understood(call) = [tree EXCEPT !.or = WithArgs(@, args)]
    BY <2>1 DEF Understood
  <2> QED BY <2>2 DEF tree, call
<1>13. WithArgs(read, args) = [i \in DOMAIN or |-> [j \in DOMAIN or[i] |-> PartIs(or[i][j], all)]]
  <2>1. ASSUME NEW i \in DOMAIN or, NEW j \in DOMAIN or[i]
        PROVE  LET p == read[i][j]
                   b == OrArgs(read)[i - 1] + PartArgs(read[i])[j - 1]
               IN [prop |-> p.prop, op |-> p.op, ic |-> p.ic, args |-> SubSeq(args, b + 1, b + p.n)]
                     = PartIs(or[i][j], all)
    <3>1. i \in 1 .. Len(or) /\ j \in 1 .. Len(or[i])
      BY <1>7 DEF PartsKnown
    <3> DEFINE r == read[i][j]
               p == or[i][j]
               b == OrArgs(read)[i - 1] + PartArgs(read[i])[j - 1]
               ic == p.ignore # << >> \/ all # << >>
    <3>2. SubSeq(args, b + 1, b + r.n) = p.args
      BY <1>10, <3>1 DEF AllTaken, Before
    <3>3. r = Part(Column(p.words), p.keyword.op, p.keyword.args, ic)
      BY <1>6 DEF TreePart
    <3>4. PartIs(p, all) = [prop |-> Column(p.words), op |-> p.keyword.op, args |-> p.args, ic |-> ic]
      BY DEF PartIs
    <3> HIDE DEF r, p, b, ic
    <3>5. [prop |-> r.prop, op |-> r.op, ic |-> r.ic, args |-> SubSeq(args, b + 1, b + r.n)] = PartIs(p, all)
      BY <3>2, <3>3, <3>4 DEF Part
    <3> QED BY <3>5 DEF r, p, b
  <2>2. ASSUME NEW i \in DOMAIN or
        PROVE  DOMAIN read[i] = DOMAIN or[i]
    BY <1>6
  <2> QED BY <1>6, <2>1, <2>2 DEF WithArgs
<1>14. [TreeOf(sp) EXCEPT !.or = WithArgs(@, args)] = MeansOf(sp)
  <2> DEFINE verb == Verbs[sp.verb]
             distinct == "Distinct" \in Range(Subject(sp))
             limit == LimitIs(sp.limit)
             order == [k \in DOMAIN sp.keys |->
                          [prop |-> Column(sp.keys[k].words), desc |-> sp.keys[k].dir = <<"Desc">>]]
             applied == [i \in DOMAIN or |-> [j \in DOMAIN or[i] |-> PartIs(or[i][j], all)]]
  <2>1. TreeOf(sp) = [verb |-> verb, distinct |-> distinct, limit |-> limit, or |-> read, order |-> order]
    BY <1>5
  <2>2. MeansOf(sp) = [verb |-> verb, distinct |-> distinct, limit |-> limit, or |-> applied, order |-> order]
    BY <1>8
  <2>3. WithArgs(read, args) = applied
    BY <1>13
  <2> HIDE DEF verb, distinct, limit, order, applied
  <2> QED BY <2>1, <2>2, <2>3
<1> QED BY <1>12, <1>14
===============================================================================
