--------------------------- MODULE SequenceProofs ---------------------------
(***************************************************************************)
(* Facts about numbers and sequences that the proofs about the modules     *)
(* share: induction over the natural numbers and functions defined by      *)
(* recursion, both for sets and functions, so that a proof can use them    *)
(* without an operator for a parameter; and sequences cut, joined and      *)
(* moved up.                                                               *)
(***************************************************************************)
EXTENDS Integers, Sequences, SequenceTheorems, WellFoundedInduction, TLAPS

-----------------------------------------------------------------------------
(* Induction and recursion.                                                *)

\* The order of the natural numbers as a relation.
Less == {ss \in Nat \X Nat : ss[1] < ss[2]}

\* A set that holds zero and, with a number, the next holds every number.
LEMMA Induction ==
    ASSUME NEW S, 0 \in S, \A n \in Nat : n \in S => n + 1 \in S
    PROVE  Nat \subseteq S
<1> DEFINE T == Nat \ S
<1> SUFFICES ASSUME T # {} PROVE FALSE
  OBVIOUS
<1> HIDE DEF T
<1>1. IsWellFoundedOn(Less, Nat)
  BY NatLessThanWellFounded DEF OpToRel, Less
<1>2. T \subseteq Nat
  BY DEF T
<1>3. PICK x \in T : \A y \in T : <<y, x>> \notin Less
  BY <1>1, <1>2, WFMin
<1>4. x \in Nat /\ x # 0
  BY <1>2 DEF T
<1>5. x - 1 \in Nat /\ <<x - 1, x>> \in Less
  BY <1>4 DEF Less
<1>6. x - 1 \in S
  BY <1>3, <1>5 DEF T
<1>7. (x - 1) + 1 \in S
  BY <1>5, <1>6
<1> QED  BY <1>4, <1>7 DEF T

\* g goes on from base by steps.
Runs(g, n, base, step) ==
    /\ DOMAIN g = 0 .. n /\ g[0] = base
    /\ \A i \in 1 .. n : g[i] = step[<<g[i - 1], i>>]

\* A function defined by recursion exists.
LEMMA RecursionExists ==
    ASSUME NEW V, NEW base \in V, NEW m \in Nat,
           NEW step \in [V \X (1 .. m) -> V]
    PROVE  \E g \in [0 .. m -> V] : Runs(g, m, base, step)
<1> DEFINE S == {n \in Nat : n <= m => \E g \in [0 .. n -> V] : Runs(g, n, base, step)}
<1>1. 0 \in S
  <2> DEFINE g == [i \in 0 .. 0 |-> base]
  <2>1. g \in [0 .. 0 -> V] /\ Runs(g, 0, base, step)
    BY DEF Runs
  <2> QED  BY <2>1
<1>2. ASSUME NEW n \in Nat, n \in S PROVE n + 1 \in S
  <2> SUFFICES ASSUME n + 1 <= m
               PROVE  \E g \in [0 .. n + 1 -> V] : Runs(g, n + 1, base, step)
    OBVIOUS
  <2>1. PICK g \in [0 .. n -> V] : Runs(g, n, base, step)
    BY <1>2
  <2>2. g[n] \in V /\ n + 1 \in 1 .. m /\ step[<<g[n], n + 1>>] \in V
    BY <2>1
  <2> DEFINE h == [i \in 0 .. n + 1 |-> IF i = n + 1 THEN step[<<g[n], n + 1>>]
                                        ELSE g[i]]
  <2>3. h \in [0 .. n + 1 -> V]
    BY <2>1, <2>2
  <2>4. h[0] = base
    BY <2>1 DEF Runs
  <2>5. ASSUME NEW i \in 1 .. n + 1 PROVE h[i] = step[<<h[i - 1], i>>]
    <3>1. CASE i = n + 1
      <4>1. i - 1 = n /\ n \in 0 .. n + 1 /\ n # n + 1 /\ i \in 0 .. n + 1
        BY <3>1
      <4>2. h[i - 1] = g[n] /\ h[i] = step[<<g[n], n + 1>>]
        BY <3>1, <4>1
      <4> QED  BY <3>1, <4>2
    <3>2. CASE i # n + 1
      <4>1. i \in 1 .. n /\ i - 1 \in 0 .. n + 1 /\ i - 1 # n + 1
        BY <3>2
      <4>2. g[i] = step[<<g[i - 1], i>>]
        BY <2>1, <4>1 DEF Runs
      <4> QED  BY <3>2, <4>1, <4>2
    <3> QED  BY <3>1, <3>2
  <2> HIDE DEF h
  <2> QED  BY <2>3, <2>4, <2>5 DEF Runs
<1> HIDE DEF S
<1>3. Nat \subseteq S
  BY <1>1, <1>2, Induction
<1> QED  BY <1>3 DEF S

-----------------------------------------------------------------------------
(* Sequences.                                                              *)

\* A sequence cut in two.
LEMMA CutFact ==
    ASSUME NEW S, NEW s \in Seq(S), NEW n \in 0 .. Len(s)
    PROVE  /\ SubSeq(s, 1, n) \in Seq(S) /\ Len(SubSeq(s, 1, n)) = n
           /\ SubSeq(s, n + 1, Len(s)) \in Seq(S)
           /\ Len(SubSeq(s, n + 1, Len(s))) = Len(s) - n
           /\ \A i \in 1 .. n : SubSeq(s, 1, n)[i] = s[i]
           /\ \A i \in 1 .. Len(s) - n : SubSeq(s, n + 1, Len(s))[i] = s[i + n]
           /\ SubSeq(s, 1, n) \o SubSeq(s, n + 1, Len(s)) = s
<1>1. /\ Len(s) \in Nat /\ n \in Int /\ n + 1 \in Int /\ 1 \in Int
      /\ \A i \in 1 .. Len(s) : s[i] \in S
  BY LenProperties, ElementOfSeq
<1>2. /\ SubSeq(s, 1, n) \in Seq(S) /\ Len(SubSeq(s, 1, n)) = n
      /\ \A i \in 1 .. n : SubSeq(s, 1, n)[i] = s[i]
  <2>1. \A i \in 1 .. n : s[i] \in S
    BY <1>1
  <2>2. /\ SubSeq(s, 1, n) \in Seq(S)
        /\ Len(SubSeq(s, 1, n)) = IF 1 <= n THEN n - 1 + 1 ELSE 0
        /\ \A i \in 1 .. n - 1 + 1 : SubSeq(s, 1, n)[i] = s[1 + i - 1]
    BY <1>1, <2>1, SubSeqProperties
  <2> QED  BY <1>1, <2>2
<1>3. /\ SubSeq(s, n + 1, Len(s)) \in Seq(S)
      /\ Len(SubSeq(s, n + 1, Len(s))) = Len(s) - n
      /\ \A i \in 1 .. Len(s) - n : SubSeq(s, n + 1, Len(s))[i] = s[i + n]
  <2>1. \A i \in n + 1 .. Len(s) : s[i] \in S
    BY <1>1
  <2>2. /\ SubSeq(s, n + 1, Len(s)) \in Seq(S)
        /\ Len(SubSeq(s, n + 1, Len(s))) =
              IF n + 1 <= Len(s) THEN Len(s) - (n + 1) + 1 ELSE 0
        /\ \A i \in 1 .. Len(s) - (n + 1) + 1 :
              SubSeq(s, n + 1, Len(s))[i] = s[(n + 1) + i - 1]
    BY <1>1, <2>1, SubSeqProperties
  <2> QED  BY <1>1, <2>2
<1>4. SubSeq(s, 1, n) \o SubSeq(s, n + 1, Len(s)) = SubSeq(s, 1, Len(s))
  <2>1. /\ 1 \in 1 .. Len(s) + 1 /\ n \in 1 - 1 .. Len(s)
        /\ Len(s) \in n .. Len(s)
    BY <1>1
  <2> QED  BY <2>1, ConcatAdjacentSubSeq
<1> QED  BY <1>2, <1>3, <1>4, SubSeqFull

\* A part of b that is v.
LEMMA PartRead ==
    ASSUME NEW S, NEW b \in Seq(S), NEW c \in Nat, NEW v \in Seq(S),
           c + Len(v) <= Len(b), \A j \in 1 .. Len(v) : b[c + j] = v[j]
    PROVE  SubSeq(b, c + 1, c + Len(v)) = v
<1> DEFINE r == SubSeq(b, c + 1, c + Len(v))
           k == Len(v)
<1>1. k \in Nat /\ Len(b) \in Nat /\ \A i \in 1 .. Len(b) : b[i] \in S
  BY LenProperties, ElementOfSeq
<1>2. \A i \in c + 1 .. c + k : b[i] \in S
  <2>1. \A i \in c + 1 .. c + k : i \in 1 .. Len(b)
    BY <1>1
  <2> QED  BY <1>1, <2>1
<1>3. /\ r \in Seq(S)
      /\ Len(r) = IF c + 1 <= c + k THEN (c + k) - (c + 1) + 1 ELSE 0
      /\ \A j \in 1 .. (c + k) - (c + 1) + 1 : r[j] = b[(c + 1) + j - 1]
  <2>1. c + 1 \in Int /\ c + k \in Int
    BY <1>1
  <2> QED  BY <1>2, <2>1, SubSeqProperties
<1> HIDE DEF r, k
<1>4. Len(r) = k
  BY <1>1, <1>3
<1>5. \A j \in 1 .. k : r[j] = v[j]
  <2>1. /\ (c + k) - (c + 1) + 1 = k
        /\ \A j \in 1 .. k : (c + 1) + j - 1 = c + j
    BY <1>1
  <2> QED  BY <1>3, <2>1 DEF k
<1>6. r = v
  BY <1>3, <1>4, <1>5, SeqEqual DEF k
<1> QED  BY <1>6 DEF r

\* r is t behind s.
Joins(r, s, t) ==
    /\ Len(s) \in Nat /\ Len(t) \in Nat
    /\ Len(r) = Len(s) + Len(t)
    /\ DOMAIN r = 1 .. Len(s) + Len(t)
    /\ \A i \in 1 .. Len(s) : r[i] = s[i]
    /\ \A i \in 1 .. Len(t) : r[i + Len(s)] = t[i]

\* r is s without the head h, so that what is behind it moves up by one.
HeadGone(r, s, h) ==
    /\ 1 \in DOMAIN s /\ s[1] = h /\ Len(r) + 1 = Len(s)
    /\ \A i \in DOMAIN r : /\ i + 1 \in DOMAIN s /\ i \in Nat \ {0}
                           /\ r[i] = s[i + 1]

\* Two sequences one behind the other, by position.
LEMMA JoinFact ==
    ASSUME NEW S, NEW s \in Seq(S), NEW t \in Seq(S)
    PROVE  s \o t \in Seq(S) /\ Joins(s \o t, s, t)
<1>1. /\ s \o t \in Seq(S) /\ Len(s) \in Nat /\ Len(t) \in Nat
      /\ Len(s \o t) = Len(s) + Len(t)
      /\ \A i \in 1 .. Len(s) + Len(t) :
           (s \o t)[i] = IF i <= Len(s) THEN s[i] ELSE t[i - Len(s)]
  BY ConcatProperties, LenProperties
<1>2. DOMAIN (s \o t) = 1 .. Len(s) + Len(t)
  BY <1>1, LenProperties
<1>3. \A i \in 1 .. Len(t) :
        /\ i + Len(s) \in 1 .. Len(s) + Len(t) /\ ~(i + Len(s) <= Len(s))
        /\ (i + Len(s)) - Len(s) = i
  BY <1>1
<1>4. \A i \in 1 .. Len(t) : (s \o t)[i + Len(s)] = t[i]
  BY <1>1, <1>3
<1>5. \A i \in 1 .. Len(s) : (s \o t)[i] = s[i]
  BY <1>1
<1> QED  BY <1>1, <1>2, <1>4, <1>5 DEF Joins

\* Without its head, what is behind a sequence moves up by one.
LEMMA HeadGoneFact ==
    ASSUME NEW S, NEW s \in Seq(S), NEW t \in Seq(S), s # <<>>
    PROVE  HeadGone(Tail(s) \o t, s \o t, Head(s))
<1>1. /\ Tail(s) \in Seq(S) /\ Head(s) \in S /\ Len(Tail(s)) = Len(s) - 1
      /\ \A i \in 1 .. Len(Tail(s)) : Tail(s)[i] = s[i + 1]
      /\ Len(s) \in Nat \ {0} /\ Len(t) \in Nat /\ Head(s) = s[1]
  BY HeadTailProperties, EmptySeq, LenProperties
<1>2. /\ Len(s \o t) = Len(s) + Len(t)
      /\ DOMAIN (s \o t) = 1 .. Len(s) + Len(t)
      /\ \A i \in 1 .. Len(s) : (s \o t)[i] = s[i]
      /\ \A i \in 1 .. Len(t) : (s \o t)[i + Len(s)] = t[i]
  BY JoinFact DEF Joins
<1>3. /\ Len(Tail(s) \o t) = (Len(s) - 1) + Len(t)
      /\ DOMAIN (Tail(s) \o t) = 1 .. (Len(s) - 1) + Len(t)
      /\ \A i \in 1 .. Len(s) - 1 : (Tail(s) \o t)[i] = Tail(s)[i]
      /\ \A i \in 1 .. Len(t) : (Tail(s) \o t)[i + (Len(s) - 1)] = t[i]
  BY <1>1, JoinFact DEF Joins
<1>4. ASSUME NEW i \in DOMAIN (Tail(s) \o t)
      PROVE  /\ i + 1 \in DOMAIN (s \o t) /\ i \in Nat \ {0}
             /\ (Tail(s) \o t)[i] = (s \o t)[i + 1]
  <2>1. i \in 1 .. (Len(s) - 1) + Len(t) /\ i + 1 \in 1 .. Len(s) + Len(t)
    BY <1>1, <1>3
  <2>2. CASE i <= Len(s) - 1
    <3>1. i \in 1 .. Len(s) - 1 /\ i + 1 \in 1 .. Len(s)
      BY <1>1, <2>1, <2>2
    <3> QED  BY <1>1, <1>2, <1>3, <2>1, <3>1
  <2>3. CASE ~(i <= Len(s) - 1)
    <3> DEFINE j == i - (Len(s) - 1)
    <3>1. j \in 1 .. Len(t) /\ i = j + (Len(s) - 1) /\ i + 1 = j + Len(s)
      BY <1>1, <2>1, <2>3
    <3> HIDE DEF j
    <3>2. (Tail(s) \o t)[i] = t[j] /\ (s \o t)[i + 1] = t[j]
      BY <1>2, <1>3, <3>1
    <3> QED  BY <1>2, <2>1, <3>2
  <2> QED  BY <2>2, <2>3
<1> QED  BY <1>1, <1>2, <1>3, <1>4 DEF HeadGone

\* s is a stretch of t.
Stretch(s, t) ==
    \E k \in Nat : \A i \in DOMAIN s : i + k \in DOMAIN t /\ s[i] = t[i + k]

\* How a stretch is shown.
LEMMA StretchFact ==
    ASSUME NEW S, NEW s \in Seq(S), NEW t \in Seq(S), NEW k \in Nat,
           Len(s) + k <= Len(t), \A i \in 1 .. Len(s) : s[i] = t[i + k]
    PROVE  Stretch(s, t)
<1>1. /\ DOMAIN s = 1 .. Len(s) /\ DOMAIN t = 1 .. Len(t)
      /\ Len(s) \in Nat /\ Len(t) \in Nat
  BY LenProperties
<1>2. \A i \in DOMAIN s : i + k \in DOMAIN t /\ s[i] = t[i + k]
  BY <1>1
<1> QED  BY <1>2 DEF Stretch

\* s is how t begins.
Begins(s, t) == \A i \in DOMAIN s : i \in DOMAIN t /\ s[i] = t[i]

\* Less behind the same is how it begins.
LEMMA ShorterBegins ==
    ASSUME NEW q, NEW r, NEW s, NEW t, NEW u, Joins(q, s, t), Joins(r, s, u),
           Len(t) <= Len(u), \A i \in 1 .. Len(t) : t[i] = u[i]
    PROVE  Begins(q, r)
<1>1. ASSUME NEW i \in DOMAIN q
      PROVE  i \in DOMAIN r /\ q[i] = r[i]
  <2>1. i \in 1 .. Len(s) + Len(t) /\ i \in DOMAIN r
    BY DEF Joins
  <2>2. CASE i <= Len(s)
    BY <2>1, <2>2 DEF Joins
  <2>3. CASE ~(i <= Len(s))
    <3> DEFINE j == i - Len(s)
    <3>1. j \in 1 .. Len(t) /\ j \in 1 .. Len(u) /\ i = j + Len(s)
      BY <2>1, <2>3 DEF Joins
    <3> HIDE DEF j
    <3>2. q[i] = t[j] /\ r[i] = u[j] /\ t[j] = u[j]
      BY <3>1 DEF Joins
    <3> QED  BY <2>1, <3>2
  <2> QED  BY <2>2, <2>3
<1> QED  BY <1>1 DEF Begins

\* Less of what is behind leaves a stretch.
LEMMA ShorterStretch ==
    ASSUME NEW q, NEW r, NEW s, NEW t, NEW u, Joins(q, s, t), Joins(r, s, u),
           Len(t) <= Len(u), \A i \in 1 .. Len(t) : t[i] = u[i]
    PROVE  Stretch(q, r)
<1>1. Begins(q, r)
  BY ShorterBegins
<1>2. \A i \in DOMAIN q : i + 0 = i
  BY DEF Joins
<1> QED  BY <1>1, <1>2 DEF Begins, Stretch

\* A sequence is a stretch of itself and of itself with more behind it, and
\* the empty one is a stretch of any.
LEMMA StretchSelf ==
    ASSUME NEW S, NEW s \in Seq(S), NEW t \in Seq(S)
    PROVE  Stretch(s, s) /\ Stretch(s, s \o t) /\ Stretch(<<>>, s)
<1>1. Len(s) \in Nat /\ Len(t) \in Nat /\ 0 \in Nat
  BY LenProperties
<1>2. Stretch(s, s)
  <2>1. Len(s) + 0 <= Len(s) /\ \A i \in 1 .. Len(s) : s[i] = s[i + 0]
    BY <1>1
  <2> QED  BY <1>1, <2>1, StretchFact
<1>3. Stretch(s, s \o t)
  <2>1. /\ s \o t \in Seq(S) /\ Len(s \o t) = Len(s) + Len(t)
        /\ \A i \in 1 .. Len(s) : s[i] = (s \o t)[i + 0]
    BY <1>1, ConcatProperties
  <2>2. Len(s) + 0 <= Len(s \o t)
    BY <1>1, <2>1
  <2> QED  BY <1>1, <2>1, <2>2, StretchFact
<1>4. Stretch(<<>>, s)
  BY <1>1 DEF Stretch
<1> QED  BY <1>2, <1>3, <1>4

\* A stretch of a stretch is one.
LEMMA StretchOfStretch ==
    ASSUME NEW s, NEW t, NEW u, DOMAIN s \subseteq Int,
           Stretch(s, t), Stretch(t, u)
    PROVE  Stretch(s, u)
<1>1. PICK k \in Nat : \A i \in DOMAIN s : i + k \in DOMAIN t /\ s[i] = t[i + k]
  BY DEF Stretch
<1>2. PICK m \in Nat : \A i \in DOMAIN t : i + m \in DOMAIN u /\ t[i] = u[i + m]
  BY DEF Stretch
<1>3. k + m \in Nat /\ \A i \in DOMAIN s : i + (k + m) = (i + k) + m
  OBVIOUS
<1>4. \A i \in DOMAIN s : i + (k + m) \in DOMAIN u /\ s[i] = u[i + (k + m)]
  BY <1>1, <1>2, <1>3
<1> QED  BY <1>3, <1>4 DEF Stretch

\* Taking from the front and adding at the back of two sequences joined.
LEMMA EndsOfJoined ==
    ASSUME NEW S, NEW s \in Seq(S), NEW t \in Seq(S), NEW x \in S
    PROVE  /\ s # <<>> => s \o t # <<>> /\ Tail(s) \o t = Tail(s \o t)
           /\ s \o Append(t, x) = Append(s \o t, x)
<1>1. s \o t \in Seq(S) /\ <<x>> \in Seq(S)
  BY ConcatProperties
<1>2. s \o Append(t, x) = Append(s \o t, x)
  <2>1. Append(t, x) = t \o <<x>> /\ Append(s \o t, x) = (s \o t) \o <<x>>
    BY <1>1, AppendIsConcat
  <2> QED  BY <1>1, <2>1, ConcatAssociative
<1>3. ASSUME s # <<>> PROVE s \o t # <<>> /\ Tail(s) \o t = Tail(s \o t)
  <2> DEFINE u == s \o t
             v == Tail(s) \o t
  <2>1. u # <<>>
    BY <1>3, ConcatEqualIffEmpty
  <2>2. HeadGone(v, u, Head(s)) /\ u \in Seq(S)
    BY <1>1, <1>3, HeadGoneFact
  <2>3. v \in Seq(S)
    BY <1>3, HeadTailProperties, ConcatProperties
  <2> HIDE DEF u, v
  <2>4. /\ Tail(u) \in Seq(S) /\ Len(Tail(u)) = Len(u) - 1
        /\ \A i \in 1 .. Len(Tail(u)) : Tail(u)[i] = u[i + 1]
    BY <2>1, <2>2, HeadTailProperties
  <2>5. Len(v) \in Nat /\ Len(u) \in Nat /\ DOMAIN v = 1 .. Len(v)
    BY <2>2, <2>3, LenProperties
  <2>6. Len(v) = Len(Tail(u)) /\ \A i \in 1 .. Len(v) : v[i] = Tail(u)[i]
    BY <2>2, <2>4, <2>5 DEF HeadGone
  <2>7. v = Tail(u)
    BY <2>3, <2>4, <2>6, SeqEqual
  <2> QED  BY <2>1, <2>7 DEF u, v
<1> QED  BY <1>2, <1>3

\* A sequence is how it begins with more behind it.
LEMMA JoinedPrefix ==
    ASSUME NEW S, NEW s \in Seq(S), NEW t \in Seq(S)
    PROVE  /\ Len(s) <= Len(s \o t)
           /\ SubSeq(s, 1, Len(s)) = SubSeq(s \o t, 1, Len(s))
<1> DEFINE u == s \o t
<1>1. u \in Seq(S) /\ Joins(u, s, t)
  BY JoinFact
<1> HIDE DEF u
<1>2. Len(s) \in 0 .. Len(u) /\ Len(s) \in 0 .. Len(s)
  BY <1>1 DEF Joins
<1> DEFINE v == SubSeq(s, 1, Len(s))
           w == SubSeq(u, 1, Len(s))
<1>3. v \in Seq(S) /\ Len(v) = Len(s) /\ \A i \in 1 .. Len(s) : v[i] = s[i]
  BY <1>2, CutFact
<1>4. w \in Seq(S) /\ Len(w) = Len(s) /\ \A i \in 1 .. Len(s) : w[i] = u[i]
  BY <1>1, <1>2, CutFact
<1>5. \A i \in 1 .. Len(s) : v[i] = w[i]
  BY <1>1, <1>3, <1>4 DEF Joins
<1> HIDE DEF v, w
<1>6. v = w
  BY <1>3, <1>4, <1>5, SeqEqual
<1> QED  BY <1>2, <1>6 DEF u, v, w
=============================================================================
