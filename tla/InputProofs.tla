---------------------------- MODULE InputProofs -----------------------------
(***************************************************************************)
(* Proofs about what comes in, for every configuration directory, file and *)
(* sequence of lines: Startup and FileRules, what a directory with         *)
(* anything wrong in it makes of the agent and what the crawls send; and   *)
(* Decoder, at the end, which has no variable in common with them.         *)
(*                                                                         *)
(* What the code does in loops are folds here.  That a fold does what its  *)
(* body says, step by step, is proved for each of the four there are.  The *)
(* rest of the proofs of FileRules looks at a sequence only through Leads, *)
(* what comes first in it.                                                 *)
(***************************************************************************)
EXTENDS Startup, Decoder, SequenceTheorems, WellFoundedInduction, TLAPS

-----------------------------------------------------------------------------
(* Induction, with sets for predicates.                                    *)

LEMMA Smallest ==
    ASSUME NEW S \in SUBSET Nat, S # {} PROVE \E x \in S : \A y \in S : x <= y
<1>1. PICK x \in S : \A y \in S : ~ (<<y, x>> \in OpToRel(<, Nat))
  BY NatLessThanWellFounded, WFMin
<1>2. \A y \in S : ~ (y < x)
  BY <1>1 DEF OpToRel
<1> QED
  BY <1>2

LEMMA InductionUpTo ==
    ASSUME NEW n \in Nat, NEW S, 0 \in S, \A k \in 1 .. n : k - 1 \in S => k \in S
    PROVE  0 .. n \subseteq S
<1> DEFINE Others == (0 .. n) \ S
<1> SUFFICES ASSUME Others # {} PROVE FALSE
  OBVIOUS
<1>0. Others \in SUBSET Nat
  OBVIOUS
<1>1. PICK x \in Others : \A y \in Others : x <= y
  <2> HIDE DEF Others
  <2> QED
    BY <1>0, Smallest
<1>2. x \in 1 .. n /\ x - 1 \in 0 .. n
  BY <1>1
<1>3. x - 1 \in S
  BY <1>1, <1>2
<1> QED
  BY <1>1, <1>2, <1>3

-----------------------------------------------------------------------------
(* The folds.                                                              *)

LEMMA MaxIsIn ==
    ASSUME NEW n \in Nat, NEW T \in SUBSET (1 .. n), T # {}
    PROVE  Max(T) \in T /\ \A y \in T : Max(T) >= y
<1> DEFINE Bounds == {u \in Nat : \A y \in T : u >= y}
<1>1. n \in Bounds
  OBVIOUS
<1>2. PICK u \in Bounds : \A v \in Bounds : u <= v
  <2>1. Bounds \in SUBSET Nat
    OBVIOUS
  <2> HIDE DEF Bounds
  <2> QED
    BY <1>1, <2>1, Smallest
<1>3. u \in T
  <2>1. SUFFICES ASSUME u \notin T PROVE FALSE
    OBVIOUS
  <2>2. PICK y : y \in T /\ y \in 1 .. n
    OBVIOUS
  <2>3. u \in Nat /\ \A z \in T : u >= z
    BY <1>2
  <2>4. u - 1 \in Nat /\ \A z \in T : u - 1 >= z
    <3>1. \A z \in T : z \in 1 .. n /\ z # u
      BY <2>1
    <3> QED
      BY <2>2, <2>3, <3>1
  <2>5. u - 1 \in Bounds
    BY <2>4
  <2>6. u <= u - 1
    BY <1>2, <2>5
  <2> QED
    BY <2>3, <2>6
<1>4. \E x \in T : \A y \in T : x >= y
  BY <1>2, <1>3
<1> QED
  BY <1>4 DEF Max

LEMMA MaxOfAll ==
    ASSUME NEW k \in Nat \ {0}, NEW T, k \in T, T \subseteq 1 .. k PROVE Max(T) = k
<1>1. k \in Nat /\ T \in SUBSET (1 .. k) /\ T # {}
  OBVIOUS
<1>2. Max(T) \in T /\ Max(T) >= k
  BY <1>1, MaxIsIn
<1>3. Max(T) \in 1 .. k
  BY <1>2
<1> QED
  BY <1>2, <1>3

\* A fold takes the last element of what is left of the domain; F is its body.
FoldOf(g, b, F, s) ==
    \A T \in SUBSET (1 .. Len(s)) :
        g[T] = IF T = {} THEN b ELSE F[<<g[T \ {Max(T)}], s[Max(T)]>>]

LEMMA FoldExists ==
    ASSUME NEW B, NEW b \in B, NEW X, NEW F \in [B \X X -> B], NEW s \in Seq(X)
    PROVE  \E g \in [SUBSET (1 .. Len(s)) -> B] : FoldOf(g, b, F, s)
<1> DEFINE Fold(m, g) ==
               \A T \in SUBSET (1 .. m) :
                   g[T] = IF T = {} THEN b ELSE F[<<g[T \ {Max(T)}], s[Max(T)]>>]
           Good == {m \in 0 .. Len(s) : \E g \in [SUBSET (1 .. m) -> B] : Fold(m, g)}
<1>1. 0 \in Good
  <2>1. [T \in SUBSET (1 .. 0) |-> b] \in [SUBSET (1 .. 0) -> B]
    OBVIOUS
  <2>2. \A T \in SUBSET (1 .. 0) : T = {}
    OBVIOUS
  <2>3. Fold(0, [T \in SUBSET (1 .. 0) |-> b])
    BY <2>2
  <2>4. 0 \in 0 .. Len(s)
    OBVIOUS
  <2> QED
    BY <2>1, <2>3, <2>4
<1>2. ASSUME NEW k \in 1 .. Len(s), k - 1 \in Good PROVE k \in Good
  <2>1. PICK g \in [SUBSET (1 .. k - 1) -> B] : Fold(k - 1, g)
    BY <1>2
  <2> DEFINE h == [T \in SUBSET (1 .. k) |->
                      IF k \in T THEN F[<<g[T \ {k}], s[k]>>] ELSE g[T]]
  <2>2. ASSUME NEW T \in SUBSET (1 .. k), k \in T
        PROVE  /\ T \ {k} \in SUBSET (1 .. k - 1) /\ T \ {k} \in SUBSET (1 .. k)
               /\ h[T] = F[<<h[T \ {k}], s[k]>>] /\ h[T] \in B
    <3>1. T \ {k} \in SUBSET (1 .. k - 1) /\ T \ {k} \in SUBSET (1 .. k)
      BY <2>2
    <3>2. h[T \ {k}] = g[T \ {k}] /\ g[T \ {k}] \in B
      BY <2>1, <3>1
    <3>3. s[k] \in X
      OBVIOUS
    <3> QED
      BY <2>2, <3>1, <3>2, <3>3
  <2>3. ASSUME NEW T \in SUBSET (1 .. k), k \notin T
        PROVE  T \in SUBSET (1 .. k - 1) /\ h[T] = g[T] /\ h[T] \in B
    <3>1. T \in SUBSET (1 .. k - 1)
      BY <2>3
    <3> QED
      BY <2>1, <2>3, <3>1
  <2>4. h \in [SUBSET (1 .. k) -> B]
    BY <2>2, <2>3
  <2> HIDE DEF h
  <2>5. ASSUME NEW T \in SUBSET (1 .. k)
        PROVE  h[T] = IF T = {} THEN b ELSE F[<<h[T \ {Max(T)}], s[Max(T)]>>]
    <3>1. CASE k \in T
      <4>1. Max(T) = k
        <5>1. T \subseteq 1 .. k /\ k \in Nat \ {0}
          OBVIOUS
        <5> QED
          BY <3>1, <5>1, MaxOfAll
      <4> QED
        BY <2>2, <3>1, <4>1
    <3>2. CASE k \notin T
      <4>1. h[T \ {Max(T)}] = g[T \ {Max(T)}]
        BY <2>3, <3>2
      <4>2. g[T] = IF T = {} THEN b ELSE F[<<g[T \ {Max(T)}], s[Max(T)]>>]
        BY <2>1, <2>3, <3>2
      <4> QED
        BY <2>3, <3>2, <4>1, <4>2
    <3> QED
      BY <3>1, <3>2
  <2>6. Fold(k, h)
    BY <2>5
  <2>7. k \in 0 .. Len(s)
    OBVIOUS
  <2> HIDE DEF Fold
  <2> QED
    BY <2>4, <2>6, <2>7
<1> HIDE DEF Good
<1>3. Len(s) \in Good
  <2>1. Len(s) \in Nat /\ Len(s) \in 0 .. Len(s)
    OBVIOUS
  <2> QED
    BY <1>1, <1>2, <2>1, InductionUpTo
<1> QED
  BY <1>3 DEF Good, FoldOf

LEMMA FirstOnes ==
    ASSUME NEW n \in Nat, NEW k \in 1 .. n
    PROVE  /\ 1 .. k \in SUBSET (1 .. n) /\ 1 .. k # {} /\ Max(1 .. k) = k
           /\ (1 .. k) \ {k} = 1 .. k - 1
<1>1. k \in Nat \ {0} /\ k \in 1 .. k
  OBVIOUS
<1>2. Max(1 .. k) = k
  BY <1>1, MaxOfAll
<1> QED
  BY <1>1, <1>2

\* Keep looks at one element after the other.
KeepSteps(v, s, S) ==
    /\ v[0] = <<>>
    /\ \A k \in 1 .. Len(s) : v[k] = IF s[k] \in S THEN Append(v[k - 1], s[k]) ELSE v[k - 1]
    /\ Keep(s, S) = v[Len(s)]

LEMMA KeepIsLoop ==
    ASSUME NEW X, NEW s \in Seq(X), NEW S
    PROVE  \E v \in [0 .. Len(s) -> Seq(X)] : KeepSteps(v, s, S)
<1> DEFINE n == Len(s)
           Body(kept, x) == IF x \in S THEN Append(kept, x) ELSE kept
           F == [p \in Seq(X) \X X |-> Body(p[1], p[2])]
           Fold(g) == g = [T \in SUBSET (DOMAIN s) |->
                              IF T = {} THEN <<>> ELSE Body(g[T \ {Max(T)}], s[Max(T)])]
<1>1. n \in Nat /\ DOMAIN s = 1 .. n /\ \A k \in 1 .. n : s[k] \in X
  OBVIOUS
<1>2. /\ \A kept \in Seq(X), x \in X : Body(kept, x) \in Seq(X) /\ F[<<kept, x>>] = Body(kept, x)
      /\ F \in [Seq(X) \X X -> Seq(X)] /\ <<>> \in Seq(X)
  OBVIOUS
<1> HIDE DEF Body, F
<1>3. PICK g \in [SUBSET (1 .. n) -> Seq(X)] : FoldOf(g, <<>>, F, s)
  BY <1>2, FoldExists
<1>4. Fold(g)
  <2>1. ASSUME NEW T \in SUBSET (1 .. n)
        PROVE  g[T] = IF T = {} THEN <<>> ELSE Body(g[T \ {Max(T)}], s[Max(T)])
    <3>1. CASE T = {}
      BY <1>3, <3>1 DEF FoldOf
    <3>2. CASE T # {}
      <4>1. Max(T) \in 1 .. n
        BY <1>1, <3>2, MaxIsIn
      <4>2. s[Max(T)] \in X /\ g[T \ {Max(T)}] \in Seq(X)
        BY <1>1, <1>3, <4>1
      <4>3. g[T] = F[<<g[T \ {Max(T)}], s[Max(T)]>>]
        BY <1>3, <3>2 DEF FoldOf
      <4> QED
        BY <1>2, <3>2, <4>2, <4>3
    <3> QED
      BY <3>1, <3>2
  <2> QED
    BY <1>1, <1>3, <2>1
<1> DEFINE it == CHOOSE h : Fold(h)
           v == [k \in 0 .. n |-> it[1 .. k]]
<1>5. Fold(it)
  BY <1>4
<1>6. Keep(s, S) = it[DOMAIN s]
  BY DEF Keep, FoldLeft, MapThenFoldSet, Body
<1> HIDE DEF it
<1>7. v[0] = <<>>
  <2>1. {} \in SUBSET (1 .. n) /\ 1 .. 0 = {}
    OBVIOUS
  <2> QED
    BY <1>1, <1>5, <2>1
<1>8. ASSUME NEW k \in 1 .. n PROVE v[k] = Body(v[k - 1], s[k])
  <2>1. /\ 1 .. k \in SUBSET (1 .. n) /\ 1 .. k # {} /\ Max(1 .. k) = k
        /\ (1 .. k) \ {k} = 1 .. k - 1
    BY <1>1, FirstOnes
  <2> DEFINE T == 1 .. k
  <2>2. T \in SUBSET (DOMAIN s) /\ T # {} /\ Max(T) = k /\ T \ {k} = 1 .. k - 1
    BY <1>1, <2>1
  <2> HIDE DEF T
  <2>3. it[T] = Body(it[T \ {k}], s[k])
    BY <1>5, <2>2
  <2>4. it[T] = Body(it[1 .. k - 1], s[k])
    BY <2>2, <2>3
  <2>5. k - 1 \in 0 .. n /\ k \in 0 .. n
    BY <1>1
  <2> QED
    BY <2>4, <2>5 DEF T
<1>9. v \in [0 .. n -> Seq(X)]
  <2> DEFINE Typed == {k \in 0 .. n : v[k] \in Seq(X)}
  <2> HIDE DEF v
  <2>1. 0 \in Typed
    <3>1. 0 \in 0 .. n /\ <<>> \in Seq(X)
      BY <1>1
    <3> QED
      BY <1>7, <3>1
  <2>2. ASSUME NEW k \in 1 .. n, k - 1 \in Typed PROVE k \in Typed
    <3>1. k \in 0 .. n /\ s[k] \in X /\ v[k - 1] \in Seq(X)
      BY <1>1, <2>2
    <3>2. Body(v[k - 1], s[k]) \in Seq(X)
      BY <1>2, <3>1
    <3> QED
      BY <1>8, <3>1, <3>2
  <2> HIDE DEF Typed
  <2>3. 0 .. n \subseteq Typed
    BY <1>1, <2>1, <2>2, InductionUpTo
  <2> QED
    BY <2>3 DEF v, Typed
<1>10. Keep(s, S) = v[n]
  BY <1>1, <1>6
<1> HIDE DEF v
<1>11. KeepSteps(v, s, S)
  BY <1>7, <1>8, <1>10 DEF KeepSteps, Body
<1> QED
  BY <1>9, <1>11

\* Clean as well.
CleanSteps(v, s) ==
    /\ v[0] = <<>>
    /\ \A k \in 1 .. Len(s) :
           v[k] = IF \E i \in 1 .. Len(v[k - 1]) : SameEvent(v[k - 1][i], s[k])
                  THEN v[k - 1] ELSE Append(v[k - 1], s[k])
    /\ Clean(s) = v[Len(s)]

LEMMA CleanIsLoop ==
    ASSUME NEW X, NEW s \in Seq(X)
    PROVE  \E v \in [0 .. Len(s) -> Seq(X)] : CleanSteps(v, s)
<1> DEFINE n == Len(s)
           Body(kept, x) == IF \E i \in 1 .. Len(kept) : SameEvent(kept[i], x)
                            THEN kept ELSE Append(kept, x)
           F == [p \in Seq(X) \X X |-> Body(p[1], p[2])]
           Fold(g) == g = [T \in SUBSET (DOMAIN s) |->
                              IF T = {} THEN <<>> ELSE Body(g[T \ {Max(T)}], s[Max(T)])]
<1>1. n \in Nat /\ DOMAIN s = 1 .. n /\ \A k \in 1 .. n : s[k] \in X
  OBVIOUS
<1>2. /\ \A kept \in Seq(X), x \in X : Body(kept, x) \in Seq(X) /\ F[<<kept, x>>] = Body(kept, x)
      /\ F \in [Seq(X) \X X -> Seq(X)] /\ <<>> \in Seq(X)
  OBVIOUS
<1> HIDE DEF Body, F
<1>3. PICK g \in [SUBSET (1 .. n) -> Seq(X)] : FoldOf(g, <<>>, F, s)
  BY <1>2, FoldExists
<1>4. Fold(g)
  <2>1. ASSUME NEW T \in SUBSET (1 .. n)
        PROVE  g[T] = IF T = {} THEN <<>> ELSE Body(g[T \ {Max(T)}], s[Max(T)])
    <3>1. CASE T = {}
      BY <1>3, <3>1 DEF FoldOf
    <3>2. CASE T # {}
      <4>1. Max(T) \in 1 .. n
        BY <1>1, <3>2, MaxIsIn
      <4>2. s[Max(T)] \in X /\ g[T \ {Max(T)}] \in Seq(X)
        BY <1>1, <1>3, <4>1
      <4>3. g[T] = F[<<g[T \ {Max(T)}], s[Max(T)]>>]
        BY <1>3, <3>2 DEF FoldOf
      <4> QED
        BY <1>2, <3>2, <4>2, <4>3
    <3> QED
      BY <3>1, <3>2
  <2> QED
    BY <1>1, <1>3, <2>1
<1> DEFINE it == CHOOSE h : Fold(h)
           v == [k \in 0 .. n |-> it[1 .. k]]
<1>5. Fold(it)
  BY <1>4
<1>6. Clean(s) = it[DOMAIN s]
  BY DEF Clean, FoldLeft, MapThenFoldSet, Body
<1> HIDE DEF it
<1>7. v[0] = <<>>
  <2>1. {} \in SUBSET (1 .. n) /\ 1 .. 0 = {}
    OBVIOUS
  <2> QED
    BY <1>1, <1>5, <2>1
<1>8. ASSUME NEW k \in 1 .. n PROVE v[k] = Body(v[k - 1], s[k])
  <2>1. /\ 1 .. k \in SUBSET (1 .. n) /\ 1 .. k # {} /\ Max(1 .. k) = k
        /\ (1 .. k) \ {k} = 1 .. k - 1
    BY <1>1, FirstOnes
  <2> DEFINE T == 1 .. k
  <2>2. T \in SUBSET (DOMAIN s) /\ T # {} /\ Max(T) = k /\ T \ {k} = 1 .. k - 1
    BY <1>1, <2>1
  <2> HIDE DEF T
  <2>3. it[T] = Body(it[T \ {k}], s[k])
    BY <1>5, <2>2
  <2>4. it[T] = Body(it[1 .. k - 1], s[k])
    BY <2>2, <2>3
  <2>5. k - 1 \in 0 .. n /\ k \in 0 .. n
    BY <1>1
  <2> QED
    BY <2>4, <2>5 DEF T
<1>9. v \in [0 .. n -> Seq(X)]
  <2> DEFINE Typed == {k \in 0 .. n : v[k] \in Seq(X)}
  <2> HIDE DEF v
  <2>1. 0 \in Typed
    <3>1. 0 \in 0 .. n /\ <<>> \in Seq(X)
      BY <1>1
    <3> QED
      BY <1>7, <3>1
  <2>2. ASSUME NEW k \in 1 .. n, k - 1 \in Typed PROVE k \in Typed
    <3>1. k \in 0 .. n /\ s[k] \in X /\ v[k - 1] \in Seq(X)
      BY <1>1, <2>2
    <3>2. Body(v[k - 1], s[k]) \in Seq(X)
      BY <1>2, <3>1
    <3> QED
      BY <1>8, <3>1, <3>2
  <2> HIDE DEF Typed
  <2>3. 0 .. n \subseteq Typed
    BY <1>1, <2>1, <2>2, InductionUpTo
  <2> QED
    BY <2>3 DEF v, Typed
<1>10. Clean(s) = v[n]
  BY <1>1, <1>6
<1> HIDE DEF v
<1>11. CleanSteps(v, s)
  BY <1>7, <1>8, <1>10 DEF CleanSteps, Body
<1> QED
  BY <1>9, <1>11

\* FlattenSeq appends one sequence after the other.
FlattenSteps(v, ss) ==
    /\ v[0] = <<>>
    /\ \A k \in 1 .. Len(ss) : v[k] = v[k - 1] \o ss[k]
    /\ FlattenSeq(ss) = v[Len(ss)]

LEMMA FlattenExists ==
    ASSUME NEW X, NEW ss \in Seq(Seq(X))
    PROVE  \E g \in [1 .. Len(ss) -> Seq(X)] :
               \A i \in 1 .. Len(ss) : g[i] = IF i = 1 THEN ss[i] ELSE g[i - 1] \o ss[i]
<1> DEFINE Flat(m, g) == \A i \in 1 .. m : g[i] = IF i = 1 THEN ss[i] ELSE g[i - 1] \o ss[i]
           Good == {m \in 0 .. Len(ss) : \E g \in [1 .. m -> Seq(X)] : Flat(m, g)}
<1>1. Len(ss) \in Nat /\ \A i \in 1 .. Len(ss) : ss[i] \in Seq(X)
  OBVIOUS
<1>2. 0 \in Good
  <2>1. [i \in 1 .. 0 |-> <<>>] \in [1 .. 0 -> Seq(X)] /\ Flat(0, [i \in 1 .. 0 |-> <<>>])
    OBVIOUS
  <2>2. 0 \in 0 .. Len(ss)
    BY <1>1
  <2> QED
    BY <2>1, <2>2
<1>3. ASSUME NEW k \in 1 .. Len(ss), k - 1 \in Good PROVE k \in Good
  <2>1. PICK g \in [1 .. k - 1 -> Seq(X)] : Flat(k - 1, g)
    BY <1>3
  <2> DEFINE h == [i \in 1 .. k |-> IF i < k THEN g[i]
                                    ELSE IF i = 1 THEN ss[i] ELSE g[i - 1] \o ss[i]]
  <2>2. ASSUME NEW i \in 1 .. k
        PROVE  h[i] \in Seq(X) /\ h[i] = IF i = 1 THEN ss[i] ELSE h[i - 1] \o ss[i]
    <3>1. CASE i < k
      <4>1. i \in 1 .. k - 1 /\ h[i] = g[i] /\ (i # 1 => i - 1 \in 1 .. k /\ h[i - 1] = g[i - 1])
        BY <3>1
      <4> QED
        BY <2>1, <4>1
    <3>2. CASE i = k /\ i = 1
      BY <1>1, <3>2
    <3>3. CASE i = k /\ i # 1
      <4>1. i - 1 \in 1 .. k - 1 /\ i - 1 \in 1 .. k /\ h[i - 1] = g[i - 1]
        BY <3>3
      <4>2. g[i - 1] \in Seq(X) /\ ss[i] \in Seq(X)
        BY <1>1, <2>1, <4>1
      <4>3. h[i] = g[i - 1] \o ss[i]
        <5>1. i \in 1 .. k /\ ~ (i < k)
          BY <1>1, <3>3
        <5> QED
          BY <3>3, <5>1, Zenon
      <4>4. g[i - 1] \o ss[i] \in Seq(X)
        BY <4>2, ConcatProperties
      <4> QED
        BY <3>3, <4>1, <4>3, <4>4
    <3> QED
      BY <3>1, <3>2, <3>3
  <2>3. h \in [1 .. k -> Seq(X)]
    BY <2>2
  <2> HIDE DEF h
  <2>4. Flat(k, h)
    BY <2>2
  <2>5. k \in 0 .. Len(ss)
    BY <1>1
  <2> HIDE DEF Flat
  <2> QED
    BY <2>3, <2>4, <2>5
<1> HIDE DEF Good
<1>4. Len(ss) \in Good
  <2>1. Len(ss) \in 0 .. Len(ss)
    BY <1>1
  <2> QED
    BY <1>1, <1>2, <1>3, <2>1, InductionUpTo
<1> QED
  BY <1>4 DEF Good

LEMMA FlattenIsLoop ==
    ASSUME NEW X, NEW ss \in Seq(Seq(X))
    PROVE  \E v \in [0 .. Len(ss) -> Seq(X)] : FlattenSteps(v, ss)
<1> DEFINE n == Len(ss)
           Flat(g) == g = [i \in 1 .. n |-> IF i = 1 THEN ss[i] ELSE g[i - 1] \o ss[i]]
           it == CHOOSE g : Flat(g)
           v == [k \in 0 .. n |-> IF k = 0 THEN <<>> ELSE it[k]]
<1>1. n \in Nat /\ \A i \in 1 .. n : ss[i] \in Seq(X)
  OBVIOUS
<1>2. Flat(it)
  <2>1. PICK g \in [1 .. n -> Seq(X)] :
             \A i \in 1 .. n : g[i] = IF i = 1 THEN ss[i] ELSE g[i - 1] \o ss[i]
    BY FlattenExists
  <2>2. Flat(g)
    BY <2>1
  <2> QED
    BY <2>2
<1>3. FlattenSeq(ss) = v[n]
  <2>1. n \in 0 .. n
    BY <1>1
  <2>2. CASE n = 0
    <3>1. ss = <<>>
      BY <2>2
    <3> QED
      BY <2>1, <2>2, <3>1 DEF FlattenSeq
  <2>3. CASE n # 0
    <3>1. FlattenSeq(ss) = it[n]
      BY <2>3 DEF FlattenSeq
    <3> QED
      BY <2>1, <2>3, <3>1
  <2> QED
    BY <2>2, <2>3
<1> HIDE DEF it
<1>4. v[0] = <<>>
  BY <1>1
<1>5. ASSUME NEW k \in 1 .. n, v[k - 1] \in Seq(X) PROVE v[k] = v[k - 1] \o ss[k]
  <2>1. it[k] = IF k = 1 THEN ss[k] ELSE it[k - 1] \o ss[k]
    BY <1>2
  <2>2. CASE k = 1
    <3>1. v[k] = ss[k] /\ v[k - 1] = <<>> /\ ss[k] \in Seq(X)
      BY <1>1, <2>1, <2>2
    <3> QED
      BY <3>1, ConcatEmptySeq
  <2>3. CASE k # 1
    <3>1. v[k] = it[k] /\ v[k - 1] = it[k - 1]
      BY <1>1, <2>3
    <3> QED
      BY <2>1, <2>3, <3>1
  <2> QED
    BY <2>2, <2>3
<1>6. v \in [0 .. n -> Seq(X)]
  <2> DEFINE Typed == {k \in 0 .. n : v[k] \in Seq(X)}
  <2> HIDE DEF v
  <2>1. 0 \in Typed
    <3>1. 0 \in 0 .. n /\ <<>> \in Seq(X)
      BY <1>1
    <3> QED
      BY <1>4, <3>1
  <2>2. ASSUME NEW k \in 1 .. n, k - 1 \in Typed PROVE k \in Typed
    <3>1. k \in 0 .. n /\ ss[k] \in Seq(X) /\ v[k - 1] \in Seq(X)
      BY <1>1, <2>2
    <3>2. v[k - 1] \o ss[k] \in Seq(X)
      BY <3>1, ConcatProperties
    <3> QED
      BY <1>5, <3>1, <3>2
  <2> HIDE DEF Typed
  <2>3. 0 .. n \subseteq Typed
    BY <1>1, <2>1, <2>2, InductionUpTo
  <2> QED
    BY <2>3 DEF v, Typed
<1> HIDE DEF v
<1>7. ASSUME NEW k \in 1 .. n PROVE v[k] = v[k - 1] \o ss[k]
  <2>1. k - 1 \in 0 .. n
    BY <1>1
  <2> QED
    BY <1>5, <1>6, <2>1
<1>8. FlattenSteps(v, ss)
  BY <1>3, <1>4, <1>7 DEF FlattenSteps
<1> QED
  BY <1>6, <1>8

-----------------------------------------------------------------------------
(* What comes first.                                                       *)

\* Something in A comes in s, and nothing in B before it.
Leads(s, A, B) == \E i \in 1 .. Len(s) : s[i] \in A /\ \A j \in 1 .. i - 1 : s[j] \notin B

\* The same of the first k elements.
LeadsUpTo(s, k, A, B) == \E i \in 1 .. k : s[i] \in A /\ \A j \in 1 .. i - 1 : s[j] \notin B

\* Two sequences agree on what comes first, however often it comes again.
Alike(s, t) == \A A, B : Leads(s, A, B) <=> Leads(t, A, B)

LEMMA LeadsStep ==
    ASSUME NEW X, NEW s \in Seq(X), NEW k \in 1 .. Len(s), NEW A, NEW B
    PROVE  LeadsUpTo(s, k, A, B) <=> \/ LeadsUpTo(s, k - 1, A, B)
                                     \/ s[k] \in A /\ ~ LeadsUpTo(s, k - 1, B, {})
<1>1. k \in Nat /\ 1 .. k = (1 .. k - 1) \cup {k}
  OBVIOUS
<1> QED
  BY <1>1 DEF LeadsUpTo

LEMMA LeadsAll ==
    ASSUME NEW X, NEW s \in Seq(X), NEW A, NEW B
    PROVE  /\ ~ LeadsUpTo(s, 0, A, B)
           /\ Leads(s, A, B) <=> LeadsUpTo(s, Len(s), A, B)
BY DEF Leads, LeadsUpTo

LEMMA LeadsEmpty == \A A, B : ~ Leads(<<>>, A, B)
<1>1. Len(<<>>) = 0
  OBVIOUS
<1>2. 1 .. 0 = {}
  OBVIOUS
<1> QED
  BY <1>1, <1>2 DEF Leads

LEMMA LeadsConcat ==
    ASSUME NEW X, NEW s \in Seq(X), NEW t \in Seq(X), NEW A, NEW B
    PROVE  Leads(s \o t, A, B) <=> \/ Leads(s, A, B)
                                   \/ Leads(t, A, B) /\ ~ Leads(s, B, {})
<1> DEFINE m == Len(s)
           n == Len(t)
           u == s \o t
<1>1. m \in Nat /\ n \in Nat /\ Len(u) = m + n
  BY LenProperties, ConcatProperties
<1>2. \A i \in 1 .. m : u[i] = s[i]
  BY <1>1, ConcatProperties
<1>3. \A i \in 1 .. n : u[m + i] = t[i]
  <2> SUFFICES ASSUME NEW i \in 1 .. n PROVE u[m + i] = t[i]
    OBVIOUS
  <2>1. m + i \in 1 .. m + n /\ ~ (m + i <= m) /\ (m + i) - m = i
    BY <1>1
  <2> QED
    BY <2>1, ConcatProperties
<1> HIDE DEF m, n, u
<1>4. ASSUME Leads(u, A, B) PROVE Leads(s, A, B) \/ (Leads(t, A, B) /\ ~ Leads(s, B, {}))
  <2>1. PICK i \in 1 .. Len(u) : u[i] \in A /\ \A j \in 1 .. i - 1 : u[j] \notin B
    BY <1>4 DEF Leads
  <2>2. CASE i <= m
    <3>1. i \in 1 .. m /\ \A j \in 1 .. i - 1 : j \in 1 .. m
      BY <1>1, <2>1, <2>2
    <3> QED
      BY <1>2, <2>1, <3>1 DEF Leads, m
  <2>3. CASE i > m
    <3>1. i - m \in 1 .. n /\ u[i] = t[i - m]
      <4>1. i - m \in 1 .. n /\ m + (i - m) = i
        BY <1>1, <2>1, <2>3
      <4> QED
        BY <1>3, <4>1
    <3>2. ASSUME NEW j \in 1 .. (i - m) - 1 PROVE t[j] \notin B
      <4>1. j \in 1 .. n /\ m + j \in 1 .. i - 1
        BY <1>1, <2>1, <2>3
      <4> QED
        BY <1>3, <2>1, <4>1
    <3>3. ASSUME NEW j \in 1 .. m PROVE s[j] \notin B
      <4>1. j \in 1 .. i - 1
        BY <1>1, <2>1, <2>3
      <4> QED
        BY <1>2, <2>1, <4>1
    <3> QED
      BY <2>1, <3>1, <3>2, <3>3 DEF Leads, m, n
  <2> QED
    BY <1>1, <2>1, <2>2, <2>3
<1>5. ASSUME Leads(s, A, B) PROVE Leads(u, A, B)
  <2>1. PICK i \in 1 .. m : s[i] \in A /\ \A j \in 1 .. i - 1 : s[j] \notin B
    BY <1>5 DEF Leads, m
  <2>2. i \in 1 .. Len(u) /\ \A j \in 1 .. i - 1 : j \in 1 .. m
    BY <1>1
  <2> QED
    BY <1>2, <2>1, <2>2 DEF Leads
<1>6. ASSUME Leads(t, A, B), ~ Leads(s, B, {}) PROVE Leads(u, A, B)
  <2>1. PICK i \in 1 .. n : t[i] \in A /\ \A j \in 1 .. i - 1 : t[j] \notin B
    BY <1>6 DEF Leads, n
  <2>2. \A j \in 1 .. m : s[j] \notin B
    BY <1>6 DEF Leads, m
  <2>3. m + i \in 1 .. Len(u) /\ u[m + i] \in A
    BY <1>1, <1>3, <2>1
  <2>4. ASSUME NEW j \in 1 .. (m + i) - 1 PROVE u[j] \notin B
    <3>1. CASE j <= m
      <4>1. j \in 1 .. m
        BY <1>1, <3>1
      <4> QED
        BY <1>2, <2>2, <4>1
    <3>2. CASE j > m
      <4>1. j - m \in 1 .. i - 1 /\ j - m \in 1 .. n /\ m + (j - m) = j
        BY <1>1, <3>2
      <4> QED
        BY <1>3, <2>1, <4>1
    <3> QED
      BY <1>1, <3>1, <3>2
  <2> QED
    BY <2>3, <2>4 DEF Leads
<1> QED
  BY <1>4, <1>5, <1>6 DEF u

LEMMA LeadsAppend ==
    ASSUME NEW X, NEW s \in Seq(X), NEW x \in X, NEW A, NEW B
    PROVE  Leads(Append(s, x), A, B) <=> Leads(s, A, B) \/ (x \in A /\ ~ Leads(s, B, {}))
<1>1. Append(s, x) = s \o <<x>> /\ <<x>> \in Seq(X)
  OBVIOUS
<1>2. Leads(<<x>>, A, B) <=> x \in A
  <2>1. Len(<<x>>) = 1 /\ <<x>>[1] = x /\ 1 .. 1 = {1} /\ 1 .. 1 - 1 = {}
    OBVIOUS
  <2> QED
    BY <2>1 DEF Leads
<1> DEFINE u == <<x>>
<1>3. u \in Seq(X) /\ Append(s, x) = s \o u /\ (Leads(u, A, B) <=> x \in A)
  BY <1>1, <1>2
<1> HIDE DEF u
<1>4. Leads(s \o u, A, B) <=> Leads(s, A, B) \/ (Leads(u, A, B) /\ ~ Leads(s, B, {}))
  BY <1>3, LeadsConcat
<1>5. Append(s, x) = s \o u
  BY <1>3
<1> QED
  BY <1>3, <1>4, <1>5, Zenon

\* What is in a sequence leads it, when nothing is in its way.
LEMMA LeadsIsIn ==
    ASSUME NEW X, NEW s \in Seq(X), NEW x
    PROVE  x \in ToSet(s) <=> Leads(s, {x}, {})
<1>1. DOMAIN s = 1 .. Len(s)
  BY LenProperties
<1> QED
  BY <1>1 DEF Leads, ToSet

LEMMA KeepLeads ==
    ASSUME NEW X, NEW s \in Seq(X), NEW S
    PROVE  /\ Keep(s, S) \in Seq(X)
           /\ \A A, B : Leads(Keep(s, S), A, B) <=> Leads(s, A \cap S, B \cap S)
<1>1. PICK v \in [0 .. Len(s) -> Seq(X)] : KeepSteps(v, s, S)
  BY KeepIsLoop
<1>2. Len(s) \in Nat /\ Keep(s, S) = v[Len(s)] /\ v[Len(s)] \in Seq(X)
  BY <1>1 DEF KeepSteps
<1>3. ASSUME NEW A, NEW B PROVE Leads(Keep(s, S), A, B) <=> Leads(s, A \cap S, B \cap S)
  <2> DEFINE Same(k, P, Q) == Leads(v[k], P, Q) <=> LeadsUpTo(s, k, P \cap S, Q \cap S)
             Good == {k \in 0 .. Len(s) : Same(k, A, B) /\ Same(k, B, {})}
  <2>1. 0 \in Good
    <3>1. v[0] = <<>>
      BY <1>1 DEF KeepSteps
    <3>2. 0 \in 0 .. Len(s)
      BY <1>2
    <3>3. \A P, Q : Same(0, P, Q)
      BY <3>1, LeadsEmpty, LeadsAll
    <3> HIDE DEF Same
    <3> QED
      BY <3>2, <3>3
  <2>2. ASSUME NEW k \in 1 .. Len(s), k - 1 \in Good PROVE k \in Good
    <3>0. {} \cap S = {}
      OBVIOUS
    <3>1. k - 1 \in 0 .. Len(s) /\ k \in 0 .. Len(s) /\ v[k - 1] \in Seq(X) /\ s[k] \in X
      <4>1. k - 1 \in 0 .. Len(s) /\ k \in 0 .. Len(s)
        BY <1>2
      <4> QED
        BY <4>1, ElementOfSeq
    <3>2. v[k] = IF s[k] \in S THEN Append(v[k - 1], s[k]) ELSE v[k - 1]
      BY <1>1 DEF KeepSteps
    <3>3. ASSUME NEW P, NEW Q, Same(k - 1, P, Q), Same(k - 1, Q, {}) PROVE Same(k, P, Q)
      <4>1. LeadsUpTo(s, k, P \cap S, Q \cap S)
               <=> \/ LeadsUpTo(s, k - 1, P \cap S, Q \cap S)
                   \/ s[k] \in P \cap S /\ ~ LeadsUpTo(s, k - 1, Q \cap S, {})
        <5> DEFINE PS == P \cap S
                   QS == Q \cap S
        <5> HIDE DEF PS, QS
        <5>1. LeadsUpTo(s, k, PS, QS) <=> \/ LeadsUpTo(s, k - 1, PS, QS)
                                          \/ s[k] \in PS /\ ~ LeadsUpTo(s, k - 1, QS, {})
          BY LeadsStep
        <5> QED
          BY <5>1 DEF PS, QS
      <4>2. Leads(v[k - 1], Q, {}) <=> LeadsUpTo(s, k - 1, Q \cap S, {})
        BY <3>0, <3>3
      <4>3. CASE s[k] \in S
        <5>1. Leads(Append(v[k - 1], s[k]), P, Q)
                 <=> Leads(v[k - 1], P, Q) \/ (s[k] \in P /\ ~ Leads(v[k - 1], Q, {}))
          BY <3>1, LeadsAppend
        <5>2. v[k] = Append(v[k - 1], s[k])
          BY <3>2, <4>3
        <5>3. Leads(v[k], P, Q)
                 <=> Leads(v[k - 1], P, Q) \/ (s[k] \in P /\ ~ Leads(v[k - 1], Q, {}))
          BY <5>1, <5>2, Zenon
        <5> QED
          BY <3>3, <4>1, <4>2, <4>3, <5>3
      <4>4. CASE s[k] \notin S
        <5>1. v[k] = v[k - 1]
          BY <3>2, <4>4
        <5>2. s[k] \notin P \cap S
          BY <4>4
        <5> QED
          BY <3>3, <4>1, <5>1, <5>2
      <4> QED
        BY <4>3, <4>4
    <3>4. Same(k, A, B)
      BY <2>2, <3>3
    <3>5. Same(k - 1, {}, {}) /\ Same(k, B, {})
      <4>1. Same(k - 1, {}, {})
        BY DEF Leads, LeadsUpTo
      <4> QED
        BY <2>2, <3>3, <4>1
    <3> HIDE DEF Same
    <3> QED
      BY <3>1, <3>4, <3>5
  <2> HIDE DEF Good
  <2>3. Len(s) \in Good
    <3>1. Len(s) \in 0 .. Len(s)
      BY <1>2
    <3> QED
      BY <1>2, <2>1, <2>2, <3>1, InductionUpTo
  <2>4. Leads(v[Len(s)], A, B) <=> LeadsUpTo(s, Len(s), A \cap S, B \cap S)
    BY <2>3 DEF Good
  <2>5. Leads(s, A \cap S, B \cap S) <=> LeadsUpTo(s, Len(s), A \cap S, B \cap S)
    BY LeadsAll
  <2> QED
    BY <1>2, <2>4, <2>5
<1> QED
  BY <1>2, <1>3

LEMMA SameIsEqual ==
    ASSUME NEW e \in Event, NEW f \in Event PROVE SameEvent(e, f) <=> e = f
BY DEF SameEvent, Event

LEMMA InjectiveAppend ==
    ASSUME NEW X, NEW s \in Seq(X), NEW x \in X, IsInjective(s),
           \A i \in 1 .. Len(s) : s[i] # x
    PROVE  IsInjective(Append(s, x))
<1> DEFINE u == Append(s, x)
<1>1. DOMAIN s = 1 .. Len(s) /\ Len(s) \in Nat
  BY LenProperties
<1>2. DOMAIN u = 1 .. Len(s) + 1 /\ u[Len(s) + 1] = x /\ \A i \in 1 .. Len(s) : u[i] = s[i]
  BY <1>1
<1> HIDE DEF u
<1>3. ASSUME NEW a \in DOMAIN u, NEW b \in DOMAIN u, u[a] = u[b] PROVE a = b
  BY <1>1, <1>2, <1>3 DEF IsInjective
<1>4. IsInjective(u)
  BY <1>3 DEF IsInjective
<1> QED
  BY <1>4 DEF u

\* What CleanSecurityEventsFromDublicates leaves: no event twice, none lost, and
\* the first ones in their order.
LEMMA CleanLeads ==
    ASSUME NEW s \in Seq(Event)
    PROVE  Clean(s) \in Seq(Event) /\ IsInjective(Clean(s)) /\ Alike(Clean(s), s)
<1>1. PICK v \in [0 .. Len(s) -> Seq(Event)] : CleanSteps(v, s)
  BY CleanIsLoop
<1>2. Len(s) \in Nat /\ Clean(s) = v[Len(s)] /\ v[Len(s)] \in Seq(Event) /\ v[0] = <<>>
  BY <1>1 DEF CleanSteps
<1>3. ASSUME NEW k \in 1 .. Len(s)
      PROVE  /\ v[k - 1] \in Seq(Event) /\ s[k] \in Event
             /\ v[k] = IF s[k] \in ToSet(v[k - 1]) THEN v[k - 1] ELSE Append(v[k - 1], s[k])
  <2>1. k - 1 \in 0 .. Len(s) /\ v[k - 1] \in Seq(Event) /\ s[k] \in Event
    <3>1. k - 1 \in 0 .. Len(s)
      BY <1>2
    <3> QED
      BY <3>1, ElementOfSeq
  <2>2. DOMAIN v[k - 1] = 1 .. Len(v[k - 1]) /\ \A i \in 1 .. Len(v[k - 1]) : v[k - 1][i] \in Event
    BY <2>1, LenProperties, ElementOfSeq
  <2>3. (\E i \in 1 .. Len(v[k - 1]) : SameEvent(v[k - 1][i], s[k])) <=> s[k] \in ToSet(v[k - 1])
    BY <2>1, <2>2, SameIsEqual DEF ToSet
  <2> QED
    BY <1>1, <2>1, <2>3 DEF CleanSteps
<1>4. IsInjective(Clean(s))
  <2> DEFINE Good == {k \in 0 .. Len(s) : IsInjective(v[k])}
  <2>1. 0 \in Good
    <3>1. 0 \in 0 .. Len(s) /\ IsInjective(<<>>)
      BY <1>2 DEF IsInjective
    <3> QED
      BY <1>2, <3>1
  <2>2. ASSUME NEW k \in 1 .. Len(s), k - 1 \in Good PROVE k \in Good
    <3>1. k \in 0 .. Len(s) /\ IsInjective(v[k - 1])
      BY <1>2, <2>2
    <3>2. CASE s[k] \in ToSet(v[k - 1])
      BY <1>3, <3>1, <3>2
    <3>3. CASE s[k] \notin ToSet(v[k - 1])
      <4>1. \A i \in 1 .. Len(v[k - 1]) : v[k - 1][i] # s[k]
        <5>1. DOMAIN v[k - 1] = 1 .. Len(v[k - 1])
          BY <1>3, LenProperties
        <5> QED
          BY <3>3, <5>1 DEF ToSet
      <4>2. IsInjective(Append(v[k - 1], s[k]))
        BY <1>3, <3>1, <4>1, InjectiveAppend
      <4>3. v[k] = Append(v[k - 1], s[k])
        BY <1>3, <3>3
      <4>4. IsInjective(v[k])
        BY <4>2, <4>3, Zenon
      <4> QED
        BY <3>1, <4>4
    <3> QED
      BY <3>2, <3>3
  <2> HIDE DEF Good
  <2>3. Len(s) \in Good
    <3>1. Len(s) \in 0 .. Len(s)
      BY <1>2
    <3> QED
      BY <1>2, <2>1, <2>2, <3>1, InductionUpTo
  <2> QED
    BY <1>2, <2>3 DEF Good
<1>5. ASSUME NEW A, NEW B PROVE Leads(Clean(s), A, B) <=> Leads(s, A, B)
  <2> DEFINE Same(k, P, Q) == Leads(v[k], P, Q) <=> LeadsUpTo(s, k, P, Q)
             All(k) == \A P, Q : Same(k, P, Q)
             Good == {k \in 0 .. Len(s) : All(k)}
  <2>1. 0 \in Good
    <3>1. 0 \in 0 .. Len(s)
      BY <1>2
    <3>2. All(0)
      BY <1>2, LeadsEmpty, LeadsAll
    <3> HIDE DEF All
    <3> QED
      BY <3>1, <3>2
  <2>2. ASSUME NEW k \in 1 .. Len(s), k - 1 \in Good PROVE k \in Good
    <3>1. k \in 0 .. Len(s) /\ All(k - 1)
      BY <1>2, <2>2
    <3>2. ASSUME NEW P, NEW Q PROVE Same(k, P, Q)
      <4>1. LeadsUpTo(s, k, P, Q) <=> \/ LeadsUpTo(s, k - 1, P, Q)
                                      \/ s[k] \in P /\ ~ LeadsUpTo(s, k - 1, Q, {})
        BY LeadsStep
      <4>2. CASE s[k] \notin ToSet(v[k - 1])
        <5>1. Leads(Append(v[k - 1], s[k]), P, Q)
                 <=> Leads(v[k - 1], P, Q) \/ (s[k] \in P /\ ~ Leads(v[k - 1], Q, {}))
          BY <1>3, LeadsAppend
        <5>2. v[k] = Append(v[k - 1], s[k])
          BY <1>3, <4>2
        <5>3. Leads(v[k], P, Q)
                 <=> Leads(v[k - 1], P, Q) \/ (s[k] \in P /\ ~ Leads(v[k - 1], Q, {}))
          BY <5>1, <5>2, Zenon
        <5> QED
          BY <3>1, <4>1, <5>3
      <4>3. CASE s[k] \in ToSet(v[k - 1])
        <5>1. v[k] = v[k - 1]
          BY <1>3, <4>3
        <5>2. Leads(v[k - 1], {s[k]}, {})
          BY <1>3, <4>3, LeadsIsIn
        <5>3. LeadsUpTo(s, k - 1, {s[k]}, {})
          BY <3>1, <5>2
        <5>4. PICK i \in 1 .. k - 1 : s[i] = s[k]
          BY <5>3 DEF LeadsUpTo
        <5>5. ASSUME s[k] \in P, ~ LeadsUpTo(s, k - 1, Q, {}) PROVE LeadsUpTo(s, k - 1, P, Q)
          <6>1. \A j \in 1 .. k - 1 : s[j] \notin Q
            BY <5>5 DEF LeadsUpTo
          <6>2. \A j \in 1 .. i - 1 : j \in 1 .. k - 1
            BY <1>2, <5>4
          <6> QED
            BY <5>4, <5>5, <6>1, <6>2 DEF LeadsUpTo
        <5>6. Same(k - 1, P, Q)
          BY <3>1
        <5> QED
          BY <4>1, <5>1, <5>5, <5>6
      <4> QED
        BY <4>2, <4>3
    <3>3. All(k)
      BY <3>2
    <3> HIDE DEF All
    <3> QED
      BY <3>1, <3>3
  <2> HIDE DEF Good
  <2>3. Len(s) \in Good
    <3>1. Len(s) \in 0 .. Len(s)
      BY <1>2
    <3> QED
      BY <1>2, <2>1, <2>2, <3>1, InductionUpTo
  <2>4. Leads(v[Len(s)], A, B) <=> LeadsUpTo(s, Len(s), A, B)
    BY <2>3 DEF Good
  <2> QED
    BY <1>2, <2>4, LeadsAll
<1>6. Alike(Clean(s), s)
  BY <1>5 DEF Alike
<1> QED
  BY <1>2, <1>4, <1>6

LEMMA AlikeBegins ==
    ASSUME NEW X, NEW s \in Seq(X), NEW t \in Seq(X),
           IsInjective(s), IsInjective(t), Alike(s, t)
    PROVE  Len(s) <= Len(t) /\ \A i \in 1 .. Len(s) : s[i] = t[i]
<1> DEFINE Good == {k \in 0 .. Len(s) : k <= Len(t) /\ \A i \in 1 .. k : s[i] = t[i]}
<1>1. /\ Len(s) \in Nat /\ DOMAIN s = 1 .. Len(s)
      /\ Len(t) \in Nat /\ DOMAIN t = 1 .. Len(t)
  BY LenProperties
<1>2. 0 \in Good
  BY <1>1
<1>3. ASSUME NEW k \in 1 .. Len(s), k - 1 \in Good PROVE k \in Good
  <2>1. k - 1 <= Len(t) /\ \A i \in 1 .. k - 1 : s[i] = t[i]
    BY <1>3
  <2> DEFINE B == {x \in X : \A i \in 1 .. k - 1 : s[i] # x}
  <2>2. Leads(s, {s[k]}, B)
    <3>1. \A j \in 1 .. k - 1 : s[j] \notin B
      OBVIOUS
    <3> QED
      BY <3>1 DEF Leads
  <2>3. PICK i \in 1 .. Len(t) : t[i] = s[k] /\ \A j \in 1 .. i - 1 : t[j] \notin B
    <3> HIDE DEF B
    <3>1. Leads(t, {s[k]}, B)
      BY <2>2 DEF Alike
    <3> QED
      BY <3>1 DEF Leads
  <2>4. i >= k
    <3> SUFFICES ASSUME i < k PROVE FALSE
      BY <1>1
    <3>1. i \in 1 .. k - 1 /\ i \in 1 .. Len(s) /\ i # k
      BY <1>1
    <3>2. s[i] = s[k]
      BY <2>1, <2>3, <3>1
    <3> QED
      BY <1>1, <3>1, <3>2 DEF IsInjective
  <2>5. i = k
    <3> SUFFICES ASSUME i > k PROVE FALSE
      BY <1>1, <2>4
    <3>1. k \in 1 .. i - 1 /\ k \in 1 .. Len(t)
      BY <1>1
    <3>2. t[k] \notin B /\ t[k] \in X
      BY <2>3, <3>1, ElementOfSeq
    <3>3. PICK m \in 1 .. k - 1 : s[m] = t[k]
      BY <3>2
    <3>4. t[m] = t[k] /\ m \in 1 .. Len(t) /\ m # k
      BY <1>1, <2>1, <3>1, <3>3
    <3> QED
      BY <1>1, <3>1, <3>4 DEF IsInjective
  <2>6. k <= Len(t) /\ \A m \in 1 .. k : s[m] = t[m]
    <3>1. ASSUME NEW m \in 1 .. k PROVE s[m] = t[m]
      <4>1. m = k \/ m \in 1 .. k - 1
        BY <1>1
      <4> QED
        BY <2>1, <2>3, <2>5, <4>1
    <3> QED
      BY <1>1, <2>3, <2>5, <3>1
  <2>7. k \in 0 .. Len(s)
    BY <1>1
  <2> QED
    BY <2>6, <2>7
<1>4. Len(s) \in Good
  <2>1. Len(s) \in 0 .. Len(s)
    BY <1>1
  <2> HIDE DEF Good
  <2> QED
    BY <1>1, <1>2, <1>3, <2>1, InductionUpTo
<1> QED
  BY <1>4

LEMMA AlikeIsEqual ==
    ASSUME NEW X, NEW s \in Seq(X), NEW t \in Seq(X),
           IsInjective(s), IsInjective(t), Alike(s, t)
    PROVE  s = t
<1>1. Len(s) <= Len(t) /\ \A i \in 1 .. Len(s) : s[i] = t[i]
  BY AlikeBegins
<1>2. Alike(t, s)
  BY DEF Alike
<1>3. Len(t) <= Len(s)
  BY <1>2, AlikeBegins
<1>4. Len(s) = Len(t)
  BY <1>1, <1>3, LenProperties
<1> QED
  BY <1>1, <1>4, SeqEqual

\* After the removal of duplicates only what comes first matters.
LEMMA CleanOfAlike ==
    ASSUME NEW s \in Seq(Event), NEW t \in Seq(Event), Alike(s, t) PROVE Clean(s) = Clean(t)
<1>1. /\ Clean(s) \in Seq(Event) /\ IsInjective(Clean(s)) /\ Alike(Clean(s), s)
      /\ Clean(t) \in Seq(Event) /\ IsInjective(Clean(t)) /\ Alike(Clean(t), t)
  BY CleanLeads
<1>2. Alike(Clean(s), Clean(t))
  BY <1>1 DEF Alike
<1> QED
  BY <1>1, <1>2, AlikeIsEqual

LEMMA AlikeConcat ==
    ASSUME NEW X, NEW s \in Seq(X), NEW t \in Seq(X), NEW u \in Seq(X), NEW w \in Seq(X),
           Alike(s, t), Alike(u, w)
    PROVE  Alike(s \o u, t \o w)
<1> SUFFICES ASSUME NEW A, NEW B PROVE Leads(s \o u, A, B) <=> Leads(t \o w, A, B)
  BY DEF Alike
<1>1. Leads(s \o u, A, B) <=> Leads(s, A, B) \/ (Leads(u, A, B) /\ ~ Leads(s, B, {}))
  BY LeadsConcat
<1>2. Leads(t \o w, A, B) <=> Leads(t, A, B) \/ (Leads(w, A, B) /\ ~ Leads(t, B, {}))
  BY LeadsConcat
<1> QED
  BY <1>1, <1>2 DEF Alike

\* What leads a sequence of sequences, taken together.
LEMMA FlattenLeads ==
    ASSUME NEW X, NEW ss \in Seq(Seq(X))
    PROVE  /\ FlattenSeq(ss) \in Seq(X)
           /\ \A A, B : Leads(FlattenSeq(ss), A, B)
                           <=> Leads(ss, {s \in Seq(X) : Leads(s, A, B)},
                                         {s \in Seq(X) : Leads(s, B, {})})
<1>1. PICK v \in [0 .. Len(ss) -> Seq(X)] : FlattenSteps(v, ss)
  BY FlattenIsLoop
<1>2. /\ Len(ss) \in Nat /\ FlattenSeq(ss) = v[Len(ss)] /\ v[Len(ss)] \in Seq(X) /\ v[0] = <<>>
      /\ \A k \in 1 .. Len(ss) : v[k] = v[k - 1] \o ss[k]
  <2>1. Len(ss) \in Nat /\ Len(ss) \in 0 .. Len(ss)
    BY LenProperties
  <2>2. v[Len(ss)] \in Seq(X)
    BY <2>1
  <2> QED
    BY <1>1, <2>1, <2>2, Zenon DEF FlattenSteps
<1> DEFINE L(P, Q) == {s \in Seq(X) : Leads(s, P, Q)}
<1>3. ASSUME NEW A, NEW B PROVE Leads(FlattenSeq(ss), A, B) <=> Leads(ss, L(A, B), L(B, {}))
  <2> DEFINE Same(k, P, Q) == Leads(v[k], P, Q) <=> LeadsUpTo(ss, k, L(P, Q), L(Q, {}))
             Good == {k \in 0 .. Len(ss) : Same(k, A, B) /\ Same(k, B, {})}
  <2>0. L({}, {}) = {}
    BY DEF Leads
  <2>1. 0 \in Good
    <3>1. 0 \in 0 .. Len(ss)
      BY <1>2
    <3>2. \A P, Q : Same(0, P, Q)
      <4> HIDE DEF L
      <4> QED
        BY <1>2, LeadsEmpty, LeadsAll
    <3> HIDE DEF Same
    <3> QED
      BY <3>1, <3>2
  <2>2. ASSUME NEW k \in 1 .. Len(ss), k - 1 \in Good PROVE k \in Good
    <3>1. k - 1 \in 0 .. Len(ss) /\ k \in 0 .. Len(ss) /\ v[k - 1] \in Seq(X) /\ ss[k] \in Seq(X)
      <4>1. k - 1 \in 0 .. Len(ss) /\ k \in 0 .. Len(ss)
        BY <1>2
      <4> QED
        BY <4>1, ElementOfSeq
    <3>2. ASSUME NEW P, NEW Q, Same(k - 1, P, Q), Same(k - 1, Q, {}) PROVE Same(k, P, Q)
      <4>1. Leads(v[k - 1] \o ss[k], P, Q)
               <=> Leads(v[k - 1], P, Q) \/ (Leads(ss[k], P, Q) /\ ~ Leads(v[k - 1], Q, {}))
        BY <3>1, LeadsConcat
      <4>2. Leads(v[k], P, Q)
               <=> Leads(v[k - 1], P, Q) \/ (Leads(ss[k], P, Q) /\ ~ Leads(v[k - 1], Q, {}))
        <5>1. v[k] = v[k - 1] \o ss[k]
          BY <1>2
        <5> QED
          BY <4>1, <5>1, Zenon
      <4>3. Leads(ss[k], P, Q) <=> ss[k] \in L(P, Q)
        BY <3>1
      <4>4. Leads(v[k - 1], P, Q) <=> LeadsUpTo(ss, k - 1, L(P, Q), L(Q, {}))
        BY <3>2
      <4>5. Leads(v[k - 1], Q, {}) <=> LeadsUpTo(ss, k - 1, L(Q, {}), {})
        BY <2>0, <3>2, Zenon
      <4> HIDE DEF L
      <4>6. LeadsUpTo(ss, k, L(P, Q), L(Q, {}))
               <=> \/ LeadsUpTo(ss, k - 1, L(P, Q), L(Q, {}))
                   \/ ss[k] \in L(P, Q) /\ ~ LeadsUpTo(ss, k - 1, L(Q, {}), {})
        BY LeadsStep
      <4> QED
        BY <4>2, <4>3, <4>4, <4>5, <4>6
    <3>3. Same(k - 1, {}, {})
      BY DEF Leads, LeadsUpTo
    <3> HIDE DEF Same
    <3>4. Same(k, A, B) /\ Same(k, B, {})
      BY <2>2, <3>2, <3>3
    <3> QED
      BY <3>1, <3>4
  <2>3. Len(ss) \in Good
    <3>1. Len(ss) \in 0 .. Len(ss)
      BY <1>2
    <3> HIDE DEF Good
    <3> QED
      BY <1>2, <2>1, <2>2, <3>1, InductionUpTo
  <2>4. Leads(v[Len(ss)], A, B) <=> LeadsUpTo(ss, Len(ss), L(A, B), L(B, {}))
    BY <2>3
  <2> HIDE DEF L
  <2> QED
    BY <1>2, <2>4, LeadsAll
<1> QED
  BY <1>2, <1>3

LEMMA FlattenAppend ==
    ASSUME NEW X, NEW ss \in Seq(Seq(X)), NEW x \in Seq(X)
    PROVE  Alike(FlattenSeq(Append(ss, x)), FlattenSeq(ss) \o x)
<1> SUFFICES ASSUME NEW A, NEW B
             PROVE  Leads(FlattenSeq(Append(ss, x)), A, B) <=> Leads(FlattenSeq(ss) \o x, A, B)
  BY DEF Alike
<1> DEFINE L(P, Q) == {s \in Seq(X) : Leads(s, P, Q)}
           LA == L(A, B)
           LB == L(B, {})
           tt == Append(ss, x)
<1>1. tt \in Seq(Seq(X))
  OBVIOUS
<1>2. Leads(FlattenSeq(ss), A, B) <=> Leads(ss, LA, LB)
  BY FlattenLeads
<1>3. Leads(FlattenSeq(ss), B, {}) <=> Leads(ss, LB, {})
  <2>1. L({}, {}) = {}
    BY DEF Leads
  <2>2. Leads(FlattenSeq(ss), B, {}) <=> Leads(ss, L(B, {}), L({}, {}))
    BY FlattenLeads
  <2> QED
    BY <2>1, <2>2, Zenon
<1>4. Leads(FlattenSeq(tt), A, B) <=> Leads(tt, LA, LB)
  <2> HIDE DEF tt
  <2> QED
    BY <1>1, FlattenLeads
<1>5. (Leads(x, A, B) <=> x \in LA) /\ (Leads(x, B, {}) <=> x \in LB)
  OBVIOUS
<1> HIDE DEF LA, LB, L
<1>6. Leads(tt, LA, LB) <=> Leads(ss, LA, LB) \/ (x \in LA /\ ~ Leads(ss, LB, {}))
  BY LeadsAppend
<1> HIDE DEF tt
<1>7. FlattenSeq(ss) \in Seq(X)
  BY FlattenLeads
<1>8. Leads(FlattenSeq(ss) \o x, A, B)
         <=> Leads(FlattenSeq(ss), A, B) \/ (Leads(x, A, B) /\ ~ Leads(FlattenSeq(ss), B, {}))
  BY <1>7, LeadsConcat
<1>9. Leads(FlattenSeq(tt), A, B) <=> Leads(FlattenSeq(ss) \o x, A, B)
  BY <1>2, <1>3, <1>4, <1>5, <1>6, <1>8
<1> QED
  BY <1>9 DEF tt

-----------------------------------------------------------------------------
(* Lines and rules.                                                        *)

IsRule(r) == /\ r.paths \in Seq(SUBSET File)
             /\ r.events \in Seq(ToSet(r.events))
             /\ \A e \in ToSet(r.events) : e.sid \in Nat

LEMMA ToSetIs ==
    ASSUME NEW X, NEW s \in Seq(X)
    PROVE  /\ ToSet(s) = {s[i] : i \in 1 .. Len(s)} /\ ToSet(s) \subseteq X
           /\ s \in Seq(ToSet(s))
<1>1. Len(s) \in Nat /\ s \in [1 .. Len(s) -> X] /\ DOMAIN s = 1 .. Len(s)
  BY LenProperties
<1>2. s \in [1 .. Len(s) -> ToSet(s)]
  BY <1>1 DEF ToSet
<1>3. s \in Seq(ToSet(s))
  BY <1>1, <1>2, SeqDef
<1> QED
  BY <1>1, <1>3 DEF ToSet

LEMMA EmptyIs ==
    ASSUME NEW X, NEW s \in Seq(X) PROVE s = <<>> <=> ToSet(s) = {}
<1>1. Len(s) \in Nat /\ DOMAIN s = 1 .. Len(s) /\ (s # <<>> => Len(s) # 0)
  BY LenProperties, EmptySeq
<1>2. s # <<>> => 1 \in DOMAIN s
  BY <1>1
<1>3. s = <<>> => DOMAIN s = {}
  OBVIOUS
<1> QED
  BY <1>2, <1>3 DEF ToSet

\* What Keep keeps.
LEMMA KeepIs ==
    ASSUME NEW X, NEW s \in Seq(X), NEW S
    PROVE  /\ Keep(s, S) \in Seq(X)
           /\ ToSet(Keep(s, S)) = ToSet(s) \cap S
<1>1. Keep(s, S) \in Seq(X)
  BY KeepLeads
<1>2. ASSUME NEW x PROVE x \in ToSet(Keep(s, S)) <=> x \in ToSet(s) \cap S
  <2>1. x \in ToSet(Keep(s, S)) <=> Leads(Keep(s, S), {x}, {})
    BY <1>1, LeadsIsIn
  <2>2. Leads(Keep(s, S), {x}, {}) <=> Leads(s, {x} \cap S, {} \cap S)
    BY KeepLeads
  <2>3. {} \cap S = {}
    OBVIOUS
  <2>4. CASE x \in S
    <3>1. {x} \cap S = {x}
      BY <2>4
    <3>2. Leads(Keep(s, S), {x}, {}) <=> Leads(s, {x}, {})
      BY <2>2, <2>3, <3>1, Zenon
    <3>3. Leads(s, {x}, {}) <=> x \in ToSet(s)
      BY LeadsIsIn
    <3> QED
      BY <2>1, <2>4, <3>2, <3>3
  <2>5. CASE x \notin S
    <3>1. {x} \cap S = {}
      BY <2>5
    <3>2. ~ Leads(s, {x} \cap S, {} \cap S)
      BY <3>1 DEF Leads
    <3> QED
      BY <2>1, <2>2, <2>5, <3>2
  <2> QED
    BY <2>4, <2>5
<1> QED
  BY <1>1, <1>2

\* The events of a line by one rule.
LEMMA ParseLineIs ==
    ASSUME NEW r, IsRule(r), NEW l \in Line
    PROVE  /\ ParseLine(r, l) \in Seq(Event)
           /\ ToSet(ParseLine(r, l)) =
                 {EventOf(f, l) : f \in {x \in ToSet(r.events) : Gives(x, l)}}
<1> DEFINE E == ToSet(r.events)
           Given == {f \in E : Gives(f, l)}
           Giving == Keep(r.events, Given)
           P == [i \in 1 .. Len(Giving) |-> EventOf(Giving[i], l)]
<1>1. r.events \in Seq(E) /\ \A e \in E : e.sid \in Nat
  BY DEF IsRule
<1>2. ParseLine(r, l) = P
  BY DEF ParseLine
<1> HIDE DEF E, Giving
<1>3. Giving \in Seq(E) /\ ToSet(Giving) = Given
  <2>1. Giving \in Seq(E) /\ ToSet(Giving) = E \cap Given
    <3> HIDE DEF Given
    <3> QED
      BY <1>1, KeepIs DEF Giving, E
  <2> QED
    BY <2>1
<1>4. Len(Giving) \in Nat /\ DOMAIN Giving = 1 .. Len(Giving)
      /\ \A i \in 1 .. Len(Giving) : Giving[i] \in E
  BY <1>3, LenProperties, ElementOfSeq
<1>5. \A f \in E : EventOf(f, l) \in Event
  BY <1>1 DEF EventOf, Event
<1>6. P \in [1 .. Len(Giving) -> Event]
  BY <1>4, <1>5
<1>7. P \in Seq(Event)
  BY <1>4, <1>6, SeqDef
<1>8. ToSet(P) = {EventOf(f, l) : f \in Given}
  <2>1. ToSet(P) = {EventOf(Giving[i], l) : i \in 1 .. Len(Giving)}
    BY DEF ToSet
  <2>2. Given = {Giving[i] : i \in 1 .. Len(Giving)}
    BY <1>3, <1>4 DEF ToSet
  <2> QED
    BY <2>1, <2>2
<1> QED
  BY <1>2, <1>7, <1>8 DEF E

\* The events of a line by rules: what leads them is told by what leads the rules.
LEMMA ParsedLeads ==
    ASSUME NEW R, \A r \in R : IsRule(r), NEW rs \in Seq(R), NEW l \in Line
    PROVE  /\ Parsed(rs, l) \in Seq(Event)
           /\ \A A, B : Leads(Parsed(rs, l), A, B)
                           <=> Leads(rs, {r \in R : Leads(ParseLine(r, l), A, B)},
                                         {r \in R : Leads(ParseLine(r, l), B, {})})
<1> DEFINE ss == [i \in 1 .. Len(rs) |-> ParseLine(rs[i], l)]
<1>1. Len(rs) \in Nat /\ (\A i \in 1 .. Len(rs) : rs[i] \in R)
      /\ (\A i \in 1 .. Len(rs) : \A j \in 1 .. i - 1 : j \in 1 .. Len(rs))
  BY LenProperties, ElementOfSeq
<1>2. \A i \in 1 .. Len(rs) : ParseLine(rs[i], l) \in Seq(Event)
  BY <1>1, ParseLineIs
<1>3. ss \in Seq(Seq(Event)) /\ Len(ss) = Len(rs)
  <2>1. ss \in [1 .. Len(rs) -> Seq(Event)]
    BY <1>2
  <2>2. ss \in Seq(Seq(Event))
    BY <1>1, <2>1, SeqDef
  <2>3. DOMAIN ss = 1 .. Len(rs)
    OBVIOUS
  <2> HIDE DEF ss
  <2>4. DOMAIN ss = 1 .. Len(ss) /\ Len(ss) \in Nat
    BY <2>2, LenProperties
  <2> QED
    BY <1>1, <2>2, <2>3, <2>4
<1>4. ASSUME NEW A, NEW B
      PROVE  Leads(FlattenSeq(ss), A, B)
                <=> Leads(rs, {r \in R : Leads(ParseLine(r, l), A, B)},
                              {r \in R : Leads(ParseLine(r, l), B, {})})
  <2> DEFINE LA == {s \in Seq(Event) : Leads(s, A, B)}
             LB == {s \in Seq(Event) : Leads(s, B, {})}
             RA == {r \in R : Leads(ParseLine(r, l), A, B)}
             RB == {r \in R : Leads(ParseLine(r, l), B, {})}
  <2>1. \A i \in 1 .. Len(rs) : (ss[i] \in LA <=> rs[i] \in RA) /\ (ss[i] \in LB <=> rs[i] \in RB)
    BY <1>1, <1>2
  <2>2. Leads(FlattenSeq(ss), A, B) <=> Leads(ss, LA, LB)
    <3> HIDE DEF ss
    <3> QED
      BY <1>3, FlattenLeads
  <2> HIDE DEF ss, LA, LB, RA, RB
  <2>3. Leads(ss, LA, LB) <=> Leads(rs, RA, RB)
    BY <1>1, <1>3, <2>1 DEF Leads
  <2> QED
    BY <2>2, <2>3 DEF RA, RB
<1>5. FlattenSeq(ss) \in Seq(Event)
  <2> HIDE DEF ss
  <2> QED
    BY <1>3, FlattenLeads
<1> QED
  BY <1>4, <1>5 DEF Parsed

LEMMA ParsedAlike ==
    ASSUME NEW R, \A r \in R : IsRule(r), NEW rs \in Seq(R), NEW ts \in Seq(R),
           Alike(rs, ts), NEW l \in Line
    PROVE  Alike(Parsed(rs, l), Parsed(ts, l))
<1> SUFFICES ASSUME NEW A, NEW B PROVE Leads(Parsed(rs, l), A, B) <=> Leads(Parsed(ts, l), A, B)
  BY DEF Alike
<1> DEFINE RA == {r \in R : Leads(ParseLine(r, l), A, B)}
           RB == {r \in R : Leads(ParseLine(r, l), B, {})}
<1>1. Leads(Parsed(rs, l), A, B) <=> Leads(rs, RA, RB)
  BY ParsedLeads
<1>2. Leads(Parsed(ts, l), A, B) <=> Leads(ts, RA, RB)
  BY ParsedLeads
<1> HIDE DEF RA, RB
<1> QED
  BY <1>1, <1>2 DEF Alike

-----------------------------------------------------------------------------
(* Rules and files.                                                        *)

\* The pairs of a rule in A and a path by which it gets the file.
Hits(R, f, A) == {p \in R \X SUBSET File : p[1] \in A /\ f \in p[2] \ p[1].excluded}

\* Applies, of any file.
AppliesTo(r, f) == f \notin r.excluded /\ \E i \in 1 .. Len(r.paths) : f \in r.paths[i]

LEMMA NoHits == \A R, f : Hits(R, f, {}) = {}
BY DEF Hits

\* A rule applies to a file when some path of it hits the file, and the first
\* that does comes before all others.
LEMMA PathsLead ==
    ASSUME NEW R, NEW r \in R, IsRule(r), NEW f \in File, NEW A, NEW B
    PROVE  /\ PathsOf(r) \in Seq(R \X SUBSET File)
           /\ Leads(PathsOf(r), Hits(R, f, A), Hits(R, f, B)) <=> r \in A /\ AppliesTo(r, f)
<1> DEFINE n == Len(r.paths)
           ps == PathsOf(r)
<1>1. n \in Nat /\ \A i \in 1 .. n : r.paths[i] \in SUBSET File
  BY LenProperties, ElementOfSeq DEF IsRule
<1>2. ps \in [1 .. n -> R \X SUBSET File] /\ \A i \in 1 .. n : ps[i] = <<r, r.paths[i]>>
  BY <1>1 DEF PathsOf
<1> HIDE DEF ps, n
<1>3. ps \in Seq(R \X SUBSET File) /\ Len(ps) = n
  <2>1. ps \in Seq(R \X SUBSET File)
    BY <1>1, <1>2, SeqDef
  <2>2. DOMAIN ps = 1 .. n /\ DOMAIN ps = 1 .. Len(ps) /\ Len(ps) \in Nat
    BY <1>2, <2>1, LenProperties
  <2> QED
    BY <1>1, <2>1, <2>2
<1>4. ASSUME NEW i \in 1 .. n, NEW C
      PROVE  ps[i] \in Hits(R, f, C) <=> r \in C /\ f \in r.paths[i] /\ f \notin r.excluded
  <2>1. ps[i] = <<r, r.paths[i]>> /\ ps[i] \in R \X SUBSET File
    BY <1>2
  <2> QED
    BY <2>1 DEF Hits
<1>5. ASSUME Leads(ps, Hits(R, f, A), Hits(R, f, B)) PROVE r \in A /\ AppliesTo(r, f)
  <2>1. PICK i \in 1 .. n : ps[i] \in Hits(R, f, A)
    BY <1>3, <1>5 DEF Leads
  <2> QED
    BY <1>4, <2>1 DEF AppliesTo, n
<1>6. ASSUME r \in A, AppliesTo(r, f) PROVE Leads(ps, Hits(R, f, A), Hits(R, f, B))
  <2> DEFINE Hit == {i \in 1 .. n : f \in r.paths[i]}
  <2>1. Hit \in SUBSET Nat /\ Hit # {}
    BY <1>1, <1>6 DEF AppliesTo, n
  <2>2. PICK i \in Hit : \A j \in Hit : i <= j
    <3> HIDE DEF Hit
    <3> QED
      BY <2>1, Smallest
  <2>3. i \in 1 .. n /\ ps[i] \in Hits(R, f, A)
    BY <1>4, <1>6, <2>2 DEF AppliesTo
  <2>4. ASSUME NEW j \in 1 .. i - 1 PROVE ps[j] \notin Hits(R, f, B)
    <3>1. j \in 1 .. n /\ ~ (i <= j)
      BY <1>1, <2>3
    <3>2. f \notin r.paths[j]
      BY <2>2, <3>1
    <3> QED
      BY <1>4, <3>1, <3>2
  <2> QED
    BY <1>3, <2>3, <2>4 DEF Leads
<1> QED
  BY <1>3, <1>5, <1>6 DEF ps

\* After all pairs each file has the rules that apply to it; the first time that
\* each came is in the order of the rules.
LEMMA AllPathsLead ==
    ASSUME NEW R, \A r \in R : IsRule(r), NEW rs \in Seq(R), NEW f \in File
    PROVE  /\ AllPaths(rs) \in Seq(R \X SUBSET File)
           /\ \A A, B : Leads(AllPaths(rs), Hits(R, f, A), Hits(R, f, B))
                           <=> Leads(Keep(rs, {r \in R : AppliesTo(r, f)}), A, B)
<1> DEFINE P == R \X SUBSET File
           S == {r \in R : AppliesTo(r, f)}
           ss == [i \in 1 .. Len(rs) |-> PathsOf(rs[i])]
<1>1. /\ Len(rs) \in Nat /\ \A i \in 1 .. Len(rs) : rs[i] \in R
      /\ \A i \in 1 .. Len(rs) : \A j \in 1 .. i - 1 : j \in 1 .. Len(rs)
  BY LenProperties, ElementOfSeq
<1>2. \A i \in 1 .. Len(rs) : PathsOf(rs[i]) \in Seq(P)
  BY <1>1, PathsLead
<1> HIDE DEF P
<1>3. ss \in Seq(Seq(P)) /\ Len(ss) = Len(rs)
  <2>1. ss \in [1 .. Len(rs) -> Seq(P)]
    BY <1>2
  <2>2. ss \in Seq(Seq(P))
    BY <1>1, <2>1, SeqDef
  <2>3. DOMAIN ss = 1 .. Len(rs)
    OBVIOUS
  <2> HIDE DEF ss
  <2>4. DOMAIN ss = 1 .. Len(ss) /\ Len(ss) \in Nat
    BY <2>2, LenProperties
  <2> QED
    BY <1>1, <2>2, <2>3, <2>4
<1>4. FlattenSeq(ss) \in Seq(P)
  <2> HIDE DEF ss
  <2> QED
    BY <1>3, FlattenLeads
<1>5. ASSUME NEW A, NEW B
      PROVE  Leads(FlattenSeq(ss), Hits(R, f, A), Hits(R, f, B)) <=> Leads(Keep(rs, S), A, B)
  <2> DEFINE HA == Hits(R, f, A)
             HB == Hits(R, f, B)
             LA == {s \in Seq(P) : Leads(s, HA, HB)}
             LB == {s \in Seq(P) : Leads(s, HB, {})}
             AS == A \cap S
             BS == B \cap S
  <2>1. Leads(FlattenSeq(ss), HA, HB) <=> Leads(ss, LA, LB)
    <3> HIDE DEF ss, HA, HB
    <3> QED
      BY <1>3, FlattenLeads
  <2>2. ASSUME NEW i \in 1 .. Len(rs)
        PROVE  (ss[i] \in LA <=> rs[i] \in AS) /\ (ss[i] \in LB <=> rs[i] \in BS)
    <3>1. rs[i] \in R /\ IsRule(rs[i]) /\ ss[i] = PathsOf(rs[i]) /\ PathsOf(rs[i]) \in Seq(P)
      BY <1>1, <1>2
    <3>2. Leads(PathsOf(rs[i]), HA, HB) <=> rs[i] \in A /\ AppliesTo(rs[i], f)
      BY <3>1, PathsLead
    <3>3. Leads(PathsOf(rs[i]), HB, {}) <=> rs[i] \in B /\ AppliesTo(rs[i], f)
      <4>1. Leads(PathsOf(rs[i]), HB, Hits(R, f, {})) <=> rs[i] \in B /\ AppliesTo(rs[i], f)
        BY <3>1, PathsLead
      <4>2. Hits(R, f, {}) = {}
        BY NoHits
      <4> QED
        BY <4>1, <4>2, Zenon
    <3> QED
      BY <3>1, <3>2, <3>3
  <2>3. Leads(Keep(rs, S), A, B) <=> Leads(rs, AS, BS)
    <3> HIDE DEF S
    <3> QED
      BY KeepLeads
  <2> HIDE DEF ss, LA, LB, AS, BS
  <2>4. Leads(ss, LA, LB) <=> Leads(rs, AS, BS)
    BY <1>1, <1>3, <2>2 DEF Leads
  <2> QED
    BY <2>1, <2>3, <2>4
<1> QED
  BY <1>4, <1>5 DEF AllPaths, P

-----------------------------------------------------------------------------
(* What a rule file becomes.                                               *)

Files == ToSet(config.files)

LEMMA FilesAre ==
    ASSUME config \in Configs
    PROVE  /\ config.files \in Seq(Files)
           /\ \A f \in Files : /\ f.paths \in Seq(SUBSET File)
                               /\ f.events \in Seq(ToSet(f.events))
                               /\ \A e \in ToSet(f.events) : e.sid \in Nat
BY StartupAssumption DEF Files

LEMMA EventsOfIs ==
    ASSUME config \in Configs, NEW f \in Files
    PROVE  /\ EventsOf(f) \in Seq(ToSet(EventsOf(f)))
           /\ ToSet(EventsOf(f)) = IF Enabled(f)
                                   THEN {Compiled(e) : e \in {x \in ToSet(f.events) : x.regexOk}}
                                   ELSE {}
<1> DEFINE E == ToSet(f.events)
           Fine == {x \in E : x.regexOk}
           Good == Keep(f.events, Fine)
           C == {Compiled(e) : e \in E}
           P == [i \in 1 .. Len(Good) |-> Compiled(Good[i])]
<1>1. f.events \in Seq(E)
  BY FilesAre
<1> HIDE DEF E
<1>2. Good \in Seq(E) /\ ToSet(Good) = Fine
  <2>1. Good \in Seq(E) /\ ToSet(Good) = E \cap Fine
    <3> HIDE DEF Fine
    <3> QED
      BY <1>1, KeepIs DEF E
  <2> QED
    BY <2>1
<1>3. CASE Enabled(f)
  <2>1. EventsOf(f) = P
    BY <1>3 DEF EventsOf, E
  <2> HIDE DEF Good
  <2>2. Len(Good) \in Nat /\ DOMAIN Good = 1 .. Len(Good)
        /\ \A i \in 1 .. Len(Good) : Good[i] \in E
    BY <1>2, LenProperties, ElementOfSeq
  <2>3. P \in [1 .. Len(Good) -> C]
    BY <2>2
  <2>4. P \in Seq(C)
    BY <2>2, <2>3, SeqDef
  <2>5. ToSet(P) = {Compiled(e) : e \in Fine}
    <3>1. ToSet(P) = {Compiled(Good[i]) : i \in 1 .. Len(Good)}
      BY DEF ToSet
    <3>2. Fine = {Good[i] : i \in 1 .. Len(Good)}
      BY <1>2, <2>2 DEF ToSet
    <3> QED
      BY <3>1, <3>2
  <2>6. P \in Seq(ToSet(P))
    <3> HIDE DEF P
    <3> QED
      BY <2>4, ToSetIs
  <2> QED
    BY <1>3, <2>1, <2>5, <2>6 DEF E
<1>4. CASE ~ Enabled(f)
  <2>1. EventsOf(f) = <<>>
    BY <1>4 DEF EventsOf
  <2>2. ToSet(<<>>) = {} /\ <<>> \in Seq({})
    BY DEF ToSet
  <2> QED
    BY <1>4, <2>1, <2>2
<1> QED
  BY <1>3, <1>4

LEMMA RuleOfIs ==
    ASSUME config \in Configs, NEW f \in Files PROVE IsRule(RuleOf(f))
<1> DEFINE r == RuleOf(f)
<1>1. r.paths = f.paths /\ r.events = EventsOf(f)
  BY DEF RuleOf
<1> HIDE DEF r
<1>2. r.events \in Seq(ToSet(r.events))
  BY <1>1, EventsOfIs
<1>3. \A e \in ToSet(EventsOf(f)) : e.sid \in Nat
  BY EventsOfIs, FilesAre DEF Compiled
<1>4. r.paths \in Seq(SUBSET File)
  BY <1>1, FilesAre
<1> QED
  BY <1>1, <1>2, <1>3, <1>4 DEF IsRule, r

\* A file is loaded when it counts: it has an event when it is enabled and one of
\* its expressions compiles.
LEMMA UsableCounts ==
    ASSUME config \in Configs, NEW f \in Files PROVE Usable(f) <=> Counts(f)
<1>1. EventsOf(f) # <<>> <=> ToSet(EventsOf(f)) # {}
  <2> DEFINE s == EventsOf(f)
  <2>1. s \in Seq(ToSet(s))
    BY EventsOfIs
  <2> HIDE DEF s
  <2>2. s # <<>> <=> ToSet(s) # {}
    BY <2>1, EmptyIs
  <2> QED
    BY <2>2 DEF s
<1>2. ToSet(EventsOf(f)) # {}
         <=> Enabled(f) /\ \E i \in DOMAIN f.events : f.events[i].regexOk
  <2>1. ToSet(f.events) = {f.events[i] : i \in DOMAIN f.events}
    BY DEF ToSet
  <2> DEFINE T == ToSet(EventsOf(f))
             E == ToSet(f.events)
  <2>2. T = IF Enabled(f) THEN {Compiled(e) : e \in {x \in E : x.regexOk}} ELSE {}
    BY EventsOfIs
  <2> HIDE DEF T, E
  <2>3. T # {} <=> Enabled(f) /\ \E e \in E : e.regexOk
    BY <2>2
  <2>4. (\E e \in E : e.regexOk) <=> \E i \in DOMAIN f.events : f.events[i].regexOk
    BY <2>1 DEF E
  <2> QED
    BY <2>3, <2>4 DEF T
<1> QED
  BY <1>1, <1>2 DEF Usable, Counts, Enabled

-----------------------------------------------------------------------------
(* LoadConfig.                                                             *)

Entry(f) == [source |-> f.source, rule |-> RuleOf(f)]
Entries == {Entry(f) : f \in {x \in Files : Usable(x)}}
Done == Len(config.files) - Len(ruleFiles)
MainRead == config.mainOk /\ config.dirOk

\* The deadtime of the last readable one of the first d files is wrong.
BadDeadtime(d) ==
    \E i \in 1 .. d : /\ config.files[i].yamlOk /\ ~ config.files[i].deadtimeOk
                      /\ \A j \in i + 1 .. d : ~ config.files[j].yamlOk

\* What is still to be loaded is the end of the files, and what is loaded is what
\* can be used of the others.
Suffix == /\ ruleFiles \in Seq(Files)
          /\ Len(ruleFiles) <= Len(config.files)
          /\ \A i \in 1 .. Len(ruleFiles) : ruleFiles[i] = config.files[Done + i]

LoadInv == /\ loaded \in Seq(Entries)
           /\ Len(loaded) <= Done
           /\ pc = "main" => ruleFiles = <<>> /\ loaded = <<>> /\ ~ err
           /\ pc # "main" /\ ~ MainRead => ruleFiles = <<>> /\ loaded = <<>> /\ err
           /\ pc # "main" /\ MainRead =>
                 /\ \A i \in 1 .. Done :
                       Usable(config.files[i]) => Entry(config.files[i]) \in ToSet(loaded)
                 /\ err <=> BadDeadtime(Done)

InputInv == /\ config \in Configs
            /\ timeout \in Timeouts
            /\ err \in BOOLEAN
            /\ pc \in {"main", "load", "assign", "read", "send", "idle", "exited"}

LEMMA EntriesSame ==
    ASSUME UNCHANGED config
    PROVE  /\ Entries' = Entries /\ Files' = Files /\ MainRead' = MainRead
           /\ \A f : Usable(f)' = Usable(f) /\ Entry(f)' = Entry(f)
           /\ \A d : BadDeadtime(d)' = BadDeadtime(d)
BY DEF MainRead, BadDeadtime, Entries, Entry, RuleOf, EventsOf, Enabled, Usable, Files

LEMMA LoadSame ==
    ASSUME UNCHANGED <<config, loadVars>>, Suffix, LoadInv, pc = "main" <=> pc' = "main"
    PROVE  Suffix' /\ LoadInv'
<1>1. config' = config /\ ruleFiles' = ruleFiles /\ err' = err /\ loaded' = loaded
  BY DEF loadVars
<1>2. Suffix'
  BY <1>1 DEF Suffix, Done, Files
<1>3. /\ Entries' = Entries /\ Files' = Files /\ MainRead' = MainRead
      /\ Done' = Done /\ BadDeadtime(Done)' = BadDeadtime(Done)
  BY <1>1, EntriesSame DEF Done, BadDeadtime
<1>4. \A i \in 1 .. Done : /\ Usable(config.files[i])' = Usable(config.files[i])
                           /\ Entry(config.files[i])' = Entry(config.files[i])
  BY <1>1 DEF Entry, RuleOf, EventsOf, Enabled, Usable
<1>5. LoadInv'
  BY <1>1, <1>3, <1>4 DEF LoadInv
<1> QED
  BY <1>2, <1>5

LEMMA LoadInit == Init => InputInv /\ Suffix /\ LoadInv
<1> SUFFICES ASSUME Init PROVE InputInv /\ Suffix /\ LoadInv
  OBVIOUS
<1>1. InputInv
  BY DEF Init, InputInv
<1>2. Len(config.files) \in Nat
  BY <1>1, FilesAre, LenProperties DEF InputInv
<1>3. ruleFiles = <<>> /\ loaded = <<>> /\ Len(<<>>) = 0 /\ 1 .. 0 = {}
      /\ \A S : <<>> \in Seq(S)
  BY DEF Init
<1>4. Suffix
  BY <1>2, <1>3 DEF Suffix
<1>5. LoadInv
  BY <1>2, <1>3 DEF LoadInv, Done, Init
<1> QED
  BY <1>1, <1>4, <1>5

LEMMA LoadMainStep ==
    ASSUME InputInv, Suffix, LoadInv, LoadMain
    PROVE  InputInv' /\ Suffix' /\ LoadInv'
<1> DEFINE n == Len(config.files)
<1>1. n \in Nat /\ config.files \in Seq(Files) /\ \A S : <<>> \in Seq(S)
  BY FilesAre, LenProperties DEF InputInv
<1>2. /\ pc = "main" /\ pc' = "load" /\ config' = config /\ timeout' = timeout
      /\ loaded = <<>> /\ loaded' = <<>> /\ (err' <=> ~ MainRead) /\ err' \in BOOLEAN
  BY DEF LoadMain, inputVars, MainRead, LoadInv
<1>3. InputInv'
  BY <1>2 DEF InputInv
<1>4. /\ Entries' = Entries /\ Files' = Files /\ MainRead' = MainRead
      /\ \A d : BadDeadtime(d)' = BadDeadtime(d)
  BY <1>2, EntriesSame
<1>5. CASE MainRead
  <2>1. ruleFiles' = config.files /\ ~ err'
    BY <1>2, <1>5 DEF LoadMain
  <2>2. Done' = 0 /\ \A i \in 1 .. n : 0 + i = i
    BY <1>1, <1>2, <2>1 DEF Done
  <2>3. Suffix'
    BY <1>1, <1>2, <1>4, <2>1, <2>2 DEF Suffix
  <2>4. ~ BadDeadtime(0) /\ Len(<<>>) = 0 /\ 1 .. 0 = {}
    BY DEF BadDeadtime
  <2>5. ~ BadDeadtime(Done)'
    BY <2>2, <2>4 DEF BadDeadtime
  <2> QED
    BY <1>1, <1>2, <1>3, <1>4, <1>5, <2>1, <2>2, <2>3, <2>4, <2>5 DEF LoadInv
<1>6. CASE ~ MainRead
  <2>1. ruleFiles' = <<>> /\ err'
    BY <1>2, <1>6 DEF LoadMain
  <2>2. Len(<<>>) = 0 /\ 1 .. 0 = {}
    OBVIOUS
  <2>3. Done' = n
    BY <1>1, <1>2, <2>1, <2>2 DEF Done
  <2>4. Suffix'
    BY <1>1, <1>2, <2>1, <2>2 DEF Suffix
  <2> QED
    BY <1>1, <1>2, <1>3, <1>4, <1>6, <2>1, <2>2, <2>3, <2>4 DEF LoadInv
<1> QED
  BY <1>5, <1>6

\* One more rule file: the error is now that of the last readable one up to it.
LEMMA NextDeadtime ==
    ASSUME NEW d \in Nat, NEW f, f = config.files[d + 1]
    PROVE  BadDeadtime(d + 1) <=> IF f.yamlOk THEN ~ f.deadtimeOk ELSE BadDeadtime(d)
<1>1. d + 1 \in 1 .. d + 1 /\ 1 .. d + 1 = (1 .. d) \cup {d + 1} /\ (d + 1) + 1 .. d + 1 = {}
  OBVIOUS
<1>2. \A i \in 1 .. d : i + 1 .. d + 1 = (i + 1 .. d) \cup {d + 1}
  OBVIOUS
<1>3. CASE f.yamlOk
  <2>1. BadDeadtime(d + 1) => ~ f.deadtimeOk
    BY <1>1, <1>2, <1>3 DEF BadDeadtime
  <2>2. ~ f.deadtimeOk => BadDeadtime(d + 1)
    BY <1>1, <1>3 DEF BadDeadtime
  <2> QED
    BY <1>3, <2>1, <2>2
<1>4. CASE ~ f.yamlOk
  <2>1. BadDeadtime(d + 1) => BadDeadtime(d)
    BY <1>1, <1>2, <1>4 DEF BadDeadtime
  <2>2. BadDeadtime(d) => BadDeadtime(d + 1)
    BY <1>1, <1>2, <1>4 DEF BadDeadtime
  <2> QED
    BY <1>4, <2>1, <2>2
<1> QED
  BY <1>3, <1>4

LEMMA LoadRuleStep ==
    ASSUME InputInv, Suffix, LoadInv, LoadRule
    PROVE  InputInv' /\ Suffix' /\ LoadInv'
<1> DEFINE f == Head(ruleFiles)
           d == Done
           n == Len(config.files)
<1>1. /\ n \in Nat /\ Len(ruleFiles) \in Nat \ {0} /\ ruleFiles \in Seq(Files)
      /\ f \in Files /\ f = ruleFiles[1]
      /\ Tail(ruleFiles) \in Seq(Files) /\ Len(Tail(ruleFiles)) = Len(ruleFiles) - 1
      /\ \A i \in 1 .. Len(ruleFiles) - 1 : Tail(ruleFiles)[i] = ruleFiles[i + 1]
  <2>1. n \in Nat
    BY FilesAre, LenProperties DEF InputInv
  <2>2. ruleFiles \in Seq(Files) /\ ruleFiles # <<>>
    BY DEF Suffix, LoadRule
  <2> HIDE DEF n
  <2> QED
    BY <2>1, <2>2, HeadTailProperties, EmptySeq
<1>2. /\ config' = config /\ timeout' = timeout /\ pc = "load" /\ pc' = pc
      /\ ruleFiles' = Tail(ruleFiles)
      /\ err' = IF f.yamlOk THEN ~ f.deadtimeOk ELSE err
      /\ loaded' = IF Usable(f) THEN Append(loaded, Entry(f)) ELSE loaded
  BY DEF LoadRule, inputVars, crawlVars, Entry
<1>3. d \in Nat /\ d + 1 <= n /\ f = config.files[d + 1]
  <2>1. d = n - Len(ruleFiles) /\ 1 \in 1 .. Len(ruleFiles) /\ Len(ruleFiles) <= n
    BY <1>1 DEF Done, Suffix
  <2>2. ruleFiles[1] = config.files[d + 1]
    BY <2>1 DEF Suffix
  <2> HIDE DEF d, f, n
  <2> QED
    BY <1>1, <2>1, <2>2
<1>4. MainRead
  BY <1>2 DEF LoadInv, LoadRule
<1>5. err <=> BadDeadtime(d)
  BY <1>2, <1>4 DEF LoadInv
<1>6. /\ Entries' = Entries /\ Files' = Files /\ MainRead' = MainRead
  BY <1>2, EntriesSame
<1>7. Len(ruleFiles') = Len(ruleFiles) - 1 /\ Done' = d + 1
  <2>1. Len(ruleFiles') = Len(ruleFiles) - 1
    BY <1>1, <1>2
  <2> QED
    BY <1>1, <1>2, <2>1 DEF Done
<1>8. Suffix'
  <2>1. ASSUME NEW i \in 1 .. Len(ruleFiles') PROVE ruleFiles'[i] = config'.files[Done' + i]
    <3>1. i + 1 \in 1 .. Len(ruleFiles) /\ i \in 1 .. Len(ruleFiles) - 1
      BY <1>1, <1>7
    <3>2. ruleFiles[i + 1] = config.files[d + (i + 1)] /\ d + (i + 1) = (d + 1) + i
      BY <1>3, <3>1 DEF Suffix
    <3> QED
      BY <1>1, <1>2, <1>7, <3>1, <3>2
  <2>2. ruleFiles' \in Seq(Files') /\ Len(ruleFiles') <= Len(config'.files)
    <3>1. Len(ruleFiles) - 1 <= n
      BY <1>1 DEF Suffix
    <3> QED
      BY <1>1, <1>2, <1>6, <1>7, <3>1
  <2> QED
    BY <2>1, <2>2 DEF Suffix
<1>9. err' \in BOOLEAN
  BY <1>2 DEF InputInv
<1>10. InputInv'
  BY <1>2, <1>9 DEF InputInv
<1>11. err' <=> BadDeadtime(Done)'
  <2>1. BadDeadtime(d + 1) <=> IF f.yamlOk THEN ~ f.deadtimeOk ELSE BadDeadtime(d)
    <3> HIDE DEF d, f
    <3> QED
      BY <1>3, NextDeadtime
  <2>2. err' <=> BadDeadtime(d + 1)
    BY <1>2, <1>5, <2>1
  <2> HIDE DEF d
  <2> QED
    BY <1>2, <1>7, <2>2 DEF BadDeadtime
<1> HIDE DEF f, d, n
<1>12. /\ loaded' \in Seq(Entries) /\ Len(loaded') <= d + 1
       /\ ToSet(loaded) \subseteq ToSet(loaded')
       /\ Usable(f) => Entry(f) \in ToSet(loaded')
  <2>1. loaded \in Seq(Entries) /\ Len(loaded) <= d /\ Len(loaded) \in Nat /\ DOMAIN loaded = 1 .. Len(loaded)
    BY LenProperties DEF LoadInv, d
  <2>2. CASE Usable(f)
    <3> DEFINE e == Entry(f)
    <3>1. e \in Entries
      BY <1>1, <2>2 DEF Entries
    <3> HIDE DEF e
    <3>2. /\ Append(loaded, e) \in Seq(Entries) /\ Len(Append(loaded, e)) = Len(loaded) + 1
          /\ DOMAIN Append(loaded, e) = 1 .. Len(loaded) + 1
          /\ Append(loaded, e)[Len(loaded) + 1] = e
          /\ \A i \in 1 .. Len(loaded) : Append(loaded, e)[i] = loaded[i]
      BY <2>1, <3>1
    <3>3. loaded' = Append(loaded, e)
      BY <1>2, <2>2 DEF e
    <3>4. ToSet(loaded) \subseteq ToSet(loaded') /\ e \in ToSet(loaded')
      BY <2>1, <3>2, <3>3 DEF ToSet
    <3> QED
      BY <1>3, <2>1, <3>2, <3>3, <3>4 DEF e
  <2>3. CASE ~ Usable(f)
    BY <1>2, <1>3, <2>1, <2>3
  <2> QED
    BY <2>2, <2>3
<1>13. ASSUME NEW i \in 1 .. Done', Usable(config.files[i])
       PROVE  Entry(config.files[i]) \in ToSet(loaded')
  <2>1. CASE i = d + 1
    BY <1>3, <1>12, <1>13, <2>1
  <2>2. CASE i # d + 1
    <3>1. i \in 1 .. Done
      BY <1>3, <1>7, <2>2 DEF d
    <3>2. Entry(config.files[i]) \in ToSet(loaded)
      BY <1>2, <1>4, <1>13, <3>1 DEF LoadInv
    <3> QED
      BY <1>12, <3>2
  <2> QED
    BY <2>1, <2>2
<1>14. ASSUME NEW i \in 1 .. Done'
       PROVE  Usable(config.files[i])' => Entry(config.files[i])' \in ToSet(loaded')
  <2>1. /\ Usable(config.files[i])' = Usable(config.files[i])
        /\ Entry(config.files[i])' = Entry(config.files[i])
    BY <1>2 DEF Entry, RuleOf, EventsOf, Enabled, Usable
  <2> QED
    BY <1>13, <2>1
<1>15. LoadInv'
  BY <1>2, <1>4, <1>6, <1>7, <1>11, <1>12, <1>14 DEF LoadInv
<1> QED
  BY <1>8, <1>10, <1>15

-----------------------------------------------------------------------------
(* _GetFilesListMap.                                                       *)

RulesOk(rs) == rs \in Seq(ToSet(rs)) /\ \A r \in ToSet(rs) : IsRule(r)

PairOf(rs) == ToSet(rs) \X SUBSET File

\* The rules of each file, after the first k pairs.
AssignedBy(rs, asg, k) ==
    \A f \in File : \A A, B :
        Leads(asg[f], A, B)
           <=> LeadsUpTo(AllPaths(rs), k, Hits(ToSet(rs), f, A), Hits(ToSet(rs), f, B))

\* The pairs that are still to be assigned are the last ones, and the others are.
AssignOf(rs, td, asg) ==
    /\ Len(td) <= Len(AllPaths(rs))
    /\ \A i \in 1 .. Len(td) : td[i] = AllPaths(rs)[Len(AllPaths(rs)) - Len(td) + i]
    /\ AssignedBy(rs, asg, Len(AllPaths(rs)) - Len(td))

LEMMA PathsTyped ==
    ASSUME NEW rs, RulesOk(rs), File # {} PROVE AllPaths(rs) \in Seq(PairOf(rs))
BY AllPathsLead DEF RulesOk, PairOf

LEMMA AssignStarts ==
    ASSUME NEW rs, RulesOk(rs), File # {}
    PROVE  /\ NoRules \in [File -> Seq(ToSet(rs))]
           /\ AssignOf(rs, AllPaths(rs), NoRules)
<1> DEFINE ps == AllPaths(rs)
<1>1. ps \in Seq(PairOf(rs)) /\ Len(ps) \in Nat
  BY PathsTyped, LenProperties
<1> HIDE DEF ps
<1>2. NoRules \in [File -> Seq(ToSet(rs))]
  BY DEF NoRules
<1>3. \A i \in 1 .. Len(ps) : Len(ps) - Len(ps) + i = i
  BY <1>1
<1>4. AssignedBy(rs, NoRules, 0)
  BY LeadsEmpty DEF AssignedBy, NoRules, LeadsUpTo
<1>5. Len(ps) - Len(ps) = 0
  BY <1>1
<1> QED
  BY <1>1, <1>2, <1>3, <1>4, <1>5 DEF AssignOf, ps

LEMMA AssignContinues ==
    ASSUME NEW rs, RulesOk(rs), File # {}, NEW td \in Seq(PairOf(rs)), td # <<>>,
           NEW asg \in [File -> Seq(ToSet(rs))], AssignOf(rs, td, asg),
           NEW next, next = [f \in File |-> IF f \in td[1][2] \ td[1][1].excluded
                                            THEN Append(asg[f], td[1][1]) ELSE asg[f]]
    PROVE  /\ Tail(td) \in Seq(PairOf(rs))
           /\ next \in [File -> Seq(ToSet(rs))]
           /\ AssignOf(rs, Tail(td), next)
<1> DEFINE ps == AllPaths(rs)
           R == ToSet(rs)
           k == Len(ps) - Len(td) + 1
           x == td[1]
<1>1. /\ ps \in Seq(PairOf(rs)) /\ Len(ps) \in Nat /\ Len(td) \in Nat \ {0}
      /\ Tail(td) \in Seq(PairOf(rs)) /\ Len(Tail(td)) = Len(td) - 1
      /\ \A i \in 1 .. Len(td) - 1 : Tail(td)[i] = td[i + 1]
  <2> HIDE DEF ps
  <2>1. ps \in Seq(PairOf(rs))
    BY PathsTyped DEF ps
  <2> QED
    BY <2>1, LenProperties, EmptySeq, HeadTailProperties
<1>2. Len(td) <= Len(ps) /\ AssignedBy(rs, asg, Len(ps) - Len(td))
      /\ \A i \in 1 .. Len(td) : td[i] = ps[Len(ps) - Len(td) + i]
  BY DEF AssignOf
<1> HIDE DEF ps
<1>3. /\ k \in 1 .. Len(ps) /\ k - 1 = Len(ps) - Len(td) /\ k = Len(ps) - Len(Tail(td))
      /\ 1 \in 1 .. Len(td)
  BY <1>1, <1>2
<1>4. x = ps[k] /\ x \in PairOf(rs) /\ x[1] \in R
  <2>1. x = ps[k]
    BY <1>2, <1>3
  <2>2. x \in PairOf(rs)
    BY <1>3, ElementOfSeq
  <2> HIDE DEF x, k
  <2> QED
    BY <2>1, <2>2 DEF PairOf
<1>5. next \in [File -> Seq(R)]
  <2> HIDE DEF x, R
  <2>1. \A f \in File : asg[f] \in Seq(R) /\ Append(asg[f], x[1]) \in Seq(R)
    BY <1>4 DEF R
  <2> QED
    BY <2>1 DEF x
<1>6. ASSUME NEW f \in File, NEW A, NEW B
      PROVE  Leads(next[f], A, B) <=> LeadsUpTo(ps, k, Hits(R, f, A), Hits(R, f, B))
  <2> DEFINE HA == Hits(R, f, A)
             HB == Hits(R, f, B)
  <2>1. Leads(asg[f], A, B) <=> LeadsUpTo(ps, k - 1, HA, HB)
    BY <1>2, <1>3 DEF AssignedBy, ps
  <2>2. Leads(asg[f], B, {}) <=> LeadsUpTo(ps, k - 1, HB, {})
    <3>1. Leads(asg[f], B, {}) <=> LeadsUpTo(ps, k - 1, HB, Hits(R, f, {}))
      BY <1>2, <1>3 DEF AssignedBy, ps
    <3>2. Hits(R, f, {}) = {}
      BY NoHits
    <3> QED
      BY <3>1, <3>2, Zenon
  <2>3. LeadsUpTo(ps, k, HA, HB)
           <=> LeadsUpTo(ps, k - 1, HA, HB) \/ (ps[k] \in HA /\ ~ LeadsUpTo(ps, k - 1, HB, {}))
    <3> HIDE DEF HA, HB, k
    <3> QED
      BY <1>1, <1>3, LeadsStep
  <2>4. x \in HA <=> x[1] \in A /\ f \in x[2] \ x[1].excluded
    <3> HIDE DEF x, R
    <3> QED
      BY <1>4 DEF Hits, PairOf, R
  <2> HIDE DEF HA, HB, k, x, R
  <2>5. asg[f] \in Seq(R)
    BY DEF R
  <2>6. CASE f \in x[2] \ x[1].excluded
    <3>1. next[f] = Append(asg[f], x[1])
      BY <2>6 DEF x
    <3>2. Leads(Append(asg[f], x[1]), A, B)
             <=> Leads(asg[f], A, B) \/ (x[1] \in A /\ ~ Leads(asg[f], B, {}))
      BY <1>4, <2>5, LeadsAppend
    <3>3. Leads(next[f], A, B)
             <=> Leads(asg[f], A, B) \/ (x[1] \in A /\ ~ Leads(asg[f], B, {}))
      BY <3>1, <3>2, Zenon
    <3>4. ps[k] \in HA <=> x[1] \in A
      BY <1>4, <2>4, <2>6
    <3>5. Leads(next[f], A, B) <=> LeadsUpTo(ps, k, HA, HB)
      BY <2>1, <2>2, <2>3, <3>3, <3>4
    <3> QED
      BY <3>5 DEF HA, HB
  <2>7. CASE f \notin x[2] \ x[1].excluded
    <3>1. next[f] = asg[f]
      BY <2>7 DEF x
    <3>2. ps[k] \notin HA
      BY <1>4, <2>4, <2>7
    <3>3. Leads(next[f], A, B) <=> LeadsUpTo(ps, k, HA, HB)
      BY <2>1, <2>3, <3>1, <3>2
    <3> QED
      BY <3>3 DEF HA, HB
  <2> QED
    BY <2>6, <2>7
<1>7. AssignedBy(rs, next, Len(ps) - Len(Tail(td)))
  <2> HIDE DEF k
  <2> QED
    BY <1>3, <1>6 DEF AssignedBy, ps
<1>8. Len(Tail(td)) <= Len(ps)
      /\ \A i \in 1 .. Len(Tail(td)) : Tail(td)[i] = ps[Len(ps) - Len(Tail(td)) + i]
  <2>1. Len(Tail(td)) <= Len(ps)
    BY <1>1, <1>2
  <2>2. ASSUME NEW i \in 1 .. Len(Tail(td))
        PROVE  Tail(td)[i] = ps[Len(ps) - Len(Tail(td)) + i]
    <3>1. i + 1 \in 1 .. Len(td) /\ i \in 1 .. Len(td) - 1
          /\ Len(ps) - Len(td) + (i + 1) = Len(ps) - Len(Tail(td)) + i
      BY <1>1
    <3>2. td[i + 1] = ps[Len(ps) - Len(td) + (i + 1)]
      BY <1>2, <3>1
    <3> QED
      BY <1>1, <3>1, <3>2
  <2> QED
    BY <2>1, <2>2
<1> QED
  BY <1>1, <1>5, <1>7, <1>8 DEF AssignOf, ps

\* However often a rule was assigned to a file, its rules are alike those that
\* apply to it, each once.
LEMMA AssignEnds ==
    ASSUME NEW rs, RulesOk(rs), NEW asg, AssignOf(rs, <<>>, asg), NEW f \in File
    PROVE  Alike(asg[f], Keep(rs, {r \in ToSet(rs) : AppliesTo(r, f)}))
<1> DEFINE ps == AllPaths(rs)
           R == ToSet(rs)
           S == {r \in R : AppliesTo(r, f)}
<1>1. ps \in Seq(PairOf(rs)) /\ Len(ps) \in Nat /\ Len(<<>>) = 0
  BY PathsTyped, LenProperties
<1>2. AssignedBy(rs, asg, Len(ps))
  <2>1. Len(ps) - Len(<<>>) = Len(ps)
    BY <1>1
  <2>2. AssignedBy(rs, asg, Len(ps) - Len(<<>>))
    BY DEF AssignOf
  <2> QED
    BY <2>1, <2>2, Zenon
<1>3. ASSUME NEW A, NEW B PROVE Leads(asg[f], A, B) <=> Leads(Keep(rs, S), A, B)
  <2> DEFINE HA == Hits(R, f, A)
             HB == Hits(R, f, B)
  <2>1. Leads(asg[f], A, B) <=> LeadsUpTo(ps, Len(ps), HA, HB)
    BY <1>2 DEF AssignedBy
  <2>2. Leads(ps, HA, HB) <=> Leads(Keep(rs, S), A, B)
    BY AllPathsLead DEF RulesOk
  <2> HIDE DEF ps, HA, HB, S
  <2>3. Leads(ps, HA, HB) <=> LeadsUpTo(ps, Len(ps), HA, HB)
    BY <1>1, LeadsAll
  <2> QED
    BY <2>1, <2>2, <2>3
<1> QED
  BY <1>3 DEF Alike

-----------------------------------------------------------------------------
(* Reading a file.                                                         *)

\* The events of all lines, by the rules rs.
EventsOfLines(rs, ls) == FlattenSeq([i \in 1 .. Len(ls) |-> Parsed(rs, ls[i])])

LEMMA NoLines == \A rs : EventsOfLines(rs, <<>>) = <<>>
<1> SUFFICES ASSUME NEW rs PROVE EventsOfLines(rs, <<>>) = <<>>
  OBVIOUS
<1> DEFINE ss == [i \in 1 .. Len(<<>>) |-> Parsed(rs, <<>>[i])]
<1>1. ss = <<>> /\ Len(<<>>) = 0
  OBVIOUS
<1> HIDE DEF ss
<1>2. FlattenSeq(ss) = <<>>
  BY <1>1 DEF FlattenSeq
<1> QED
  BY <1>2 DEF EventsOfLines, ss

LEMMA LinesTyped ==
    ASSUME NEW R, \A r \in R : IsRule(r), NEW rs \in Seq(R), NEW ls \in Seq(Line)
    PROVE  LET ss == [i \in 1 .. Len(ls) |-> Parsed(rs, ls[i])]
           IN  ss \in Seq(Seq(Event)) /\ Len(ss) = Len(ls)
<1> DEFINE ss == [i \in 1 .. Len(ls) |-> Parsed(rs, ls[i])]
<1>1. Len(ls) \in Nat /\ \A i \in 1 .. Len(ls) : ls[i] \in Line
  BY LenProperties, ElementOfSeq
<1>2. ss \in [1 .. Len(ls) -> Seq(Event)]
  BY <1>1, ParsedLeads
<1>3. ss \in Seq(Seq(Event))
  BY <1>1, <1>2, SeqDef
<1>4. Len(ss) = Len(ls)
  <2>1. DOMAIN ss = 1 .. Len(ls)
    OBVIOUS
  <2> HIDE DEF ss
  <2>2. DOMAIN ss = 1 .. Len(ss) /\ Len(ss) \in Nat
    BY <1>3, LenProperties
  <2> QED
    BY <1>1, <2>1, <2>2
<1> QED
  BY <1>3, <1>4

LEMMA NextLine ==
    ASSUME NEW R, \A r \in R : IsRule(r), NEW rs \in Seq(R), NEW ls \in Seq(Line), NEW l \in Line
    PROVE  /\ EventsOfLines(rs, ls) \in Seq(Event)
           /\ Alike(EventsOfLines(rs, Append(ls, l)), EventsOfLines(rs, ls) \o Parsed(rs, l))
<1> DEFINE ss == [i \in 1 .. Len(ls) |-> Parsed(rs, ls[i])]
           next == [i \in 1 .. Len(Append(ls, l)) |-> Parsed(rs, Append(ls, l)[i])]
           x == Parsed(rs, l)
<1>1. Append(ls, l) \in Seq(Line) /\ Len(ls) \in Nat /\ Len(Append(ls, l)) = Len(ls) + 1
      /\ Append(ls, l)[Len(ls) + 1] = l /\ \A i \in 1 .. Len(ls) : Append(ls, l)[i] = ls[i]
  OBVIOUS
<1>2. ss \in Seq(Seq(Event)) /\ Len(ss) = Len(ls) /\ x \in Seq(Event)
  BY LinesTyped, ParsedLeads
<1>3. next = Append(ss, x)
  <2> DEFINE n == Len(ls)
  <2>1. next = [i \in 1 .. n + 1 |-> IF i = n + 1 THEN x ELSE ss[i]]
    <3>1. \A i \in 1 .. n + 1 : i = n + 1 \/ i \in 1 .. n
      BY <1>1
    <3> QED
      BY <1>1, <3>1
  <2>2. DOMAIN next = 1 .. n + 1 /\ next[n + 1] = x /\ \A i \in 1 .. n : next[i] = ss[i]
    <3>1. n + 1 \in 1 .. n + 1 /\ \A i \in 1 .. n : i \in 1 .. n + 1 /\ i # n + 1
      BY <1>1
    <3> HIDE DEF ss, x, next
    <3> QED
      BY <2>1, <3>1
  <2>3. next \in [1 .. n + 1 -> Seq(Event)]
    <3>1. \A i \in 1 .. n + 1 : (i = n + 1 \/ i \in 1 .. n)
      BY <1>1
    <3>2. \A i \in 1 .. n : ss[i] \in Seq(Event)
      <4> HIDE DEF ss
      <4> QED
        BY <1>2, ElementOfSeq
    <3> HIDE DEF ss, x
    <3>3. \A i \in 1 .. n + 1 : (IF i = n + 1 THEN x ELSE ss[i]) \in Seq(Event)
      BY <1>2, <3>1, <3>2
    <3> HIDE DEF next
    <3> QED
      BY <2>1, <3>3
  <2>4. next \in Seq(Seq(Event))
    <3>1. n + 1 \in Nat
      BY <1>1
    <3> HIDE DEF next, n
    <3> QED
      BY <2>3, <3>1, SeqDef
  <2> HIDE DEF ss, x, next
  <2>5. Len(next) = n + 1
    <3>1. DOMAIN next = 1 .. Len(next) /\ Len(next) \in Nat
      BY <2>4, LenProperties
    <3> QED
      BY <1>1, <2>2, <3>1
  <2>6. /\ Append(ss, x) \in Seq(Seq(Event)) /\ Len(Append(ss, x)) = n + 1
        /\ Append(ss, x)[n + 1] = x /\ \A i \in 1 .. n : Append(ss, x)[i] = ss[i]
    BY <1>1, <1>2
  <2>7. \A i \in 1 .. n + 1 : next[i] = Append(ss, x)[i]
    <3>1. \A i \in 1 .. n + 1 : i = n + 1 \/ i \in 1 .. n
      BY <1>1
    <3> QED
      BY <2>2, <2>6, <3>1
  <2> DEFINE a == Append(ss, x)
  <2>8. a \in Seq(Seq(Event)) /\ Len(next) = Len(a) /\ \A i \in 1 .. Len(next) : next[i] = a[i]
    BY <2>5, <2>6, <2>7
  <2> HIDE DEF a
  <2>9. next = a
    BY <2>4, <2>8, SeqEqual
  <2> QED
    BY <2>9 DEF a
<1> HIDE DEF ss, next, x
<1>4. FlattenSeq(ss) \in Seq(Event) /\ Alike(FlattenSeq(Append(ss, x)), FlattenSeq(ss) \o x)
  BY <1>2, FlattenLeads, FlattenAppend
<1>5. EventsOfLines(rs, ls) = FlattenSeq(ss)
  BY DEF EventsOfLines, ss
<1>6. EventsOfLines(rs, Append(ls, l)) = FlattenSeq(Append(ss, x))
  <2>1. EventsOfLines(rs, Append(ls, l)) = FlattenSeq(next)
    BY DEF EventsOfLines, next
  <2> QED
    BY <1>3, <2>1, Zenon
<1>7. FlattenSeq(ss) \in Seq(Event) /\ EventsOfLines(rs, ls) \in Seq(Event)
  BY <1>4, <1>5
<1>8. Alike(EventsOfLines(rs, Append(ls, l)), EventsOfLines(rs, ls) \o x)
  BY <1>4, <1>5, <1>6, Zenon
<1> QED
  BY <1>7, <1>8 DEF x

\* The events of the lines so far, with those of one more: by the assigned rules
\* or by those that apply, alike.
LEMMA ReadContinues ==
    ASSUME NEW rs, RulesOk(rs), NEW asg \in Seq(ToSet(rs)), NEW applied \in Seq(ToSet(rs)),
           Alike(asg, applied), NEW ls \in Seq(Line), NEW l \in Line,
           NEW evs \in Seq(Event), Alike(evs, EventsOfLines(applied, ls))
    PROVE  /\ evs \o Parsed(asg, l) \in Seq(Event)
           /\ Alike(evs \o Parsed(asg, l), EventsOfLines(applied, Append(ls, l)))
<1> DEFINE old == EventsOfLines(applied, ls)
           new == EventsOfLines(applied, Append(ls, l))
           pa == Parsed(asg, l)
           pb == Parsed(applied, l)
<1>1. pa \in Seq(Event) /\ pb \in Seq(Event) /\ Alike(pa, pb)
  BY ParsedLeads, ParsedAlike DEF RulesOk
<1>2. old \in Seq(Event) /\ Alike(new, old \o pb)
  BY NextLine DEF RulesOk
<1> HIDE DEF old, new, pa, pb
<1>3. Alike(evs, old)
  BY DEF old
<1>4. Alike(evs \o pa, old \o pb)
  BY <1>1, <1>2, <1>3, AlikeConcat
<1>5. Alike(evs \o pa, new)
  BY <1>2, <1>4 DEF Alike
<1>6. evs \o pa \in Seq(Event)
  BY <1>1, ConcatProperties
<1> QED
  BY <1>5, <1>6 DEF pa, new

-----------------------------------------------------------------------------
(* The invariant.                                                          *)

LEMMA FileRulesAre ==
    ASSUME config \in Configs, loaded \in Seq(Entries)
    PROVE  /\ RulesOk(FileRulesOf(loaded))
           /\ ToSet(FileRulesOf(loaded)) =
                 {l.rule : l \in {x \in ToSet(loaded) : x.source # "wineventlog"}}
<1> DEFINE Wanted == {x \in ToSet(loaded) : x.source # "wineventlog"}
           Kept == Keep(loaded, Wanted)
           P == [i \in 1 .. Len(Kept) |-> Kept[i].rule]
           R == {l.rule : l \in Entries}
<1>1. Kept \in Seq(Entries) /\ ToSet(Kept) = Wanted
  <2>1. Kept \in Seq(Entries) /\ ToSet(Kept) = ToSet(loaded) \cap Wanted
    <3> HIDE DEF Wanted
    <3> QED
      BY KeepIs
  <2> QED
    BY <2>1
<1>2. FileRulesOf(loaded) = P
  BY DEF FileRulesOf
<1> HIDE DEF Kept
<1>3. Len(Kept) \in Nat /\ DOMAIN Kept = 1 .. Len(Kept) /\ \A i \in 1 .. Len(Kept) : Kept[i] \in Entries
  BY <1>1, LenProperties, ElementOfSeq
<1>4. P \in [1 .. Len(Kept) -> R]
  BY <1>3
<1>5. P \in Seq(R)
  BY <1>3, <1>4, SeqDef
<1>6. ToSet(P) = {l.rule : l \in Wanted}
  <2>1. ToSet(P) = {Kept[i].rule : i \in 1 .. Len(Kept)}
    BY DEF ToSet
  <2>2. Wanted = {Kept[i] : i \in 1 .. Len(Kept)}
    BY <1>1, <1>3 DEF ToSet
  <2> HIDE DEF Wanted
  <2> QED
    BY <2>1, <2>2
<1> HIDE DEF P
<1>7. P \in Seq(ToSet(P)) /\ ToSet(P) \subseteq R
  BY <1>5, ToSetIs
<1>8. \A r \in R : IsRule(r)
  BY RuleOfIs DEF Entries, Entry
<1> HIDE DEF R
<1>9. RulesOk(P)
  BY <1>7, <1>8 DEF RulesOk
<1> QED
  BY <1>2, <1>6, <1>9

Running == pc \in {"assign", "read", "send", "idle"}

RunInv == /\ RulesOk(rules)
          /\ pc \in {"main", "load"} => /\ rules = <<>> /\ todo = <<>> /\ assigned = NoRules
                                        /\ lines = <<>> /\ events = <<>>
          /\ Running => /\ ruleFiles = <<>> /\ ~ err /\ loaded # <<>>
                        /\ rules = FileRulesOf(loaded)
          /\ pc = "exited" => (ruleFiles = <<>> /\ (err \/ loaded = <<>>)) \/ timeout <= 0

AssignInv == pc = "assign" => lines = <<>> /\ events = <<>> /\ AssignOf(rules, todo, assigned)

ReadInv == pc = "read" => /\ Alike(assigned[file], Applicable)
                          /\ Alike(events, EventsOfLines(Applicable, lines))

CrawlInv == CrawlTypeOK /\ RunInv /\ AssignInv /\ ReadInv /\ OverlapIsHarmless

Inv == InputInv /\ Suffix /\ LoadInv /\ CrawlInv

LEMMA NoneTyped ==
    /\ RulesOk(<<>>) /\ NoRules \in [File -> Seq(ToSet(<<>>))]
    /\ \A S : <<>> \in Seq(S)
    /\ Len(<<>>) = 0 /\ 0 <= MaxLines
<1>1. ToSet(<<>>) = {} /\ \A S : <<>> \in Seq(S)
  BY DEF ToSet
<1>2. Len(<<>>) = 0 /\ 0 <= MaxLines
  BY FileRulesAssumption
<1> QED
  BY <1>1, <1>2 DEF RulesOk, NoRules

\* The rules of the crawl that apply to the file.
LEMMA ApplicableIs ==
    /\ Applicable = Keep(rules, {r \in ToSet(rules) : AppliesTo(r, file)})
    /\ RulesOk(rules) => Applicable \in Seq(ToSet(rules))
<1>1. Applicable = Keep(rules, {r \in ToSet(rules) : AppliesTo(r, file)})
  BY DEF Applicable, Applies, AppliesTo
<1>2. RulesOk(rules) => Applicable \in Seq(ToSet(rules))
  BY <1>1, KeepLeads DEF RulesOk
<1> QED
  BY <1>1, <1>2

LEMMA CrawlStarts == Init => CrawlInv
<1> SUFFICES ASSUME Init PROVE CrawlInv
  OBVIOUS
<1>1. /\ rules = <<>> /\ todo = <<>> /\ assigned = NoRules /\ file \in File /\ lines = <<>>
      /\ events = <<>> /\ pc = "main"
  BY DEF Init, CrawlInit
<1>2. CrawlTypeOK
  BY <1>1, NoneTyped DEF CrawlTypeOK
<1>3. RunInv
  BY <1>1, NoneTyped DEF RunInv, Running
<1> QED
  BY <1>1, <1>2, <1>3 DEF CrawlInv, AssignInv, ReadInv, OverlapIsHarmless

\* Steps that leave the crawler alone, before it runs or as it ends.
LEMMA CrawlSame ==
    ASSUME CrawlInv, UNCHANGED <<rules, todo, assigned, file, lines, events>>,
           pc' \in {"main", "load", "idle", "exited"}, RunInv'
    PROVE  CrawlInv'
BY DEF CrawlInv, CrawlTypeOK, AssignInv, ReadInv, OverlapIsHarmless

LEMMA RunStep ==
    ASSUME InputInv, LoadInv, CrawlInv, Run PROVE CrawlInv'
<1>1. /\ rules' = FileRulesOf(loaded) /\ todo' = AllPaths(rules')
      /\ pc' = IF rules' = <<>> THEN "idle" ELSE "assign"
      /\ pc = "load" /\ ruleFiles = <<>> /\ ~ err /\ loaded # <<>>
      /\ loaded' = loaded /\ ruleFiles' = ruleFiles /\ err' = err /\ config' = config
      /\ assigned' = assigned /\ file' = file /\ lines' = lines /\ events' = events
  BY DEF Run, Loaded, loadVars, inputVars
<1>2. assigned = NoRules /\ lines = <<>> /\ events = <<>> /\ file \in File
  BY <1>1 DEF CrawlInv, RunInv, CrawlTypeOK
<1>3. RulesOk(rules')
  BY <1>1, FileRulesAre DEF InputInv, LoadInv
<1>4. todo' \in Seq(PairOf(rules')) /\ NoRules \in [File -> Seq(ToSet(rules'))]
      /\ AssignOf(rules', todo', NoRules)
  BY <1>1, <1>2, <1>3, PathsTyped, AssignStarts
<1>5. CrawlTypeOK'
  BY <1>1, <1>2, <1>4, NoneTyped DEF CrawlTypeOK, PairOf
<1>6. RunInv'
  <2>1. pc' \in {"idle", "assign"}
    BY <1>1
  <2>2. FileRulesOf(loaded)' = FileRulesOf(loaded)
    BY <1>1 DEF FileRulesOf
  <2> QED
    BY <1>1, <1>3, <2>1, <2>2 DEF RunInv, Running
<1>7. AssignInv' /\ ReadInv' /\ OverlapIsHarmless'
  BY <1>1, <1>2, <1>4 DEF AssignInv, ReadInv, OverlapIsHarmless
<1> QED
  BY <1>5, <1>6, <1>7 DEF CrawlInv

\* A step of the crawl keeps RunInv.
LEMMA RunSame ==
    ASSUME RunInv, UNCHANGED <<rules, inputVars, loadVars>>, Running,
           pc' \in {"assign", "read", "send"}
    PROVE  RunInv'
<1>1. FileRulesOf(loaded)' = FileRulesOf(loaded)
  BY DEF FileRulesOf, loadVars
<1> QED
  BY <1>1 DEF RunInv, Running, loadVars, inputVars

LEMMA AssignStep ==
    ASSUME CrawlInv, AssignNext, UNCHANGED <<inputVars, loadVars>> PROVE CrawlInv'
<1>1. /\ pc = "assign" /\ todo # <<>> /\ todo' = Tail(todo)
      /\ assigned' = [f \in File |-> IF f \in todo[1][2] \ todo[1][1].excluded
                                     THEN Append(assigned[f], todo[1][1]) ELSE assigned[f]]
      /\ rules' = rules /\ pc' = pc /\ file' = file /\ lines' = lines /\ events' = events
  BY DEF AssignNext, Assign
<1>2. /\ RulesOk(rules) /\ File # {} /\ todo \in Seq(PairOf(rules))
      /\ assigned \in [File -> Seq(ToSet(rules))] /\ AssignOf(rules, todo, assigned)
      /\ lines = <<>> /\ events = <<>>
  BY <1>1 DEF CrawlInv, RunInv, AssignInv, CrawlTypeOK, PairOf
<1>3. /\ todo' \in Seq(PairOf(rules)) /\ assigned' \in [File -> Seq(ToSet(rules))]
      /\ AssignOf(rules, todo', assigned')
  BY <1>1, <1>2, AssignContinues
<1>4. CrawlTypeOK'
  BY <1>1, <1>3 DEF CrawlInv, CrawlTypeOK, PairOf
<1>5. RunInv'
  BY <1>1, RunSame DEF CrawlInv, Running
<1>6. AssignInv' /\ ReadInv' /\ OverlapIsHarmless'
  BY <1>1, <1>2, <1>3 DEF AssignInv, ReadInv, OverlapIsHarmless
<1> QED
  BY <1>4, <1>5, <1>6 DEF CrawlInv

LEMMA BeginStep ==
    ASSUME CrawlInv, Begin, UNCHANGED <<inputVars, loadVars>> PROVE CrawlInv'
<1>1. /\ pc = "assign" /\ todo = <<>> /\ file' \in File /\ pc' = "read"
      /\ rules' = rules /\ todo' = todo /\ assigned' = assigned
      /\ lines' = lines /\ events' = events
  BY DEF Begin
<1>2. RulesOk(rules) /\ AssignOf(rules, <<>>, assigned) /\ lines = <<>> /\ events = <<>>
  BY <1>1 DEF CrawlInv, RunInv, AssignInv
<1>3. CrawlTypeOK'
  BY <1>1 DEF CrawlInv, CrawlTypeOK
<1>4. RunInv'
  BY <1>1, RunSame DEF CrawlInv, Running
<1>5. Applicable' = Keep(rules, {r \in ToSet(rules) : AppliesTo(r, file')})
  BY <1>1 DEF Applicable, Applies, AppliesTo
<1>6. Alike(assigned'[file'], Applicable')
  <2>1. Alike(assigned[file'], Keep(rules, {r \in ToSet(rules) : AppliesTo(r, file')}))
    BY <1>1, <1>2, AssignEnds
  <2> QED
    BY <1>1, <1>5, <2>1
<1>7. Alike(events', EventsOfLines(Applicable', lines'))
  <2>1. EventsOfLines(Applicable', lines') = <<>>
    BY <1>1, <1>2, NoLines
  <2> QED
    BY <1>1, <1>2, <2>1 DEF Alike
<1>8. ReadInv'
  BY <1>6, <1>7 DEF ReadInv
<1> QED
  BY <1>1, <1>3, <1>4, <1>8 DEF CrawlInv, AssignInv, OverlapIsHarmless

LEMMA ReadStep ==
    ASSUME CrawlInv, NEW line \in Line, ReadLine(line), UNCHANGED <<inputVars, loadVars>>
    PROVE  CrawlInv'
<1>1. /\ pc = "read" /\ lines' = Append(lines, line) /\ Len(lines) < MaxLines
      /\ events' = events \o Parsed(assigned[file], line)
      /\ rules' = rules /\ pc' = pc /\ todo' = todo /\ assigned' = assigned /\ file' = file
  BY DEF ReadLine
<1>2. /\ RulesOk(rules) /\ assigned[file] \in Seq(ToSet(rules)) /\ lines \in Seq(Line)
      /\ events \in Seq(Event) /\ Alike(assigned[file], Applicable)
      /\ Alike(events, EventsOfLines(Applicable, lines))
  BY <1>1 DEF CrawlInv, CrawlTypeOK, RunInv, ReadInv
<1>3. Applicable \in Seq(ToSet(rules)) /\ Applicable' = Applicable
  BY <1>1, <1>2, ApplicableIs DEF Applicable, Applies
<1>4. /\ events' \in Seq(Event)
      /\ Alike(events', EventsOfLines(Applicable, lines'))
  BY <1>1, <1>2, <1>3, ReadContinues
<1>5. lines' \in Seq(Line) /\ Len(lines') <= MaxLines
  <2>1. Len(lines) \in Nat /\ Len(lines') = Len(lines) + 1 /\ lines' \in Seq(Line)
    BY <1>1, <1>2
  <2> QED
    BY <1>1, <2>1, FileRulesAssumption
<1>6. CrawlTypeOK'
  BY <1>1, <1>4, <1>5 DEF CrawlInv, CrawlTypeOK
<1>7. RunInv'
  BY <1>1, RunSame DEF CrawlInv, Running
<1>8. ReadInv'
  BY <1>1, <1>2, <1>3, <1>4 DEF ReadInv
<1> QED
  BY <1>1, <1>6, <1>7, <1>8 DEF CrawlInv, AssignInv, OverlapIsHarmless

LEMMA EndStep ==
    ASSUME CrawlInv, EndOfFile, UNCHANGED <<inputVars, loadVars>> PROVE CrawlInv'
<1>1. /\ pc = "read" /\ events' = Clean(events) /\ pc' = "send"
      /\ rules' = rules /\ todo' = todo /\ assigned' = assigned /\ file' = file /\ lines' = lines
  BY DEF EndOfFile
<1>2. /\ RulesOk(rules) /\ lines \in Seq(Line) /\ events \in Seq(Event)
      /\ Alike(events, EventsOfLines(Applicable, lines))
  BY <1>1 DEF CrawlInv, CrawlTypeOK, RunInv, ReadInv
<1>3. EventsOfLines(Applicable, lines) \in Seq(Event)
  <2>1. Applicable \in Seq(ToSet(rules))
    BY <1>2, ApplicableIs
  <2> DEFINE ss == [i \in 1 .. Len(lines) |-> Parsed(Applicable, lines[i])]
  <2>2. ss \in Seq(Seq(Event))
    BY <1>2, <2>1, LinesTyped DEF RulesOk
  <2> HIDE DEF ss
  <2>3. FlattenSeq(ss) \in Seq(Event)
    BY <2>2, FlattenLeads
  <2> QED
    BY <2>3 DEF EventsOfLines, ss
<1>4. Clean(events) \in Seq(Event) /\ Clean(events) = Clean(EventsOfLines(Applicable, lines))
  BY <1>2, <1>3, CleanLeads, CleanOfAlike
<1>5. CrawlTypeOK'
  BY <1>1, <1>4 DEF CrawlInv, CrawlTypeOK
<1>6. RunInv'
  BY <1>1, RunSame DEF CrawlInv, Running
<1>7. Applicable' = Applicable
  BY <1>1 DEF Applicable, Applies
<1>8. OverlapIsHarmless'
  <2>1. events' = Clean(EventsOfLines(Applicable', lines'))
    BY <1>1, <1>4, <1>7
  <2> QED
    BY <2>1 DEF OverlapIsHarmless, EventsOfLines
<1> QED
  BY <1>1, <1>5, <1>6, <1>8 DEF CrawlInv, AssignInv, ReadInv

LEMMA NextCrawlStep ==
    ASSUME CrawlInv, Send \/ NoFiles, UNCHANGED <<inputVars, loadVars>> PROVE CrawlInv'
<1>1. /\ pc \in {"send", "assign"} /\ pc' = "assign" /\ todo' = AllPaths(rules)
      /\ assigned' = NoRules /\ lines' = <<>> /\ events' = <<>> /\ rules' = rules /\ file' = file
  <2>1. CASE Send
    BY <2>1 DEF Send
  <2>2. CASE NoFiles
    BY <2>2 DEF NoFiles, CrawlInv, AssignInv
  <2> QED
    BY <2>1, <2>2
<1>2. RulesOk(rules) /\ file \in File
  BY DEF CrawlInv, RunInv, CrawlTypeOK
<1>3. /\ todo' \in Seq(PairOf(rules)) /\ assigned' \in [File -> Seq(ToSet(rules))]
      /\ AssignOf(rules, todo', assigned')
  BY <1>1, <1>2, PathsTyped, AssignStarts
<1>4. CrawlTypeOK'
  BY <1>1, <1>2, <1>3, NoneTyped DEF CrawlTypeOK, PairOf
<1>5. RunInv'
  BY <1>1, RunSame DEF CrawlInv, Running
<1>6. AssignInv'
  BY <1>1, <1>3 DEF AssignInv
<1> QED
  BY <1>1, <1>4, <1>5, <1>6 DEF CrawlInv, ReadInv, OverlapIsHarmless

LEMMA StepKeepsInv == Inv /\ [Next]_vars => Inv'
<1> SUFFICES ASSUME Inv, [Next]_vars PROVE Inv'
  OBVIOUS
<1>0. InputInv /\ Suffix /\ LoadInv /\ CrawlInv /\ RunInv
  BY DEF Inv, CrawlInv
<1>1. CASE LoadMain
  <2>1. InputInv' /\ Suffix' /\ LoadInv'
    BY <1>0, <1>1, LoadMainStep
  <2>2. /\ pc = "main" /\ pc' = "load"
        /\ UNCHANGED <<rules, todo, assigned, file, lines, events>>
    BY <1>1 DEF LoadMain
  <2>3. RunInv'
    BY <1>0, <2>2 DEF RunInv, Running
  <2> QED
    BY <1>0, <2>1, <2>2, <2>3, CrawlSame DEF Inv
<1>2. CASE LoadRule
  <2>1. InputInv' /\ Suffix' /\ LoadInv'
    BY <1>0, <1>2, LoadRuleStep
  <2>2. /\ pc = "load" /\ pc' = pc
        /\ UNCHANGED <<rules, todo, assigned, file, lines, events>>
    BY <1>2 DEF LoadRule, crawlVars
  <2>3. RunInv'
    BY <1>0, <2>2 DEF RunInv, Running
  <2> QED
    BY <1>0, <2>1, <2>2, <2>3, CrawlSame DEF Inv
<1>3. CASE Exit
  <2>1. /\ pc = "load" /\ pc' = "exited" /\ ruleFiles = <<>> /\ (err \/ loaded = <<>>)
        /\ UNCHANGED <<rules, todo, assigned, file, lines, events>>
        /\ UNCHANGED <<config, loadVars>> /\ UNCHANGED <<inputVars, loadVars>>
    BY <1>3 DEF Exit, Loaded, inputVars
  <2>2. Suffix' /\ LoadInv'
    BY <1>0, <2>1, LoadSame
  <2>3. InputInv'
    BY <1>0, <2>1 DEF InputInv, inputVars, loadVars
  <2>4. RunInv'
    BY <1>0, <2>1 DEF RunInv, Running, loadVars
  <2> QED
    BY <1>0, <2>1, <2>2, <2>3, <2>4, CrawlSame DEF Inv
<1>4. CASE Run
  <2>1. /\ pc = "load" /\ pc' \in {"idle", "assign"}
        /\ UNCHANGED <<config, loadVars>> /\ UNCHANGED <<inputVars, loadVars>>
    BY <1>4 DEF Run, Loaded, inputVars
  <2>2. Suffix' /\ LoadInv'
    BY <1>0, <2>1, LoadSame
  <2>3. InputInv'
    BY <1>0, <2>1 DEF InputInv, inputVars, loadVars
  <2>4. CrawlInv'
    BY <1>0, <1>4, RunStep
  <2> QED
    BY <2>2, <2>3, <2>4 DEF Inv
<1>5. CASE TickerPanics
  <2>1. /\ Running /\ pc' = "exited" /\ pc # "main" /\ timeout <= 0
        /\ UNCHANGED <<rules, todo, assigned, file, lines, events>>
        /\ UNCHANGED <<config, loadVars>> /\ UNCHANGED <<inputVars, loadVars>>
    <3>1. timeout \in Int
      BY <1>0, StartupAssumption DEF InputInv
    <3> QED
      BY <1>5, <3>1 DEF TickerPanics, Running, inputVars, IdleTimeout
  <2>2. Suffix' /\ LoadInv'
    BY <1>0, <2>1, LoadSame
  <2>3. InputInv'
    BY <1>0, <2>1 DEF InputInv, inputVars, loadVars
  <2>4. RunInv'
    BY <1>0, <2>1 DEF RunInv, Running, inputVars
  <2> QED
    BY <1>0, <2>1, <2>2, <2>3, <2>4, CrawlSame DEF Inv
<1>6. CASE Crawl
  <2>1. CrawlNext /\ UNCHANGED <<inputVars, loadVars>> /\ UNCHANGED <<config, loadVars>>
    BY <1>6 DEF Crawl, inputVars
  <2>2. pc \in {"assign", "read", "send"} /\ pc' \in {"assign", "read", "send"}
    BY <2>1 DEF CrawlNext, AssignNext, Begin, NoFiles, ReadLine, EndOfFile, Send
  <2>3. Suffix' /\ LoadInv'
    BY <1>0, <2>1, <2>2, LoadSame
  <2>4. InputInv'
    BY <1>0, <2>1, <2>2 DEF InputInv, inputVars, loadVars
  <2>5. CrawlInv'
    <3>1. CASE AssignNext
      BY <1>0, <2>1, <3>1, AssignStep
    <3>2. CASE Begin
      BY <1>0, <2>1, <3>2, BeginStep
    <3>3. CASE NoFiles
      BY <1>0, <2>1, <3>3, NextCrawlStep
    <3>4. CASE \E line \in Line : ReadLine(line)
      BY <1>0, <2>1, <3>4, ReadStep
    <3>5. CASE EndOfFile
      BY <1>0, <2>1, <3>5, EndStep
    <3>6. CASE Send
      BY <1>0, <2>1, <3>6, NextCrawlStep
    <3> QED
      BY <2>1, <3>1, <3>2, <3>3, <3>4, <3>5, <3>6 DEF CrawlNext
  <2> QED
    BY <2>3, <2>4, <2>5 DEF Inv
<1>7. CASE UNCHANGED vars
  <2>1. /\ UNCHANGED crawlVars /\ UNCHANGED <<inputVars, loadVars>>
        /\ UNCHANGED <<config, loadVars>> /\ pc' = pc
    BY <1>7 DEF vars, crawlVars, inputVars
  <2>2. Suffix' /\ LoadInv'
    BY <1>0, <2>1, LoadSame
  <2>3. InputInv'
    BY <1>0, <2>1 DEF InputInv, inputVars, loadVars
  <2>4. FileRulesOf(loaded)' = FileRulesOf(loaded) /\ Applicable' = Applicable
    BY <2>1 DEF FileRulesOf, loadVars, Applicable, Applies, crawlVars
  <2>5. CrawlTypeOK' /\ RunInv' /\ AssignInv'
    BY <1>0, <2>1, <2>4 DEF CrawlInv, CrawlTypeOK, RunInv, Running, AssignInv, crawlVars,
                            inputVars, loadVars
  <2>6. ReadInv'
    BY <1>0, <2>1, <2>4 DEF CrawlInv, ReadInv, crawlVars
  <2>7. OverlapIsHarmless'
    BY <1>0, <2>1 DEF CrawlInv, OverlapIsHarmless, crawlVars, Applicable, Applies
  <2> QED
    BY <2>2, <2>3, <2>5, <2>6, <2>7 DEF Inv, CrawlInv
<1> QED
  BY <1>1, <1>2, <1>3, <1>4, <1>5, <1>6, <1>7 DEF Next, NoCrawler

LEMMA InvHolds == Spec => []Inv
<1>1. Init => Inv
  BY LoadInit, CrawlStarts DEF Inv
<1> QED
  BY <1>1, StepKeepsInv, PTL DEF Spec

-----------------------------------------------------------------------------
(* The theorems.                                                           *)

LEMMA SuffixIs ==
    ASSUME config \in Configs, Suffix PROVE IsSuffix(ruleFiles, config.files)
<1> DEFINE s == ruleFiles
           t == config.files
           rs == Reverse(s)
           rt == Reverse(t)
<1>1. /\ s \in Seq(Files) /\ t \in Seq(Files) /\ Len(s) \in Nat /\ Len(t) \in Nat /\ Len(s) <= Len(t)
      /\ \A i \in 1 .. Len(s) : s[i] = t[Len(t) - Len(s) + i]
  BY FilesAre, LenProperties DEF Suffix, Done
<1>2. rs = [i \in 1 .. Len(s) |-> s[Len(s) - i + 1]] /\ rt = [i \in 1 .. Len(t) |-> t[Len(t) - i + 1]]
  BY DEF Reverse
<1> HIDE DEF s, t, rs, rt
<1>3. \A i \in 1 .. Len(s) : Len(s) - i + 1 \in 1 .. Len(s)
  BY <1>1
<1>4. \A i \in 1 .. Len(t) : Len(t) - i + 1 \in 1 .. Len(t)
  BY <1>1
<1>5. rs \in Seq(Files) /\ rt \in Seq(Files)
  <2>1. \A i \in 1 .. Len(s) : s[Len(s) - i + 1] \in Files
    BY <1>1, <1>3, ElementOfSeq
  <2>2. \A i \in 1 .. Len(t) : t[Len(t) - i + 1] \in Files
    BY <1>1, <1>4, ElementOfSeq
  <2>3. rs \in [1 .. Len(s) -> Files] /\ rt \in [1 .. Len(t) -> Files]
    BY <1>2, <2>1, <2>2
  <2>4. rs \in Seq(Files)
    BY <1>1, <2>3, SeqDef
  <2>5. rt \in Seq(Files)
    BY <1>1, <2>3, SeqDef
  <2> QED
    BY <2>4, <2>5
<1>6. Len(rs) = Len(s) /\ Len(rt) = Len(t)
  <2>1. DOMAIN rs = 1 .. Len(s) /\ DOMAIN rt = 1 .. Len(t)
    BY <1>2
  <2>2. DOMAIN rs = 1 .. Len(rs) /\ DOMAIN rt = 1 .. Len(rt) /\ Len(rs) \in Nat /\ Len(rt) \in Nat
    BY <1>5, LenProperties
  <2> QED
    BY <1>1, <2>1, <2>2
<1>7. ASSUME NEW i \in 1 .. Len(s) PROVE rs[i] = rt[i]
  <2>1. /\ i \in 1 .. Len(t) /\ Len(s) - i + 1 \in 1 .. Len(s)
        /\ Len(t) - Len(s) + (Len(s) - i + 1) = Len(t) - i + 1
    BY <1>1
  <2>2. s[Len(s) - i + 1] = t[Len(t) - i + 1]
    BY <1>1, <2>1
  <2> QED
    BY <1>2, <2>1, <2>2
<1>8. SubSeq(rs, 1, Len(rs)) = SubSeq(rt, 1, Len(rs))
  <2> DEFINE a == SubSeq(rs, 1, Len(s))
             b == SubSeq(rt, 1, Len(s))
  <2>1. /\ a \in Seq(Files) /\ Len(a) = Len(s)
        /\ \A i \in 1 .. Len(s) : a[i] = rs[i]
    <3>1. (\A i \in 1 .. Len(s) : rs[i] \in Files) /\ 1 \in Int /\ Len(s) \in Int
      BY <1>1, <1>5, <1>6, ElementOfSeq
    <3>2. /\ a \in Seq(Files) /\ Len(a) = IF 1 <= Len(s) THEN Len(s) - 1 + 1 ELSE 0
          /\ \A i \in 1 .. Len(s) - 1 + 1 : a[i] = rs[1 + i - 1]
      BY <3>1, SubSeqProperties
    <3> HIDE DEF a
    <3> QED
      BY <1>1, <3>2
  <2>2. /\ b \in Seq(Files) /\ Len(b) = Len(s)
        /\ \A i \in 1 .. Len(s) : b[i] = rt[i]
    <3>1. \A i \in 1 .. Len(s) : i \in 1 .. Len(rt)
      BY <1>1, <1>6
    <3>2. (\A i \in 1 .. Len(s) : rt[i] \in Files) /\ 1 \in Int /\ Len(s) \in Int
      BY <1>1, <1>5, <3>1, ElementOfSeq
    <3>3. /\ b \in Seq(Files) /\ Len(b) = IF 1 <= Len(s) THEN Len(s) - 1 + 1 ELSE 0
          /\ \A i \in 1 .. Len(s) - 1 + 1 : b[i] = rt[1 + i - 1]
      BY <3>2, SubSeqProperties
    <3> HIDE DEF b
    <3> QED
      BY <1>1, <3>3
  <2> HIDE DEF a, b
  <2>3. a = b
    BY <1>7, <2>1, <2>2, SeqEqual
  <2> QED
    BY <1>6, <2>3 DEF a, b
<1>9. IsPrefix(rs, rt)
  BY <1>1, <1>6, <1>8 DEF IsPrefix
<1> QED
  BY <1>9 DEF IsSuffix, rs, rt, s, t

\* Every variable keeps its type: what is still to be loaded is the end of the rule
\* files, no more rules are loaded than files were looked at, and each has an event
\* (config.go).
THEOREM TypeCorrect == Spec => []TypeOK
<1>1. Inv => TypeOK
  <2> SUFFICES ASSUME Inv PROVE TypeOK
    OBVIOUS
  <2>1. InputInv /\ Suffix /\ LoadInv /\ CrawlTypeOK
    BY DEF Inv, CrawlInv
  <2>2. IsSuffix(ruleFiles, config.files)
    BY <2>1, SuffixIs DEF InputInv
  <2>3. ASSUME NEW i \in DOMAIN loaded PROVE Len(loaded[i].rule.events) > 0
    <3>1. loaded[i] \in Entries
      BY <2>1, LenProperties, ElementOfSeq DEF LoadInv
    <3>2. PICK f \in Files : Usable(f) /\ loaded[i] = Entry(f)
      BY <3>1 DEF Entries
    <3>3. loaded[i].rule.events = EventsOf(f)
      BY <3>2 DEF Entry, RuleOf
    <3>4. EventsOf(f) # <<>>
      BY <3>2 DEF Usable
    <3> DEFINE s == EventsOf(f)
    <3>5. s \in Seq(ToSet(s)) /\ s # <<>> /\ loaded[i].rule.events = s
      BY <2>1, <3>3, <3>4, EventsOfIs DEF InputInv
    <3> HIDE DEF s
    <3>6. Len(s) \in Nat \ {0}
      BY <3>5, EmptySeq
    <3> QED
      BY <3>5, <3>6
  <2> QED
    BY <2>1, <2>2, <2>3 DEF TypeOK, InputInv, LoadInv, Done
<1> QED
  BY <1>1, InvHolds, PTL

\* When the loading is over: the error is that of the main file, of a directory, or
\* of the last readable rule file, and what is loaded is what counts.
LEMMA LoadedAll ==
    ASSUME Inv, pc # "main", ruleFiles = <<>>
    PROVE  /\ err <=> ~ MainRead \/ BadDeadtime(Len(config.files))
           /\ MainRead => ToSet(loaded) = Entries
           /\ MainRead => (loaded = <<>> <=> ~ \E f \in Files : Usable(f))
<1> DEFINE n == Len(config.files)
<1>1. InputInv /\ LoadInv /\ config \in Configs
  BY DEF Inv, InputInv
<1>2. n \in Nat /\ DOMAIN config.files = 1 .. n /\ Len(<<>>) = 0
  BY <1>1, FilesAre, LenProperties
<1>3. Done = n
  BY <1>2 DEF Done
<1>4. err <=> ~ MainRead \/ BadDeadtime(n)
  BY <1>1, <1>3 DEF LoadInv
<1>5. ASSUME MainRead PROVE ToSet(loaded) = Entries
  <2>1. ToSet(loaded) \subseteq Entries
    BY <1>1, ToSetIs DEF LoadInv
  <2>2. ASSUME NEW f \in Files, Usable(f) PROVE Entry(f) \in ToSet(loaded)
    <3>1. PICK i \in 1 .. n : f = config.files[i]
      BY <1>2 DEF Files, ToSet
    <3>2. i \in 1 .. Done
      BY <1>3
    <3> QED
      BY <1>1, <1>5, <2>2, <3>1, <3>2 DEF LoadInv
  <2> QED
    BY <2>1, <2>2 DEF Entries
<1>6. ASSUME MainRead PROVE loaded = <<>> <=> ~ \E f \in Files : Usable(f)
  <2>1. loaded = <<>> <=> ToSet(loaded) = {}
    BY <1>1, EmptyIs DEF LoadInv
  <2> QED
    BY <1>5, <1>6, <2>1 DEF Entries
<1> QED
  BY <1>4, <1>5, <1>6

\* The agent ends exactly for one of its causes, and never with rules that count and
\* a good last deadtime: errors of earlier files are forgotten (config.go, program.go).
THEOREM ExitHasItsCause == Spec => []ExitHasCause
<1>1. Inv => ExitHasCause
  <2> SUFFICES ASSUME Inv PROVE ExitHasCause
    OBVIOUS
  <2> DEFINE n == Len(config.files)
             SomeCounts == \E i \in DOMAIN config.files : Counts(config.files[i])
             LastGood == \A i \in DOMAIN config.files :
                            IsLastReadable(i) => config.files[i].deadtimeOk
             MayRun == config.mainOk /\ config.dirOk /\ SomeCounts /\ LastGood
  <2>1. config \in Configs /\ InputInv /\ RunInv
    BY DEF Inv, InputInv, CrawlInv
  <2>2. n \in Nat /\ DOMAIN config.files = 1 .. n
    BY <2>1, FilesAre, LenProperties
  <2>3. SomeCounts <=> \E f \in Files : Usable(f)
    <3>1. Files = {config.files[i] : i \in DOMAIN config.files}
      BY DEF Files, ToSet
    <3> QED
      BY <2>1, <3>1, UsableCounts
  <2>4. LastGood <=> ~ BadDeadtime(n)
    BY <2>2 DEF BadDeadtime, IsLastReadable
  <2> HIDE DEF SomeCounts, LastGood, n
  <2>5. ASSUME pc = "exited", timeout > 0 PROVE ~ MayRun
    <3>1. timeout \in Int
      BY <2>1, StartupAssumption DEF InputInv
    <3>2. ruleFiles = <<>> /\ (err \/ loaded = <<>>)
      BY <2>1, <2>5, <3>1 DEF RunInv
    <3> QED
      BY <2>3, <2>4, <2>5, <3>2, LoadedAll DEF MainRead, n
  <2>6. ASSUME Running PROVE MayRun
    <3>1. ruleFiles = <<>> /\ ~ err /\ loaded # <<>> /\ pc # "main"
      BY <2>1, <2>6 DEF RunInv, Running
    <3> QED
      BY <2>3, <2>4, <3>1, LoadedAll DEF MainRead, n
  <2>7. pc = "exited" => ~ MayRun \/ timeout <= 0
    <3>1. timeout \in Int
      BY <2>1, StartupAssumption DEF InputInv
    <3> QED
      BY <2>5, <3>1
  <2> QED
    BY <2>6, <2>7 DEF ExitHasCause, Running, SomeCounts, LastGood
<1> QED
  BY <1>1, InvHolds, PTL

\* Overlapping paths do no harm: what is sent, and its order, is as if each rule
\* had been assigned to the file once (crawler_files.go, utils.go).
THEOREM OverlapDoesNoHarm == Spec => []OverlapIsHarmless
<1>1. Inv => OverlapIsHarmless
  BY DEF Inv, CrawlInv
<1> QED
  BY <1>1, InvHolds, PTL

LEMMA FlattenIs ==
    ASSUME NEW X, NEW ss \in Seq(Seq(X)), NEW x
    PROVE  x \in ToSet(FlattenSeq(ss)) <=> \E i \in 1 .. Len(ss) : x \in ToSet(ss[i])
<1> DEFINE L == {s \in Seq(X) : Leads(s, {x}, {})}
<1>1. \A i \in 1 .. Len(ss) : ss[i] \in Seq(X)
  BY ElementOfSeq
<1>2. FlattenSeq(ss) \in Seq(X)
      /\ (Leads(FlattenSeq(ss), {x}, {}) <=> Leads(ss, L, {s \in Seq(X) : Leads(s, {}, {})}))
  BY FlattenLeads
<1>3. {s \in Seq(X) : Leads(s, {}, {})} = {}
  BY DEF Leads
<1>4. Leads(FlattenSeq(ss), {x}, {}) <=> Leads(ss, L, {})
  BY <1>2, <1>3, Zenon
<1>5. x \in ToSet(FlattenSeq(ss)) <=> Leads(FlattenSeq(ss), {x}, {})
  BY <1>2, LeadsIsIn
<1>6. \A i \in 1 .. Len(ss) : ss[i] \in L <=> x \in ToSet(ss[i])
  BY <1>1, LeadsIsIn
<1> HIDE DEF L
<1>7. Leads(ss, L, {}) <=> \E i \in 1 .. Len(ss) : ss[i] \in L
  BY DEF Leads
<1> QED
  BY <1>4, <1>5, <1>6, <1>7

LEMMA ParsedIs ==
    ASSUME NEW R, \A r \in R : IsRule(r), NEW rs \in Seq(R), NEW l \in Line, NEW x
    PROVE  x \in ToSet(Parsed(rs, l))
              <=> \E r \in ToSet(rs) : \E f \in ToSet(r.events) : Gives(f, l) /\ x = EventOf(f, l)
<1>1. Parsed(rs, l) \in Seq(Event) /\ \A r \in ToSet(rs) : r \in R
  BY ParsedLeads, ToSetIs
<1>2. x \in ToSet(Parsed(rs, l)) <=> Leads(Parsed(rs, l), {x}, {})
  BY <1>1, LeadsIsIn
<1> DEFINE RX == {r \in R : Leads(ParseLine(r, l), {x}, {})}
<1>3. Leads(Parsed(rs, l), {x}, {}) <=> Leads(rs, RX, {})
  <2>1. Leads(Parsed(rs, l), {x}, {})
           <=> Leads(rs, RX, {r \in R : Leads(ParseLine(r, l), {}, {})})
    <3> DEFINE A == {x}
               B == {}
               RA == {r \in R : Leads(ParseLine(r, l), A, B)}
               RB == {r \in R : Leads(ParseLine(r, l), B, {})}
    <3> HIDE DEF A, B
    <3>1. Leads(Parsed(rs, l), A, B) <=> Leads(rs, RA, RB)
      BY ParsedLeads
    <3> QED
      BY <3>1, Zenon DEF A, B
  <2>2. {r \in R : Leads(ParseLine(r, l), {}, {})} = {}
    BY DEF Leads
  <2> QED
    BY <2>1, <2>2, Zenon
<1>4. ASSUME NEW r \in R
      PROVE  r \in RX <=> \E f \in ToSet(r.events) : Gives(f, l) /\ x = EventOf(f, l)
  <2>1. /\ ParseLine(r, l) \in Seq(Event)
        /\ ToSet(ParseLine(r, l)) =
              {EventOf(f, l) : f \in {y \in ToSet(r.events) : Gives(y, l)}}
    BY ParseLineIs
  <2>2. Leads(ParseLine(r, l), {x}, {}) <=> x \in ToSet(ParseLine(r, l))
    BY <2>1, LeadsIsIn
  <2> QED
    BY <2>1, <2>2
<1> HIDE DEF RX
<1>5. Leads(rs, RX, {}) <=> \E r \in ToSet(rs) : r \in RX
  <2>1. DOMAIN rs = 1 .. Len(rs)
    BY LenProperties
  <2> QED
    BY <2>1 DEF Leads, ToSet
<1> QED
  BY <1>1, <1>2, <1>3, <1>4, <1>5

LEMMA EventsOfLinesAre ==
    ASSUME NEW R, \A r \in R : IsRule(r), NEW rs \in Seq(R), NEW ls \in Seq(Line), NEW x
    PROVE  /\ EventsOfLines(rs, ls) \in Seq(Event)
           /\ x \in ToSet(EventsOfLines(rs, ls))
                 <=> \E l \in ToSet(ls), r \in ToSet(rs) :
                        \E f \in ToSet(r.events) : Gives(f, l) /\ x = EventOf(f, l)
<1> DEFINE ss == [i \in 1 .. Len(ls) |-> Parsed(rs, ls[i])]
<1>1. ss \in Seq(Seq(Event)) /\ Len(ss) = Len(ls)
  BY LinesTyped
<1>2. \A i \in 1 .. Len(ls) : ss[i] = Parsed(rs, ls[i]) /\ ls[i] \in Line
  BY ElementOfSeq
<1>3. EventsOfLines(rs, ls) = FlattenSeq(ss)
  BY DEF EventsOfLines
<1> HIDE DEF ss
<1>4. FlattenSeq(ss) \in Seq(Event)
      /\ (x \in ToSet(FlattenSeq(ss)) <=> \E i \in 1 .. Len(ss) : x \in ToSet(ss[i]))
  BY <1>1, FlattenLeads, FlattenIs
<1>5. x \in ToSet(FlattenSeq(ss)) <=> \E i \in 1 .. Len(ls) : x \in ToSet(Parsed(rs, ls[i]))
  BY <1>1, <1>2, <1>4
<1>6. \A i \in 1 .. Len(ls) :
         x \in ToSet(Parsed(rs, ls[i]))
            <=> \E r \in ToSet(rs) : \E f \in ToSet(r.events) :
                   Gives(f, ls[i]) /\ x = EventOf(f, ls[i])
  BY <1>2, ParsedIs
<1>7. ToSet(ls) = {ls[i] : i \in 1 .. Len(ls)}
  BY ToSetIs
<1> QED
  BY <1>3, <1>4, <1>5, <1>6, <1>7

\* What is sent is what the configuration asks for, each event once: no bad file,
\* event or line costs another one its events (config.go, crawler_files.go).
THEOREM SentIsWhatIsAskedFor == Spec => []SentIsWhatMatches
<1>1. Inv => SentIsWhatMatches
  <2> SUFFICES ASSUME Inv, pc = "send"
               PROVE  /\ ToSet(events) =
                            UNION {{[sid |-> e.sid, ip |-> l.ip, time |-> l.time] :
                                       e \in {x \in ToSet(f.events) : Declared(f, x, l)}} :
                                   f \in ToSet(config.files), l \in ToSet(lines)}
                      /\ IsInjective(events)
    BY DEF SentIsWhatMatches
  <2>1. /\ config \in Configs /\ InputInv /\ RunInv /\ LoadInv /\ RulesOk(rules)
        /\ lines \in Seq(Line) /\ file \in File /\ OverlapIsHarmless
    BY DEF Inv, InputInv, CrawlInv, CrawlTypeOK, RunInv
  <2>2. ruleFiles = <<>> /\ ~ err /\ rules = FileRulesOf(loaded) /\ loaded \in Seq(Entries)
    BY <2>1 DEF RunInv, Running, LoadInv
  <2>3. ToSet(loaded) = Entries
    BY <2>2, LoadedAll
  <2>4. ASSUME NEW r
        PROVE  r \in ToSet(rules)
                  <=> \E f \in Files : Usable(f) /\ f.source # "wineventlog" /\ r = RuleOf(f)
    <3>1. ToSet(rules) = {l.rule : l \in {x \in Entries : x.source # "wineventlog"}}
      BY <2>1, <2>2, <2>3, FileRulesAre
    <3>2. r \in ToSet(rules) <=> \E l \in Entries : l.source # "wineventlog" /\ r = l.rule
      BY <3>1
    <3>3. \A l : l \in Entries <=> \E f \in Files : Usable(f) /\ l = Entry(f)
      BY DEF Entries
    <3>4. \A f : Entry(f).source = f.source /\ Entry(f).rule = RuleOf(f)
      BY DEF Entry
    <3> QED
      BY <3>2, <3>3, <3>4
  <2>5. ASSUME NEW r
        PROVE  r \in ToSet(Applicable)
                  <=> \E f \in Files : /\ Usable(f) /\ f.source # "wineventlog" /\ r = RuleOf(f)
                                       /\ AppliesTo(r, file)
    <3> DEFINE S == {y \in ToSet(rules) : AppliesTo(y, file)}
    <3>1. ToSet(Keep(rules, S)) = ToSet(rules) \cap S
      <4> HIDE DEF S
      <4> QED
        BY <2>1, KeepIs DEF RulesOk
    <3>2. Applicable = Keep(rules, S)
      BY ApplicableIs
    <3>3. r \in ToSet(Applicable) <=> r \in ToSet(rules) /\ AppliesTo(r, file)
      BY <3>1, <3>2
    <3> QED
      BY <2>4, <3>3
  <2>6. Applicable \in Seq(ToSet(rules)) /\ \A r \in ToSet(rules) : IsRule(r)
    BY <2>1, ApplicableIs DEF RulesOk
  <2> DEFINE evs == EventsOfLines(Applicable, lines)
  <2>7. events = Clean(evs)
    BY <2>1 DEF OverlapIsHarmless, EventsOfLines
  <2>8. evs \in Seq(Event)
    BY <2>1, <2>6, EventsOfLinesAre
  <2>9. Clean(evs) \in Seq(Event) /\ IsInjective(Clean(evs)) /\ Alike(Clean(evs), evs)
    <3> HIDE DEF evs
    <3> QED
      BY <2>8, CleanLeads
  <2>10. ASSUME NEW f \in Files, NEW e, NEW l \in Line
         PROVE  Declared(f, e, l)
                   <=> /\ Usable(f) /\ f.source # "wineventlog" /\ AppliesTo(RuleOf(f), file)
                       /\ e.regexOk /\ Gives(Compiled(e), l)
    <3>1. Usable(f) <=> Counts(f)
      BY <2>1, UsableCounts
    <3>2. AppliesTo(RuleOf(f), file)
             <=> file \notin f.excludeFiles /\ \E i \in DOMAIN f.paths : file \in f.paths[i]
      <4>1. DOMAIN f.paths = 1 .. Len(f.paths)
        <5> DEFINE p == f.paths
        <5>1. p \in Seq(SUBSET File)
          BY <2>1, FilesAre
        <5> HIDE DEF p
        <5>2. DOMAIN p = 1 .. Len(p)
          BY <5>1, LenProperties
        <5> QED
          BY <5>2 DEF p
      <4> QED
        BY <4>1 DEF AppliesTo, RuleOf
    <3>3. Gives(Compiled(e), l)
             <=> /\ l.kind \in e.kinds /\ l.time # BadTime
                 /\ \A y \in e.exclude \ {Bad} : l.ip \notin y
      BY DEF Gives, Matches, Excluded, Compiled
    <3> QED
      BY <3>1, <3>2, <3>3 DEF Declared
  <2>11. ASSUME NEW x
         PROVE  x \in ToSet(events)
                   <=> \E f \in Files, l \in ToSet(lines) :
                          \E e \in ToSet(f.events) :
                             /\ Declared(f, e, l)
                             /\ x = [sid |-> e.sid, ip |-> l.ip, time |-> l.time]
    <3>1. x \in ToSet(events) <=> x \in ToSet(evs)
      <4>1. x \in ToSet(Clean(evs)) <=> Leads(Clean(evs), {x}, {})
        <5> DEFINE c == Clean(evs)
        <5>1. c \in Seq(Event)
          BY <2>9
        <5> HIDE DEF c
        <5>2. x \in ToSet(c) <=> Leads(c, {x}, {})
          BY <5>1, LeadsIsIn
        <5> QED
          BY <5>2 DEF c
      <4> HIDE DEF evs
      <4>2. x \in ToSet(evs) <=> Leads(evs, {x}, {})
        BY <2>8, LeadsIsIn
      <4>3. Leads(Clean(evs), {x}, {}) <=> Leads(evs, {x}, {})
        BY <2>9 DEF Alike
      <4> QED
        BY <2>7, <4>1, <4>2, <4>3
    <3>2. x \in ToSet(evs)
             <=> \E l \in ToSet(lines), r \in ToSet(Applicable) :
                    \E g \in ToSet(r.events) : Gives(g, l) /\ x = EventOf(g, l)
      BY <2>1, <2>6, EventsOfLinesAre
    <3>3. ASSUME NEW f \in Files, Usable(f), NEW g
          PROVE  g \in ToSet(RuleOf(f).events)
                    <=> \E e \in ToSet(f.events) : e.regexOk /\ g = Compiled(e)
      <4>1. RuleOf(f).events = EventsOf(f) /\ EventsOf(f) # <<>>
        BY <3>3 DEF RuleOf, Usable
      <4>2. Enabled(f)
        BY <4>1 DEF EventsOf
      <4>3. ToSet(EventsOf(f)) = {Compiled(e) : e \in {y \in ToSet(f.events) : y.regexOk}}
        BY <2>1, <4>2, EventsOfIs
      <4> QED
        BY <4>1, <4>3
    <3>4. \A l \in ToSet(lines) : l \in Line
      BY <2>1, ToSetIs
    <3>5. ASSUME NEW e, NEW l
          PROVE  EventOf(Compiled(e), l) = [sid |-> e.sid, ip |-> l.ip, time |-> l.time]
      BY DEF EventOf, Compiled
    <3> HIDE DEF evs
    <3>6. ASSUME NEW l \in ToSet(lines), NEW r \in ToSet(Applicable), NEW g \in ToSet(r.events),
                 Gives(g, l), x = EventOf(g, l)
          PROVE  \E f \in Files : \E e \in ToSet(f.events) :
                    Declared(f, e, l) /\ x = [sid |-> e.sid, ip |-> l.ip, time |-> l.time]
      <4>1. PICK f \in Files : /\ Usable(f) /\ f.source # "wineventlog" /\ r = RuleOf(f)
                               /\ AppliesTo(r, file)
        BY <2>5
      <4>2. PICK e \in ToSet(f.events) : e.regexOk /\ g = Compiled(e)
        BY <3>3, <4>1
      <4>3. Declared(f, e, l)
        BY <2>10, <3>4, <3>6, <4>1, <4>2
      <4>4. x = [sid |-> e.sid, ip |-> l.ip, time |-> l.time]
        BY <3>5, <3>6, <4>2
      <4> QED
        BY <4>3, <4>4
    <3>7. ASSUME NEW f \in Files, NEW l \in ToSet(lines), NEW e \in ToSet(f.events),
                 Declared(f, e, l), x = [sid |-> e.sid, ip |-> l.ip, time |-> l.time]
          PROVE  \E r \in ToSet(Applicable) : \E g \in ToSet(r.events) :
                    Gives(g, l) /\ x = EventOf(g, l)
      <4>1. /\ Usable(f) /\ f.source # "wineventlog" /\ AppliesTo(RuleOf(f), file)
            /\ e.regexOk /\ Gives(Compiled(e), l)
        BY <2>10, <3>4, <3>7
      <4>2. RuleOf(f) \in ToSet(Applicable)
        BY <2>5, <4>1
      <4>3. Compiled(e) \in ToSet(RuleOf(f).events)
        BY <3>3, <4>1
      <4>4. x = EventOf(Compiled(e), l)
        BY <3>5, <3>7
      <4> QED
        BY <4>1, <4>2, <4>3, <4>4
    <3>8. x \in ToSet(evs) <=> \E f \in Files, l \in ToSet(lines) :
                                  \E e \in ToSet(f.events) :
                                     /\ Declared(f, e, l)
                                     /\ x = [sid |-> e.sid, ip |-> l.ip, time |-> l.time]
      BY <3>2, <3>6, <3>7
    <3> QED
      BY <3>1, <3>8
  <2>12. ToSet(events) = UNION {{[sid |-> e.sid, ip |-> l.ip, time |-> l.time] :
                                    e \in {x \in ToSet(f.events) : Declared(f, x, l)}} :
                                f \in ToSet(config.files), l \in ToSet(lines)}
    <3> DEFINE Ev(e, l) == [sid |-> e.sid, ip |-> l.ip, time |-> l.time]
               Of(f, l) == {Ev(e, l) : e \in {x \in ToSet(f.events) : Declared(f, x, l)}}
    <3>1. \A x : x \in ToSet(events)
                    <=> \E f \in Files, l \in ToSet(lines) :
                           \E e \in ToSet(f.events) : Declared(f, e, l) /\ x = Ev(e, l)
      BY <2>11
    <3> HIDE DEF Ev
    <3>2. \A x : x \in ToSet(events)
                    <=> \E f \in Files, l \in ToSet(lines) : x \in Of(f, l)
      BY <3>1
    <3> DEFINE L == ToSet(lines)
               U == UNION {Of(f, l) : f \in Files, l \in L}
    <3> HIDE DEF Of, L
    <3>3. \A x : x \in U <=> \E f \in Files, l \in L : x \in Of(f, l)
      OBVIOUS
    <3> HIDE DEF U
    <3>4. ToSet(events) = U
      BY <3>2, <3>3 DEF L
    <3> QED
      BY <3>4 DEF Files, Ev, U, Of, L
  <2> QED
    BY <2>7, <2>9, <2>12
<1> QED
  BY <1>1, InvHolds, PTL

-----------------------------------------------------------------------------
(* The decoder.                                                            *)

\* Where the characters end.
FormatOk == /\ charset \in {"windows-1252"} \cup DOMAIN Bom
            /\ bom \in BOOLEAN
            /\ bom => charset \in DOMAIN Bom

LEMMA BomIs ==
    /\ DOMAIN Bom = {"utf-8", "utf-16le", "utf-16be", "utf-32le", "utf-32be"}
    /\ Bom["utf-8"] = <<"EF", "BB", "BF">>
    /\ Bom["utf-16le"] = <<"FF", "FE">>
    /\ Bom["utf-16be"] = <<"FE", "FF">>
    /\ Bom["utf-32le"] = <<"FF", "FE", "00", "00">>
    /\ Bom["utf-32be"] = <<"00", "00", "FE", "FF">>
BY DEF Bom

LEMMA WidthIs == ASSUME NEW c PROVE Width(c) \in 1 .. 4
BY DEF Width

LEMMA BomLenIs == FormatOk => BomLen \in Nat
<1> SUFFICES ASSUME FormatOk PROVE BomLen \in Nat
  OBVIOUS
<1>1. CASE bom
  <2>1. charset \in {"utf-8", "utf-16le", "utf-16be", "utf-32le", "utf-32be"}
    BY <1>1, BomIs DEF FormatOk
  <2>2. Len(Bom[charset]) \in Nat
    BY <2>1, BomIs
  <2> QED
    BY <1>1, <2>2 DEF BomLen
<1>2. CASE ~ bom
  BY <1>2 DEF BomLen
<1> QED
  BY <1>1, <1>2

EndSteps(v, k) ==
    /\ v[0] = BomLen
    /\ \A i \in 1 .. k : v[i] = v[i - 1] + Width(chars[i])
    /\ End(k) = v[k]

LEMMA EndIsLoop ==
    ASSUME FormatOk, NEW X, chars \in Seq(X), NEW k \in 0 .. Len(chars)
    PROVE  \E v \in [0 .. k -> Nat] : EndSteps(v, k)
<1> DEFINE s == SubSeq(chars, 1, k)
           b == BomLen
           Body(n, c) == n + Width(c)
           F == [p \in Nat \X X |-> Body(p[1], p[2])]
           Fold(g) == g = [T \in SUBSET (DOMAIN s) |->
                              IF T = {} THEN b
                              ELSE Body(g[T \ {Max(T)}], s[Max(T)])]
<1>1. /\ s \in Seq(X) /\ Len(s) = k /\ k \in Nat /\ DOMAIN s = 1 .. k
      /\ \A i \in 1 .. k : s[i] = chars[i] /\ s[i] \in X
  OBVIOUS
<1>2. /\ \A n \in Nat, c \in X : Body(n, c) \in Nat /\ F[<<n, c>>] = Body(n, c)
      /\ b \in Nat /\ F \in [Nat \X X -> Nat]
  <2>1. \A n \in Nat, c \in X : Body(n, c) \in Nat
    BY WidthIs
  <2>2. b \in Nat
    BY BomLenIs
  <2> HIDE DEF Body, b
  <2> QED
    BY <2>1, <2>2
<1> HIDE DEF Body, F, b, s
<1>3. PICK g \in [SUBSET (1 .. k) -> Nat] : FoldOf(g, b, F, s)
  BY <1>1, <1>2, FoldExists
<1>4. Fold(g)
  <2>1. ASSUME NEW T \in SUBSET (1 .. k)
        PROVE  g[T] = IF T = {} THEN b ELSE Body(g[T \ {Max(T)}], s[Max(T)])
    <3>1. CASE T = {}
      BY <1>1, <1>3, <3>1 DEF FoldOf
    <3>2. CASE T # {}
      <4>1. Max(T) \in 1 .. k
        BY <1>1, <3>2, MaxIsIn
      <4>2. s[Max(T)] \in X /\ g[T \ {Max(T)}] \in Nat
        BY <1>1, <1>3, <4>1
      <4>3. g[T] = F[<<g[T \ {Max(T)}], s[Max(T)]>>]
        BY <1>1, <1>3, <3>2 DEF FoldOf
      <4> QED
        BY <1>2, <3>2, <4>2, <4>3
    <3> QED
      BY <3>1, <3>2
  <2> QED
    BY <1>1, <1>3, <2>1
<1> DEFINE it == CHOOSE h : Fold(h)
           v == [i \in 0 .. k |-> it[1 .. i]]
<1>5. Fold(it)
  BY <1>4
<1>6. End(k) = it[DOMAIN s]
  BY DEF End, FoldLeft, MapThenFoldSet, Body, s, b
<1> HIDE DEF it
<1>7. v[0] = b
  <2>1. {} \in SUBSET (1 .. k) /\ 1 .. 0 = {}
    OBVIOUS
  <2> QED
    BY <1>1, <1>5, <2>1
<1>8. ASSUME NEW i \in 1 .. k PROVE v[i] = Body(v[i - 1], s[i])
  <2>1. /\ 1 .. i \in SUBSET (1 .. k) /\ 1 .. i # {} /\ Max(1 .. i) = i
        /\ (1 .. i) \ {i} = 1 .. i - 1
    BY <1>1, FirstOnes
  <2> DEFINE T == 1 .. i
  <2>2. T \in SUBSET (DOMAIN s) /\ T # {} /\ Max(T) = i /\ T \ {i} = 1 .. i - 1
    BY <1>1, <2>1
  <2> HIDE DEF T
  <2>3. it[T] = Body(it[T \ {i}], s[i])
    BY <1>5, <2>2
  <2>4. it[T] = Body(it[1 .. i - 1], s[i])
    BY <2>2, <2>3
  <2>5. i - 1 \in 0 .. k /\ i \in 0 .. k
    BY <1>1
  <2> QED
    BY <2>4, <2>5 DEF T
<1>9. v \in [0 .. k -> Nat]
  <2> DEFINE Typed == {i \in 0 .. k : v[i] \in Nat}
  <2> HIDE DEF v
  <2>1. 0 \in Typed
    <3>1. 0 \in 0 .. k
      BY <1>1
    <3> QED
      BY <1>2, <1>7, <3>1
  <2>2. ASSUME NEW i \in 1 .. k, i - 1 \in Typed PROVE i \in Typed
    <3>1. i \in 0 .. k /\ s[i] \in X /\ v[i - 1] \in Nat
      BY <1>1, <2>2
    <3>2. Body(v[i - 1], s[i]) \in Nat
      BY <1>2, <3>1
    <3> QED
      BY <1>8, <3>1, <3>2
  <2> HIDE DEF Typed
  <2>3. 0 .. k \subseteq Typed
    BY <1>1, <2>1, <2>2, InductionUpTo
  <2> QED
    BY <2>3 DEF v, Typed
<1>10. End(k) = v[k]
  BY <1>1, <1>6
<1> HIDE DEF v
<1>11. EndSteps(v, k)
  <2>1. \A i \in 1 .. k : v[i] = v[i - 1] + Width(chars[i])
    BY <1>1, <1>8 DEF Body
  <2> QED
    BY <1>7, <1>10, <2>1 DEF EndSteps, b
<1> QED
  BY <1>9, <1>11

Typed == FormatOk /\ chars \in Seq(Char)

\* Where a character ends depends on those before it alone.
Ends == /\ End(0) = BomLen
        /\ \A k \in 1 .. Len(chars) :
              End(k) = End(k - 1) + Width(chars[k])
        /\ \A k \in 0 .. Len(chars) : End(k) \in Nat

AddsUp(v, d, n) == \A i \in 1 .. n : v[i] = v[i - 1] + d[i]

LEMMA SameSum ==
    ASSUME NEW n \in Nat, NEW v, NEW w, NEW d,
           v[0] = w[0], AddsUp(v, d, n), AddsUp(w, d, n)
    PROVE  \A i \in 0 .. n : v[i] = w[i]
<1> USE DEF AddsUp
<1> DEFINE Same == {i \in 0 .. n : v[i] = w[i]}
<1>1. 0 \in Same
  OBVIOUS
<1>2. ASSUME NEW k \in 1 .. n, k - 1 \in Same PROVE k \in Same
  BY <1>2
<1> HIDE DEF Same
<1>3. 0 .. n \subseteq Same
  BY <1>1, <1>2, InductionUpTo
<1> QED
  BY <1>3 DEF Same

LEMMA EndIs == Typed => Ends
<1> SUFFICES ASSUME Typed PROVE Ends
  OBVIOUS
<1> USE DEF Typed
<1>1. Len(chars) \in Nat
  OBVIOUS
<1>2. ASSUME NEW k \in 0 .. Len(chars)
      PROVE  \E v \in [0 .. k -> Nat] : EndSteps(v, k)
  BY <1>2, EndIsLoop
<1>3. \A k \in 0 .. Len(chars) : End(k) \in Nat
  <2> SUFFICES ASSUME NEW k \in 0 .. Len(chars) PROVE End(k) \in Nat
    OBVIOUS
  <2>1. PICK v \in [0 .. k -> Nat] : EndSteps(v, k)
    BY <1>2
  <2> QED
    BY <1>1, <2>1 DEF EndSteps
<1>4. End(0) = BomLen
  <2>1. 0 \in 0 .. Len(chars)
    BY <1>1
  <2>2. PICK v \in [0 .. 0 -> Nat] : EndSteps(v, 0)
    BY <1>2, <2>1
  <2> QED
    BY <2>2 DEF EndSteps
<1>5. ASSUME NEW k \in 1 .. Len(chars)
      PROVE  End(k) = End(k - 1) + Width(chars[k])
  <2>1. k \in 0 .. Len(chars) /\ k - 1 \in 0 .. Len(chars) /\ k - 1 \in Nat
    BY <1>1
  <2>2. PICK v \in [0 .. k -> Nat] : EndSteps(v, k)
    BY <1>2, <2>1
  <2>3. PICK w \in [0 .. k - 1 -> Nat] : EndSteps(w, k - 1)
    BY <1>2, <2>1
  <2> DEFINE m == k - 1
             one == [i \in 0 .. m |-> v[i]]
             other == [i \in 0 .. m |-> w[i]]
             d == [i \in 1 .. m |-> Width(chars[i])]
  <2>4. one[0] = other[0] /\ m \in Nat
    BY <2>1, <2>2, <2>3 DEF EndSteps
  <2>5. AddsUp(one, d, m) /\ AddsUp(other, d, m)
    BY <2>1, <2>2, <2>3 DEF EndSteps, AddsUp
  <2> HIDE DEF m, one, other, d
  <2>6. \A i \in 0 .. m : one[i] = other[i]
    BY <2>4, <2>5, SameSum
  <2>7. v[k - 1] = w[k - 1]
    BY <2>1, <2>6 DEF m, one, other
  <2> QED
    BY <2>1, <2>2, <2>3, <2>7 DEF EndSteps
<1> QED
  BY <1>3, <1>4, <1>5 DEF Ends

LEMMA EndIsNext == Typed' => Ends'
BY EndIs, PTL

LEMMA EndSame ==
    ASSUME Typed, Typed', charset' = charset, bom' = bom, Len(chars) <= Len(chars'),
           \A i \in 1 .. Len(chars) : chars'[i] = chars[i]
    PROVE  \A k \in 0 .. Len(chars) : End(k)' = End(k)
<1> DEFINE n == Len(chars)
           v == [k \in 0 .. n |-> End(k)]
           w == [k \in 0 .. n |-> End(k)']
           d == [i \in 1 .. n |-> Width(chars[i])]
<1>1. n \in Nat /\ Len(chars') \in Nat
  BY DEF Typed
<1>2. Ends /\ Ends'
  BY EndIs, EndIsNext
<1>4. BomLen' = BomLen
  BY DEF BomLen
<1>5. v[0] = w[0]
  BY <1>1, <1>2, <1>4 DEF Ends
<1>6. ASSUME NEW i \in 1 .. n PROVE v[i] = v[i - 1] + d[i] /\ w[i] = w[i - 1] + d[i]
  <2>1. i \in 0 .. n /\ i - 1 \in 0 .. n /\ i \in 1 .. Len(chars')
    BY <1>1
  <2>2. End(i) = End(i - 1) + Width(chars[i])
    BY <1>2 DEF Ends
  <2>3. End(i)' = End(i - 1)' + Width(chars[i])'
    BY <1>2, <2>1 DEF Ends
  <2>4. Width(chars[i])' = Width(chars[i])
    BY DEF Width, Utf16, Utf32
  <2> QED
    BY <2>1, <2>2, <2>3, <2>4
<1> HIDE DEF n, v, w, d
<1>7. AddsUp(v, d, n) /\ AddsUp(w, d, n)
  BY <1>6 DEF AddsUp
<1>8. \A k \in 0 .. n : v[k] = w[k]
  BY <1>1, <1>5, <1>7, SameSum
<1> QED
  BY <1>8 DEF n, v, w

LEMMA EndGrows ==
    ASSUME Typed, NEW i \in 0 .. Len(chars)
    PROVE  \A j \in i .. Len(chars) : End(i) <= End(j)
<1> DEFINE n == Len(chars)
           Later == {j \in 0 .. n : j < i \/ End(i) <= End(j)}
<1>1. n \in Nat
  BY DEF Typed
<1>2. Ends
  BY EndIs
<1>3. 0 \in Later
  BY <1>1, <1>2 DEF Ends
<1>4. ASSUME NEW k \in 1 .. n, k - 1 \in Later PROVE k \in Later
  <2>1. /\ k \in 0 .. n /\ End(k - 1) \in Nat /\ End(k) \in Nat
        /\ End(i) \in Nat /\ End(k) = End(k - 1) + Width(chars[k])
    BY <1>1, <1>2 DEF Ends
  <2>2. Width(chars[k]) \in 1 .. 4
    BY WidthIs
  <2>3. CASE k - 1 < i
    BY <1>1, <2>1, <2>3
  <2>4. CASE End(i) <= End(k - 1)
    BY <1>1, <2>1, <2>2, <2>4
  <2> QED
    BY <1>4, <2>3, <2>4
<1> HIDE DEF Later
<1>5. 0 .. n \subseteq Later
  BY <1>1, <1>3, <1>4, InductionUpTo
<1> QED
  BY <1>1, <1>5 DEF Later

-----------------------------------------------------------------------------
(* What the reader finds at the beginning.                                 *)

LEMMA MaxIsAmong ==
    ASSUME NEW n \in Nat, NEW T \in SUBSET (0 .. n), T # {}
    PROVE  Max(T) \in T /\ \A y \in T : Max(T) >= y
<1>1. CASE T = {0}
  <2>1. \E x \in T : \A y \in T : x >= y
    BY <1>1
  <2> QED
    BY <2>1 DEF Max
<1>2. CASE T # {0}
  <2> DEFINE S == T \ {0}
  <2>1. S \in SUBSET (1 .. n) /\ S # {}
    BY <1>2
  <2>2. Max(S) \in S /\ \A y \in S : Max(S) >= y
    <3> HIDE DEF S
    <3> QED
      BY <2>1, MaxIsIn
  <2>3. PICK x \in S : \A y \in S : x >= y
    BY <2>2
  <2>4. x \in T /\ \A y \in T : x >= y
    BY <2>1, <2>3
  <2> QED
    BY <2>4 DEF Max
<1> QED
  BY <1>1, <1>2

LEMMA MinOfTwo ==
    ASSUME NEW a \in Nat, NEW b \in Nat
    PROVE  /\ Min({a, b}) \in {a, b}
           /\ Min({a, b}) <= a /\ Min({a, b}) <= b
<1>1. \E x \in {a, b} : \A y \in {a, b} : x <= y
  <2>1. CASE a <= b
    BY <2>1
  <2>2. CASE b <= a
    BY <2>2
  <2> QED
    BY <2>1, <2>2
<1> QED
  BY <1>1 DEF Min

LEMMA PrefixIs ==
    ASSUME NEW X, NEW s \in Seq(X), NEW t \in Seq(X)
    PROVE  IsPrefix(s, t) <=>
               Len(s) <= Len(t) /\ \A i \in 1 .. Len(s) : s[i] = t[i]
<1>1. Len(s) \in Nat /\ Len(t) \in Nat
  OBVIOUS
<1>2. SubSeq(s, 1, Len(s)) = s
  OBVIOUS
<1>3. CASE Len(s) <= Len(t)
  <2> DEFINE u == SubSeq(t, 1, Len(s))
  <2>1. u \in Seq(X) /\ Len(u) = Len(s) /\ \A i \in 1 .. Len(s) : u[i] = t[i]
    BY <1>1, <1>3
  <2>2. s = u <=> \A i \in 1 .. Len(s) : s[i] = u[i]
    <3> HIDE DEF u
    <3>1. ASSUME \A i \in 1 .. Len(s) : s[i] = u[i] PROVE s = u
      BY <2>1, <3>1, SeqEqual
    <3> QED
      BY <3>1
  <2> QED
    BY <1>2, <1>3, <2>1, <2>2 DEF IsPrefix
<1>4. CASE ~ (Len(s) <= Len(t))
  BY <1>4 DEF IsPrefix
<1> QED
  BY <1>3, <1>4

Encodings == {"utf-8", "utf-16le", "utf-16be", "utf-32le", "utf-32be"}

Byte == {"EF", "BB", "BF", "FE", "FF", "00"}

IsMark(c, m) ==
    /\ m \in Seq(Byte) /\ Len(m) \in 2 .. 4
    /\ c = "utf-8" => Len(m) = 3 /\ m[1] = "EF" /\ m[2] = "BB" /\ m[3] = "BF"
    /\ c = "utf-16le" => Len(m) = 2 /\ m[1] = "FF" /\ m[2] = "FE"
    /\ c = "utf-16be" => Len(m) = 2 /\ m[1] = "FE" /\ m[2] = "FF"
    /\ c = "utf-32le" =>
          Len(m) = 4 /\ m[1] = "FF" /\ m[2] = "FE" /\ m[3] = "00" /\ m[4] = "00"
    /\ c = "utf-32be" =>
          Len(m) = 4 /\ m[1] = "00" /\ m[2] = "00" /\ m[3] = "FE" /\ m[4] = "FF"

LEMMA MarksAre == \A c \in Encodings : IsMark(c, Bom[c])
<1>1. IsMark("utf-8", Bom["utf-8"])
  BY BomIs DEF IsMark, Byte
<1>2. IsMark("utf-16le", Bom["utf-16le"])
  BY BomIs DEF IsMark, Byte
<1>3. IsMark("utf-16be", Bom["utf-16be"])
  BY BomIs DEF IsMark, Byte
<1>4. IsMark("utf-32le", Bom["utf-32le"])
  BY BomIs DEF IsMark, Byte
<1>5. IsMark("utf-32be", Bom["utf-32be"])
  BY BomIs DEF IsMark, Byte
<1> QED
  BY <1>1, <1>2, <1>3, <1>4, <1>5 DEF Encodings

\* No mark of one encoding begins that of another, but for UTF-16LE and UTF-32LE.
LEMMA MarksDiffer ==
    ASSUME NEW c \in Encodings, NEW d \in Encodings
    PROVE  IsPrefix(Bom[c], Bom[d]) <=>
               c = d \/ (c = "utf-16le" /\ d = "utf-32le")
<1> DEFINE s == Bom[c]
           t == Bom[d]
<1>1. IsMark(c, s) /\ IsMark(d, t) /\ (c = d => s = t)
  BY MarksAre
<1> SUFFICES IsPrefix(s, t) <=> c = d \/ (c = "utf-16le" /\ d = "utf-32le")
  OBVIOUS
<1> HIDE DEF s, t
<1>2. Len(s) \in 2 .. 4 /\ Len(t) \in 2 .. 4 /\ s \in Seq(Byte) /\ t \in Seq(Byte)
  BY <1>1 DEF IsMark
<1>3. IsPrefix(s, t) <=>
            Len(s) <= Len(t) /\ \A i \in 1 .. Len(s) : s[i] = t[i]
  BY <1>2, PrefixIs
<1>4. IsPrefix(s, t) => Len(s) <= Len(t) /\ s[1] = t[1]
  <2>1. Len(s) \in 2 .. 4
    BY <1>2
  <2>2. 1 \in 1 .. Len(s)
    BY <2>1
  <2> QED
    BY <1>3, <2>2
<1>5. c = d => IsPrefix(s, t)
  BY <1>1, <1>2, <1>3
<1>6. CASE c = "utf-8"
  <2>1. Len(s) = 3 /\ s[1] = "EF"
    BY <1>1, <1>6 DEF IsMark
  <2>2. t[1] # "EF" \/ d = "utf-8"
    BY <1>1 DEF IsMark, Encodings
  <2> QED
    BY <1>4, <1>5, <1>6, <2>1, <2>2
<1>7. CASE c = "utf-16le"
  <2>1. Len(s) = 2 /\ s[1] = "FF" /\ s[2] = "FE"
    BY <1>1, <1>7 DEF IsMark
  <2>2. t[1] = "FF" /\ t[2] = "FE" <=> d \in {"utf-16le", "utf-32le"}
    BY <1>1 DEF IsMark, Encodings
  <2>3. (\A i \in 1 .. Len(s) : s[i] = t[i]) <=> s[1] = t[1] /\ s[2] = t[2]
    BY <2>1
  <2> QED
    BY <1>2, <1>3, <1>7, <2>1, <2>2, <2>3
<1>8. CASE c = "utf-16be"
  <2>1. Len(s) = 2 /\ s[1] = "FE"
    BY <1>1, <1>8 DEF IsMark
  <2>2. t[1] # "FE" \/ d = "utf-16be"
    BY <1>1 DEF IsMark, Encodings
  <2> QED
    BY <1>4, <1>5, <1>8, <2>1, <2>2
<1>9. CASE c = "utf-32le"
  <2>1. Len(s) = 4 /\ s[1] = "FF"
    BY <1>1, <1>9 DEF IsMark
  <2>2. t[1] # "FF" \/ Len(t) < 4 \/ d = "utf-32le"
    <3>1. t[1] # "FF" \/ d \in {"utf-16le", "utf-32le"}
      BY <1>1 DEF IsMark, Encodings
    <3>2. d = "utf-16le" => Len(t) = 2
      BY <1>1 DEF IsMark
    <3>3. 2 < 4
      OBVIOUS
    <3> QED
      BY <3>1, <3>2, <3>3
  <2> QED
    <3>1. CASE d = c
      BY <1>5, <1>9, <3>1
    <3>2. CASE d # c
      <4>1. ~ IsPrefix(s, t)
        BY <1>4, <1>9, <2>1, <2>2, <3>2
      <4> QED
        BY <1>9, <3>2, <4>1
    <3> QED
      BY <3>1, <3>2
<1>10. CASE c = "utf-32be"
  <2>1. Len(s) = 4 /\ s[1] = "00"
    BY <1>1, <1>10 DEF IsMark
  <2>2. t[1] # "00" \/ d = "utf-32be"
    BY <1>1 DEF IsMark, Encodings
  <2> QED
    BY <1>4, <1>5, <1>10, <2>1, <2>2
<1> QED
  BY <1>6, <1>7, <1>8, <1>9, <1>10 DEF Encodings

LEMMA NoMark ==
    ASSUME ~ bom
    PROVE  /\ Boms = {}
           /\ \A name : BOMOverride(name) = name
<1>1. Start = <<>> /\ <<>> \in Seq(Byte) /\ Len(<<>>) = 0
  BY DEF Start
<1>2. ASSUME NEW c \in Encodings PROVE ~ IsPrefix(Bom[c], Start)
  <2> DEFINE s == Bom[c]
  <2>1. s \in Seq(Byte) /\ Len(s) \in 2 .. 4
    BY MarksAre DEF IsMark
  <2> DEFINE t == Start
  <2>2. t \in Seq(Byte) /\ Len(t) = 0
    BY <1>1
  <2> HIDE DEF s, t
  <2>3. IsPrefix(s, t) => Len(s) <= Len(t)
    BY <2>1, <2>2, PrefixIs
  <2>4. ~ IsPrefix(s, t)
    <3>1. Len(s) \in 2 .. 4 /\ Len(t) = 0
      BY <2>1, <2>2
    <3>2. ~ (Len(s) <= Len(t))
      BY <3>1
    <3> QED
      BY <2>3, <3>2
  <2> QED
    BY <2>4 DEF s, t
<1>3. \A i \in DOMAIN BomOrder : BomOrder[i] \in Encodings
  BY DEF BomOrder, Encodings
<1>4. {"utf-8"} \cup Utf16 \subseteq Encodings
  BY DEF Utf16, Encodings
<1> QED
  BY <1>2, <1>3, <1>4 DEF Boms, BOMOverride

\* The mark of the file decides: of UTF-16 only at its beginning, else always.
LEMMA MarkDecides ==
    ASSUME FormatOk, bom
    PROVE  /\ Boms # {}
           /\ charset \notin Utf16 => FirstBom = charset
           /\ charset \in Utf16 =>
                 /\ FirstBom \in Utf16
                 /\ offset = 0 => BOMOverride("utf-8") = charset
<1> DEFINE Order(i) == BomOrder[i]
<1>1. charset \in Encodings /\ Start = Bom[charset]
  BY BomIs DEF FormatOk, Encodings, Start
<1>2. /\ DOMAIN BomOrder = 1 .. 5
      /\ Order(1) = "utf-8" /\ Order(2) = "utf-32le" /\ Order(3) = "utf-32be"
      /\ Order(4) = "utf-16le" /\ Order(5) = "utf-16be"
  BY DEF BomOrder
<1> HIDE DEF Order
<1>3. 1 .. 5 = {1, 2, 3, 4, 5}
  OBVIOUS
<1>4. \A i \in 1 .. 5 : Order(i) \in Encodings
  BY <1>2, <1>3 DEF Encodings
<1>5. \A i \in 1 .. 5 : IsPrefix(Bom[Order(i)], Start) <=>
                            Order(i) = charset \/ (i = 4 /\ charset = "utf-32le")
  <2> SUFFICES ASSUME NEW i \in 1 .. 5
               PROVE  IsPrefix(Bom[Order(i)], Bom[charset]) <=>
                          Order(i) = charset \/ (i = 4 /\ charset = "utf-32le")
    BY <1>1
  <2>1. Order(i) \in Encodings
    BY <1>4
  <2>2. Order(i) = "utf-16le" <=> i = 4
    BY <1>2, <1>3
  <2> QED
    BY <1>1, <2>1, <2>2, MarksDiffer
<1>6. Boms = {i \in 1 .. 5 : Order(i) = charset \/ (i = 4 /\ charset = "utf-32le")}
  BY <1>2, <1>5 DEF Boms, Order
<1>7. \E i \in 1 .. 5 : Order(i) = charset
  BY <1>1, <1>2, <1>3 DEF Encodings
<1>8. PICK i \in 1 .. 5 : Order(i) = charset
  BY <1>7
<1>9. i \in Boms /\ \A j \in Boms : i <= j
  <2>1. \A j \in 1 .. 5 : Order(j) = charset => j = i
    BY <1>2, <1>3, <1>8
  <2>2. charset = "utf-32le" => i = 2
    BY <1>2, <1>3, <1>8
  <2> QED
    BY <1>6, <1>8, <2>1, <2>2
<1>10. Min(Boms) = i
  <2> DEFINE S == Boms
  <2>1. i \in S /\ \A j \in S : i <= j /\ j \in Nat
    BY <1>6, <1>9
  <2> HIDE DEF S
  <2>2. \A x \in S : (\A j \in S : x <= j) => x = i
    BY <2>1
  <2>3. Min(S) = i
    BY <2>1, <2>2 DEF Min
  <2> QED
    BY <2>3 DEF S
<1>11. FirstBom = charset
  BY <1>8, <1>10 DEF FirstBom, Order
<1>12. ASSUME charset \in Utf16, offset = 0
       PROVE  BOMOverride("utf-8") = charset
  <2>1. \A c \in {"utf-8"} \cup Utf16 :
            IsPrefix(Bom[c], Start) <=> c = charset
    <3>1. \A c \in {"utf-8"} \cup Utf16 : c \in Encodings
      BY DEF Utf16, Encodings
    <3>2. charset # "utf-32le"
      BY <1>12 DEF Utf16
    <3> QED
      BY <1>1, <3>1, <3>2, MarksDiffer
  <2>2. {c \in {"utf-8"} \cup Utf16 :
            offset = 0 /\ IsPrefix(Bom[c], Start)} = {charset}
    BY <1>12, <2>1
  <2> QED
    BY <2>2 DEF BOMOverride
<1> QED
  BY <1>9, <1>11, <1>12

-----------------------------------------------------------------------------
(* The probe of a file without a mark.                                     *)

\* The characters up to which the probe may count.
Counted == {j \in 0 .. Len(chars) :
               /\ End(j) <= NProbe
               /\ \A i \in 1 .. j : IsRune(chars[i])}

LEMMA ProbeIs ==
    ASSUME Typed, ~ bom
    PROVE  /\ Size \in Nat /\ NProbe \in {Size, ProbeLen}
           /\ NProbe <= Size /\ NProbe <= ProbeLen
           /\ \A j \in Counted : NPos >= End(j)
           /\ \E j \in Counted : NPos = End(j)
<1>1. Ends /\ Len(chars) \in Nat
  BY EndIs DEF Typed
<1>2. Size \in Nat
  BY <1>1 DEF Ends, Size
<1>3. /\ NProbe \in {Size, ProbeLen}
      /\ NProbe <= Size /\ NProbe <= ProbeLen
  BY <1>2, MinOfTwo, DecoderAssumption DEF NProbe
<1>4. NProbe \in Nat
  BY <1>2, <1>3, DecoderAssumption
<1>5. 0 \in Counted
  <2>1. End(0) = 0
    BY <1>1 DEF Ends, BomLen
  <2> QED
    BY <1>1, <1>4, <2>1 DEF Counted
<1> DEFINE T == {End(j) : j \in Counted}
<1>6. T \in SUBSET (0 .. NProbe) /\ T # {}
  <2>1. ASSUME NEW j \in Counted PROVE End(j) \in 0 .. NProbe
    <3>1. End(j) \in Nat /\ End(j) <= NProbe
      BY <1>1 DEF Counted, Ends
    <3> QED
      BY <1>4, <3>1
  <2> QED
    BY <1>5, <2>1
<1>7. NPos = Max(T)
  BY DEF NPos, Counted
<1> HIDE DEF T
<1>8. NPos \in T /\ \A y \in T : NPos >= y
  BY <1>4, <1>6, <1>7, MaxIsAmong
<1> QED
  BY <1>2, <1>3, <1>8 DEF T

\* A file of runes is taken for UTF-8, though the probe may cut the last one.
LEMMA RunesAreProbed ==
    ASSUME Typed, ~ bom,
           \A i \in 1 .. Len(chars) : IsRune(chars[i])
    PROVE  Probed
<1>1. Ends /\ Len(chars) \in Nat
  BY EndIs DEF Typed
<1>2. /\ Size \in Nat /\ NProbe \in {Size, ProbeLen}
      /\ NProbe <= Size /\ NProbe <= ProbeLen
      /\ \A j \in Counted : NPos >= End(j)
      /\ \E j \in Counted : NPos = End(j)
  BY ProbeIs
<1>3. NPos \in Nat
  BY <1>1, <1>2 DEF Counted, Ends
<1>4. CASE Size <= ProbeLen
  <2>1. NProbe = Size
    BY <1>2, <1>4
  <2>2. Len(chars) \in Counted
    BY <1>1, <1>2, <2>1 DEF Counted, Size
  <2> QED
    BY <1>2, <2>1, <2>2 DEF Probed, Size
<1>5. CASE ProbeLen < Size
  <2> DEFINE In == {j \in 0 .. Len(chars) : End(j) <= ProbeLen}
  <2>1. In \in SUBSET (0 .. Len(chars)) /\ 0 \in In
    <3>1. End(0) = 0
      BY <1>1 DEF Ends, BomLen
    <3> QED
      BY <1>1, <3>1, DecoderAssumption
  <2>2. PICK j \in In : \A i \in In : j >= i
    <3> HIDE DEF In
    <3>1. Max(In) \in In /\ \A i \in In : Max(In) >= i
      BY <1>1, <2>1, MaxIsAmong
    <3> QED
      BY <3>1
  <2>3. j # Len(chars)
    BY <1>2, <1>5, <2>2, DecoderAssumption DEF Size
  <2>4. j + 1 \in 1 .. Len(chars) /\ j + 1 - 1 = j /\ j + 1 \in 0 .. Len(chars)
    BY <1>1, <2>2, <2>3
  <2>5. End(j + 1) = End(j) + Width(chars[j + 1])
    BY <1>1, <2>4 DEF Ends
  <2>6. /\ End(j) \in Nat /\ End(j + 1) \in Nat
        /\ ~ (End(j + 1) <= ProbeLen)
    <3>1. j + 1 \notin In
      BY <1>1, <2>2
    <3> QED
      BY <1>1, <2>2, <2>4, <3>1 DEF Ends
  <2>7. Width(chars[j + 1]) \in 1 .. 4
    BY WidthIs
  <2>8. End(j) >= ProbeLen - 4
    BY <2>5, <2>6, <2>7, DecoderAssumption
  <2>9. NProbe = ProbeLen
    BY <1>2, <1>5, DecoderAssumption
  <2>10. j \in Counted
    BY <1>1, <2>2, <2>9 DEF Counted
  <2>11. NPos >= End(j)
    BY <1>2, <2>10
  <2> QED
    BY <1>3, <2>6, <2>8, <2>11, DecoderAssumption DEF Probed, UTFMax
<1> QED
  BY <1>2, <1>4, <1>5

\* A character that is no rune, early in the probe, is noticed.
LEMMA OthersAreNoticed ==
    ASSUME Typed, ~ bom, NEW k \in 1 .. Len(chars),
           ~ IsRune(chars[k]), End(k - 1) < ProbeLen - UTFMax
    PROVE  ~ Probed
<1>1. Ends /\ Len(chars) \in Nat /\ k \in Nat /\ k - 1 \in 0 .. Len(chars)
  BY EndIs DEF Typed
<1>2. /\ Size \in Nat /\ NProbe \in {Size, ProbeLen}
      /\ \E j \in Counted : NPos = End(j)
  BY ProbeIs
<1>3. PICK j \in Counted : NPos = End(j)
  BY <1>2
<1>4. j \in 0 .. k - 1
  BY <1>1, <1>3 DEF Counted
<1>5. End(j) <= End(k - 1)
  <2>1. j \in 0 .. Len(chars) /\ k - 1 \in j .. Len(chars)
    BY <1>1, <1>4
  <2> QED
    BY <2>1, EndGrows
<1>6. End(k - 1) < Size
  <2>1. End(k) = End(k - 1) + Width(chars[k])
    BY <1>1 DEF Ends
  <2>2. End(k) <= Size
    <3>1. k \in 0 .. Len(chars) /\ Len(chars) \in k .. Len(chars)
      BY <1>1
    <3> QED
      BY <3>1, EndGrows DEF Size
  <2>3. Width(chars[k]) \in 1 .. 4
    BY WidthIs
  <2>4. End(k) \in Nat /\ End(k - 1) \in Nat
    BY <1>1 DEF Ends
  <2> QED
    BY <1>2, <2>1, <2>2, <2>3, <2>4
<1>7. End(j) \in Nat /\ End(k - 1) \in Nat
  BY <1>1, <1>3 DEF Ends, Counted
<1>8. NPos < ProbeLen - 4 /\ NPos < NProbe
  BY <1>2, <1>3, <1>5, <1>6, <1>7, DecoderAssumption DEF UTFMax
<1> QED
  BY <1>2, <1>3, <1>7, <1>8, DecoderAssumption DEF Probed, UTFMax

\* Of the file as it is when it is read.
LEMMA ReadsRight ==
    ASSUME Typed, NEW i \in 1 .. Len(chars),
           IF bom THEN charset \notin Utf16 \/ offset = 0 ELSE Knowable
    PROVE  Decoded(chars[i]) = chars[i]
<1>1. bom \in BOOLEAN /\ charset # ""
  BY BomIs DEF Typed, FormatOk
<1>2. CASE bom
  <2>1. FormatOk
    BY DEF Typed
  <2>2. Decoding = charset
    <3>1. CASE charset \in Utf16
      BY <1>2, <2>1, <3>1, MarkDecides DEF Decoding
    <3>2. CASE charset \notin Utf16
      BY <1>2, <2>1, <3>2, MarkDecides DEF Decoding
    <3> QED
      BY <3>1, <3>2
  <2> QED
    BY <2>2 DEF Decoded
<1>3. CASE ~ bom
  <2>1. /\ Name # "" => Decoding = Name
        /\ Name = "" /\ Probed => Decoding = "utf-8"
        /\ Name = "" /\ ~ Probed => Decoding = DefaultName
    BY <1>3, NoMark DEF Decoding
  <2>2. CASE Name = charset
    BY <1>1, <2>1, <2>2 DEF Decoded
  <2>3. CASE /\ Name = "" /\ charset = "utf-8"
             /\ windows => "fffd" \notin ToSet(chars)
    <3>1. CASE windows
      <4>1. \A k \in 1 .. Len(chars) : IsRune(chars[k])
        <5>1. \A k \in 1 .. Len(chars) : chars[k] \in ToSet(chars)
          BY DEF Typed, ToSet
        <5>2. charset = "utf-8" /\ "fffd" \notin ToSet(chars)
          BY <2>3, <3>1
        <5> QED
          BY <5>1, <5>2 DEF IsRune
      <4>2. Probed
        BY <1>3, <4>1, RunesAreProbed
      <4> QED
        BY <2>1, <2>3, <4>2 DEF Decoded
    <3>2. CASE ~ windows
      <4>1. Decoding = "utf-8"
        BY <2>1, <2>3, <3>2 DEF DefaultName
      <4> QED
        BY <2>3, <4>1 DEF Decoded
    <3> QED
      BY <3>1, <3>2
  <2>4. CASE /\ Name = "" /\ charset = DefaultName
             /\ \A k \in 1 .. Len(chars) :
                   ShowsIn(k) /\ chars[k] # "ascii" =>
                       End(k - 1) < ProbeLen - UTFMax
    <3>1. CASE ~ Probed \/ charset = "utf-8"
      BY <2>1, <2>4, <3>1 DEF Decoded
    <3>2. CASE Probed /\ charset # "utf-8"
      <4>1. charset = "windows-1252" /\ Decoding = "utf-8"
        BY <2>1, <2>4, <3>2 DEF DefaultName
      <4>2. \A k \in 1 .. Len(chars) : chars[k] = "ascii"
        <5> DEFINE Ascii == {k \in 0 .. Len(chars) : \A j \in 1 .. k : chars[j] = "ascii"}
        <5>1. 0 \in Ascii /\ Len(chars) \in Nat
          BY DEF Typed
        <5>2. ASSUME NEW k \in 1 .. Len(chars), k - 1 \in Ascii PROVE k \in Ascii
          <6>1. \A j \in 1 .. k - 1 : chars[j] = "ascii"
            BY <5>2
          <6>2. chars[k] = "ascii"
            <7> SUFFICES ASSUME chars[k] # "ascii" PROVE FALSE
              OBVIOUS
            <7>1. End(k - 1) < ProbeLen - UTFMax
              BY <2>4, <6>1 DEF ShowsIn
            <7>2. ~ IsRune(chars[k])
              BY <4>1 DEF IsRune
            <7> QED
              BY <1>3, <3>2, <7>1, <7>2, OthersAreNoticed
          <6> QED
            BY <5>1, <6>1, <6>2
        <5> HIDE DEF Ascii
        <5>3. 0 .. Len(chars) \subseteq Ascii
          BY <5>1, <5>2, InductionUpTo
        <5> QED
          BY <5>1, <5>3 DEF Ascii
      <4>3. chars[i] = "ascii"
        BY <4>2
      <4> QED
        BY <4>1, <4>3 DEF Decoded
    <3> QED
      BY <3>1, <3>2
  <2> QED
    BY <1>3, <2>2, <2>3, <2>4 DEF Knowable, ToSet, ToSet
<1> QED
  BY <1>1, <1>2, <1>3

-----------------------------------------------------------------------------
(* What holds in every state.                                              *)

\* Nothing is read before there is an offset.
TextInv == /\ DecodeTypeOK
           /\ bom => charset \in DOMAIN Bom
           /\ offset = 0 => text = <<>> /\ first = 0
           /\ DecodedRight

LEMMA TextTyped == TextInv => Typed
BY DEF TextInv, Typed, FormatOk, DecodeTypeOK

LEMMA TextInit == DecodeInit => TextInv
<1> SUFFICES ASSUME DecodeInit PROVE TextInv
  OBVIOUS
<1> USE DEF DecodeInit
<1>1. charset \in {"windows-1252"} \cup DOMAIN Bom /\ bom \in BOOLEAN
  BY BomIs
<1>2. bom => charset \in DOMAIN Bom
  BY BomIs
<1>3. chars \in Seq(Char) /\ Len(chars) = 0 /\ text = <<>> /\ Len(text) = 0
  OBVIOUS
<1>4. Size \in Nat
  BY <1>1, <1>2, <1>3, EndIs DEF Typed, FormatOk, Ends, Size
<1>5. text \in Seq(Char \cup {"?"})
  BY <1>3
<1>6. DecodeTypeOK
  BY <1>1, <1>3, <1>4, <1>5, DecoderAssumption DEF DecodeTypeOK
<1>7. DecodedRight
  BY <1>3 DEF DecodedRight
<1> QED
  BY <1>2, <1>6, <1>7 DEF TextInv

LEMMA ReaderInTime ==
    ASSUME Typed, Typed', chars' = chars, charset' = charset, bom' = bom,
           UNCHANGED <<windows, encoding>>
    PROVE  Size' = Size /\ Knowable' = Knowable
<1>1. Len(chars) \in Nat /\ \A k \in 0 .. Len(chars) : End(k)' = End(k)
  BY EndSame DEF Typed
<1>2. Size' = Size
  BY <1>1 DEF Size
<1>3. \A k \in 1 .. Len(chars) : End(k - 1)' = End(k - 1)
  BY <1>1
<1> QED
  BY <1>2, <1>3
     DEF Knowable, Name, Known, DefaultName, ShowsIn,
         ToSet

\* A longer file is not known better.
LEMMA WriteKeeps ==
    ASSUME TextInv, NEW c \in Char, Write(c) PROVE TextInv'
<1> USE DEF Write, format
<1>1. Typed /\ Len(chars) \in Nat /\ DecodeTypeOK
  BY TextTyped DEF Typed, TextInv
<1>2. /\ chars' \in Seq(Char) /\ Len(chars') = Len(chars) + 1
      /\ \A i \in 1 .. Len(chars) : chars'[i] = chars[i]
  BY <1>1 DEF Typed
<1>3. Typed'
  BY <1>1, <1>2 DEF Typed, FormatOk, Char, Bom
<1>4. \A k \in 0 .. Len(chars) : End(k)' = End(k)
  BY <1>1, <1>2, <1>3, EndSame
<1>5. Size <= Size' /\ Size \in Nat /\ Size' \in Nat
  <2>n. PICK n \in Nat : n = Len(chars)
    BY <1>1
  <2>1. Ends /\ Ends'
    BY <1>1, <1>3, EndIs, EndIsNext
  <2>2. Len(chars') = n + 1
    BY <1>2, <2>n
  <2>3. /\ Size = End(n) /\ Size' = End(n + 1)'
        /\ n \in 0 .. n /\ n + 1 \in 0 .. n + 1 /\ n + 1 \in 1 .. n + 1 /\ n + 1 - 1 = n
    BY <2>n, <2>2 DEF Size
  <2>4. End(n + 1)' = End(n)' + Width(chars[n + 1])'
    BY <2>1, <2>2, <2>3 DEF Ends
  <2>5. Width(chars[n + 1])' \in 1 .. 4
    BY DEF Width
  <2>6. End(n)' = End(n) /\ End(n) \in Nat
    BY <1>4, <2>n, <2>1, <2>3 DEF Ends
  <2>7. PICK w \in 1 .. 4 : End(n + 1)' = End(n) + w
    BY <2>4, <2>5, <2>6
  <2>8. Size' = Size + w /\ Size \in Nat
    BY <2>3, <2>6, <2>7
  <2> QED
    BY <2>8
<1>6. DecodeTypeOK'
  <2>1. offset' \in 0 .. Size'
    BY <1>1, <1>5 DEF DecodeTypeOK
  <2>2. Len(chars') <= MaxChars /\ Len(text') <= Len(chars')
    BY <1>1, <1>2, DecoderAssumption DEF DecodeTypeOK
  <2> QED
    BY <1>1, <1>2, <2>1, <2>2 DEF DecodeTypeOK, Char, Bom
<1>7. Knowable' => Knowable
  <2>1. ToSet(chars) \subseteq ToSet(chars')
    BY <1>1, <1>2 DEF ToSet, Typed
  <2>2. ASSUME NEW k \in 1 .. Len(chars)
        PROVE  /\ k \in 1 .. Len(chars') /\ chars'[k] = chars[k]
               /\ ShowsIn(k)' <=> ShowsIn(k)
               /\ End(k - 1)' = End(k - 1)
    BY <1>1, <1>2, <1>4 DEF ShowsIn
  <2>3. Name' = Name /\ DefaultName' = DefaultName
    BY DEF Name, Known, DefaultName, Utf16
  <2> QED
    BY <2>1, <2>2, <2>3 DEF Knowable, UTFMax
<1>8. DecodedRight'
  <2> SUFFICES ASSUME NEW i \in 1 .. Len(text),
                      IF bom THEN charset \notin Utf16 \/ i <= first
                             ELSE Knowable'
               PROVE  text[i] = chars'[i]
    BY DEF DecodedRight, IsRight, Utf16
  <2>1. text[i] = chars[i]
    BY <1>7 DEF TextInv, DecodedRight, IsRight
  <2>2. i \in 1 .. Len(chars)
    BY <1>1 DEF DecodeTypeOK
  <2> QED
    BY <1>2, <2>1, <2>2
<1> QED
  BY <1>6, <1>8 DEF TextInv, Bom

\* A crawl reads the file to its end.
LEMMA CrawlKeeps == ASSUME TextInv, CrawlText PROVE TextInv'
<1> USE DEF CrawlText, format
<1>1. Typed /\ DecodeTypeOK /\ Len(chars) \in Nat /\ Len(text) \in Nat /\ Size \in Nat
  <2>1. Typed /\ DecodeTypeOK
    BY TextTyped DEF TextInv
  <2>2. Ends
    BY <2>1, EndIs
  <2> QED
    BY <2>1, <2>2 DEF Typed, Ends, Size, DecodeTypeOK
<1>2. Typed'
  BY <1>1 DEF Typed, FormatOk, Char, Bom
<1>3. Size' = Size /\ Knowable' = Knowable
  BY <1>1, <1>2, ReaderInTime
<1>4. offset' # 0 /\ offset' \in 0 .. Size'
  BY <1>1, <1>3 DEF DecodeTypeOK
<1> DEFINE new == [i \in 1 .. Len(chars) - Len(text) |-> Decoded(chars[Len(text) + i])]
           Codes == Char \cup {"?"}
<1>5. /\ Len(chars) - Len(text) \in Nat /\ new \in Seq(Codes)
      /\ Len(new) = Len(chars) - Len(text) /\ text \in Seq(Codes)
  <2>1. Len(chars) - Len(text) \in Nat /\ text \in Seq(Codes)
    BY <1>1 DEF DecodeTypeOK
  <2>2. ASSUME NEW i \in 1 .. Len(chars) - Len(text)
        PROVE  Decoded(chars[Len(text) + i]) \in Codes
    <3>1. Len(text) + i \in 1 .. Len(chars)
      BY <1>1, <2>1
    <3>2. chars[Len(text) + i] \in Char
      BY <1>1, <3>1 DEF Typed
    <3> QED
      BY <3>2 DEF Decoded
  <2> HIDE DEF Codes
  <2> QED
    BY <2>1, <2>2
<1>6. /\ text' \in Seq(Codes) /\ Len(text') = Len(chars)
      /\ \A i \in 1 .. Len(text) : text'[i] = text[i]
      /\ \A i \in Len(text) + 1 .. Len(chars) : text'[i] = Decoded(chars[i])
  <2>1. text' = text \o new
    OBVIOUS
  <2>2. ASSUME NEW i \in Len(text) + 1 .. Len(chars)
        PROVE  /\ i - Len(text) \in 1 .. Len(chars) - Len(text) /\ Len(text) + (i - Len(text)) = i
               /\ i \in Len(text) + 1 .. Len(text) + Len(new)
    BY <1>1, <1>5
  <2>3. \A i \in Len(text) + 1 .. Len(chars) : new[i - Len(text)] = Decoded(chars[i])
    BY <2>2
  <2> HIDE DEF new, Codes
  <2>4. /\ text' \in Seq(Codes) /\ Len(text') = Len(text) + Len(new)
        /\ \A i \in 1 .. Len(text) + Len(new) :
              text'[i] = IF i <= Len(text) THEN text[i] ELSE new[i - Len(text)]
    <3>1. /\ text \o new \in Seq(Codes) /\ Len(text \o new) = Len(text) + Len(new)
          /\ \A i \in 1 .. Len(text) + Len(new) :
                (text \o new)[i] = IF i <= Len(text) THEN text[i] ELSE new[i - Len(text)]
      BY <1>5, ConcatProperties
    <3> QED
      BY <2>1, <3>1
  <2>5. Len(text) + Len(new) = Len(chars)
    BY <1>1, <1>5
  <2>6. \A i \in 1 .. Len(text) : i \in 1 .. Len(text) + Len(new) /\ i <= Len(text)
    BY <1>1, <1>5
  <2>7. \A i \in Len(text) + 1 .. Len(chars) :
            i \in 1 .. Len(text) + Len(new) /\ ~ (i <= Len(text))
    BY <1>1, <2>5
  <2> QED
    BY <2>3, <2>4, <2>5, <2>6, <2>7
<1>7. first' \in 0 .. Len(text')
  BY <1>1, <1>6 DEF DecodeTypeOK
<1>8. DecodeTypeOK'
  BY <1>1, <1>4, <1>6, <1>7 DEF DecodeTypeOK, Char, Bom
<1>9. DecodedRight'
  <2> SUFFICES ASSUME NEW i \in 1 .. Len(chars),
                      IF bom THEN charset \notin Utf16 \/ i <= first'
                             ELSE Knowable
               PROVE  text'[i] = chars[i]
    BY <1>3, <1>6 DEF DecodedRight, IsRight, Utf16
  <2>1. CASE i <= Len(text)
    <3>1. offset # 0 /\ first' = first
      BY <1>1, <2>1 DEF TextInv
    <3>2. i \in 1 .. Len(text)
      BY <1>1, <2>1
    <3>3. text[i] = chars[i]
      BY <3>1, <3>2 DEF TextInv, DecodedRight, IsRight
    <3> QED
      BY <1>6, <3>2, <3>3
  <2>2. CASE i > Len(text)
    <3>1. i \in Len(text) + 1 .. Len(chars)
      BY <1>1, <2>2
    <3>2. offset # 0 => ~ (i <= first')
      BY <1>1, <2>2 DEF DecodeTypeOK
    <3>3. Decoded(chars[i]) = chars[i]
      BY <1>1, <3>2, ReadsRight
    <3> QED
      BY <1>6, <3>1, <3>3
  <2> QED
    BY <1>1, <2>1, <2>2
<1> QED
  BY <1>4, <1>8, <1>9 DEF TextInv, Bom

LEMMA TextStays == ASSUME TextInv, UNCHANGED decodeVars PROVE TextInv'
<1> USE DEF decodeVars, format
<1>1. Typed
  BY TextTyped
<1>2. Typed'
  BY <1>1 DEF Typed, FormatOk, Char, Bom
<1>3. Size' = Size /\ Knowable' = Knowable
  BY <1>1, <1>2, ReaderInTime
<1>4. DecodeTypeOK' /\ DecodedRight'
  BY <1>3 DEF TextInv, DecodeTypeOK, DecodedRight, IsRight, Utf16,
              Char, Bom
<1> QED
  BY <1>4 DEF TextInv, Bom

LEMMA TextStep == TextInv /\ [DecodeNext]_(decodeVars) => TextInv'
BY WriteKeeps, CrawlKeeps, TextStays DEF DecodeNext, NothingNew

LEMMA TextHolds == DecodeSpec => []TextInv
BY TextInit, TextStep, PTL DEF DecodeSpec

\* The reader keeps its types: no crawl reads past the end of a file, and there is
\* no more text than there are characters (utf8.go, crawler_files.go).
THEOREM DecodeTypeCorrect == DecodeSpec => []DecodeTypeOK
<1>1. TextInv => DecodeTypeOK
  BY DEF TextInv
<1> QED
  BY <1>1, TextHolds, PTL

\* What can be decoded right is, however the file grows between the crawls, and for
\* every length of the probe (utf8.go).
THEOREM DecodedRightHolds == DecodeSpec => []DecodedRight
<1>1. TextInv => DecodedRight
  BY DEF TextInv
<1> QED
  BY <1>1, TextHolds, PTL
=============================================================================
