------------------------ MODULE ReorderBufferProofs ------------------------
(***************************************************************************)
(* A reorder administration delivers in order and skips only what is       *)
(* unavailable, for every length of the buffer and of the stream.          *)
(***************************************************************************)
EXTENDS ReorderBuffer, FiniteSetTheorems, WellFoundedInduction, SequenceTheorems, TLAPS

Intervals == [min : Nat, maxp1 : Nat, sc : Seq(Nat)]
Modes3 == {"NORMAL", "MONOTONICALLY_INCREASING", "ALWAYS_DELIVER"}
Reorders == [mode : Modes3, max_samples : Nat, next_seq : Nat \ {0}, ivs : SUBSET Intervals,
             max_sampleiv : Intervals, n_samples : Nat]

TypeOK ==
    /\ reorder \in Reorders /\ last_seq \in Nat
    /\ unavailable \in SUBSET (Nat \ {0}) /\ delivered \in Seq(Nat)

\* The samples of a chain are younger from one to the next.
Rising(sc) == \A i, j \in 1..Len(sc) : i < j /\ sc[i] # 0 /\ sc[j] # 0 => sc[i] < sc[j]

\* Every element of a chain, a gap's too, has a number of its own in [lo, hi).
Fits(sc, lo, hi) ==
    /\ lo + Len(sc) <= hi
    /\ \A i \in 1..Len(sc) : sc[i] # 0 => lo + i - 1 <= sc[i] /\ sc[i] <= hi - 1 - (Len(sc) - i)
    /\ Rising(sc)

\* Intervals with their chains, disjoint and not consecutive.
Disjoint(ivs) ==
    \A v, w \in ivs : v = w \/ v.maxp1 < w.min \/ w.maxp1 < v.min
Filled(ivs) ==
    \A v \in ivs : v.sc # <<>> /\ Fits(v.sc, v.min, v.maxp1)
Tree(ivs) == ivs \subseteq Intervals /\ IsFiniteSet(ivs) /\ Disjoint(ivs) /\ Filled(ivs)

\* Everything in [lo, hi) is in the chain or known to be unavailable.
InChain(sc, n) == \E i \in 1..Len(sc) : sc[i] = n
Explains(sc, lo, hi, un) == \A n \in lo..(hi - 1) : n \in un \/ InChain(sc, n)

ROK(r, un) ==
    /\ Tree(r.ivs)
    /\ \A v \in r.ivs : r.next_seq < v.min /\ Explains(v.sc, v.min, v.maxp1, un)
    /\ r.mode # "NORMAL" => r.ivs = {}
    /\ r.max_sampleiv = FindMax(r.ivs)
    /\ r.n_samples = Len(ChainOf(r.ivs)) /\ r.n_samples <= r.max_samples

\* A gap that does not go on from another begins within the window.
GapsBegin(r, un) ==
    r.mode = "NORMAL" => \A n \in un : n - 1 \in un \cup {0} \/ n < r.next_seq + r.max_samples

DeliveredOK(r, un, dl) ==
    /\ r.mode # "ALWAYS_DELIVER" => Rising(dl) /\ \A i \in 1..Len(dl) : dl[i] < r.next_seq
    /\ r.mode = "NORMAL" => Explains(dl, 1, r.next_seq, un)

IInv ==
    /\ TypeOK /\ reorder.max_samples = MaxSamples
    /\ ROK(reorder, unavailable) /\ GapsBegin(reorder, unavailable)
    /\ DeliveredOK(reorder, unavailable, delivered)

----------------------------------------------------------------------------
(* Finite sets of intervals.                                                *)

\* Induction over the subsets of a finite set, stated with a set for the
\* property, so that it can be instantiated.
LEMMA SubsetInduction ==
    ASSUME NEW S, IsFiniteSet(S), NEW P,
           \A T \in SUBSET S : (\A v \in T : T \ {v} \in P) => T \in P
    PROVE  SUBSET S \subseteq P
  <1> DEFINE bad == (SUBSET S) \ P
  <1> SUFFICES ASSUME bad # {} PROVE FALSE
    OBVIOUS
  <1>1. IsWellFoundedOn(StrictSubsetOrdering(S), SUBSET S)
    <2>1. IsWellFoundedOn(StrictSubsetOrdering(S), FiniteSubsetsOf(S))
      BY FS_StrictSubsetOrderingWellFounded
    <2>2. FiniteSubsetsOf(S) = SUBSET S
      BY FS_FiniteSubsetsOfFinite
    <2> QED
      BY <2>1, <2>2
  <1>2. PICK T \in bad : \A U \in bad : ~(<<U, T>> \in StrictSubsetOrdering(S))
    <2>1. bad \subseteq SUBSET S
      OBVIOUS
    <2> HIDE DEF bad
    <2> QED
      BY <1>1, <2>1, WFMin, Zenon
  <1>3. \A v \in T : T \ {v} \in P
    <2> SUFFICES ASSUME NEW v \in T, T \ {v} \in bad PROVE FALSE
      BY <1>2
    <2>1. <<T \ {v}, T>> \in StrictSubsetOrdering(S)
      BY <1>2 DEF StrictSubsetOrdering
    <2> QED
      BY <1>2, <2>1
  <1> QED
    BY <1>2, <1>3

LEMMA LeastNumber ==
    ASSUME NEW S, S \subseteq Nat, S # {}
    PROVE  \E x \in S : \A y \in S : x <= y
  <1>1. PICK x \in S : \A y \in S : ~(<<y, x>> \in OpToRel(<, Nat))
    BY NatLessThanWellFounded, WFMin, Zenon
  <1>2. \A y \in S : ~(y < x)
    BY <1>1 DEF OpToRel
  <1> QED
    BY <1>2

LEMMA FindMinIs ==
    ASSUME NEW S, S \subseteq Intervals, S # {}
    PROVE  FindMin(S) \in S /\ \A w \in S : FindMin(S).min <= w.min
  <1>1. PICK x \in {v.min : v \in S} : \A y \in {v.min : v \in S} : x <= y
    <2>1. {v.min : v \in S} \subseteq Nat /\ {v.min : v \in S} # {}
      BY DEF Intervals
    <2> QED
      BY <2>1, LeastNumber
  <1>2. \E v \in S : \A w \in S : v.min <= w.min
    BY <1>1
  <1> QED
    BY <1>2 DEF FindMin

LEMMA FindMaxIs ==
    ASSUME NEW S, S \subseteq Intervals, IsFiniteSet(S), S # {}
    PROVE  FindMax(S) \in S /\ \A w \in S : w.min <= FindMax(S).min
  <1> DEFINE P == {T \in SUBSET S : T # {} => \E v \in T : \A w \in T : w.min <= v.min}
  <1>1. ASSUME NEW T \in SUBSET S, \A v \in T : T \ {v} \in P
        PROVE  T \in P
    <2> SUFFICES ASSUME T # {} PROVE \E v \in T : \A w \in T : w.min <= v.min
      OBVIOUS
    <2>1. PICK v \in T : TRUE
      OBVIOUS
    <2>2. \A w \in T : w.min \in Nat
      BY DEF Intervals
    <2>3. CASE T \ {v} = {}
      <3>1. \A w \in T : w = v
        BY <2>3
      <3> QED
        BY <2>1, <2>2, <3>1
    <2>4. CASE T \ {v} # {}
      <3>1. PICK u \in T \ {v} : \A w \in T \ {v} : w.min <= u.min
        BY <1>1, <2>1, <2>4
      <3>2. CASE u.min <= v.min
        BY <2>1, <2>2, <3>1, <3>2
      <3>3. CASE v.min <= u.min
        BY <2>1, <2>2, <3>1, <3>3
      <3> QED
        BY <2>1, <2>2, <3>2, <3>3
    <2> QED
      BY <2>3, <2>4
  <1>2. SUBSET S \subseteq P
    <2> HIDE DEF P
    <2> QED
      BY <1>1, SubsetInduction
  <1>3. \E v \in S : \A w \in S : w.min <= v.min
    BY <1>2
  <1> QED
    BY <1>3 DEF FindMax

\* Intervals that begin at different numbers, so that the first of some is
\* the first of all of them in which it is.
Apart(S) == S \subseteq Intervals /\ \A v, w \in S : v.min = w.min => v = w

LEMMA TreeApart == ASSUME NEW S, Tree(S) PROVE Apart(S)
  <1> SUFFICES ASSUME NEW v \in S, NEW w \in S, v.min = w.min PROVE v = w
    BY DEF Apart, Tree
  <1>1. v \in Intervals /\ w \in Intervals /\ v.min <= v.maxp1 /\ w.min <= w.maxp1
    <2>1. v \in Intervals /\ w \in Intervals
      BY DEF Tree
    <2>2. v.min + Len(v.sc) <= v.maxp1 /\ w.min + Len(w.sc) <= w.maxp1
      BY DEF Tree, Filled, Fits
    <2>3. Len(v.sc) \in Nat /\ Len(w.sc) \in Nat
      BY <2>1, LenProperties DEF Intervals
    <2> QED
      BY <2>1, <2>2, <2>3 DEF Intervals
  <1>2. v = w \/ v.maxp1 < w.min \/ w.maxp1 < v.min
    BY DEF Tree, Disjoint
  <1> QED
    BY <1>1, <1>2 DEF Intervals

LEMMA FirstOfSome ==
    ASSUME NEW S, Apart(S), NEW T, T \subseteq S, FindMin(S) \in T
    PROVE  FindMin(T) = FindMin(S)
  <1>1. T \subseteq Intervals /\ T # {} /\ S # {} /\ S \subseteq Intervals
    BY DEF Apart
  <1>2. FindMin(T) \in T /\ \A w \in T : FindMin(T).min <= w.min
    BY <1>1, FindMinIs
  <1>3. FindMin(S) \in S /\ \A w \in S : FindMin(S).min <= w.min
    BY <1>1, FindMinIs
  <1>4. FindMin(T).min \in Nat /\ FindMin(S).min \in Nat
    BY <1>1, <1>2, <1>3 DEF Intervals
  <1> QED
    BY <1>2, <1>3, <1>4 DEF Apart

----------------------------------------------------------------------------
(* ChainOf, a recursive function over sets of intervals: it exists, and what *)
(* it is of the rest of a set is ChainOf of the rest.                        *)

IsChain(f, S) ==
    f = [vs \in SUBSET S |->
            IF vs = {} THEN <<>> ELSE LET v == FindMin(vs) IN v.sc \o f[vs \ {v}]]

LEMMA ChainIs ==
    ASSUME NEW S, NEW f, IsChain(f, S), NEW T, T \subseteq S
    PROVE  f[T] = IF T = {} THEN <<>> ELSE FindMin(T).sc \o f[T \ {FindMin(T)}]
  BY Zenon DEF IsChain

LEMMA ChainExists ==
    ASSUME NEW S, IsFiniteSet(S), Apart(S)
    PROVE  \E f : IsChain(f, S)
  <1> DEFINE P == {T \in SUBSET S : \E f : IsChain(f, T)}
  <1>1. ASSUME NEW T \in SUBSET S, \A v \in T : T \ {v} \in P
        PROVE  T \in P
    <2>1. CASE T = {}
      <3> DEFINE f == [vs \in SUBSET {} |-> <<>>]
      <3>1. IsChain(f, {})
        BY Zenon DEF IsChain
      <3> QED
        BY <2>1, <3>1
    <2>2. CASE T # {}
      <3> DEFINE m == FindMin(T)
      <3>1. m \in T /\ Apart(T)
        BY <2>2, FindMinIs DEF Apart
      <3>2. PICK g : IsChain(g, T \ {m})
        BY <1>1, <3>1
      <3> DEFINE f == [vs \in SUBSET T |-> IF m \in vs THEN m.sc \o g[vs \ {m}] ELSE g[vs]]
      <3>3. \A vs \in SUBSET T :
               f[vs] = IF vs = {} THEN <<>> ELSE FindMin(vs).sc \o f[vs \ {FindMin(vs)}]
        <4> SUFFICES ASSUME NEW vs \in SUBSET T
                     PROVE  f[vs] = IF vs = {} THEN <<>> ELSE FindMin(vs).sc \o f[vs \ {FindMin(vs)}]
          OBVIOUS
        <4>1. CASE m \in vs
          <5>1. FindMin(vs) = m
            BY <3>1, <4>1, FirstOfSome
          <5>2. f[vs] = m.sc \o g[vs \ {m}] /\ f[vs \ {m}] = g[vs \ {m}] /\ vs # {}
            BY <4>1
          <5> QED
            BY <5>1, <5>2
        <4>2. CASE m \notin vs
          <5>1. vs \subseteq T \ {m}
            BY <4>2
          <5>2. f[vs] = g[vs] /\ \A v : f[vs \ {v}] = g[vs \ {v}]
            BY <4>2
          <5>3. g[vs] = IF vs = {} THEN <<>> ELSE FindMin(vs).sc \o g[vs \ {FindMin(vs)}]
            BY <3>2, <5>1, ChainIs
          <5> QED
            BY <5>2, <5>3
        <4> QED
          BY <4>1, <4>2
      <3>4. DOMAIN f = SUBSET T /\ f = [vs \in SUBSET T |-> f[vs]]
        BY Zenon
      <3> HIDE DEF f
      <3>5. IsChain(f, T)
        <4>1. [vs \in SUBSET T |-> f[vs]] =
                 [vs \in SUBSET T |->
                    IF vs = {} THEN <<>> ELSE FindMin(vs).sc \o f[vs \ {FindMin(vs)}]]
          BY <3>3
        <4> QED
          BY <3>4, <4>1 DEF IsChain
      <3> QED
        BY <3>5
    <2> QED
      BY <2>1, <2>2
  <1>2. SUBSET S \subseteq P
    <2> HIDE DEF P
    <2> QED
      BY <1>1, SubsetInduction
  <1> QED
    BY <1>2

LEMMA ChainUnique ==
    ASSUME NEW R, NEW S, NEW f, NEW g, IsFiniteSet(R), Apart(R), R \subseteq S,
           IsChain(f, S), IsChain(g, R)
    PROVE  f[R] = g[R]
  <1> DEFINE P == {T \in SUBSET R : f[T] = g[T]}
  <1>1. ASSUME NEW T \in SUBSET R, \A v \in T : T \ {v} \in P
        PROVE  T \in P
    <2>1. /\ f[T] = IF T = {} THEN <<>> ELSE FindMin(T).sc \o f[T \ {FindMin(T)}]
          /\ g[T] = IF T = {} THEN <<>> ELSE FindMin(T).sc \o g[T \ {FindMin(T)}]
      <3>1. T \subseteq S
        OBVIOUS
      <3>2. f[T] = IF T = {} THEN <<>> ELSE FindMin(T).sc \o f[T \ {FindMin(T)}]
        BY <3>1, Zenon DEF IsChain
      <3>3. g[T] = IF T = {} THEN <<>> ELSE FindMin(T).sc \o g[T \ {FindMin(T)}]
        BY Zenon DEF IsChain
      <3> QED
        BY <3>2, <3>3
    <2>2. T # {} => FindMin(T) \in T
      BY FindMinIs DEF Apart
    <2>3. T # {} => f[T \ {FindMin(T)}] = g[T \ {FindMin(T)}]
      BY <1>1, <2>2
    <2>4. f[T] = g[T]
      BY <2>1, <2>3
    <2> QED
      BY <2>4
  <1>2. SUBSET R \subseteq P
    <2> HIDE DEF P
    <2> QED
      BY <1>1, SubsetInduction
  <1> QED
    BY <1>2

LEMMA ChainOfIs ==
    ASSUME NEW S, IsFiniteSet(S), Apart(S)
    PROVE  ChainOf(S) = IF S = {} THEN <<>>
                        ELSE FindMin(S).sc \o ChainOf(S \ {FindMin(S)})
  <1>1. \A T : IsFiniteSet(T) /\ Apart(T) => \E f : IsChain(f, T) /\ ChainOf(T) = f[T]
    <2> SUFFICES ASSUME NEW T, IsFiniteSet(T), Apart(T)
                 PROVE  \E f : IsChain(f, T) /\ ChainOf(T) = f[T]
      OBVIOUS
    <2> DEFINE c == CHOOSE f : IsChain(f, T)
    <2>1. IsChain(c, T)
      BY ChainExists, Zenon
    <2>2. ChainOf(T) = c[T]
      BY Zenon DEF ChainOf, IsChain
    <2> QED
      BY <2>1, <2>2
  <1>2. PICK f : IsChain(f, S) /\ ChainOf(S) = f[S]
    BY <1>1
  <1>3. f[S] = IF S = {} THEN <<>> ELSE FindMin(S).sc \o f[S \ {FindMin(S)}]
    BY <1>2, ChainIs
  <1>4. f[S \ {FindMin(S)}] = ChainOf(S \ {FindMin(S)})
    <2> DEFINE R == S \ {FindMin(S)}
    <2>1. IsFiniteSet(R) /\ Apart(R) /\ R \subseteq S
      BY FS_Subset DEF Apart
    <2>2. PICK g : IsChain(g, R) /\ ChainOf(R) = g[R]
      BY <1>1, <2>1
    <2> HIDE DEF R
    <2>3. f[R] = g[R]
      BY <1>2, <2>1, <2>2, ChainUnique
    <2> QED
      BY <2>2, <2>3 DEF R
  <1> QED
    BY <1>2, <1>3, <1>4

----------------------------------------------------------------------------
(* What chains are made of.                                                  *)

LEMMA FitsWider ==
    ASSUME NEW sc \in Seq(Nat), NEW lo \in Nat, NEW hi \in Nat, NEW l \in Nat, NEW h \in Nat,
           l <= lo, hi <= h, Fits(sc, lo, hi)
    PROVE  Fits(sc, l, h)
  <1> DEFINE n == Len(sc)
  <1>1. n \in Nat /\ \A i \in 1..n : sc[i] \in Nat
    BY LenProperties, ElementOfSeq
  <1>2. lo + n <= hi /\ Rising(sc)
    BY DEF Fits
  <1>3. \A i \in 1..n : sc[i] # 0 => lo + i - 1 <= sc[i] /\ sc[i] <= hi - 1 - (n - i)
    BY DEF Fits
  <1> HIDE DEF n
  <1>4. \A i \in 1..n : sc[i] # 0 => l + i - 1 <= sc[i] /\ sc[i] <= h - 1 - (n - i)
    BY <1>1, <1>3
  <1>5. l + n <= h
    BY <1>1, <1>2
  <1> QED
    BY <1>2, <1>4, <1>5 DEF Fits, n

LEMMA FitsConcat ==
    ASSUME NEW a \in Seq(Nat), NEW b \in Seq(Nat),
           NEW lo \in Nat, NEW mid \in Nat, NEW from \in Nat, NEW hi \in Nat,
           Fits(a, lo, mid), Fits(b, from, hi), mid <= from
    PROVE  a \o b \in Seq(Nat) /\ Len(a \o b) = Len(a) + Len(b) /\ Fits(a \o b, lo, hi)
  <1> DEFINE m == Len(a)  n == Len(b)  c == a \o b  l == Len(c)
  <1>1. m \in Nat /\ n \in Nat
    BY LenProperties
  <1>2. c \in Seq(Nat) /\ l = m + n
    BY ConcatProperties
  <1>3. \A i \in 1..(m + n) : IF i <= m THEN i \in 1..m /\ c[i] = a[i]
                              ELSE i - m \in 1..n /\ c[i] = b[i - m]
    BY <1>1, ConcatProperties
  <1>4. \A i \in 1..m : a[i] \in Nat
    BY ElementOfSeq
  <1>5. \A i \in 1..n : b[i] \in Nat
    BY ElementOfSeq
  <1>6. lo + m <= mid /\ from + n <= hi
    BY DEF Fits
  <1>7. \A i \in 1..m : a[i] # 0 => lo + i - 1 <= a[i] /\ a[i] <= mid - 1 - (m - i)
    BY DEF Fits
  <1>8. \A i \in 1..n : b[i] # 0 => from + i - 1 <= b[i] /\ b[i] <= hi - 1 - (n - i)
    BY DEF Fits
  <1>9. /\ \A i, j \in 1..m : i < j /\ a[i] # 0 /\ a[j] # 0 => a[i] < a[j]
        /\ \A i, j \in 1..n : i < j /\ b[i] # 0 /\ b[j] # 0 => b[i] < b[j]
    BY DEF Fits, Rising
  <1> HIDE DEF m, n, c, l
  <1>10. ASSUME NEW i \in 1..(m + n), c[i] # 0
         PROVE  lo + i - 1 <= c[i] /\ c[i] <= hi - 1 - (l - i)
    <2>1. CASE i <= m
      <3>1. i \in 1..m /\ c[i] = a[i]
        BY <1>3, <2>1
      <3>2. a[i] \in Nat /\ lo + i - 1 <= a[i] /\ a[i] <= mid - 1 - (m - i)
        BY <1>4, <1>7, <1>10, <3>1
      <3>3. \A x, k \in Nat : x <= mid - 1 - (m - k) => x <= hi - 1 - (l - k)
        BY <1>1, <1>2, <1>6
      <3>4. i \in Nat
        BY <1>1
      <3> QED
        BY <3>1, <3>2, <3>3, <3>4
    <2>2. CASE ~(i <= m)
      <3>1. i - m \in 1..n /\ c[i] = b[i - m]
        BY <1>3, <2>2
      <3>2. b[i - m] \in Nat /\ from + (i - m) - 1 <= b[i - m] /\ b[i - m] <= hi - 1 - (n - (i - m))
        BY <1>5, <1>8, <1>10, <3>1
      <3>3. \A x, k \in Nat :
               from + (k - m) - 1 <= x /\ x <= hi - 1 - (n - (k - m)) =>
                 lo + k - 1 <= x /\ x <= hi - 1 - (l - k)
        BY <1>1, <1>2, <1>6
      <3>4. i \in Nat
        BY <1>1
      <3> QED
        BY <3>1, <3>2, <3>3, <3>4
    <2> QED
      BY <2>1, <2>2, Zenon
  <1>11. ASSUME NEW i \in 1..(m + n), NEW j \in 1..(m + n), i < j, c[i] # 0, c[j] # 0
         PROVE  c[i] < c[j]
    <2>1. CASE j <= m
      <3>1. i \in 1..m /\ j \in 1..m /\ c[i] = a[i] /\ c[j] = a[j]
        BY <1>1, <1>3, <1>11, <2>1
      <3> QED
        BY <1>9, <1>11, <3>1
    <2>2. CASE ~(i <= m)
      <3>1. i - m \in 1..n /\ j - m \in 1..n /\ i - m < j - m /\ c[i] = b[i - m] /\ c[j] = b[j - m]
        BY <1>1, <1>3, <1>11, <2>2
      <3> QED
        BY <1>9, <1>11, <3>1
    <2>3. CASE i <= m /\ ~(j <= m)
      <3>1. i \in 1..m /\ c[i] = a[i] /\ j - m \in 1..n /\ c[j] = b[j - m]
        BY <1>3, <2>3
      <3>2. a[i] \in Nat /\ a[i] <= mid - 1 - (m - i)
        BY <1>4, <1>7, <1>11, <3>1
      <3>3. b[j - m] \in Nat /\ from + (j - m) - 1 <= b[j - m]
        BY <1>5, <1>8, <1>11, <3>1
      <3>4. i \in Nat /\ j \in Nat /\ i <= m /\ ~(j <= m)
        BY <1>1, <2>3
      <3>5. \A x, y \in Nat : x <= mid - 1 - (m - i) /\ from + (j - m) - 1 <= y => x < y
        BY <1>1, <3>4
      <3> QED
        BY <3>1, <3>2, <3>3, <3>5
    <2> QED
      BY <1>1, <1>11, <2>1, <2>2, <2>3
  <1>12. Len(a) = m /\ Len(b) = n /\ a \o b = c
    BY DEF m, n, c
  <1>13. lo + (m + n) <= hi
    BY <1>1, <1>6
  <1>14. Fits(c, lo, hi)
    <2>1. lo + l <= hi
      BY <1>2, <1>13
    <2>2. \A i \in 1..l : c[i] # 0 => lo + i - 1 <= c[i] /\ c[i] <= hi - 1 - (l - i)
      BY <1>2, <1>10
    <2>3. Rising(c)
      BY <1>2, <1>11 DEF Rising, l
    <2> QED
      BY <2>1, <2>2, <2>3 DEF Fits, l
  <1> QED
    BY <1>2, <1>12, <1>14 DEF l

LEMMA InConcat ==
    ASSUME NEW a \in Seq(Nat), NEW b \in Seq(Nat), NEW n
    PROVE  InChain(a \o b, n) <=> InChain(a, n) \/ InChain(b, n)
  <1>1. Len(a) \in Nat /\ Len(b) \in Nat /\ Len(a \o b) = Len(a) + Len(b)
    BY LenProperties, ConcatProperties
  <1>2. \A i \in 1..(Len(a) + Len(b)) : (a \o b)[i] = IF i <= Len(a) THEN a[i] ELSE b[i - Len(a)]
    BY ConcatProperties
  <1>3. ASSUME InChain(a \o b, n) PROVE InChain(a, n) \/ InChain(b, n)
    <2>1. PICK i \in 1..(Len(a) + Len(b)) : (a \o b)[i] = n
      BY <1>1, <1>3 DEF InChain
    <2>2. CASE i <= Len(a)
      BY <1>1, <1>2, <2>1, <2>2 DEF InChain
    <2>3. CASE ~(i <= Len(a))
      <3>1. i - Len(a) \in 1..Len(b) /\ b[i - Len(a)] = n
        BY <1>1, <1>2, <2>1, <2>3
      <3> QED
        BY <3>1 DEF InChain
    <2> QED
      BY <2>2, <2>3
  <1>4. ASSUME InChain(a, n) PROVE InChain(a \o b, n)
    <2>1. PICK i \in 1..Len(a) : a[i] = n
      BY <1>4 DEF InChain
    <2>2. i \in 1..(Len(a) + Len(b)) /\ i <= Len(a)
      BY <1>1
    <2> QED
      BY <1>1, <1>2, <2>1, <2>2 DEF InChain
  <1>5. ASSUME InChain(b, n) PROVE InChain(a \o b, n)
    <2>1. PICK i \in 1..Len(b) : b[i] = n
      BY <1>5 DEF InChain
    <2>2. i + Len(a) \in 1..(Len(a) + Len(b)) /\ ~(i + Len(a) <= Len(a)) /\ i + Len(a) - Len(a) = i
      BY <1>1
    <2>3. (a \o b)[i + Len(a)] = n
      BY <1>2, <2>1, <2>2
    <2> QED
      BY <1>1, <2>2, <2>3 DEF InChain
  <1> QED
    BY <1>3, <1>4, <1>5

LEMMA TreeSubset == ASSUME NEW S, Tree(S), NEW T, T \subseteq S PROVE Tree(T)
  <1>1. IsFiniteSet(T)
    BY FS_Subset DEF Tree
  <1> QED
    BY <1>1 DEF Tree, Disjoint, Filled

LEMMA IntervalIs ==
    ASSUME NEW S, Tree(S), NEW v \in S
    PROVE  /\ v.min \in Nat /\ v.maxp1 \in Nat /\ v.sc \in Seq(Nat) /\ v = Interval(v.min, v.maxp1, v.sc)
           /\ Len(v.sc) \in Nat \ {0} /\ v.min + Len(v.sc) <= v.maxp1 /\ v.min < v.maxp1
           /\ Fits(v.sc, v.min, v.maxp1)
  <1>1. v \in Intervals /\ v.sc # <<>> /\ Fits(v.sc, v.min, v.maxp1)
    BY DEF Tree, Filled
  <1>2. v.min \in Nat /\ v.maxp1 \in Nat /\ v.sc \in Seq(Nat)
    BY <1>1 DEF Intervals
  <1>3. Len(v.sc) \in Nat \ {0}
    BY <1>1, <1>2, EmptySeq
  <1>4. v.min + Len(v.sc) <= v.maxp1
    BY <1>1 DEF Fits
  <1>5. v = Interval(v.min, v.maxp1, v.sc)
    BY <1>1 DEF Intervals, Interval
  <1> QED
    BY <1>1, <1>2, <1>3, <1>4, <1>5

LEMMA ChainFits ==
    ASSUME NEW S, Tree(S), NEW lo \in Nat, NEW hi \in Nat, lo <= hi,
           \A v \in S : lo <= v.min /\ v.maxp1 <= hi
    PROVE  ChainOf(S) \in Seq(Nat) /\ Fits(ChainOf(S), lo, hi)
  <1> DEFINE P == {T \in SUBSET S :
                     \A l \in Nat : l <= hi /\ (\A v \in T : l <= v.min) =>
                       ChainOf(T) \in Seq(Nat) /\ Fits(ChainOf(T), l, hi)}
  <1>1. ASSUME NEW T \in SUBSET S, \A v \in T : T \ {v} \in P
        PROVE  T \in P
    <2> SUFFICES ASSUME NEW l \in Nat, l <= hi, \A v \in T : l <= v.min
                 PROVE  ChainOf(T) \in Seq(Nat) /\ Fits(ChainOf(T), l, hi)
      OBVIOUS
    <2>1. Tree(T) /\ Apart(T) /\ IsFiniteSet(T)
      BY TreeSubset, TreeApart DEF Tree
    <2>2. CASE T = {}
      <3>1. ChainOf(T) = <<>>
        BY <2>1, <2>2, ChainOfIs
      <3>2. Len(<<>>) = 0 /\ <<>> \in Seq(Nat) /\ \A i \in 1..0 : FALSE
        OBVIOUS
      <3> QED
        BY <3>1, <3>2 DEF Fits, Rising
    <2>3. CASE T # {}
      <3> DEFINE m == FindMin(T)  R == T \ {m}
      <3>1. m \in T /\ \A w \in T : m.min <= w.min
        BY <2>1, <2>3, FindMinIs DEF Apart
      <3>2. ChainOf(T) = m.sc \o ChainOf(R)
        BY <2>1, <2>3, ChainOfIs
      <3>3. /\ m.min \in Nat /\ m.maxp1 \in Nat /\ m.sc \in Seq(Nat) /\ m.min < m.maxp1
            /\ Fits(m.sc, m.min, m.maxp1) /\ m.maxp1 <= hi /\ l <= m.min
        BY <2>1, <3>1, IntervalIs
      <3>4. \A w \in R : m.maxp1 <= w.min
        <4> SUFFICES ASSUME NEW w \in R PROVE m.maxp1 <= w.min
          OBVIOUS
        <4>1. w.min \in Nat /\ w.maxp1 \in Nat /\ w.min < w.maxp1 /\ m.min <= w.min
          BY <2>1, <3>1, IntervalIs
        <4>2. m = w \/ m.maxp1 < w.min \/ w.maxp1 < m.min
          BY <2>1, <3>1 DEF Tree, Disjoint
        <4> QED
          BY <3>3, <4>1, <4>2
      <3>5. ChainOf(R) \in Seq(Nat) /\ Fits(ChainOf(R), m.maxp1, hi)
        BY <1>1, <3>1, <3>3, <3>4
      <3> HIDE DEF m, R
      <3>6. Fits(m.sc, l, m.maxp1)
        BY <3>3, FitsWider
      <3>7. m.maxp1 <= m.maxp1
        BY <3>3
      <3>8. m.sc \o ChainOf(R) \in Seq(Nat) /\ Fits(m.sc \o ChainOf(R), l, hi)
        BY <3>3, <3>5, <3>6, <3>7, FitsConcat
      <3> QED
        BY <3>2, <3>8
    <2> QED
      BY <2>2, <2>3
  <1>2. SUBSET S \subseteq P
    <2>1. IsFiniteSet(S)
      BY DEF Tree
    <2> HIDE DEF P
    <2> QED
      BY <1>1, <2>1, SubsetInduction
  <1> QED
    BY <1>2

\* A chain holds what the chains of its parts do, and is as long as they are.
LEMMA ChainType == ASSUME NEW S, Tree(S) PROVE ChainOf(S) \in Seq(Nat)
  <1> DEFINE P == {T \in SUBSET S : ChainOf(T) \in Seq(Nat)}
  <1>1. ASSUME NEW T \in SUBSET S, \A v \in T : T \ {v} \in P
        PROVE  T \in P
    <2>1. Tree(T) /\ Apart(T) /\ IsFiniteSet(T)
      BY TreeSubset, TreeApart DEF Tree
    <2>2. CASE T = {}
      <3>1. ChainOf(T) = <<>> /\ <<>> \in Seq(Nat)
        BY <2>1, <2>2, ChainOfIs
      <3> QED
        BY <3>1
    <2>3. CASE T # {}
      <3>1. FindMin(T) \in T
        BY <2>1, <2>3, FindMinIs DEF Apart
      <3>2. ChainOf(T) = FindMin(T).sc \o ChainOf(T \ {FindMin(T)})
        BY <2>1, <2>3, ChainOfIs
      <3>3. FindMin(T).sc \in Seq(Nat) /\ ChainOf(T \ {FindMin(T)}) \in Seq(Nat)
        BY <1>1, <2>1, <3>1, IntervalIs
      <3>4. ChainOf(T) \in Seq(Nat)
        BY <3>2, <3>3, ConcatProperties
      <3> QED
        BY <3>4
    <2> QED
      BY <2>2, <2>3
  <1>2. SUBSET S \subseteq P
    <2>1. IsFiniteSet(S)
      BY DEF Tree
    <2> HIDE DEF P
    <2> QED
      BY <1>1, <2>1, SubsetInduction
  <1> QED
    BY <1>2

LEMMA ChainHolds ==
    ASSUME NEW S, Tree(S), NEW n, NEW v \in S, InChain(v.sc, n)
    PROVE  InChain(ChainOf(S), n)
  <1> DEFINE P == {T \in SUBSET S : v \in T => InChain(ChainOf(T), n)}
  <1>1. ASSUME NEW T \in SUBSET S, \A w \in T : T \ {w} \in P
        PROVE  T \in P
    <2> SUFFICES ASSUME v \in T PROVE InChain(ChainOf(T), n)
      OBVIOUS
    <2>1. Tree(T) /\ Apart(T) /\ IsFiniteSet(T)
      BY TreeSubset, TreeApart DEF Tree
    <2> DEFINE m == FindMin(T)  R == T \ {m}
    <2>2. m \in T
      BY <2>1, FindMinIs DEF Apart
    <2>3. ChainOf(T) = m.sc \o ChainOf(R)
      BY <2>1, ChainOfIs
    <2>4. m.sc \in Seq(Nat) /\ ChainOf(R) \in Seq(Nat)
      BY <2>1, <2>2, IntervalIs, TreeSubset, ChainType
    <2>5. InChain(m.sc, n) \/ InChain(ChainOf(R), n)
      BY <1>1, <2>2
    <2> HIDE DEF m, R
    <2> QED
      BY <2>3, <2>4, <2>5, InConcat
  <1>2. SUBSET S \subseteq P
    <2>1. IsFiniteSet(S)
      BY DEF Tree
    <2> HIDE DEF P
    <2> QED
      BY <1>1, <2>1, SubsetInduction
  <1> QED
    BY <1>2

Total(S) == Len(ChainOf(S))

LEMMA TotalEmpty == Total({}) = 0
  <1>1. IsFiniteSet({}) /\ Apart({})
    BY FS_EmptySet DEF Apart
  <1> QED
    BY <1>1, ChainOfIs DEF Total

LEMMA TotalWithout ==
    ASSUME NEW S, Tree(S), NEW v \in S
    PROVE  /\ Total(S) = Len(v.sc) + Total(S \ {v})
           /\ Total(S) \in Nat /\ Total(S \ {v}) \in Nat /\ Len(v.sc) \in Nat
  <1>0. \A T \in SUBSET S : Total(T) \in Nat /\ Tree(T) /\ Apart(T) /\ IsFiniteSet(T)
    BY TreeSubset, TreeApart, ChainType, LenProperties DEF Total, Tree
  <1> DEFINE P == {T \in SUBSET S : \A w \in T : Total(T) = Len(w.sc) + Total(T \ {w})}
  <1>1. ASSUME NEW T \in SUBSET S, \A w \in T : T \ {w} \in P
        PROVE  T \in P
    <2> SUFFICES ASSUME NEW w \in T PROVE Total(T) = Len(w.sc) + Total(T \ {w})
      OBVIOUS
    <2> DEFINE m == FindMin(T)
    <2>1. m \in T
      BY <1>0, FindMinIs DEF Apart
    <2>2. \A U \in SUBSET T : m \in U => Total(U) = Len(m.sc) + Total(U \ {m})
      <3> SUFFICES ASSUME NEW U \in SUBSET T, m \in U PROVE Total(U) = Len(m.sc) + Total(U \ {m})
        OBVIOUS
      <3>1. FindMin(U) = m
        BY <1>0, FirstOfSome
      <3>2. U \in SUBSET S /\ U \ {m} \in SUBSET S /\ U # {}
        OBVIOUS
      <3>3. ChainOf(U) = m.sc \o ChainOf(U \ {m})
        BY <1>0, <3>1, <3>2, ChainOfIs
      <3>4. m.sc \in Seq(Nat) /\ ChainOf(U \ {m}) \in Seq(Nat)
        BY <1>0, <2>1, <3>2, IntervalIs, ChainType
      <3> QED
        BY <3>3, <3>4, ConcatProperties DEF Total
    <2>3. CASE w = m
      BY <2>1, <2>2, <2>3
    <2>4. CASE w # m
      <3>1. Total(T) = Len(m.sc) + Total(T \ {m}) /\ Total(T \ {w}) = Len(m.sc) + Total((T \ {w}) \ {m})
        BY <2>1, <2>2, <2>4
      <3>2. Total(T \ {m}) = Len(w.sc) + Total((T \ {m}) \ {w})
        BY <1>1, <2>1, <2>4
      <3>3. (T \ {m}) \ {w} = (T \ {w}) \ {m}
        OBVIOUS
      <3>4. Len(m.sc) \in Nat /\ Len(w.sc) \in Nat /\ Total((T \ {w}) \ {m}) \in Nat
        BY <1>0, <2>1, IntervalIs
      <3> DEFINE rest == Total((T \ {w}) \ {m})
      <3>5. Total(T \ {m}) = Len(w.sc) + rest
        BY <3>2, <3>3
      <3>6. Total(T \ {w}) = Len(m.sc) + rest /\ rest \in Nat
        BY <3>1, <3>4
      <3> HIDE DEF m, rest
      <3> QED
        BY <3>1, <3>4, <3>5, <3>6
    <2> QED
      BY <2>3, <2>4
  <1>2. SUBSET S \subseteq P
    <2>1. IsFiniteSet(S)
      BY DEF Tree
    <2> HIDE DEF P
    <2> QED
      BY <1>1, <2>1, SubsetInduction
  <1>3. Len(v.sc) \in Nat
    BY IntervalIs
  <1> QED
    BY <1>0, <1>2, <1>3

LEMMA TotalParts ==
    ASSUME NEW S, Tree(S), NEW A, A \subseteq S
    PROVE  /\ Total(S) = Total(A) + Total(S \ A)
           /\ Total(S) \in Nat /\ Total(A) \in Nat /\ Total(S \ A) \in Nat
  <1>1. \A T \in SUBSET S : Total(T) \in Nat /\ Tree(T)
    BY TreeSubset, ChainType, LenProperties DEF Total
  <1> DEFINE P == {T \in SUBSET S : Total(S) = Total(T) + Total(S \ T)}
  <1>2. ASSUME NEW T \in SUBSET S, \A v \in T : T \ {v} \in P
        PROVE  T \in P
    <2>1. CASE T = {}
      <3>1. S \ T = S /\ Total(T) = 0 /\ Total(S) \in Nat
        BY <1>1, <2>1, TotalEmpty
      <3> QED
        BY <3>1
    <2>2. CASE T # {}
      <3>1. PICK v \in T : TRUE
        BY <2>2
      <3> DEFINE Q == S \ (T \ {v})
      <3>2. Total(S) = Total(T \ {v}) + Total(Q)
        BY <1>2
      <3>3. Total(T) = Len(v.sc) + Total(T \ {v}) /\ Total(T \ {v}) \in Nat /\ Len(v.sc) \in Nat
        BY <1>1, TotalWithout
      <3>4. Q \ {v} = S \ T /\ v \in Q /\ Tree(Q)
        BY <1>1
      <3>5. Total(Q) = Len(v.sc) + Total(S \ T) /\ Total(S \ T) \in Nat
        BY <3>4, TotalWithout
      <3> HIDE DEF Q
      <3>6. Total(S) = Total(T) + Total(S \ T)
        BY <3>2, <3>3, <3>5
      <3> QED
        BY <3>6
    <2> QED
      BY <2>1, <2>2
  <1>3. SUBSET S \subseteq P
    <2>1. IsFiniteSet(S)
      BY DEF Tree
    <2> HIDE DEF P
    <2> QED
      BY <1>2, <2>1, SubsetInduction
  <1> QED
    BY <1>1, <1>3

----------------------------------------------------------------------------
(* The tree.                                                                 *)

TreeOK(ivs, next, un) ==
    Tree(ivs) /\ \A v \in ivs : next < v.min /\ Explains(v.sc, v.min, v.maxp1, un)

LEMMA PutInterval ==
    ASSUME NEW S, NEW next, NEW un, TreeOK(S, next, un), NEW R, R \subseteq S,
           NEW v \in Intervals, v.sc # <<>>, Fits(v.sc, v.min, v.maxp1),
           next < v.min, Explains(v.sc, v.min, v.maxp1, un),
           \A w \in R : w.maxp1 < v.min \/ v.maxp1 < w.min
    PROVE  /\ TreeOK(R \cup {v}, next, un) /\ Total(R \cup {v}) = Total(R) + Len(v.sc)
           /\ Total(R) \in Nat /\ Len(v.sc) \in Nat
  <1>1. Tree(R)
    BY TreeSubset DEF TreeOK
  <1>2. v \notin R
    <2> SUFFICES ASSUME v \in R PROVE FALSE
      OBVIOUS
    <2>1. v.min \in Nat /\ v.maxp1 \in Nat /\ v.min < v.maxp1
      BY <1>1, IntervalIs
    <2> QED
      BY <2>1
  <1>3. Tree(R \cup {v})
    <2>1. IsFiniteSet(R \cup {v})
      BY <1>1, FS_AddElement DEF Tree
    <2> QED
      BY <1>1, <2>1 DEF Tree, Disjoint, Filled
  <1>4. TreeOK(R \cup {v}, next, un)
    BY <1>3 DEF TreeOK
  <1>5. (R \cup {v}) \ {v} = R
    BY <1>2
  <1>6. /\ Total(R \cup {v}) = Len(v.sc) + Total((R \cup {v}) \ {v})
        /\ Total((R \cup {v}) \ {v}) \in Nat /\ Len(v.sc) \in Nat
    BY <1>3, TotalWithout
  <1>7. Total(R) \in Nat /\ Total(R \cup {v}) = Len(v.sc) + Total(R)
    BY <1>5, <1>6
  <1>8. Total(R \cup {v}) = Total(R) + Len(v.sc)
    BY <1>6, <1>7
  <1> QED
    BY <1>4, <1>6, <1>7, <1>8, Zenon

LEMMA LastIs ==
    ASSUME NEW S, Tree(S), NEW v \in S, \A w \in S : w.min <= v.min
    PROVE  FindMax(S) = v
  <1>1. S \subseteq Intervals /\ IsFiniteSet(S) /\ S # {} /\ Apart(S)
    BY TreeApart DEF Tree
  <1>2. FindMax(S) \in S /\ v.min <= FindMax(S).min
    BY <1>1, FindMaxIs
  <1>3. FindMax(S).min \in Nat /\ v.min \in Nat /\ FindMax(S).min <= v.min
    BY <1>1, <1>2 DEF Intervals
  <1> QED
    BY <1>1, <1>2, <1>3 DEF Apart

LEMMA LastProperties ==
    ASSUME NEW S, Tree(S), S # {}
    PROVE  FindMax(S) \in S /\ \A w \in S : w = FindMax(S) \/ w.maxp1 < FindMax(S).min
  <1>1. S \subseteq Intervals /\ IsFiniteSet(S)
    BY DEF Tree
  <1>2. FindMax(S) \in S /\ \A w \in S : w.min <= FindMax(S).min
    BY <1>1, FindMaxIs
  <1> SUFFICES ASSUME NEW w \in S, w # FindMax(S) PROVE w.maxp1 < FindMax(S).min
    BY <1>2
  <1>3. /\ w.min \in Nat /\ FindMax(S).maxp1 \in Nat /\ FindMax(S).min \in Nat
        /\ FindMax(S).min < FindMax(S).maxp1 /\ w.min <= FindMax(S).min
    BY <1>2, IntervalIs
  <1>4. w.maxp1 < FindMax(S).min \/ FindMax(S).maxp1 < w.min
    BY <1>2 DEF Tree, Disjoint
  <1> QED
    BY <1>3, <1>4

LEMMA NoIntervalNot == ASSUME NEW S, Tree(S) PROVE NoInterval \notin S
  <1>1. NoInterval.sc = <<>>
    BY DEF NoInterval, Interval
  <1> QED
    BY <1>1 DEF Tree, Filled

\* The one element of a chain: a sample or a gap.
LEMMA OneElement ==
    ASSUME NEW x \in Nat, NEW lo \in Nat, NEW hi \in Nat, lo < hi, x = 0 \/ (x = lo /\ hi = lo + 1)
    PROVE  /\ <<x>> \in Seq(Nat) /\ Len(<<x>>) = 1 /\ <<x>> # <<>> /\ Fits(<<x>>, lo, hi)
           /\ InChain(<<x>>, x)
  <1>1. <<x>> \in Seq(Nat) /\ Len(<<x>>) = 1 /\ <<x>>[1] = x
    OBVIOUS
  <1>2. \A i \in 1..1 : i = 1
    OBVIOUS
  <1>3. Rising(<<x>>)
    BY <1>1, <1>2 DEF Rising
  <1>4. Fits(<<x>>, lo, hi)
    BY <1>1, <1>2, <1>3 DEF Fits
  <1>5. InChain(<<x>>, x)
    BY <1>1 DEF InChain
  <1> QED
    BY <1>1, <1>4, <1>5

----------------------------------------------------------------------------
(* What the operations return.                                               *)

\* The administration is in order, and what is delivered goes on, in order,
\* where the last delivery ended.
Good(o, r, un) ==
    /\ o.reorder \in Reorders /\ o.reorder.mode = r.mode /\ o.reorder.max_samples = r.max_samples
    /\ ROK(o.reorder, un)
    /\ o.sc \in Seq(Nat)
    /\ r.mode # "ALWAYS_DELIVER" =>
         /\ r.next_seq <= o.reorder.next_seq /\ Rising(o.sc)
         /\ \A i \in 1..Len(o.sc) : o.sc[i] # 0 =>
              r.next_seq <= o.sc[i] /\ o.sc[i] < o.reorder.next_seq
    /\ r.mode = "NORMAL" => Explains(o.sc, r.next_seq, o.reorder.next_seq, un)

LEMMA NothingDelivered ==
    ASSUME NEW r \in Reorders, NEW q \in Reorders, NEW un, NEW res, ROK(q, un),
           q.mode = r.mode, q.max_samples = r.max_samples, r.next_seq <= q.next_seq,
           r.mode = "NORMAL" => \A n \in r.next_seq..(q.next_seq - 1) : n \in un
    PROVE  Good(Result(q, res, <<>>), r, un)
  <1> DEFINE o == Result(q, res, <<>>)
  <1>1. o.reorder = q /\ o.sc = <<>>
    BY DEF Result
  <1>2. <<>> \in Seq(Nat) /\ Len(<<>>) = 0 /\ \A i \in 1..0 : FALSE
    OBVIOUS
  <1>3. Rising(<<>>) /\ \A i \in 1..Len(<<>>) : FALSE
    BY <1>2 DEF Rising
  <1>4. r.mode = "NORMAL" => Explains(<<>>, r.next_seq, q.next_seq, un)
    BY DEF Explains
  <1> HIDE DEF o
  <1>5. Good(o, r, un)
    BY <1>1, <1>2, <1>3, <1>4 DEF Good
  <1> QED
    BY <1>5 DEF o

LEMMA Refused ==
    ASSUME NEW r \in Reorders, NEW un, NEW res, ROK(r, un)
    PROVE  Good(Refuse(r, res), r, un)
  <1>1. r.next_seq <= r.next_seq /\ \A n \in r.next_seq..(r.next_seq - 1) : FALSE
    BY DEF Reorders
  <1> QED
    BY <1>1, NothingDelivered DEF Refuse

LEMMA Accepted ==
    ASSUME NEW r \in Reorders, NEW q \in Reorders, NEW un, ROK(q, un),
           q.mode = r.mode, q.max_samples = r.max_samples, q.next_seq = r.next_seq
    PROVE  Good(Accept(q), r, un)
  <1>1. r.next_seq <= q.next_seq /\ \A n \in r.next_seq..(q.next_seq - 1) : FALSE
    BY DEF Reorders
  <1> QED
    BY <1>1, NothingDelivered DEF Accept

\* A chain that begins where the last delivery ended, and its end.
LEMMA Delivered ==
    ASSUME NEW r \in Reorders, NEW q \in Reorders, NEW un, NEW res, ROK(q, un),
           q.mode = r.mode, q.max_samples = r.max_samples,
           NEW sc \in Seq(Nat), NEW lo \in Nat, Fits(sc, lo, q.next_seq),
           r.mode # "ALWAYS_DELIVER" =>
             /\ r.next_seq <= q.next_seq
             /\ \A i \in 1..Len(sc) : sc[i] # 0 => r.next_seq <= sc[i],
           r.mode = "NORMAL" => Explains(sc, r.next_seq, q.next_seq, un)
    PROVE  Good(Result(q, res, sc), r, un)
  <1> DEFINE o == Result(q, res, sc)
  <1>1. o.reorder = q /\ o.sc = sc
    BY DEF Result
  <1>2. Rising(sc)
    BY DEF Fits
  <1>3. ASSUME NEW i \in 1..Len(sc), sc[i] # 0 PROVE sc[i] < q.next_seq
    <2>1. Len(sc) \in Nat /\ sc[i] \in Nat /\ q.next_seq \in Nat
      BY LenProperties, ElementOfSeq DEF Reorders
    <2>2. sc[i] <= q.next_seq - 1 - (Len(sc) - i)
      BY <1>3 DEF Fits
    <2> DEFINE n == Len(sc)
    <2>3. n \in Nat /\ i \in 1..n /\ sc[i] <= q.next_seq - 1 - (n - i)
      BY <2>1, <2>2
    <2> HIDE DEF n
    <2>4. \A x, y \in Nat : x <= y - 1 - (n - i) => x < y
      BY <2>3
    <2> QED
      BY <2>1, <2>3, <2>4
  <1> HIDE DEF o
  <1>4. Good(o, r, un)
    BY <1>1, <1>2, <1>3 DEF Good
  <1> QED
    BY <1>4 DEF o

\* The administration with four fields changed.
Change(r, ivs, last, next, n) ==
    [r EXCEPT !.ivs = ivs, !.max_sampleiv = last, !.next_seq = next, !.n_samples = n]

LEMMA Changed ==
    ASSUME NEW r \in Reorders, NEW ivs \in SUBSET Intervals, NEW last \in Intervals,
           NEW next \in Nat \ {0}, NEW n \in Nat
    PROVE  LET q == Change(r, ivs, last, next, n)
           IN /\ q \in Reorders /\ q.mode = r.mode /\ q.max_samples = r.max_samples
              /\ q.ivs = ivs /\ q.max_sampleiv = last /\ q.next_seq = next /\ q.n_samples = n
  BY DEF Reorders, Change

LEMMA TypeOfLast == ASSUME NEW S, Tree(S) PROVE FindMax(S) \in Intervals
  <1>1. NoInterval \in Intervals
    BY DEF NoInterval, Interval, Intervals
  <1>2. S # {} => FindMax(S) \in S
    BY LastProperties
  <1> QED
    BY <1>1, <1>2 DEF FindMax, Tree

LEMMA DeliverAlone ==
    ASSUME NEW r \in Reorders, NEW un, ROK(r, un), NEW seq \in Nat \ {0},
           \A v \in r.ivs : seq + 1 < v.min,
           r.mode # "ALWAYS_DELIVER" => r.next_seq <= seq,
           r.mode = "NORMAL" => r.next_seq = seq
    PROVE  Good(DeliverSample(r, Interval(seq, seq + 1, <<seq>>)), r, un)
  <1> DEFINE s == Interval(seq, seq + 1, <<seq>>)
             q == Change(r, r.ivs, r.max_sampleiv, seq + 1, r.n_samples)
  <1>1. /\ <<seq>> \in Seq(Nat) /\ Len(<<seq>>) = 1 /\ Fits(<<seq>>, seq, seq + 1) /\ InChain(<<seq>>, seq)
        /\ \A i \in 1..1 : <<seq>>[i] = seq
    BY OneElement
  <1>2. s.min = seq /\ s.maxp1 = seq + 1 /\ s.sc = <<seq>>
    BY DEF Interval
  <1>3. ~(r.ivs # {} /\ s.maxp1 >= FindMin(r.ivs).min)
    <2> SUFFICES ASSUME r.ivs # {} PROVE ~(s.maxp1 >= FindMin(r.ivs).min)
      OBVIOUS
    <2>1. r.ivs \subseteq Intervals
      BY DEF Reorders
    <2>2. FindMin(r.ivs) \in r.ivs
      BY <2>1, FindMinIs
    <2>3. seq + 1 < FindMin(r.ivs).min /\ FindMin(r.ivs).min \in Nat
      BY <2>1, <2>2 DEF Intervals
    <2> QED
      BY <1>2, <2>3
  <1>4. r.ivs \in SUBSET Intervals /\ r.max_sampleiv \in Intervals /\ r.n_samples \in Nat /\ seq + 1 \in Nat \ {0}
    BY DEF Reorders
  <1>5. /\ q \in Reorders /\ q.mode = r.mode /\ q.max_samples = r.max_samples
        /\ q.ivs = r.ivs /\ q.max_sampleiv = r.max_sampleiv
        /\ q.next_seq = seq + 1 /\ q.n_samples = r.n_samples
    BY <1>4, Changed
  <1>6. DeliverSample(r, s) = Result(q, "DELIVER", <<seq>>)
    <2>1. r.n_samples - (Len(<<seq>>) - 1) = r.n_samples
      BY <1>1, <1>4
    <2>2. DeliverSample(r, s) =
            Result([r EXCEPT !.ivs = r.ivs, !.max_sampleiv = r.max_sampleiv,
                             !.next_seq = s.maxp1, !.n_samples = r.n_samples - (Len(s.sc) - 1)],
                   "DELIVER", s.sc)
      BY <1>3 DEF DeliverSample
    <2> HIDE DEF s
    <2> QED
      BY <1>2, <2>1, <2>2 DEF Change
  <1> HIDE DEF q
  <1>7. ROK(q, un)
    BY <1>5 DEF ROK
  <1>8. r.mode = "NORMAL" => Explains(<<seq>>, r.next_seq, q.next_seq, un)
    <2>1. \A n \in seq..(seq + 1 - 1) : n = seq
      OBVIOUS
    <2> QED
      BY <1>1, <1>5, <2>1 DEF Explains
  <1>9. r.mode # "ALWAYS_DELIVER" =>
          /\ r.next_seq <= q.next_seq
          /\ \A i \in 1..Len(<<seq>>) : <<seq>>[i] # 0 => r.next_seq <= <<seq>>[i]
    BY <1>1, <1>5 DEF Reorders
  <1>10. Fits(<<seq>>, seq, q.next_seq)
    BY <1>1, <1>5
  <1>11. Good(Result(q, "DELIVER", <<seq>>), r, un)
    BY <1>1, <1>5, <1>7, <1>8, <1>9, <1>10, Delivered
  <1> QED
    BY <1>6, <1>11

LEMMA DeliverJoined ==
    ASSUME NEW r \in Reorders, NEW un, ROK(r, un), NEW seq \in Nat \ {0},
           seq = r.next_seq, NEW first \in r.ivs, first.min = seq + 1
    PROVE  Good(DeliverSample(r, Interval(seq, seq + 1, <<seq>>)), r, un)
  <1> DEFINE s == Interval(seq, seq + 1, <<seq>>)
             sc == <<seq>> \o first.sc
             rest == r.ivs \ {first}
             q == Change(r, rest, FindMax(rest), first.maxp1, Total(rest))
  <1>1. /\ <<seq>> \in Seq(Nat) /\ Len(<<seq>>) = 1 /\ Fits(<<seq>>, seq, seq + 1) /\ InChain(<<seq>>, seq)
    BY OneElement
  <1>2. s.min = seq /\ s.maxp1 = seq + 1 /\ s.sc = <<seq>>
    BY DEF Interval
  <1>3. Tree(r.ivs) /\ Tree(rest) /\ r.mode = "NORMAL"
    BY TreeSubset DEF ROK
  <1>4. /\ first.min \in Nat /\ first.maxp1 \in Nat /\ first.sc \in Seq(Nat)
        /\ first.min < first.maxp1 /\ Fits(first.sc, first.min, first.maxp1) /\ Len(first.sc) \in Nat
    BY <1>3, IntervalIs
  <1>5. \A w \in rest : first.maxp1 < w.min
    <2> SUFFICES ASSUME NEW w \in rest PROVE first.maxp1 < w.min
      OBVIOUS
    <2>1. seq < w.min /\ w.min \in Nat /\ w.maxp1 \in Nat /\ w.min < w.maxp1
      BY <1>3, IntervalIs DEF ROK
    <2>2. first.maxp1 < w.min \/ w.maxp1 < first.min
      BY <1>3 DEF Tree, Disjoint
    <2> QED
      BY <1>4, <2>1, <2>2
  <1>6. FindMin(r.ivs) = first
    <2>1. FindMin(r.ivs) \in r.ivs /\ FindMin(r.ivs).min <= first.min
      BY <1>3, FindMinIs DEF Tree
    <2>2. FindMin(r.ivs).min \in Nat
      BY <1>3, <2>1, IntervalIs
    <2> QED
      BY <1>4, <1>5, <2>1, <2>2
  <1>7. IF first = r.max_sampleiv THEN FindMax(rest) = NoInterval ELSE FindMax(rest) = r.max_sampleiv
    <2>1. r.max_sampleiv = FindMax(r.ivs)
      BY DEF ROK
    <2>2. FindMax(r.ivs) \in r.ivs /\ \A w \in r.ivs : w = FindMax(r.ivs) \/ w.maxp1 < FindMax(r.ivs).min
      BY <1>3, LastProperties
    <2>3. CASE first = r.max_sampleiv
      <3>1. \A w \in rest : FALSE
        <4> SUFFICES ASSUME NEW w \in rest PROVE FALSE
          OBVIOUS
        <4>1. w.maxp1 < first.min /\ first.maxp1 < w.min /\ w.min < w.maxp1 /\ w.min \in Nat /\ w.maxp1 \in Nat
          BY <1>3, <1>5, <2>1, <2>2, <2>3, IntervalIs
        <4> QED
          BY <1>4, <4>1
      <3>2. rest = {}
        BY <3>1
      <3> QED
        BY <2>3, <3>2 DEF FindMax
    <2>4. CASE first # r.max_sampleiv
      <3>1. r.max_sampleiv \in rest
        BY <2>1, <2>2, <2>4
      <3>2. \A w \in rest : w.min <= r.max_sampleiv.min
        <4> SUFFICES ASSUME NEW w \in rest, w # r.max_sampleiv PROVE w.min <= r.max_sampleiv.min
          BY <1>3, <3>1, IntervalIs
        <4>1. w.maxp1 < r.max_sampleiv.min /\ w.min < w.maxp1
          BY <1>3, <2>1, <2>2, IntervalIs
        <4>2. w.min \in Nat /\ w.maxp1 \in Nat /\ r.max_sampleiv.min \in Nat
          BY <1>3, <3>1, IntervalIs
        <4> QED
          BY <4>1, <4>2
      <3> HIDE DEF rest
      <3> QED
        BY <1>3, <2>4, <3>1, <3>2, LastIs
    <2> QED
      BY <2>3, <2>4
  <1>8. r.n_samples = Len(first.sc) + Total(rest) /\ Total(rest) \in Nat /\ r.n_samples <= r.max_samples
    BY <1>3, TotalWithout DEF ROK, Total
  <1>9. sc \in Seq(Nat) /\ Len(sc) = 1 + Len(first.sc) /\ Fits(sc, seq, first.maxp1)
    <2>1. seq + 1 <= first.min
      BY <1>4
    <2> QED
      BY <1>1, <1>4, <2>1, FitsConcat
  <1>10. /\ q \in Reorders /\ q.mode = r.mode /\ q.max_samples = r.max_samples
         /\ q.ivs = rest /\ q.max_sampleiv = FindMax(rest)
         /\ q.next_seq = first.maxp1 /\ q.n_samples = Total(rest)
    <2>1. rest \in SUBSET Intervals /\ FindMax(rest) \in Intervals /\ first.maxp1 \in Nat \ {0}
      BY <1>3, <1>4, TypeOfLast DEF Tree
    <2>2. Total(rest) \in Nat
      BY <1>8
    <2> HIDE DEF rest
    <2> QED
      BY <2>1, <2>2, Changed
  <1>11. DeliverSample(r, s) = Result(q, "DELIVER", sc)
    <2>1. r.ivs # {} /\ s.maxp1 >= FindMin(r.ivs).min
      BY <1>2, <1>4, <1>6
    <2>2. append_rsample_interval(s, first) = Interval(seq, first.maxp1, sc)
      BY <1>2 DEF append_rsample_interval
    <2>3. r.n_samples - (Len(sc) - 1) = Total(rest)
      BY <1>4, <1>8, <1>9
    <2>4. DeliverSample(r, s) =
            LET got == Interval(seq, first.maxp1, sc)
            IN Result([r EXCEPT !.ivs = rest, !.max_sampleiv = FindMax(rest), !.next_seq = got.maxp1,
                                !.n_samples = @ - (Len(got.sc) - 1)], "DELIVER", got.sc)
      BY <1>6, <1>7, <2>1, <2>2 DEF DeliverSample
    <2>5. DeliverSample(r, s) =
            Result([r EXCEPT !.ivs = rest, !.max_sampleiv = FindMax(rest), !.next_seq = first.maxp1,
                             !.n_samples = r.n_samples - (Len(sc) - 1)], "DELIVER", sc)
      BY <2>4 DEF Interval
    <2> QED
      BY <2>3, <2>5 DEF Change
  <1> HIDE DEF q, rest, sc
  <1>12. ROK(q, un)
    <2>1. \A v \in q.ivs : q.next_seq < v.min /\ Explains(v.sc, v.min, v.maxp1, un)
      BY <1>5, <1>10 DEF ROK, rest
    <2>2. q.n_samples <= q.max_samples
      BY <1>4, <1>8, <1>10 DEF Reorders
    <2> QED
      BY <1>3, <1>10, <2>1, <2>2 DEF ROK, Total
  <1>13. Explains(sc, r.next_seq, q.next_seq, un)
    <2> SUFFICES ASSUME NEW n \in seq..(first.maxp1 - 1) PROVE n \in un \/ InChain(sc, n)
      BY <1>10 DEF Explains
    <2>1. CASE n = seq
      BY <1>1, <1>4, <2>1, InConcat DEF sc
    <2>2. CASE n # seq
      <3>1. n \in first.min..(first.maxp1 - 1)
        BY <1>4, <2>2
      <3>2. n \in un \/ InChain(first.sc, n)
        BY <3>1 DEF ROK, Explains
      <3> QED
        BY <1>1, <1>4, <3>2, InConcat DEF sc
    <2> QED
      BY <2>1, <2>2
  <1>14. r.next_seq <= q.next_seq /\ \A i \in 1..Len(sc) : sc[i] # 0 => r.next_seq <= sc[i]
    <2>1. r.next_seq <= q.next_seq
      BY <1>4, <1>10
    <2>2. Len(sc) \in Nat /\ \A i \in 1..Len(sc) : sc[i] \in Nat
      BY <1>9, LenProperties, ElementOfSeq
    <2>3. \A i \in 1..Len(sc) : sc[i] # 0 => seq + i - 1 <= sc[i]
      BY <1>9 DEF Fits
    <2>4. \A i \in 1..Len(sc) : sc[i] # 0 => seq <= sc[i]
      BY <2>2, <2>3
    <2> QED
      BY <2>1, <2>4
  <1>15. Fits(sc, seq, q.next_seq)
    BY <1>9, <1>10
  <1>16. Good(Result(q, "DELIVER", sc), r, un)
    BY <1>9, <1>10, <1>12, <1>13, <1>14, <1>15, Delivered
  <1> QED
    BY <1>11, <1>16

\* The administration with another tree, or another count.
WithTree(r, ivs, last) == [r EXCEPT !.ivs = ivs, !.max_sampleiv = last]
WithCount(r, n) == [r EXCEPT !.n_samples = n]

LEMMA ChangedTree ==
    ASSUME NEW r \in Reorders, NEW ivs \in SUBSET Intervals, NEW last \in Intervals
    PROVE  LET q == WithTree(r, ivs, last)
           IN /\ q \in Reorders /\ q.mode = r.mode /\ q.max_samples = r.max_samples
              /\ q.next_seq = r.next_seq /\ q.n_samples = r.n_samples
              /\ q.ivs = ivs /\ q.max_sampleiv = last
  BY DEF Reorders, WithTree

LEMMA ChangedCount ==
    ASSUME NEW r \in Reorders, NEW n \in Nat
    PROVE  LET q == WithCount(r, n)
           IN /\ q \in Reorders /\ q.mode = r.mode /\ q.max_samples = r.max_samples
              /\ q.next_seq = r.next_seq /\ q.n_samples = n
              /\ q.ivs = r.ivs /\ q.max_sampleiv = r.max_sampleiv
  BY DEF Reorders, WithCount

\* The last element of a full administration that got one more is a sample
\* with nothing behind it that it would leave unexplained: gaps begin within
\* the window, and there is no room for so many elements before them.
LEMMA NothingBehind ==
    ASSUME NEW S, NEW next \in Nat \ {0}, NEW max \in Nat, NEW un \in SUBSET (Nat \ {0}),
           TreeOK(S, next, un), S # {}, Total(S) = max + 1,
           \A n \in un : n - 1 \in un \cup {0} \/ n < next + max,
           NEW x \in Nat, x = FindMax(S).sc[Len(FindMax(S).sc)], x # 0,
           x < FindMax(S).maxp1 - 1
    PROVE  x \in un
  <1> DEFINE last == FindMax(S)  n == Len(last.sc)  rest == S \ {last}
  <1>1. Tree(S) /\ Tree(rest) /\ last \in S
    BY TreeSubset, LastProperties DEF TreeOK
  <1>2. /\ last.min \in Nat /\ last.maxp1 \in Nat /\ last.sc \in Seq(Nat) /\ n \in Nat \ {0}
        /\ Fits(last.sc, last.min, last.maxp1)
    BY <1>1, IntervalIs
  <1>3. next < last.min /\ Explains(last.sc, last.min, last.maxp1, un)
    BY <1>1 DEF TreeOK
  <1>0. x = last.sc[n] /\ x < last.maxp1 - 1
    OBVIOUS
  <1>4. last.min + n - 1 <= x
    <2>1. n \in 1..n
      BY <1>2
    <2>2. \A i \in 1..n : last.sc[i] # 0 => last.min + i - 1 <= last.sc[i]
      BY <1>2 DEF Fits
    <2> HIDE DEF last, n
    <2> QED
      BY <1>0, <2>1, <2>2
  <1>5. x + 1 \in last.min..(last.maxp1 - 1)
    <2>1. \A a, b \in Nat, k \in Nat \ {0} : a + k - 1 <= x /\ x < b - 1 => x + 1 \in a..(b - 1)
      OBVIOUS
    <2> HIDE DEF last, n
    <2> QED
      BY <1>0, <1>2, <1>4, <2>1
  <1>6. ~InChain(last.sc, x + 1)
    <2> SUFFICES ASSUME NEW i \in 1..n, last.sc[i] = x + 1 PROVE FALSE
      BY DEF InChain
    <2>1. \A j, k \in 1..n : j < k /\ last.sc[j] # 0 /\ last.sc[k] # 0 => last.sc[j] < last.sc[k]
      BY <1>2 DEF Fits, Rising
    <2>2. n \in 1..n /\ (i < n \/ i = n)
      <3>1. \A k \in Nat \ {0} : k \in 1..k /\ \A j \in 1..k : j < k \/ j = k
        OBVIOUS
      <3>2. n \in Nat \ {0}
        BY <1>2
      <3> HIDE DEF n
      <3> QED
        BY <3>1, <3>2
    <2>3. x + 1 # 0 /\ x + 1 # x /\ ~(x + 1 < x)
      OBVIOUS
    <2> HIDE DEF last, n
    <2> QED
      BY <1>0, <2>1, <2>2, <2>3
  <1>7. x + 1 \in un
    BY <1>3, <1>5, <1>6 DEF Explains
  <1>8. Total(rest) \in Nat /\ Total(rest) <= last.min - (next + 1)
    <2>1. \A v \in rest : next + 1 <= v.min /\ v.maxp1 <= last.min
      <3> SUFFICES ASSUME NEW v \in rest PROVE next + 1 <= v.min /\ v.maxp1 <= last.min
        OBVIOUS
      <3>1. v.maxp1 < last.min
        BY <1>1, LastProperties
      <3>2. next < v.min
        BY DEF TreeOK
      <3>3. v.min \in Nat /\ v.maxp1 \in Nat
        BY <1>1, IntervalIs
      <3> QED
        BY <1>2, <3>1, <3>2, <3>3
    <2>2. next + 1 \in Nat /\ next + 1 <= last.min
      BY <1>2, <1>3
    <2> HIDE DEF rest, last
    <2>3. ChainOf(rest) \in Seq(Nat) /\ Fits(ChainOf(rest), next + 1, last.min)
      BY <1>1, <1>2, <2>1, <2>2, ChainFits
    <2>4. Total(rest) \in Nat /\ (next + 1) + Total(rest) <= last.min
      BY <2>3, LenProperties DEF Fits, Total
    <2> QED
      BY <1>2, <2>4
  <1>9. Total(S) = n + Total(rest)
    BY <1>1, TotalWithout
  <1>10. ~(x + 1 < next + max)
    <2> DEFINE t == Total(rest)  a == last.min
    <2>1. t \in Nat /\ a \in Nat /\ n \in Nat /\ t <= a - (next + 1) /\ max + 1 = n + t /\ a + n - 1 <= x
      BY <1>2, <1>4, <1>8, <1>9
    <2> HIDE DEF t, a, n
    <2> QED
      BY <2>1
  <1>11. (x + 1) - 1 = x
    OBVIOUS
  <1> QED
    BY <1>7, <1>10, <1>11

LEMMA DeletedLast ==
    ASSUME NEW r \in Reorders, NEW un \in SUBSET (Nat \ {0}), r.mode = "NORMAL",
           TreeOK(r.ivs, r.next_seq, un), r.ivs # {}, r.max_sampleiv = FindMax(r.ivs),
           r.n_samples = r.max_samples, Total(r.ivs) = r.max_samples + 1, GapsBegin(r, un)
    PROVE  LET q == delete_last_sample(r)
           IN /\ q \in Reorders /\ q.mode = r.mode /\ q.max_samples = r.max_samples
              /\ q.next_seq = r.next_seq /\ q.n_samples = r.n_samples
              /\ TreeOK(q.ivs, r.next_seq, un) /\ Total(q.ivs) = r.max_samples
              /\ q.max_sampleiv = FindMax(q.ivs)
  <1> DEFINE last == r.max_sampleiv  n == Len(last.sc)  rest == r.ivs \ {last}
             cut == Interval(last.min, last.maxp1 - 1, SubSeq(last.sc, 1, n - 1))
  <1>1. Tree(r.ivs) /\ Tree(rest) /\ last \in r.ivs
    BY TreeSubset, LastProperties DEF TreeOK
  <1>2. /\ last.min \in Nat /\ last.maxp1 \in Nat /\ last.sc \in Seq(Nat) /\ n \in Nat \ {0}
        /\ Fits(last.sc, last.min, last.maxp1)
    BY <1>1, IntervalIs
  <1>3. r.max_samples + 1 = n + Total(rest) /\ Total(rest) \in Nat /\ r.max_samples \in Nat
    BY <1>1, TotalWithout DEF Reorders
  <1>4. rest \in SUBSET Intervals /\ TreeOK(rest, r.next_seq, un)
    BY <1>1 DEF Tree, TreeOK
  <1>5. CASE n = 1
    <2>1. delete_last_sample(r) = [r EXCEPT !.ivs = rest, !.max_sampleiv = FindMax(rest)]
      BY <1>5 DEF delete_last_sample
    <2>2. Total(rest) = r.max_samples
      BY <1>3, <1>5
    <2>3. FindMax(rest) \in Intervals
      BY <1>1, TypeOfLast
    <2> DEFINE q == WithTree(r, rest, FindMax(rest))
    <2> HIDE DEF rest
    <2>4. /\ q \in Reorders /\ q.mode = r.mode /\ q.max_samples = r.max_samples
          /\ q.next_seq = r.next_seq /\ q.n_samples = r.n_samples
          /\ q.ivs = rest /\ q.max_sampleiv = FindMax(rest)
      BY <1>4, <2>3, ChangedTree
    <2>5. delete_last_sample(r) = q
      BY <2>1, Zenon DEF WithTree
    <2> HIDE DEF q
    <2> QED
      BY <1>4, <2>2, <2>4, <2>5
  <1>6. CASE n # 1
    <2>1. delete_last_sample(r) = [r EXCEPT !.ivs = rest \cup {cut}, !.max_sampleiv = cut]
      BY <1>6 DEF delete_last_sample
    <2>2. /\ cut.sc \in Seq(Nat) /\ Len(cut.sc) = n - 1 /\ \A i \in 1..(n - 1) : cut.sc[i] = last.sc[i]
          /\ cut.min = last.min /\ cut.maxp1 = last.maxp1 - 1
      <3>1. \A i \in 1..(n - 1) : last.sc[i] \in Nat
        BY <1>2, ElementOfSeq
      <3>2. /\ SubSeq(last.sc, 1, n - 1) \in Seq(Nat)
            /\ Len(SubSeq(last.sc, 1, n - 1)) = n - 1
            /\ \A i \in 1..(n - 1) : SubSeq(last.sc, 1, n - 1)[i] = last.sc[i]
        BY <1>2, <1>6, <3>1, SubSeqProperties
      <3> QED
        BY <3>2 DEF Interval
    <2>3. last.min + n <= last.maxp1
      BY <1>2 DEF Fits
    <2>4. cut \in Intervals /\ cut.sc # <<>>
      <3>1. last.maxp1 - 1 \in Nat
        <4>1. \A a, b \in Nat : a + n <= b => b - 1 \in Nat
          BY <1>2
        <4> HIDE DEF last, n
        <4> QED
          BY <1>2, <2>3, <4>1
      <3>2. cut.sc # <<>>
        <4>1. n - 1 # 0
          BY <1>2, <1>6
        <4>2. Len(<<>>) = 0
          OBVIOUS
        <4> HIDE DEF n, cut
        <4> QED
          BY <2>2, <4>1, <4>2
      <3> QED
        BY <1>2, <2>2, <3>1, <3>2 DEF Interval, Intervals
    <2>5. Fits(cut.sc, cut.min, cut.maxp1)
      <3>1. cut.min + Len(cut.sc) <= cut.maxp1
        <4>1. \A a, b \in Nat : a + n <= b => a + (n - 1) <= b - 1
          BY <1>2
        <4> HIDE DEF last, n, cut
        <4> QED
          BY <1>2, <2>2, <2>3, <4>1
      <3>2. Rising(cut.sc)
        <4>1. \A j, k \in 1..n : j < k /\ last.sc[j] # 0 /\ last.sc[k] # 0 => last.sc[j] < last.sc[k]
          BY <1>2 DEF Fits, Rising
        <4>2. \A j \in 1..(n - 1) : j \in 1..n
          BY <1>2
        <4> HIDE DEF last, n, cut
        <4> QED
          BY <2>2, <4>1, <4>2 DEF Rising
      <3>3. \A i \in 1..Len(cut.sc) :
               cut.sc[i] # 0 => /\ cut.min + i - 1 <= cut.sc[i]
                                /\ cut.sc[i] <= cut.maxp1 - 1 - (Len(cut.sc) - i)
        <4> SUFFICES ASSUME NEW i \in 1..(n - 1), last.sc[i] # 0
                     PROVE  last.min + i - 1 <= last.sc[i] /\ last.sc[i] <= (last.maxp1 - 1) - 1 - ((n - 1) - i)
          BY <2>2
        <4>1. last.sc[i] \in Nat /\ i \in 1..n
          BY <1>2, ElementOfSeq
        <4>2. last.min + i - 1 <= last.sc[i] /\ last.sc[i] <= last.maxp1 - 1 - (n - i)
          BY <1>2, <4>1 DEF Fits
        <4>3. \A x, b \in Nat, k \in Nat \ {0}, j \in Nat :
                 x <= b - 1 - (k - j) => x <= (b - 1) - 1 - ((k - 1) - j)
          OBVIOUS
        <4>4. i \in Nat
          BY <4>1
        <4> HIDE DEF last, n
        <4> QED
          BY <1>2, <4>1, <4>2, <4>3, <4>4
      <3> QED
        BY <3>1, <3>2, <3>3 DEF Fits
    <2>6. Explains(cut.sc, cut.min, cut.maxp1, un)
      <3> SUFFICES ASSUME NEW x \in last.min..(last.maxp1 - 1 - 1), x \notin un
                   PROVE  InChain(cut.sc, x)
        BY <2>2 DEF Explains
      <3>1. x \in last.min..(last.maxp1 - 1) /\ x \in Nat /\ x < last.maxp1 - 1
        BY <1>2
      <3>2. InChain(last.sc, x)
        BY <1>1, <3>1 DEF TreeOK, Explains
      <3>3. PICK i \in 1..n : last.sc[i] = x
        BY <3>2 DEF InChain
      <3>4. i # n
        <4> SUFFICES ASSUME i = n PROVE FALSE
          OBVIOUS
        <4>1. r.next_seq < last.min
          BY <1>1 DEF TreeOK
        <4>2. r.next_seq \in Nat \ {0} /\ x # 0
          BY <1>2, <3>1, <4>1 DEF Reorders
        <4>3. \A u \in un : u - 1 \in un \cup {0} \/ u < r.next_seq + r.max_samples
          BY DEF GapsBegin
        <4> QED
          BY <1>3, <3>1, <3>3, <4>2, <4>3, NothingBehind
      <3>5. i \in 1..(n - 1) /\ cut.sc[i] = x
        <4>1. \A k \in Nat \ {0} : \A j \in 1..k : j # k => j \in 1..(k - 1)
          OBVIOUS
        <4>2. n \in Nat \ {0}
          BY <1>2
        <4> HIDE DEF n, cut, last
        <4> QED
          BY <2>2, <3>3, <3>4, <4>1, <4>2
      <3> QED
        BY <2>2, <3>5 DEF InChain
    <2>7. r.next_seq < cut.min
      BY <1>1, <2>2 DEF TreeOK
    <2>8. \A w \in rest : w.maxp1 < cut.min
      BY <1>1, <2>2, LastProperties
    <2> HIDE DEF cut, rest
    <2>9. TreeOK(rest \cup {cut}, r.next_seq, un) /\ Total(rest \cup {cut}) = Total(rest) + Len(cut.sc)
      BY <1>4, <2>4, <2>5, <2>6, <2>7, <2>8, PutInterval
    <2>10. Total(rest \cup {cut}) = r.max_samples
      <3>1. \A m, t \in Nat, k \in Nat \ {0} : m + 1 = k + t => t + (k - 1) = m
        OBVIOUS
      <3>2. Total(rest \cup {cut}) = Total(rest) + (n - 1)
        BY <2>2, <2>9
      <3>3. n \in Nat \ {0}
        BY <1>2
      <3> HIDE DEF n
      <3> QED
        BY <1>3, <3>1, <3>2, <3>3
    <2>11. FindMax(rest \cup {cut}) = cut
      <3>1. \A w \in rest \cup {cut} : w.min <= cut.min
        <4>1. \A w \in rest : w.min \in Nat /\ w.maxp1 \in Nat /\ w.min < w.maxp1
          BY <1>1, IntervalIs
        <4>2. cut.min \in Nat
          <5>1. cut.min = last.min
            BY <2>2, Zenon
          <5>2. last.min \in Nat
            BY <1>2, Zenon
          <5> QED
            BY <5>1, <5>2, Zenon
        <4>3. \A w \in rest : w.min <= cut.min
          BY <2>8, <4>1, <4>2
        <4> QED
          BY <4>2, <4>3
      <3> QED
        BY <2>9, <3>1, LastIs DEF TreeOK
    <2>12. rest \cup {cut} \in SUBSET Intervals
      BY <1>4, <2>4
    <2> DEFINE q == WithTree(r, rest \cup {cut}, cut)
    <2>13. /\ q \in Reorders /\ q.mode = r.mode /\ q.max_samples = r.max_samples
           /\ q.next_seq = r.next_seq /\ q.n_samples = r.n_samples
           /\ q.ivs = rest \cup {cut} /\ q.max_sampleiv = cut
      BY <2>4, <2>12, ChangedTree
    <2>14. delete_last_sample(r) = q
      BY <2>1, Zenon DEF WithTree
    <2> HIDE DEF q
    <2> QED
      BY <2>9, <2>10, <2>11, <2>13, <2>14
  <1> QED
    BY <1>5, <1>6

LEMMA CountedOrDeleted ==
    ASSUME NEW r \in Reorders, NEW un \in SUBSET (Nat \ {0}), r.mode = "NORMAL",
           TreeOK(r.ivs, r.next_seq, un), r.ivs # {}, Total(r.ivs) = r.n_samples + 1,
           r.n_samples <= r.max_samples, GapsBegin(r, un),
           r.n_samples = r.max_samples => r.max_sampleiv = FindMax(r.ivs)
    PROVE  LET q == CountOrDeleteLast(r)
           IN /\ q \in Reorders /\ q.mode = r.mode /\ q.max_samples = r.max_samples
              /\ q.next_seq = r.next_seq
              /\ TreeOK(q.ivs, r.next_seq, un) /\ q.n_samples = Total(q.ivs)
              /\ q.n_samples <= q.max_samples
              /\ r.max_sampleiv = FindMax(r.ivs) => q.max_sampleiv = FindMax(q.ivs)
  <1>1. r.n_samples \in Nat /\ r.max_samples \in Nat
    BY DEF Reorders
  <1>2. CASE r.n_samples < r.max_samples
    <2>1. CountOrDeleteLast(r) = [r EXCEPT !.n_samples = r.n_samples + 1]
      BY <1>2 DEF CountOrDeleteLast
    <2>2. r.n_samples + 1 \in Nat /\ r.n_samples + 1 <= r.max_samples
      BY <1>1, <1>2
    <2> DEFINE q == WithCount(r, r.n_samples + 1)
    <2>3. /\ q \in Reorders /\ q.mode = r.mode /\ q.max_samples = r.max_samples
          /\ q.next_seq = r.next_seq /\ q.n_samples = r.n_samples + 1
          /\ q.ivs = r.ivs /\ q.max_sampleiv = r.max_sampleiv
      BY <2>2, ChangedCount
    <2>4. CountOrDeleteLast(r) = q
      BY <2>1, Zenon DEF WithCount
    <2> HIDE DEF q
    <2> QED
      BY <2>2, <2>3, <2>4
  <1>3. CASE r.n_samples = r.max_samples
    <2>1. CountOrDeleteLast(r) = delete_last_sample(r)
      BY <1>1, <1>3 DEF CountOrDeleteLast
    <2>2. r.max_samples <= r.max_samples
      BY <1>1
    <2> QED
      BY <1>3, <2>1, <2>2, DeletedLast
  <1> QED
    BY <1>1, <1>2, <1>3

----------------------------------------------------------------------------
(* Samples between the next one and the end of the last interval.            *)

\* An interval whose chain fits it and says what it can.
Sound(v, un) ==
    v \in Intervals /\ v.sc # <<>> /\ Fits(v.sc, v.min, v.maxp1) /\ Explains(v.sc, v.min, v.maxp1, un)

LEMMA SoundInTree ==
    ASSUME NEW S, NEW next, NEW un, TreeOK(S, next, un), NEW v \in S
    PROVE  Sound(v, un) /\ next < v.min
  BY DEF TreeOK, Tree, Filled, Sound

LEMMA SoundIs ==
    ASSUME NEW un, NEW v, Sound(v, un)
    PROVE  /\ v.min \in Nat /\ v.maxp1 \in Nat /\ v.sc \in Seq(Nat)
           /\ Len(v.sc) \in Nat \ {0} /\ v.min < v.maxp1
  <1>1. v.min \in Nat /\ v.maxp1 \in Nat /\ v.sc \in Seq(Nat)
    BY DEF Sound, Intervals
  <1>2. Len(v.sc) \in Nat \ {0}
    BY <1>1, EmptySeq DEF Sound
  <1>3. v.min + Len(v.sc) <= v.maxp1
    BY DEF Sound, Fits
  <1>4. \A a, b \in Nat, n \in Nat \ {0} : a + n <= b => a < b
    OBVIOUS
  <1> QED
    BY <1>1, <1>2, <1>3, <1>4

\* One interval from the beginning of a to the end of b.
JoinOf(c, a, b) == c.min = a.min /\ c.maxp1 = b.maxp1 /\ Len(c.sc) = Len(a.sc) + Len(b.sc)

LEMMA SoundJoined ==
    ASSUME NEW un, NEW a, NEW b, Sound(a, un), Sound(b, un), a.maxp1 = b.min
    PROVE  LET c == append_rsample_interval(a, b) IN Sound(c, un) /\ JoinOf(c, a, b)
  <1> DEFINE c == append_rsample_interval(a, b)  sc == a.sc \o b.sc
  <1>1. c.min = a.min /\ c.maxp1 = b.maxp1 /\ c.sc = sc
    BY DEF append_rsample_interval, Interval
  <1>2. /\ a.min \in Nat /\ a.maxp1 \in Nat /\ a.sc \in Seq(Nat) /\ Len(a.sc) \in Nat \ {0}
        /\ b.min \in Nat /\ b.maxp1 \in Nat /\ b.sc \in Seq(Nat) /\ Len(b.sc) \in Nat \ {0}
    BY SoundIs
  <1>3. Fits(a.sc, a.min, a.maxp1) /\ Fits(b.sc, b.min, b.maxp1) /\ a.maxp1 <= b.min
    BY <1>2 DEF Sound
  <1>4. sc \in Seq(Nat) /\ Len(sc) = Len(a.sc) + Len(b.sc) /\ Fits(sc, a.min, b.maxp1)
    BY <1>2, <1>3, FitsConcat
  <1>5. sc # <<>>
    <2>1. \A m, n \in Nat \ {0} : m + n # 0
      OBVIOUS
    <2>2. Len(<<>>) = 0
      OBVIOUS
    <2> QED
      BY <1>2, <1>4, <2>1, <2>2
  <1>6. Explains(sc, a.min, b.maxp1, un)
    <2> SUFFICES ASSUME NEW n \in a.min..(b.maxp1 - 1) PROVE n \in un \/ InChain(sc, n)
      BY DEF Explains
    <2>1. CASE n < a.maxp1
      <3>1. n \in a.min..(a.maxp1 - 1)
        BY <1>2, <2>1
      <3>2. n \in un \/ InChain(a.sc, n)
        BY <3>1 DEF Sound, Explains
      <3> QED
        BY <1>2, <3>2, InConcat
    <2>2. CASE ~(n < a.maxp1)
      <3>1. n \in b.min..(b.maxp1 - 1)
        BY <1>2, <2>2
      <3>2. n \in un \/ InChain(b.sc, n)
        BY <3>1 DEF Sound, Explains
      <3> QED
        BY <1>2, <3>2, InConcat
    <2> QED
      BY <2>1, <2>2
  <1>7. c \in Intervals
    BY <1>2, <1>4 DEF append_rsample_interval, Interval, Intervals
  <1> HIDE DEF c, sc
  <1>8. Sound(c, un)
    BY <1>1, <1>4, <1>5, <1>6, <1>7 DEF Sound
  <1> QED
    BY <1>1, <1>4, <1>8 DEF c, JoinOf

LEMMA SoundSample ==
    ASSUME NEW un, NEW seq \in Nat
    PROVE  LET s == Interval(seq, seq + 1, <<seq>>)
           IN Sound(s, un) /\ s.min = seq /\ s.maxp1 = seq + 1 /\ s.sc = <<seq>> /\ Len(s.sc) = 1
  <1> DEFINE s == Interval(seq, seq + 1, <<seq>>)
  <1>1. /\ <<seq>> \in Seq(Nat) /\ Len(<<seq>>) = 1 /\ <<seq>> # <<>>
        /\ Fits(<<seq>>, seq, seq + 1) /\ InChain(<<seq>>, seq)
    BY OneElement
  <1>2. s.min = seq /\ s.maxp1 = seq + 1 /\ s.sc = <<seq>> /\ s \in Intervals
    BY <1>1 DEF Interval, Intervals
  <1>3. \A n \in seq..(seq + 1 - 1) : n = seq
    OBVIOUS
  <1>4. Explains(<<seq>>, seq, seq + 1, un)
    BY <1>1, <1>3 DEF Explains
  <1> HIDE DEF s
  <1>5. Sound(s, un)
    BY <1>1, <1>2, <1>4 DEF Sound
  <1> QED
    BY <1>1, <1>2, <1>5 DEF s

\* A set of intervals and one that neither overlaps nor touches them.
Beside(R, v) == \A w \in R : w.maxp1 < v.min \/ v.maxp1 < w.min

LEMMA PutSound ==
    ASSUME NEW R, NEW next, NEW un, TreeOK(R, next, un),
           NEW v, Sound(v, un), next < v.min, Beside(R, v)
    PROVE  TreeOK(R \cup {v}, next, un) /\ Total(R \cup {v}) = Total(R) + Len(v.sc)
  <1>1. v \in Intervals /\ v.sc # <<>> /\ Fits(v.sc, v.min, v.maxp1) /\ Explains(v.sc, v.min, v.maxp1, un)
    BY DEF Sound
  <1>2. R \subseteq R /\ \A w \in R : w.maxp1 < v.min \/ v.maxp1 < w.min
    BY DEF Beside
  <1> QED
    BY <1>1, <1>2, PutInterval

LEMMA TotalMinus ==
    ASSUME NEW S, Tree(S), NEW v, NEW c \in BOOLEAN, c => v \in S
    PROVE  LET R == S \ {w \in {v} : c}
           IN /\ Total(S) = Total(R) + (IF c THEN Len(v.sc) ELSE 0)
              /\ Tree(R) /\ Total(R) \in Nat
  <1>1. CASE c
    <2>1. S \ {w \in {v} : c} = S \ {v} /\ v \in S
      BY <1>1
    <2>2. /\ Total(S) = Len(v.sc) + Total(S \ {v}) /\ Total(S \ {v}) \in Nat /\ Len(v.sc) \in Nat
          /\ Tree(S \ {v})
      BY <2>1, TotalWithout, TreeSubset
    <2>3. Total(S) = Total(S \ {v}) + Len(v.sc)
      BY <2>2
    <2> QED
      BY <1>1, <2>1, <2>2, <2>3
  <1>2. CASE ~c
    <2>1. S \ {w \in {v} : c} = S
      BY <1>2
    <2>2. Total(S) \in Nat
      BY TotalParts
    <2>3. Total(S) = Total(S) + 0
      BY <2>2
    <2> QED
      BY <1>2, <2>1, <2>2, <2>3
  <1> QED
    BY <1>1, <1>2

\* The last of the intervals that begin at or before a number.
LEMMA LookupIs ==
    ASSUME NEW S, Tree(S), NEW seq
    PROVE  /\ LET p == LookupPredEq(S, seq)
              IN IF \E w \in S : w.min <= seq
                 THEN p \in S /\ p.min <= seq /\ \A w \in S : w.min <= seq => w.min <= p.min
                 ELSE p = NoInterval
           /\ LET p == Lookup(S, seq)
              IN IF \E w \in S : w.min = seq THEN p \in S /\ p.min = seq ELSE p = NoInterval
  <1> DEFINE A == {v \in S : v.min <= seq}  B == {v \in S : v.min = seq}
  <1>1. A \subseteq Intervals /\ IsFiniteSet(A) /\ B \subseteq Intervals /\ IsFiniteSet(B)
    BY FS_Subset DEF Tree
  <1>2. A # {} => FindMax(A) \in A /\ \A w \in A : w.min <= FindMax(A).min
    BY <1>1, FindMaxIs
  <1>3. B # {} => FindMax(B) \in B
    BY <1>1, FindMaxIs
  <1>4. FindMax({}) = NoInterval
    BY DEF FindMax
  <1>5. LookupPredEq(S, seq) = FindMax(A) /\ Lookup(S, seq) = FindMax(B)
    BY Zenon DEF LookupPredEq, Lookup
  <1>6. CASE \E w \in S : w.min <= seq
    BY <1>2, <1>3, <1>4, <1>5, <1>6
  <1>7. CASE ~(\E w \in S : w.min <= seq)
    <2>1. A = {}
      BY <1>7
    <2> QED
      BY <1>3, <1>4, <1>5, <1>7, <2>1
  <1> QED
    BY <1>6, <1>7

LEMMA Inserted ==
    ASSUME NEW r \in Reorders, NEW un \in SUBSET (Nat \ {0}), ROK(r, un), GapsBegin(r, un),
           NEW seq \in Nat \ {0}, r.mode = "NORMAL", r.ivs # {},
           r.next_seq < seq, seq < r.max_sampleiv.maxp1
    PROVE  Good(InsertSample(r, Interval(seq, seq + 1, <<seq>>)), r, un)
  <1> DEFINE s == Interval(seq, seq + 1, <<seq>>)
             predeq == LookupPredEq(r.ivs, seq)
             immsucc == Lookup(r.ivs, seq + 1)
             grows == predeq # NoInterval /\ predeq.maxp1 = seq
             ends == immsucc # NoInterval
             head == IF grows THEN append_rsample_interval(predeq, s) ELSE s
             new == IF ends THEN append_rsample_interval(head, immsucc) ELSE head
             used == {v \in {predeq, immsucc} : v = immsucc \/ grows}
             rest == r.ivs \ used
             last == r.max_sampleiv
             newlast == IF last \in used THEN new ELSE last
             q == WithTree(r, rest \cup {new}, newlast)
  <1>1. /\ TreeOK(r.ivs, r.next_seq, un) /\ Tree(r.ivs) /\ last = FindMax(r.ivs)
        /\ r.n_samples = Total(r.ivs) /\ r.n_samples <= r.max_samples
        /\ r.next_seq \in Nat \ {0}
    BY DEF ROK, TreeOK, Total, Reorders
  <1>2. Sound(s, un) /\ s.min = seq /\ s.maxp1 = seq + 1 /\ s.sc = <<seq>> /\ Len(s.sc) = 1
    BY SoundSample
  <1>3. InsertSample(r, s) = IF seq < predeq.maxp1 THEN Refuse(r, "REJECT")
                             ELSE Accept(CountOrDeleteLast(q))
    <2>1. InsertSample(r, s) =
            IF s.min < LookupPredEq(r.ivs, s.min).maxp1 THEN Refuse(r, "REJECT")
            ELSE LET p == LookupPredEq(r.ivs, s.min)
                     i == Lookup(r.ivs, s.maxp1)
                     g == p # NoInterval /\ p.maxp1 = s.min
                     h == IF g THEN append_rsample_interval(p, s) ELSE s
                     w == IF i # NoInterval THEN append_rsample_interval(h, i) ELSE h
                     u == {v \in {p, i} : v = i \/ g}
                 IN Accept(CountOrDeleteLast(WithTree(r, (r.ivs \ u) \cup {w}, IF last \in u THEN w ELSE last)))
      BY Zenon DEF InsertSample, WithTree
    <2> HIDE DEF s
    <2> QED
      BY <1>2, <2>1, Zenon
  <1>4. CASE seq < predeq.maxp1
    <2>1. Good(Refuse(r, "REJECT"), r, un)
      BY Refused
    <2> QED
      BY <1>3, <1>4, <2>1, Zenon
  <1>5. CASE ~(seq < predeq.maxp1)
    <2>1. predeq # NoInterval => /\ Sound(predeq, un) /\ r.next_seq < predeq.min /\ predeq \in r.ivs
                                 /\ predeq.min <= seq /\ predeq.maxp1 <= seq
      <3> SUFFICES ASSUME predeq # NoInterval
                   PROVE  /\ Sound(predeq, un) /\ r.next_seq < predeq.min /\ predeq \in r.ivs
                          /\ predeq.min <= seq /\ predeq.maxp1 <= seq
        OBVIOUS
      <3>1. predeq \in r.ivs /\ predeq.min <= seq
        BY <1>1, LookupIs
      <3> HIDE DEF predeq
      <3>2. Sound(predeq, un) /\ r.next_seq < predeq.min
        BY <1>1, <3>1, SoundInTree
      <3>3. predeq.maxp1 \in Nat
        BY <3>2, SoundIs
      <3> QED
        BY <1>5, <3>1, <3>2, <3>3
    <2>2. \A w \in r.ivs : w.min <= seq => predeq # NoInterval /\ w.min <= predeq.min
      BY <1>1, LookupIs, NoIntervalNot
    <2>3. ends => Sound(immsucc, un) /\ immsucc \in r.ivs /\ immsucc.min = seq + 1
      <3> SUFFICES ASSUME ends PROVE Sound(immsucc, un) /\ immsucc \in r.ivs /\ immsucc.min = seq + 1
        OBVIOUS
      <3>1. immsucc \in r.ivs /\ immsucc.min = seq + 1
        BY <1>1, LookupIs
      <3> HIDE DEF immsucc
      <3> QED
        BY <1>1, <3>1, SoundInTree
    <2>4. \A w \in r.ivs : w.min = seq + 1 => ends /\ w = immsucc
      <3> SUFFICES ASSUME NEW w \in r.ivs, w.min = seq + 1 PROVE ends /\ w = immsucc
        OBVIOUS
      <3>1. immsucc \in r.ivs /\ immsucc.min = seq + 1
        BY <1>1, LookupIs
      <3>2. immsucc # NoInterval
        BY <1>1, <3>1, NoIntervalNot
      <3> HIDE DEF immsucc
      <3> QED
        BY <1>1, <3>1, <3>2, TreeApart DEF Apart
    <2>5. /\ Sound(head, un) /\ head.min = (IF grows THEN predeq.min ELSE seq) /\ head.maxp1 = seq + 1
          /\ Len(head.sc) = (IF grows THEN Len(predeq.sc) ELSE 0) + 1
      <3> HIDE DEF s, predeq
      <3>1. CASE grows
        <4> DEFINE c == append_rsample_interval(predeq, s)
        <4>1. Sound(predeq, un) /\ predeq.maxp1 = s.min
          BY <1>2, <2>1, <3>1
        <4>2. Sound(c, un) /\ JoinOf(c, predeq, s)
          BY <1>2, <4>1, SoundJoined, Zenon
        <4>3. head = c
          BY <3>1
        <4> HIDE DEF c, head, grows
        <4> QED
          BY <1>2, <3>1, <4>2, <4>3 DEF JoinOf
      <3>2. CASE ~grows
        <4>1. head = s
          BY <3>2
        <4> HIDE DEF head, grows
        <4> QED
          BY <1>2, <3>2, <4>1
      <3> QED
        BY <3>1, <3>2
    <2>6. /\ Sound(new, un) /\ new.min = (IF grows THEN predeq.min ELSE seq)
          /\ new.maxp1 = (IF ends THEN immsucc.maxp1 ELSE seq + 1)
          /\ Len(new.sc) = Len(head.sc) + (IF ends THEN Len(immsucc.sc) ELSE 0)
      <3> HIDE DEF head, grows, immsucc
      <3>1. CASE ends
        <4> DEFINE c == append_rsample_interval(head, immsucc)
        <4>1. Sound(immsucc, un) /\ head.maxp1 = immsucc.min
          BY <2>3, <2>5, <3>1
        <4>2. Sound(c, un) /\ JoinOf(c, head, immsucc)
          BY <2>5, <4>1, SoundJoined, Zenon
        <4>3. new = c
          BY <3>1
        <4> HIDE DEF c, new, ends
        <4> QED
          BY <2>5, <3>1, <4>2, <4>3 DEF JoinOf
      <3>2. CASE ~ends
        <4>1. Len(head.sc) + 0 = Len(head.sc)
          BY <2>5, SoundIs
        <4> QED
          BY <2>5, <3>2, <4>1
      <3> QED
        BY <3>1, <3>2
    <2>7. \A w \in r.ivs : w \in used <=> (grows /\ w = predeq) \/ (ends /\ w = immsucc)
      BY <1>1, NoIntervalNot
    <2> HIDE DEF s, predeq, immsucc, head, new, used
    <2>8. Total(r.ivs) + 1 = Total(rest) + Len(new.sc) /\ Total(rest) \in Nat
      <3> DEFINE A == r.ivs \ {w \in {predeq} : grows}
                 a == IF grows THEN Len(predeq.sc) ELSE 0
                 b == IF ends THEN Len(immsucc.sc) ELSE 0
      <3>1. (grows => predeq \in r.ivs) /\ grows \in BOOLEAN /\ ends \in BOOLEAN
        BY <2>1
      <3>2. Total(r.ivs) = Total(A) + a /\ Tree(A)
        <4> HIDE DEF grows
        <4> QED
          BY <1>1, <3>1, TotalMinus
      <3>3. ends => immsucc \in A
        <4> SUFFICES ASSUME ends, grows, immsucc = predeq PROVE FALSE
          BY <2>3
        <4>1. predeq.min <= seq /\ predeq.min = seq + 1
          BY <2>1, <2>3
        <4> QED
          BY <4>1
      <3>4. rest = A \ {w \in {immsucc} : ends}
        BY <2>7
      <3>5. Total(A) = Total(rest) + b /\ Total(rest) \in Nat
        <4> DEFINE R == A \ {w \in {immsucc} : ends}
        <4>3. Tree(A) /\ ends \in BOOLEAN
          BY <3>1, <3>2
        <4> HIDE DEF A, ends, grows
        <4>1. Total(A) = Total(R) + b /\ Total(R) \in Nat
          BY <3>3, <4>3, TotalMinus
        <4> HIDE DEF R, rest
        <4>2. rest = R
          BY <3>4 DEF R
        <4> QED
          BY <4>1, <4>2
      <3>6. Len(new.sc) = (a + 1) + b /\ a \in Nat /\ b \in Nat
        <4>1. a \in Nat /\ b \in Nat
          BY <2>1, <2>3, SoundIs
        <4> QED
          BY <2>5, <2>6, <4>1
      <3> DEFINE t == Total(rest)
      <3>7. Total(A) = t + b /\ t \in Nat
        BY <3>5
      <3> HIDE DEF A, a, b, t, rest
      <3>8. Total(r.ivs) = (t + b) + a
        BY <3>2, <3>7
      <3>9. Total(r.ivs) + 1 = t + Len(new.sc)
        BY <3>6, <3>7, <3>8
      <3> QED
        BY <3>7, <3>9 DEF t
    <2>9. seq < new.maxp1 /\ new.min <= seq /\ new.min \in Nat /\ new.maxp1 \in Nat /\ new.min < new.maxp1
      <3>1. ends => immsucc.maxp1 \in Nat /\ seq + 1 < immsucc.maxp1
        BY <2>3, SoundIs
      <3> QED
        BY <2>1, <2>6, <3>1, SoundIs
    <2>10. r.next_seq < new.min
      BY <2>1, <2>6
    <2>11. \A w \in rest : w.maxp1 < new.min \/ new.maxp1 < w.min
      <3> SUFFICES ASSUME NEW w \in rest PROVE w.maxp1 < new.min \/ new.maxp1 < w.min
        OBVIOUS
      <3>1. w \in r.ivs /\ ~(grows /\ w = predeq) /\ ~(ends /\ w = immsucc)
        BY <2>7
      <3>2. w.min \in Nat /\ w.maxp1 \in Nat /\ w.min < w.maxp1
        BY <1>1, <3>1, IntervalIs
      <3>3. CASE w.min <= seq
        <4>1. /\ predeq # NoInterval /\ w.min <= predeq.min
              /\ predeq \in r.ivs /\ predeq.min <= seq /\ predeq.maxp1 <= seq
              /\ predeq.min \in Nat /\ predeq.maxp1 \in Nat /\ predeq.min < predeq.maxp1
          BY <2>1, <2>2, <3>1, <3>3, SoundIs
        <4>2. CASE w = predeq
          <5>1. predeq.maxp1 # seq /\ ~grows
            BY <3>1, <4>1, <4>2
          <5> QED
            BY <2>6, <4>1, <4>2, <5>1
        <4>3. CASE w # predeq
          <5>1. w.maxp1 < predeq.min \/ predeq.maxp1 < w.min
            BY <1>1, <3>1, <4>1, <4>3 DEF Tree, Disjoint
          <5>2. predeq.min <= new.min
            BY <2>6, <4>1
          <5> QED
            BY <2>9, <3>2, <4>1, <5>1, <5>2
        <4> QED
          BY <4>2, <4>3
      <3>4. CASE ~(w.min <= seq)
        <4>1. w.min # seq + 1
          BY <2>4, <3>1
        <4>2. seq + 1 < w.min
          BY <3>2, <3>4, <4>1
        <4>3. CASE ends
          <5>1. w.maxp1 < immsucc.min \/ immsucc.maxp1 < w.min
            BY <1>1, <2>3, <3>1, <4>3 DEF Tree, Disjoint
          <5> QED
            BY <2>3, <2>6, <3>2, <4>2, <4>3, <5>1
        <4>4. CASE ~ends
          BY <2>6, <4>2, <4>4
        <4> QED
          BY <4>3, <4>4
      <3> QED
        BY <3>3, <3>4
    <2>12. TreeOK(rest \cup {new}, r.next_seq, un) /\ Total(rest \cup {new}) = r.n_samples + 1
      <3>1. rest \subseteq r.ivs
        OBVIOUS
      <3>2. new \in Intervals /\ new.sc # <<>> /\ Fits(new.sc, new.min, new.maxp1)
            /\ Explains(new.sc, new.min, new.maxp1, un)
        BY <2>6 DEF Sound
      <3> HIDE DEF rest
      <3>3. TreeOK(rest \cup {new}, r.next_seq, un) /\ Total(rest \cup {new}) = Total(rest) + Len(new.sc)
        BY <1>1, <2>10, <2>11, <3>1, <3>2, PutInterval
      <3> QED
        BY <1>1, <2>8, <3>3
    <2>13. newlast = FindMax(rest \cup {new})
      <3>1. last \in r.ivs /\ \A w \in r.ivs : w = last \/ w.maxp1 < last.min
        BY <1>1, LastProperties
      <3>2. last.min \in Nat /\ last.maxp1 \in Nat /\ last.min < last.maxp1
        BY <1>1, <3>1, IntervalIs
      <3>3. CASE last \in used
        <4>1. new.min <= last.min /\ last.maxp1 <= new.maxp1
          <5>1. (grows /\ last = predeq) \/ (ends /\ last = immsucc)
            BY <2>7, <3>1, <3>3
          <5>2. CASE grows /\ last = predeq
            BY <2>6, <2>9, <3>2, <5>2
          <5>3. CASE ends /\ last = immsucc
            BY <2>3, <2>6, <2>9, <3>2, <5>3
          <5> QED
            BY <5>1, <5>2, <5>3
        <4>2. ASSUME NEW w \in rest PROVE w.min <= new.min
          <5>1. w \in r.ivs /\ w.maxp1 < last.min
            BY <3>1, <3>3
          <5>2. w.min \in Nat /\ w.maxp1 \in Nat /\ w.min < w.maxp1
            BY <1>1, <5>1, IntervalIs
          <5>3. w.maxp1 < new.min \/ new.maxp1 < w.min
            BY <2>11
          <5> QED
            BY <2>9, <3>2, <4>1, <5>1, <5>2, <5>3
        <4>3. \A w \in rest \cup {new} : w.min <= new.min
          BY <2>9, <4>2
        <4> HIDE DEF rest
        <4> QED
          BY <2>12, <3>3, <4>3, LastIs DEF TreeOK
      <3>4. CASE last \notin used
        <4>1. last \in rest
          BY <3>1, <3>4
        <4>2. new.min <= last.min
          <5>1. last.maxp1 < new.min \/ new.maxp1 < last.min
            BY <2>11, <4>1
          <5> QED
            BY <2>9, <3>2, <5>1
        <4>3. ASSUME NEW w \in rest PROVE w.min <= last.min
          <5>1. w.min \in Nat /\ w.maxp1 \in Nat /\ w.min < w.maxp1
            BY <1>1, IntervalIs
          <5>2. w = last \/ w.maxp1 < last.min
            BY <3>1
          <5> QED
            BY <3>2, <5>1, <5>2
        <4>4. \A w \in rest \cup {new} : w.min <= last.min
          BY <4>2, <4>3
        <4> HIDE DEF rest, last
        <4> QED
          BY <2>12, <3>4, <4>1, <4>4, LastIs DEF TreeOK
      <3> QED
        BY <3>3, <3>4
    <2>14. /\ q \in Reorders /\ q.mode = r.mode /\ q.max_samples = r.max_samples
           /\ q.next_seq = r.next_seq /\ q.n_samples = r.n_samples
           /\ q.ivs = rest \cup {new} /\ q.max_sampleiv = newlast
      <3>1. rest \cup {new} \in SUBSET Intervals /\ newlast \in Intervals
        <4>1. rest \cup {new} \in SUBSET Intervals
          BY <2>12 DEF TreeOK, Tree
        <4> HIDE DEF rest, newlast
        <4> QED
          BY <2>12, <2>13, <4>1, TypeOfLast DEF TreeOK
      <3> HIDE DEF rest, newlast
      <3> QED
        BY <3>1, ChangedTree
    <2> HIDE DEF q, rest, newlast, last
    <2>15. GapsBegin(q, un)
      BY <2>14 DEF GapsBegin
    <2> DEFINE p == CountOrDeleteLast(q)
    <2>16. /\ p \in Reorders /\ p.mode = q.mode /\ p.max_samples = q.max_samples
           /\ p.next_seq = q.next_seq
           /\ TreeOK(p.ivs, q.next_seq, un) /\ p.n_samples = Total(p.ivs)
           /\ p.n_samples <= p.max_samples /\ p.max_sampleiv = FindMax(p.ivs)
      <3>1. q.mode = "NORMAL" /\ q.ivs # {} /\ Total(q.ivs) = q.n_samples + 1
            /\ q.n_samples <= q.max_samples /\ q.max_sampleiv = FindMax(q.ivs)
            /\ TreeOK(q.ivs, q.next_seq, un)
        BY <1>1, <2>12, <2>13, <2>14
      <3> QED
        BY <2>14, <2>15, <3>1, CountedOrDeleted
    <2> HIDE DEF p
    <2>17. ROK(p, un)
      BY <2>14, <2>16 DEF ROK, TreeOK, Total
    <2>18. Good(Accept(p), r, un)
      BY <2>14, <2>16, <2>17, Accepted
    <2> QED
      BY <1>3, <1>5, <2>18, Zenon DEF p, s
  <1> QED
    BY <1>4, <1>5

LEMMA ChangedAtEnd ==
    ASSUME NEW r \in Reorders, NEW v \in Intervals, NEW replaced
    PROVE  LET q == AddAtEnd(r, v, replaced)
           IN /\ q \in Reorders /\ q.mode = r.mode /\ q.max_samples = r.max_samples
              /\ q.next_seq = r.next_seq /\ q.n_samples = r.n_samples + 1
              /\ q.ivs = (r.ivs \ {replaced}) \cup {v} /\ q.max_sampleiv = v
  <1> DEFINE ivs == (r.ivs \ {replaced}) \cup {v}  n == r.n_samples + 1
             t == WithTree(r, ivs, v)
             q == WithCount(t, n)
  <1>1. ivs \in SUBSET Intervals /\ n \in Nat
    BY DEF Reorders
  <1>2. AddAtEnd(r, v, replaced) = q
    <2>1. t.n_samples = r.n_samples
      BY DEF WithTree, Reorders
    <2>2. AddAtEnd(r, v, replaced) = WithCount(t, t.n_samples + 1)
      BY Zenon DEF AddAtEnd, WithTree, WithCount
    <2> QED
      BY <2>1, <2>2
  <1> HIDE DEF ivs, n
  <1>3. /\ t \in Reorders /\ t.mode = r.mode /\ t.max_samples = r.max_samples
        /\ t.next_seq = r.next_seq /\ t.n_samples = r.n_samples
        /\ t.ivs = ivs /\ t.max_sampleiv = v
    BY <1>1, ChangedTree
  <1> HIDE DEF t
  <1>4. /\ q \in Reorders /\ q.mode = t.mode /\ q.max_samples = t.max_samples
        /\ q.next_seq = t.next_seq /\ q.n_samples = n
        /\ q.ivs = t.ivs /\ q.max_sampleiv = t.max_sampleiv
    BY <1>1, <1>3, ChangedCount
  <1> HIDE DEF q
  <1> QED
    BY <1>2, <1>3, <1>4 DEF ivs, n

LEMMA AddedAtEnd ==
    ASSUME NEW r \in Reorders, NEW un, ROK(r, un), r.mode = "NORMAL", r.n_samples < r.max_samples,
           NEW v, Sound(v, un), r.next_seq < v.min, NEW replaced,
           \A w \in r.ivs \ {replaced} : w.maxp1 < v.min,
           Total(r.ivs \ {replaced}) + Len(v.sc) = Total(r.ivs) + 1
    PROVE  Good(Accept(AddAtEnd(r, v, replaced)), r, un)
  <1> DEFINE q == AddAtEnd(r, v, replaced)  rest == r.ivs \ {replaced}
  <1>1. v \in Intervals /\ v.sc # <<>> /\ Fits(v.sc, v.min, v.maxp1) /\ Explains(v.sc, v.min, v.maxp1, un)
    BY DEF Sound
  <1>2. /\ q \in Reorders /\ q.mode = r.mode /\ q.max_samples = r.max_samples
        /\ q.next_seq = r.next_seq /\ q.n_samples = r.n_samples + 1
        /\ q.ivs = rest \cup {v} /\ q.max_sampleiv = v
    BY <1>1, ChangedAtEnd
  <1>3. TreeOK(r.ivs, r.next_seq, un) /\ r.n_samples = Total(r.ivs) /\ rest \subseteq r.ivs
    BY DEF ROK, TreeOK, Total
  <1>4. /\ \A w \in rest : w.maxp1 < v.min
        /\ Total(rest) + Len(v.sc) = Total(r.ivs) + 1
    OBVIOUS
  <1> HIDE DEF q, rest
  <1>5. TreeOK(rest \cup {v}, r.next_seq, un) /\ Total(rest \cup {v}) = Total(rest) + Len(v.sc)
    BY <1>1, <1>3, <1>4, PutInterval
  <1>6. FindMax(rest \cup {v}) = v
    <2>1. \A w \in rest \cup {v} : w.min <= v.min
      <3>1. \A w \in rest \cup {v} : w.min \in Nat /\ w.maxp1 \in Nat /\ w.min < w.maxp1
        BY <1>5, IntervalIs DEF TreeOK
      <3>2. \A w \in rest : w.min <= v.min
        BY <1>4, <3>1
      <3> QED
        BY <3>1, <3>2
    <2> QED
      BY <1>5, <2>1, LastIs DEF TreeOK
  <1>7. ROK(q, un)
    <2>1. q.n_samples = Total(q.ivs)
      BY <1>2, <1>3, <1>4, <1>5
    <2>2. q.n_samples <= q.max_samples
      <3>1. r.n_samples \in Nat /\ r.max_samples \in Nat
        BY DEF Reorders
      <3> QED
        BY <1>2, <3>1
    <2> QED
      BY <1>2, <1>5, <1>6, <2>1, <2>2 DEF ROK, TreeOK, Total
  <1>8. Good(Accept(q), r, un)
    BY <1>2, <1>7, Accepted
  <1> QED
    BY <1>8 DEF q

LEMMA SampleGood ==
    ASSUME NEW r \in Reorders, NEW un \in SUBSET (Nat \ {0}), ROK(r, un), GapsBegin(r, un),
           NEW seq \in Nat \ {0}, NEW full \in BOOLEAN
    PROVE  Good(nn_reorder_rsample(r, seq, full), r, un)
  <1> DEFINE s == Interval(seq, seq + 1, <<seq>>)
             o == nn_reorder_rsample(r, seq, full)
             end == r.max_sampleiv.maxp1
             now == \/ seq = r.next_seq \/ r.mode = "ALWAYS_DELIVER"
                    \/ r.mode = "MONOTONICALLY_INCREASING" /\ seq > r.next_seq
             late == r.mode # "ALWAYS_DELIVER" /\ seq < r.next_seq
  <1>1. /\ TreeOK(r.ivs, r.next_seq, un) /\ Tree(r.ivs) /\ r.max_sampleiv = FindMax(r.ivs)
        /\ r.n_samples = Total(r.ivs) /\ r.n_samples <= r.max_samples
        /\ r.next_seq \in Nat \ {0} /\ r.n_samples \in Nat /\ r.max_samples \in Nat
        /\ r.mode \in Modes3 /\ (r.mode # "NORMAL" => r.ivs = {})
    BY DEF ROK, TreeOK, Total, Reorders
  <1>2. Sound(s, un) /\ s.min = seq /\ s.maxp1 = seq + 1 /\ s.sc = <<seq>> /\ Len(s.sc) = 1
    BY SoundSample
  <1>3. \A res : Good(Refuse(r, res), r, un)
    BY Refused
  <1>4. CASE now
    <2>1. o = IF full THEN Refuse(r, "REJECT") ELSE DeliverSample(r, s)
      BY <1>1, <1>4 DEF nn_reorder_rsample
    <2>2. Good(DeliverSample(r, s), r, un)
      <3>1. CASE \E v \in r.ivs : v.min = seq + 1
        <4>1. r.mode = "NORMAL"
          BY <1>1, <3>1
        <4>2. seq = r.next_seq
          BY <1>4, <4>1
        <4> QED
          BY <3>1, <4>2, DeliverJoined
      <3>2. CASE ~(\E v \in r.ivs : v.min = seq + 1)
        <4>1. \A v \in r.ivs : seq + 1 < v.min
          <5> SUFFICES ASSUME NEW v \in r.ivs PROVE seq + 1 < v.min
            OBVIOUS
          <5>1. r.mode = "NORMAL" /\ v.min # seq + 1
            BY <1>1, <3>2
          <5>2. seq = r.next_seq
            BY <1>4, <5>1
          <5>3. r.next_seq < v.min /\ v.min \in Nat
            BY <1>1, IntervalIs DEF TreeOK
          <5> QED
            BY <5>1, <5>2, <5>3
        <4>2. /\ r.mode # "ALWAYS_DELIVER" => r.next_seq <= seq
              /\ r.mode = "NORMAL" => r.next_seq = seq
          BY <1>1, <1>4
        <4> QED
          BY <4>1, <4>2, DeliverAlone
      <3> QED
        BY <3>1, <3>2
    <2> HIDE DEF o, s
    <2>3. Good(o, r, un)
      BY <1>3, <2>1, <2>2
    <2> QED
      BY <2>3 DEF o
  <1>5. CASE ~now /\ late
    <2>1. o = Refuse(r, "TOO_OLD")
      BY <1>1, <1>5 DEF nn_reorder_rsample
    <2> HIDE DEF o
    <2>2. Good(o, r, un)
      BY <1>3, <2>1
    <2> QED
      BY <2>2 DEF o
  <1>6. CASE ~now /\ ~late
    <2>1. r.mode = "NORMAL" /\ r.next_seq < seq
      BY <1>1, <1>6 DEF Modes3
    <2> DEFINE room == ~full /\ r.n_samples < r.max_samples
    <2>2. o = IF r.ivs = {} THEN IF r.max_samples = 0 THEN Refuse(r, "REJECT")
                                 ELSE Accept(AddAtEnd(r, s, NoInterval))
              ELSE IF seq < end THEN InsertSample(r, s)
              ELSE IF ~room THEN Refuse(r, "REJECT")
              ELSE IF seq = end
                   THEN Accept(AddAtEnd(r, append_rsample_interval(r.max_sampleiv, s), r.max_sampleiv))
                   ELSE Accept(AddAtEnd(r, s, NoInterval))
      <3> HIDE DEF s
      <3> QED
        BY <1>6 DEF nn_reorder_rsample, s
    <2>3. r.ivs \ {NoInterval} = r.ivs /\ Total(r.ivs \ {NoInterval}) + Len(s.sc) = Total(r.ivs) + 1
      <3>1. r.ivs \ {NoInterval} = r.ivs
        BY <1>1, NoIntervalNot
      <3> HIDE DEF s
      <3> QED
        BY <1>2, <3>1
    <2>4. r.ivs # {} => r.max_sampleiv \in r.ivs /\ \A w \in r.ivs : w = r.max_sampleiv \/ w.maxp1 < r.max_sampleiv.min
      BY <1>1, LastProperties
    <2>5. ASSUME r.ivs = {}, r.max_samples # 0 PROVE Good(Accept(AddAtEnd(r, s, NoInterval)), r, un)
      <3>1. r.n_samples < r.max_samples
        BY <1>1, <2>5, TotalEmpty
      <3> HIDE DEF s
      <3> QED
        BY <1>2, <2>1, <2>3, <2>5, <3>1, AddedAtEnd
    <2>6. ASSUME r.ivs # {}, seq < end PROVE Good(InsertSample(r, s), r, un)
      BY <2>1, <2>6, Inserted
    <2>7. ASSUME r.ivs # {}, room, seq = end
          PROVE  Good(Accept(AddAtEnd(r, append_rsample_interval(r.max_sampleiv, s), r.max_sampleiv)), r, un)
      <3> DEFINE m == r.max_sampleiv  c == append_rsample_interval(m, s)
      <3>1. Sound(m, un) /\ r.next_seq < m.min /\ m.maxp1 = s.min
        BY <1>1, <1>2, <2>4, <2>7, SoundInTree
      <3> HIDE DEF s
      <3>2. Sound(c, un) /\ JoinOf(c, m, s)
        BY <1>2, <3>1, SoundJoined, Zenon
      <3>3. \A w \in r.ivs \ {m} : w.maxp1 < m.min
        BY <2>4, <2>7
      <3>4. Total(r.ivs) = Len(m.sc) + Total(r.ivs \ {m}) /\ Total(r.ivs \ {m}) \in Nat /\ Len(m.sc) \in Nat
        BY <1>1, <2>4, <2>7, TotalWithout
      <3> DEFINE t == Total(r.ivs \ {m})  l == Len(m.sc)
      <3>5. Total(r.ivs) = l + t /\ t \in Nat /\ l \in Nat
        BY <3>4
      <3> HIDE DEF c, m, t, l
      <3>6. c.min = m.min /\ Len(c.sc) = l + 1
        BY <1>2, <3>2 DEF JoinOf, l
      <3>7. t + Len(c.sc) = Total(r.ivs) + 1
        BY <3>5, <3>6
      <3>8. Total(r.ivs \ {m}) + Len(c.sc) = Total(r.ivs) + 1 /\ r.next_seq < c.min
            /\ \A w \in r.ivs \ {m} : w.maxp1 < c.min
        BY <3>1, <3>3, <3>6, <3>7 DEF t
      <3>9. Good(Accept(AddAtEnd(r, c, m)), r, un)
        BY <2>1, <2>7, <3>2, <3>8, AddedAtEnd
      <3> QED
        BY <3>9 DEF c, m
    <2>8. ASSUME r.ivs # {}, room, ~(seq < end), seq # end
          PROVE  Good(Accept(AddAtEnd(r, s, NoInterval)), r, un)
      <3>1. \A w \in r.ivs \ {NoInterval} : w.maxp1 < s.min
        <4> SUFFICES ASSUME NEW w \in r.ivs PROVE w.maxp1 < seq
          BY <1>2
        <4>1. /\ w.maxp1 \in Nat /\ r.max_sampleiv.min \in Nat /\ r.max_sampleiv.maxp1 \in Nat
              /\ r.max_sampleiv.min < r.max_sampleiv.maxp1
          BY <1>1, <2>4, <2>8, IntervalIs
        <4>2. w = r.max_sampleiv \/ w.maxp1 < r.max_sampleiv.min
          BY <2>4, <2>8
        <4> QED
          BY <2>8, <4>1, <4>2
      <3> HIDE DEF s
      <3> QED
        BY <1>2, <2>1, <2>3, <2>8, <3>1, AddedAtEnd
    <2> HIDE DEF o, s, end, room
    <2>9. Good(o, r, un)
      BY <1>3, <2>2, <2>5, <2>6, <2>7, <2>8
    <2> QED
      BY <2>9 DEF o
  <1> QED
    BY <1>4, <1>5, <1>6

----------------------------------------------------------------------------
(* Gaps.                                                                     *)

\* The administration with one field or two changed.
WithNext(r, next) == [r EXCEPT !.next_seq = next]
WithIntervals(r, ivs) == [r EXCEPT !.ivs = ivs]
WithLast(r, last) == [r EXCEPT !.max_sampleiv = last]

LEMMA ChangedField ==
    ASSUME NEW r \in Reorders
    PROVE  /\ \A next \in Nat \ {0} :
                LET q == WithNext(r, next)
                IN /\ q \in Reorders /\ q.mode = r.mode /\ q.max_samples = r.max_samples
                   /\ q.next_seq = next /\ q.n_samples = r.n_samples
                   /\ q.ivs = r.ivs /\ q.max_sampleiv = r.max_sampleiv
           /\ \A ivs \in SUBSET Intervals :
                LET q == WithIntervals(r, ivs)
                IN /\ q \in Reorders /\ q.mode = r.mode /\ q.max_samples = r.max_samples
                   /\ q.next_seq = r.next_seq /\ q.n_samples = r.n_samples
                   /\ q.ivs = ivs /\ q.max_sampleiv = r.max_sampleiv
           /\ \A last \in Intervals :
                LET q == WithLast(r, last)
                IN /\ q \in Reorders /\ q.mode = r.mode /\ q.max_samples = r.max_samples
                   /\ q.next_seq = r.next_seq /\ q.n_samples = r.n_samples
                   /\ q.ivs = r.ivs /\ q.max_sampleiv = last
  <1>1. ASSUME NEW next \in Nat \ {0}
        PROVE  LET q == WithNext(r, next)
               IN /\ q \in Reorders /\ q.mode = r.mode /\ q.max_samples = r.max_samples
                  /\ q.next_seq = next /\ q.n_samples = r.n_samples
                  /\ q.ivs = r.ivs /\ q.max_sampleiv = r.max_sampleiv
    BY DEF WithNext, Reorders
  <1>2. ASSUME NEW ivs \in SUBSET Intervals
        PROVE  LET q == WithIntervals(r, ivs)
               IN /\ q \in Reorders /\ q.mode = r.mode /\ q.max_samples = r.max_samples
                  /\ q.next_seq = r.next_seq /\ q.n_samples = r.n_samples
                  /\ q.ivs = ivs /\ q.max_sampleiv = r.max_sampleiv
    BY DEF WithIntervals, Reorders
  <1>3. ASSUME NEW last \in Intervals
        PROVE  LET q == WithLast(r, last)
               IN /\ q \in Reorders /\ q.mode = r.mode /\ q.max_samples = r.max_samples
                  /\ q.next_seq = r.next_seq /\ q.n_samples = r.n_samples
                  /\ q.ivs = r.ivs /\ q.max_sampleiv = last
    BY DEF WithLast, Reorders
  <1> QED
    BY <1>1, <1>2, <1>3

\* The interval a gap makes of those it touches.
LEMMA CoalescedIs ==
    ASSUME NEW r \in Reorders, NEW un, ROK(r, un), NEW min \in Nat, NEW maxp1 \in Nat, min < maxp1,
           min..(maxp1 - 1) \subseteq un, Touching(r.ivs, min, maxp1) # {}
    PROVE  LET new == coalesce_intervals_touching_range(r.ivs, min, maxp1)
               ts == Touching(r.ivs, min, maxp1)
           IN /\ Sound(new, un) /\ new.sc = ChainOf(ts) /\ new.min <= min /\ maxp1 <= new.maxp1
              /\ \A v \in ts : new.min <= v.min /\ v.maxp1 <= new.maxp1
              /\ \A w \in r.ivs \ ts : w.maxp1 < new.min \/ new.maxp1 < w.min
              /\ new.min = min \/ \E v \in ts : new.min = v.min
              /\ new.maxp1 = maxp1 \/ \E v \in ts : new.maxp1 = v.maxp1
  <1> DEFINE ts == Touching(r.ivs, min, maxp1)
             A == {min} \cup {v.min : v \in ts}  B == {maxp1} \cup {v.maxp1 : v \in ts}
             lo == Min(A)  hi == Max(B)  sc == ChainOf(ts)
             new == coalesce_intervals_touching_range(r.ivs, min, maxp1)
  <1>1. Tree(r.ivs) /\ ts \subseteq r.ivs /\ Tree(ts) /\ ts # {}
    <2>1. ts \subseteq r.ivs /\ Tree(r.ivs)
      BY DEF Touching, ROK
    <2> QED
      BY <2>1, TreeSubset
  <1>2. \A v \in r.ivs : /\ v.min \in Nat /\ v.maxp1 \in Nat /\ v.min < v.maxp1
                         /\ v \in ts <=> v.maxp1 >= min /\ v.min <= maxp1
    BY <1>1, IntervalIs DEF Touching
  <1>3. lo \in A /\ \A x \in A : lo <= x
    <2>1. A \subseteq Nat /\ A # {}
      BY <1>1, <1>2
    <2> HIDE DEF A
    <2>2. \E x \in A : \A y \in A : x <= y
      BY <2>1, LeastNumber
    <2> QED
      BY <2>2 DEF Min
  <1>4. hi \in B /\ \A x \in B : x <= hi
    <2> DEFINE m == FindMax(ts)
    <2>1. m \in ts /\ \A w \in ts : w = m \/ w.maxp1 < m.min
      BY <1>1, LastProperties
    <2>2. \A w \in ts : w.maxp1 <= m.maxp1
      BY <1>1, <1>2, <2>1
    <2>3. m.maxp1 \in Nat /\ m.maxp1 \in B /\ maxp1 \in B
      BY <1>1, <1>2, <2>1
    <2>4. \A x \in B : x \in Nat /\ (x = maxp1 \/ x <= m.maxp1)
      BY <1>1, <1>2, <2>2
    <2> HIDE DEF B, m
    <2>5. \E x \in B : \A y \in B : x >= y
      BY <2>3, <2>4
    <2>6. hi \in B /\ \A y \in B : hi >= y
      BY <2>5 DEF Max
    <2> QED
      BY <2>4, <2>6
  <1>5. /\ lo \in Nat /\ hi \in Nat /\ lo <= min /\ maxp1 <= hi
        /\ \A v \in ts : lo <= v.min /\ v.maxp1 <= hi
        /\ lo = min \/ \E v \in ts : lo = v.min
        /\ hi = maxp1 \/ \E v \in ts : hi = v.maxp1
    BY <1>1, <1>2, <1>3, <1>4
  <1>6. new = Interval(lo, hi, sc)
    BY Zenon DEF coalesce_intervals_touching_range
  <1>7. new.min = lo /\ new.maxp1 = hi /\ new.sc = sc
    BY <1>6 DEF Interval
  <1> HIDE DEF A, B, lo, hi, new, ts
  <1>8. sc \in Seq(Nat) /\ Fits(sc, lo, hi)
    <2>1. lo <= hi
      BY <1>5
    <2> QED
      BY <1>1, <1>5, <2>1, ChainFits
  <1>9. sc # <<>>
    <2>1. PICK v \in ts : TRUE
      BY <1>1
    <2>2. Total(ts) = Len(v.sc) + Total(ts \ {v}) /\ Total(ts \ {v}) \in Nat /\ Len(v.sc) \in Nat \ {0}
      BY <1>1, TotalWithout, IntervalIs
    <2>3. Len(<<>>) = 0
      OBVIOUS
    <2>4. Total(ts) # 0
      BY <2>2
    <2> QED
      BY <2>3, <2>4 DEF Total
  <1>10. Explains(sc, lo, hi, un)
    <2> SUFFICES ASSUME NEW n \in lo..(hi - 1) PROVE n \in un \/ InChain(sc, n)
      BY DEF Explains
    <2>1. n \in Nat
      BY <1>5
    <2>2. ASSUME NEW v \in ts, v.min <= n, n < v.maxp1 PROVE n \in un \/ InChain(sc, n)
      <3>1. n \in v.min..(v.maxp1 - 1)
        BY <1>1, <1>2, <2>1, <2>2
      <3>2. n \in un \/ InChain(v.sc, n)
        BY <1>1, <3>1 DEF ROK, Explains
      <3> QED
        BY <1>1, <3>2, ChainHolds
    <2>3. CASE n < min
      <3>1. lo # min
        BY <1>5, <2>1, <2>3
      <3>2. PICK v \in ts : lo = v.min
        BY <1>5, <3>1
      <3>3. v.min <= n /\ n < v.maxp1
        BY <1>1, <1>2, <1>5, <2>1, <2>3, <3>2
      <3> QED
        BY <2>2, <3>3
    <2>4. CASE n >= maxp1
      <3>1. hi # maxp1
        BY <1>5, <2>1, <2>4
      <3>2. PICK v \in ts : hi = v.maxp1
        BY <1>5, <3>1
      <3>3. v.min <= n /\ n < v.maxp1
        BY <1>1, <1>2, <1>5, <2>1, <2>4, <3>2
      <3> QED
        BY <2>2, <3>3
    <2>5. CASE n \in min..(maxp1 - 1)
      BY <2>5
    <2> QED
      BY <2>1, <2>3, <2>4, <2>5
  <1>11. new \in Intervals
    BY <1>5, <1>6, <1>8 DEF Interval, Intervals
  <1>12. Sound(new, un)
    BY <1>7, <1>8, <1>9, <1>10, <1>11 DEF Sound
  <1>13. ASSUME NEW w \in r.ivs \ ts PROVE w.maxp1 < lo \/ hi < w.min
    <2>1. w.min \in Nat /\ w.maxp1 \in Nat /\ w.min < w.maxp1 /\ (w.maxp1 < min \/ maxp1 < w.min)
      BY <1>2
    <2>2. \A v \in ts : /\ w.maxp1 < v.min \/ v.maxp1 < w.min
                        /\ v.min \in Nat /\ v.maxp1 \in Nat /\ v.maxp1 >= min /\ v.min <= maxp1
      BY <1>1, <1>2 DEF Tree, Disjoint
    <2>3. CASE w.maxp1 < min
      <3>1. CASE lo = min
        BY <2>3, <3>1
      <3>2. CASE \E v \in ts : lo = v.min
        BY <2>1, <2>2, <2>3, <3>2
      <3> QED
        BY <1>5, <3>1, <3>2
    <2>4. CASE maxp1 < w.min
      <3>1. CASE hi = maxp1
        BY <2>4, <3>1
      <3>2. CASE \E v \in ts : hi = v.maxp1
        BY <2>1, <2>2, <2>4, <3>2
      <3> QED
        BY <1>5, <3>1, <3>2
    <2> QED
      BY <2>1, <2>3, <2>4
  <1> HIDE DEF sc
  <1> QED
    BY <1>5, <1>7, <1>12, <1>13 DEF new, ts, sc

\* Nothing is touched, and the gap reaches the next number.
LEMMA GapPassed ==
    ASSUME NEW r \in Reorders, NEW un, ROK(r, un), NEW min \in Nat, NEW maxp1 \in Nat,
           min..(maxp1 - 1) \subseteq un, Touching(r.ivs, min, maxp1) = {},
           min <= r.next_seq, r.next_seq < maxp1
    PROVE  Good(Accept([r EXCEPT !.next_seq = maxp1]), r, un)
  <1> DEFINE q == WithNext(r, maxp1)
  <1>1. r.next_seq \in Nat
    BY DEF Reorders
  <1>2. /\ q \in Reorders /\ q.mode = r.mode /\ q.max_samples = r.max_samples
        /\ q.next_seq = maxp1 /\ q.n_samples = r.n_samples
        /\ q.ivs = r.ivs /\ q.max_sampleiv = r.max_sampleiv
    BY <1>1, ChangedField
  <1>3. \A v \in r.ivs : maxp1 < v.min
    <2> SUFFICES ASSUME NEW v \in r.ivs PROVE maxp1 < v.min
      OBVIOUS
    <2>1. v.min \in Nat /\ v.maxp1 \in Nat /\ v.min < v.maxp1 /\ r.next_seq < v.min
      BY IntervalIs DEF ROK
    <2>2. ~(v.maxp1 >= min /\ v.min <= maxp1)
      BY DEF Touching
    <2> QED
      BY <1>1, <2>1, <2>2
  <1> HIDE DEF q
  <1>4. ROK(q, un)
    BY <1>2, <1>3 DEF ROK
  <1>5. \A n \in r.next_seq..(q.next_seq - 1) : n \in un
    BY <1>1, <1>2
  <1>6. r.next_seq <= q.next_seq
    BY <1>1, <1>2
  <1>7. Good(Result(q, "ACCEPT", <<>>), r, un)
    BY <1>2, <1>4, <1>5, <1>6, NothingDelivered
  <1> QED
    BY <1>7, Zenon DEF Accept, q, WithNext

\* Nothing is touched, and the gap is stored.
LEMMA GapStored ==
    ASSUME NEW r \in Reorders, NEW un \in SUBSET (Nat \ {0}), ROK(r, un), GapsBegin(r, un),
           NEW min \in Nat, NEW maxp1 \in Nat, min < maxp1,
           min..(maxp1 - 1) \subseteq un, Touching(r.ivs, min, maxp1) = {},
           r.next_seq < min, r.mode = "NORMAL",
           r.n_samples = r.max_samples =>
             r.max_sampleiv # NoInterval /\ ~(min > r.max_sampleiv.maxp1)
    PROVE  LET p == CountOrDeleteLast([r EXCEPT !.ivs = @ \cup {Interval(min, maxp1, <<0>>)}])
           IN Good(Accept([p EXCEPT !.max_sampleiv = FindMax(p.ivs)]), r, un)
  <1> DEFINE gap == Interval(min, maxp1, <<0>>)
             q == WithIntervals(r, r.ivs \cup {gap})
             p == CountOrDeleteLast(q)
             o == WithLast(p, FindMax(p.ivs))
  <1>1. /\ TreeOK(r.ivs, r.next_seq, un) /\ Tree(r.ivs) /\ r.max_sampleiv = FindMax(r.ivs)
        /\ r.n_samples = Total(r.ivs) /\ r.n_samples <= r.max_samples
    BY DEF ROK, TreeOK, Total
  <1>2. /\ gap.min = min /\ gap.maxp1 = maxp1 /\ gap.sc = <<0>>
        /\ <<0>> \in Seq(Nat) /\ Len(<<0>>) = 1 /\ <<0>> # <<>> /\ Fits(<<0>>, min, maxp1)
    <2>1. gap.min = min /\ gap.maxp1 = maxp1 /\ gap.sc = <<0>>
      BY DEF Interval
    <2>2. 0 \in Nat /\ (0 = 0 \/ (0 = min /\ maxp1 = min + 1))
      OBVIOUS
    <2>3. /\ <<0>> \in Seq(Nat) /\ Len(<<0>>) = 1 /\ <<0>> # <<>> /\ Fits(<<0>>, min, maxp1)
          /\ InChain(<<0>>, 0)
      BY <2>2, OneElement, Zenon
    <2> HIDE DEF gap
    <2> QED
      BY <2>1, <2>3, Zenon
  <1>3. gap \in Intervals
    BY <1>2 DEF Interval, Intervals
  <1>4. Explains(<<0>>, min, maxp1, un)
    BY DEF Explains
  <1>5. ASSUME NEW w \in r.ivs
        PROVE  /\ w.maxp1 < min \/ maxp1 < w.min
               /\ w.min \in Nat /\ w.maxp1 \in Nat /\ w.min < w.maxp1
    <2>1. w.min \in Nat /\ w.maxp1 \in Nat /\ w.min < w.maxp1
      BY <1>1, IntervalIs
    <2>2. ~(w.maxp1 >= min /\ w.min <= maxp1)
      BY DEF Touching
    <2> QED
      BY <2>1, <2>2
  <1> HIDE DEF gap
  <1>6. TreeOK(r.ivs \cup {gap}, r.next_seq, un) /\ Total(r.ivs \cup {gap}) = r.n_samples + 1
    <2>1. Sound(gap, un) /\ r.next_seq < gap.min /\ Len(gap.sc) = 1
      BY <1>2, <1>3, <1>4 DEF Sound
    <2>2. Beside(r.ivs, gap)
      BY <1>2, <1>5 DEF Beside
    <2>3. TreeOK(r.ivs \cup {gap}, r.next_seq, un) /\ Total(r.ivs \cup {gap}) = Total(r.ivs) + Len(gap.sc)
      <3> DEFINE ivs == r.ivs  next == r.next_seq
      <3>1. TreeOK(ivs, next, un) /\ next < gap.min /\ Beside(ivs, gap)
        BY <1>1, <2>1, <2>2
      <3> HIDE DEF ivs, next
      <3>2. TreeOK(ivs \cup {gap}, next, un) /\ Total(ivs \cup {gap}) = Total(ivs) + Len(gap.sc)
        BY <2>1, <3>1, PutSound, Zenon
      <3> QED
        BY <3>2 DEF ivs, next
    <2> QED
      BY <1>1, <2>1, <2>3
  <1>7. /\ q \in Reorders /\ q.mode = r.mode /\ q.max_samples = r.max_samples
        /\ q.next_seq = r.next_seq /\ q.n_samples = r.n_samples
        /\ q.ivs = r.ivs \cup {gap} /\ q.max_sampleiv = r.max_sampleiv
    <2>1. r.ivs \cup {gap} \in SUBSET Intervals
      BY <1>6 DEF TreeOK, Tree
    <2> QED
      BY <2>1, ChangedField
  <1>8. r.n_samples = r.max_samples => r.max_sampleiv = FindMax(r.ivs \cup {gap})
    <2> SUFFICES ASSUME r.n_samples = r.max_samples PROVE r.max_sampleiv = FindMax(r.ivs \cup {gap})
      OBVIOUS
    <2> DEFINE m == r.max_sampleiv
    <2>1. r.ivs # {}
      BY <1>1 DEF FindMax
    <2>2. m \in r.ivs /\ \A w \in r.ivs : w = m \/ w.maxp1 < m.min
      BY <1>1, <2>1, LastProperties
    <2>3. ~(min > m.maxp1)
      OBVIOUS
    <2> HIDE DEF m
    <2>4. gap.min <= m.min
      BY <1>2, <1>5, <2>2, <2>3
    <2>5. \A w \in r.ivs \cup {gap} : w.min <= m.min
      BY <1>5, <2>2, <2>4
    <2>6. FindMax(r.ivs \cup {gap}) = m
      BY <1>6, <2>2, <2>5, LastIs DEF TreeOK
    <2> QED
      BY <2>6 DEF m
  <1> HIDE DEF q
  <1>9. /\ p \in Reorders /\ p.mode = q.mode /\ p.max_samples = q.max_samples
        /\ p.next_seq = q.next_seq
        /\ TreeOK(p.ivs, q.next_seq, un) /\ p.n_samples = Total(p.ivs)
        /\ p.n_samples <= p.max_samples
    <2>1. /\ q.mode = "NORMAL" /\ q.ivs # {} /\ Total(q.ivs) = q.n_samples + 1
          /\ q.n_samples <= q.max_samples
          /\ (q.n_samples = q.max_samples => q.max_sampleiv = FindMax(q.ivs))
          /\ TreeOK(q.ivs, q.next_seq, un)
      BY <1>1, <1>6, <1>7, <1>8
    <2>2. GapsBegin(q, un)
      BY <1>7 DEF GapsBegin
    <2> QED
      BY <1>7, <2>1, <2>2, CountedOrDeleted
  <1> HIDE DEF p
  <1>10. /\ o \in Reorders /\ o.mode = p.mode /\ o.max_samples = p.max_samples
         /\ o.next_seq = p.next_seq /\ o.n_samples = p.n_samples
         /\ o.ivs = p.ivs /\ o.max_sampleiv = FindMax(p.ivs)
    <2>1. FindMax(p.ivs) \in Intervals
      BY <1>9, TypeOfLast DEF TreeOK
    <2> QED
      BY <1>9, <2>1, ChangedField
  <1> HIDE DEF o
  <1>11. ROK(o, un)
    BY <1>7, <1>9, <1>10 DEF ROK, TreeOK, Total
  <1>12. Good(Accept(o), r, un)
    BY <1>7, <1>9, <1>10, <1>11, Accepted
  <1>13. o = [p EXCEPT !.max_sampleiv = FindMax(p.ivs)]
    BY Zenon DEF o, WithLast
  <1>14. p = CountOrDeleteLast([r EXCEPT !.ivs = @ \cup {gap}])
    BY Zenon DEF p, q, WithIntervals
  <1> QED
    BY <1>12, <1>13, <1>14, Zenon DEF gap

\* The interval of what is touched reaches the next number: it is delivered.
LEMMA GapDelivered ==
    ASSUME NEW r \in Reorders, NEW un, ROK(r, un), NEW min \in Nat, NEW maxp1 \in Nat, min < maxp1,
           min..(maxp1 - 1) \subseteq un, r.next_seq < maxp1,
           NEW ts, ts = Touching(r.ivs, min, maxp1), ts # {},
           NEW new, new = coalesce_intervals_touching_range(r.ivs, min, maxp1),
           new.min <= r.next_seq
    PROVE  LET p == [r EXCEPT !.ivs = r.ivs \ ts, !.next_seq = new.maxp1,
                              !.n_samples = @ - Len(new.sc)]
           IN Good(Result([p EXCEPT !.max_sampleiv = FindMax(p.ivs)], "DELIVER", new.sc), r, un)
  <1> DEFINE rest == r.ivs \ ts
             last == FindMax(rest)
             p1 == WithIntervals(r, rest)
             p2 == WithNext(p1, new.maxp1)
             p3 == WithCount(p2, Total(rest))
             q == WithLast(p3, last)
  <1>1. /\ Tree(r.ivs) /\ ts \subseteq r.ivs /\ Tree(ts) /\ Tree(rest)
        /\ r.next_seq \in Nat \ {0} /\ r.max_samples \in Nat
    <2>1. ts \subseteq r.ivs /\ Tree(r.ivs)
      BY DEF Touching, ROK
    <2> QED
      BY <2>1, TreeSubset DEF Reorders
  <1>2. /\ Sound(new, un) /\ new.sc = ChainOf(ts) /\ maxp1 <= new.maxp1
        /\ \A v \in ts : v.maxp1 <= new.maxp1
        /\ \A w \in rest : w.maxp1 < new.min \/ new.maxp1 < w.min
    BY CoalescedIs
  <1>3. new.min \in Nat /\ new.maxp1 \in Nat \ {0} /\ r.next_seq < new.maxp1
    <2>1. new.min \in Nat /\ new.maxp1 \in Nat
      BY <1>2, SoundIs
    <2> QED
      BY <1>1, <1>2, <2>1
  <1>4. new.sc \in Seq(Nat) /\ Fits(new.sc, r.next_seq, new.maxp1)
    <2>1. \A v \in ts : r.next_seq <= v.min /\ v.maxp1 <= new.maxp1
      <3>1. \A v \in ts : r.next_seq < v.min /\ v.min \in Nat
        BY <1>1, IntervalIs DEF ROK
      <3> QED
        BY <1>1, <1>2, <3>1
    <2>2. r.next_seq <= new.maxp1 /\ r.next_seq \in Nat /\ new.maxp1 \in Nat
      BY <1>1, <1>3
    <2> QED
      BY <1>1, <1>2, <2>1, <2>2, ChainFits
  <1>5. Total(r.ivs) = Total(ts) + Total(rest) /\ Total(ts) \in Nat /\ Total(rest) \in Nat
    BY <1>1, TotalParts
  <1>6. r.n_samples - Len(new.sc) = Total(rest) /\ Total(rest) <= r.max_samples
    <2>1. r.n_samples = Total(r.ivs) /\ Len(new.sc) = Total(ts) /\ r.n_samples <= r.max_samples
      BY <1>2 DEF ROK, Total
    <2> HIDE DEF rest
    <2> QED
      BY <1>1, <1>5, <2>1
  <1>7. \A w \in rest : new.maxp1 < w.min
    <2> SUFFICES ASSUME NEW w \in rest PROVE new.maxp1 < w.min
      OBVIOUS
    <2>1. w.min \in Nat /\ w.maxp1 \in Nat /\ w.min < w.maxp1 /\ r.next_seq < w.min
      BY <1>1, IntervalIs DEF ROK
    <2> QED
      BY <1>1, <1>2, <1>3, <2>1
  <1>8. rest \in SUBSET Intervals /\ last \in Intervals
    BY <1>1, TypeOfLast DEF Tree
  <1>9. /\ q \in Reorders /\ q.mode = r.mode /\ q.max_samples = r.max_samples
        /\ q.next_seq = new.maxp1 /\ q.n_samples = Total(rest)
        /\ q.ivs = rest /\ q.max_sampleiv = last
    <2> HIDE DEF rest, last
    <2>1. /\ p1 \in Reorders /\ p1.mode = r.mode /\ p1.max_samples = r.max_samples
          /\ p1.ivs = rest
      BY <1>8, ChangedField
    <2> HIDE DEF p1
    <2>2. /\ p2 \in Reorders /\ p2.mode = r.mode /\ p2.max_samples = r.max_samples
          /\ p2.ivs = rest /\ p2.next_seq = new.maxp1
      BY <1>3, <2>1, ChangedField
    <2> HIDE DEF p2
    <2>3. /\ p3 \in Reorders /\ p3.mode = r.mode /\ p3.max_samples = r.max_samples
          /\ p3.ivs = rest /\ p3.next_seq = new.maxp1 /\ p3.n_samples = Total(rest)
      BY <1>5, <2>2, ChangedCount
    <2> HIDE DEF p3
    <2> QED
      BY <1>8, <2>3, ChangedField
  <1>10. ROK(q, un)
    <2> HIDE DEF q, last, rest
    <2>1. \A v \in rest : Explains(v.sc, v.min, v.maxp1, un)
      BY DEF ROK, rest
    <2>2. r.mode # "NORMAL" => rest = {}
      BY DEF ROK, rest
    <2> QED
      BY <1>1, <1>6, <1>7, <1>9, <2>1, <2>2 DEF ROK, Total, last
  <1>11. \A i \in 1..Len(new.sc) : new.sc[i] # 0 => r.next_seq <= new.sc[i]
    <2> SUFFICES ASSUME NEW i \in 1..Len(new.sc), new.sc[i] # 0 PROVE r.next_seq <= new.sc[i]
      OBVIOUS
    <2>1. r.next_seq + i - 1 <= new.sc[i]
      BY <1>4 DEF Fits
    <2>2. i \in Nat \ {0} /\ new.sc[i] \in Nat
      BY <1>4, LenProperties, ElementOfSeq
    <2>3. \A a, x \in Nat, k \in Nat \ {0} : a + k - 1 <= x => a <= x
      OBVIOUS
    <2> QED
      BY <1>1, <2>1, <2>2, <2>3
  <1>12. Explains(new.sc, r.next_seq, new.maxp1, un)
    <2> SUFFICES ASSUME NEW n \in r.next_seq..(new.maxp1 - 1) PROVE n \in un \/ InChain(new.sc, n)
      BY DEF Explains
    <2>1. n \in new.min..(new.maxp1 - 1)
      BY <1>1, <1>3
    <2> QED
      BY <1>2, <2>1 DEF Sound, Explains
  <1>13. Good(Result(q, "DELIVER", new.sc), r, un)
    <2>1. r.next_seq <= q.next_seq /\ Fits(new.sc, r.next_seq, q.next_seq) /\ r.next_seq \in Nat
          /\ Explains(new.sc, r.next_seq, q.next_seq, un)
      BY <1>1, <1>3, <1>4, <1>9, <1>12
    <2> HIDE DEF q, rest, last
    <2> QED
      BY <1>4, <1>9, <1>10, <1>11, <2>1, Delivered
  <1>14. LET p == [r EXCEPT !.ivs = r.ivs \ ts, !.next_seq = new.maxp1, !.n_samples = @ - Len(new.sc)]
         IN q = [p EXCEPT !.max_sampleiv = FindMax(p.ivs)]
    <2>1. p3.ivs = rest
      BY DEF Reorders, WithIntervals, WithNext, WithCount
    <2>2. p3 = WithCount(p2, r.n_samples - Len(new.sc))
      BY <1>6, Zenon
    <2>3. q = WithLast(p3, FindMax(p3.ivs))
      BY <2>1
    <2> QED
      BY <2>2, <2>3, Zenon DEF WithIntervals, WithNext, WithCount, WithLast
  <1> QED
    BY <1>13, <1>14, Zenon

\* It does not: it takes the place of what is touched.
LEMMA GapMerged ==
    ASSUME NEW r \in Reorders, NEW un, ROK(r, un), NEW min \in Nat, NEW maxp1 \in Nat, min < maxp1,
           min..(maxp1 - 1) \subseteq un, r.mode = "NORMAL",
           NEW ts, ts = Touching(r.ivs, min, maxp1), ts # {},
           NEW new, new = coalesce_intervals_touching_range(r.ivs, min, maxp1),
           r.next_seq < new.min, NEW res
    PROVE  LET p == [r EXCEPT !.ivs = (r.ivs \ ts) \cup {new}]
           IN Good(Result([p EXCEPT !.max_sampleiv = FindMax(p.ivs)], res, <<>>), r, un)
  <1> DEFINE rest == r.ivs \ ts
             ivs == rest \cup {new}
             p == WithIntervals(r, ivs)
             q == WithLast(p, FindMax(ivs))
  <1>1. TreeOK(r.ivs, r.next_seq, un) /\ Tree(r.ivs) /\ ts \subseteq r.ivs /\ rest \subseteq r.ivs
    BY DEF Touching, ROK, TreeOK
  <1>2. /\ Sound(new, un) /\ new.sc = ChainOf(ts)
        /\ \A w \in rest : w.maxp1 < new.min \/ new.maxp1 < w.min
    BY CoalescedIs
  <1>3. Total(r.ivs) = Total(ts) + Total(rest) /\ Total(ts) \in Nat /\ Total(rest) \in Nat
    BY <1>1, TotalParts
  <1>4. TreeOK(ivs, r.next_seq, un) /\ Total(ivs) = Total(rest) + Len(new.sc)
    <2>1. Beside(rest, new) /\ r.next_seq < new.min
      BY <1>2 DEF Beside
    <2>2. TreeOK(rest, r.next_seq, un)
      BY <1>1, TreeSubset DEF TreeOK
    <2> HIDE DEF rest
    <2> QED
      BY <1>2, <2>1, <2>2, PutSound, Zenon
  <1>5. Total(ivs) = r.n_samples /\ r.n_samples <= r.max_samples
    <2>1. r.n_samples = Total(r.ivs) /\ Len(new.sc) = Total(ts) /\ r.n_samples <= r.max_samples
      BY <1>2 DEF ROK, Total
    <2> HIDE DEF rest
    <2> QED
      BY <1>3, <1>4, <2>1
  <1>6. ivs \in SUBSET Intervals /\ FindMax(ivs) \in Intervals
    <2>1. ivs \in SUBSET Intervals
      BY <1>4 DEF TreeOK, Tree
    <2> HIDE DEF ivs
    <2> QED
      BY <1>4, <2>1, TypeOfLast DEF TreeOK
  <1> HIDE DEF ivs
  <1>7. /\ p \in Reorders /\ p.mode = r.mode /\ p.max_samples = r.max_samples
        /\ p.next_seq = r.next_seq /\ p.n_samples = r.n_samples /\ p.ivs = ivs
    BY <1>6, ChangedField
  <1> HIDE DEF p
  <1>8. /\ q \in Reorders /\ q.mode = r.mode /\ q.max_samples = r.max_samples
        /\ q.next_seq = r.next_seq /\ q.n_samples = r.n_samples
        /\ q.ivs = ivs /\ q.max_sampleiv = FindMax(ivs)
    BY <1>6, <1>7, ChangedField
  <1> HIDE DEF q
  <1>9. ROK(q, un)
    BY <1>4, <1>5, <1>8 DEF ROK, TreeOK, Total
  <1>10. r.next_seq <= q.next_seq /\ \A n \in r.next_seq..(q.next_seq - 1) : FALSE
    BY <1>8 DEF Reorders
  <1>11. Good(Result(q, res, <<>>), r, un)
    BY <1>8, <1>9, <1>10, NothingDelivered
  <1>12. p = [r EXCEPT !.ivs = (r.ivs \ ts) \cup {new}]
    BY Zenon DEF p, ivs, WithIntervals
  <1>13. q = [p EXCEPT !.max_sampleiv = FindMax(p.ivs)]
    BY <1>7, Zenon DEF q, WithLast
  <1> QED
    BY <1>11, <1>12, <1>13, Zenon

LEMMA GapGood ==
    ASSUME NEW r \in Reorders, NEW un \in SUBSET (Nat \ {0}), ROK(r, un), GapsBegin(r, un),
           NEW min \in Nat, NEW maxp1 \in Nat, min < maxp1 \/ maxp1 <= r.next_seq,
           min..(maxp1 - 1) \subseteq un
    PROVE  Good(nn_reorder_gap(r, min, maxp1), r, un)
  <1> DEFINE ts == Touching(r.ivs, min, maxp1)
             new == coalesce_intervals_touching_range(r.ivs, min, maxp1)
             rest == r.ivs \ ts
             gap == Interval(min, maxp1, <<0>>)
             WithMax(q) == [q EXCEPT !.max_sampleiv = FindMax(q.ivs)]
             o == nn_reorder_gap(r, min, maxp1)
             passed == Accept([r EXCEPT !.next_seq = maxp1])
             stored == Accept(WithMax(CountOrDeleteLast([r EXCEPT !.ivs = @ \cup {gap}])))
             given == Result(WithMax([r EXCEPT !.ivs = rest, !.next_seq = new.maxp1,
                                               !.n_samples = @ - Len(new.sc)]), "DELIVER", new.sc)
             merged(res) == Result(WithMax([r EXCEPT !.ivs = rest \cup {new}]), res, <<>>)
             full == /\ r.n_samples = r.max_samples
                     /\ r.max_sampleiv = NoInterval \/ min > r.max_sampleiv.maxp1
  <1>1. r.next_seq \in Nat
    BY DEF Reorders
  <1>2. \A res : Good(Refuse(r, res), r, un)
    BY Refused
  <1>3. CASE maxp1 <= r.next_seq
    <2>1. o = Refuse(r, "TOO_OLD")
      BY <1>1, <1>3 DEF nn_reorder_gap
    <2> HIDE DEF o
    <2>2. Good(o, r, un)
      BY <1>2, <2>1
    <2> QED
      BY <2>2 DEF o
  <1>4. CASE ~(maxp1 <= r.next_seq) /\ r.mode # "NORMAL"
    <2>1. o = Refuse(r, "REJECT")
      BY <1>1, <1>4 DEF nn_reorder_gap
    <2> HIDE DEF o
    <2>2. Good(o, r, un)
      BY <1>2, <2>1
    <2> QED
      BY <2>2 DEF o
  <1>5. CASE ~(maxp1 <= r.next_seq) /\ r.mode = "NORMAL"
    <2>1. r.next_seq < maxp1 /\ min < maxp1 /\ r.mode = "NORMAL"
      BY <1>1, <1>5
    <2>2. o = IF ts = {} THEN
                 IF min <= r.next_seq THEN passed
                 ELSE IF full THEN Refuse(r, "REJECT") ELSE stored
              ELSE IF new.min <= r.next_seq THEN given
                   ELSE merged(IF ts = {new} THEN "REJECT" ELSE "ACCEPT")
      <3>1. ~(maxp1 <= r.next_seq) /\ ~(r.mode # "NORMAL")
        BY <1>5
      <3> HIDE DEF full, gap
      <3> QED
        BY <3>1, Zenon DEF nn_reorder_gap, full, gap
    <2>3. ASSUME ts = {}, min <= r.next_seq PROVE Good(passed, r, un)
      BY <2>1, <2>3, GapPassed
    <2>4. ASSUME ts = {}, ~(min <= r.next_seq), ~full PROVE Good(stored, r, un)
      <3>1. r.next_seq < min
        BY <1>1, <2>4
      <3>2. r.n_samples = r.max_samples =>
              r.max_sampleiv # NoInterval /\ ~(min > r.max_sampleiv.maxp1)
        BY <2>4
      <3> QED
        BY <2>1, <2>4, <3>1, <3>2, GapStored
    <2>5. ASSUME ts # {}, new.min <= r.next_seq PROVE Good(given, r, un)
      <3>1. ts = Touching(r.ivs, min, maxp1) /\ new = coalesce_intervals_touching_range(r.ivs, min, maxp1)
        OBVIOUS
      <3> HIDE DEF ts, new
      <3> QED
        BY <2>1, <2>5, <3>1, GapDelivered
    <2>6. ASSUME ts # {}, ~(new.min <= r.next_seq), NEW res PROVE Good(merged(res), r, un)
      <3>1. ts = Touching(r.ivs, min, maxp1) /\ new = coalesce_intervals_touching_range(r.ivs, min, maxp1)
        OBVIOUS
      <3>2. r.next_seq < new.min
        <4>1. Sound(new, un)
          BY <2>1, <2>6, CoalescedIs
        <4>2. new.min \in Nat
          BY <4>1, SoundIs
        <4> QED
          BY <1>1, <2>6, <4>2
      <3> HIDE DEF ts, new
      <3> QED
        BY <2>1, <2>6, <3>1, <3>2, GapMerged
    <2> HIDE DEF o, ts, new, passed, stored, given, merged, full
    <2>7. Good(o, r, un)
      BY <1>2, <2>2, <2>3, <2>4, <2>5, <2>6
    <2> QED
      BY <2>7 DEF o
  <1> QED
    BY <1>3, <1>4, <1>5

----------------------------------------------------------------------------
(* The numbers that have come: what a sample or a gap adds to them.          *)

\* The numbers some intervals cover, and those an administration has.
Known(S) == {n \in Nat : \E v \in S : v.min <= n /\ n < v.maxp1}
Has(r) == 1..(r.next_seq - 1) \cup Known(r.ivs)

\* Every chain is made of elements of a set.
Chains(S, Q) == \A v \in S : v.sc \in Seq(Q)

LEMMA ChainsConcat ==
    ASSUME NEW Q, NEW S, Tree(S), Chains(S, Q)
    PROVE  ChainOf(S) \in Seq(Q)
  <1> DEFINE P == {T \in SUBSET S : ChainOf(T) \in Seq(Q)}
  <1>1. ASSUME NEW T \in SUBSET S, \A v \in T : T \ {v} \in P
        PROVE  T \in P
    <2>1. Tree(T) /\ Apart(T) /\ IsFiniteSet(T)
      BY TreeSubset, TreeApart DEF Tree
    <2>2. CASE T = {}
      <3>1. ChainOf(T) = <<>> /\ <<>> \in Seq(Q)
        BY <2>1, <2>2, ChainOfIs
      <3> QED
        BY <3>1
    <2>3. CASE T # {}
      <3>1. FindMin(T) \in T
        BY <2>1, <2>3, FindMinIs DEF Apart
      <3>2. ChainOf(T) = FindMin(T).sc \o ChainOf(T \ {FindMin(T)})
        BY <2>1, <2>3, ChainOfIs
      <3>3. FindMin(T).sc \in Seq(Q) /\ ChainOf(T \ {FindMin(T)}) \in Seq(Q)
        BY <1>1, <3>1 DEF Chains
      <3>4. ChainOf(T) \in Seq(Q)
        BY <3>2, <3>3, ConcatProperties
      <3> QED
        BY <3>4
    <2> QED
      BY <2>2, <2>3
  <1>2. SUBSET S \subseteq P
    <2>1. IsFiniteSet(S)
      BY DEF Tree
    <2> HIDE DEF P
    <2> QED
      BY <1>1, <2>1, SubsetInduction
  <1> QED
    BY <1>2

LEMMA CountedChains ==
    ASSUME NEW r \in Reorders, NEW Q, Chains(r.ivs, Q), r.max_sampleiv \in r.ivs,
           r.max_sampleiv.sc # <<>>
    PROVE  LET q == CountOrDeleteLast(r)
           IN /\ Chains(q.ivs, Q) /\ q.next_seq = r.next_seq
              /\ r.n_samples < r.max_samples => q.ivs = r.ivs
  <1> DEFINE last == r.max_sampleiv
             cut == Interval(last.min, last.maxp1 - 1, SubSeq(last.sc, 1, Len(last.sc) - 1))
             rest == r.ivs \ {last}
  <1>1. last.sc \in Seq(Q)
    BY DEF Chains
  <1>2. Len(last.sc) \in Nat \ {0}
    BY <1>1, EmptySeq
  <1>3. SubSeq(last.sc, 1, Len(last.sc) - 1) \in Seq(Q)
    BY <1>1, <1>2, SubSeqProperties
  <1>4. Chains(rest, Q) /\ Chains(rest \cup {cut}, Q)
    BY <1>3 DEF Chains, Interval
  <1> HIDE DEF cut, rest, last
  <1>5. CASE r.n_samples < r.max_samples
    BY <1>5 DEF CountOrDeleteLast, Reorders
  <1>6. CASE ~(r.n_samples < r.max_samples)
    <2>1. CountOrDeleteLast(r) = delete_last_sample(r)
      BY <1>6 DEF CountOrDeleteLast
    <2>2. delete_last_sample(r).next_seq = r.next_seq /\ delete_last_sample(r).ivs \in {rest, rest \cup {cut}}
      BY DEF delete_last_sample, Reorders, rest, cut, last
    <2> QED
      BY <1>4, <1>6, <2>1, <2>2
  <1> QED
    BY <1>5, <1>6

\* An element of a set of intervals is one of them, in Nat and in order.
LEMMA SeqJoin ==
    ASSUME NEW Q, NEW a \in Seq(Q), NEW b \in Seq(Q), a # <<>> \/ b # <<>>
    PROVE  a \o b \in Seq(Q) /\ a \o b # <<>>
  <1>1. a \o b \in Seq(Q) /\ Len(a \o b) = Len(a) + Len(b) /\ Len(a) \in Nat /\ Len(b) \in Nat
    BY ConcatProperties, LenProperties
  <1>2. Len(a) # 0 \/ Len(b) # 0
    BY EmptySeq
  <1>3. Len(a \o b) # 0
    BY <1>1, <1>2
  <1>4. Len(<<>>) = 0
    OBVIOUS
  <1> QED
    BY <1>1, <1>3, <1>4

LEMMA DeliverHas ==
    ASSUME NEW r \in Reorders, NEW un, ROK(r, un), r.mode = "NORMAL", NEW Q, Chains(r.ivs, Q),
           NEW seq \in Q, seq = r.next_seq
    PROVE  LET o == DeliverSample(r, Interval(seq, seq + 1, <<seq>>))
           IN /\ Has(o.reorder) = Has(r) \cup {seq} /\ Chains(o.reorder.ivs, Q) /\ o.sc \in Seq(Q)
              /\ o.reorder.next_seq \in Nat
  <1> DEFINE s == Interval(seq, seq + 1, <<seq>>)
             o == DeliverSample(r, s)
             first == FindMin(r.ivs)
             joins == r.ivs # {} /\ seq + 1 >= first.min
             got == IF joins THEN append_rsample_interval(s, first) ELSE s
             ivs == IF joins THEN r.ivs \ {first} ELSE r.ivs
  <1>1. Tree(r.ivs) /\ r.next_seq \in Nat \ {0} /\ \A v \in r.ivs : r.next_seq < v.min
    BY DEF ROK, Reorders
  <1>2. r.ivs # {} => first \in r.ivs /\ \A w \in r.ivs : first.min <= w.min
    BY <1>1, FindMinIs DEF Tree
  <1>3. \A v \in r.ivs : /\ v.min \in Nat /\ v.maxp1 \in Nat /\ v.min < v.maxp1 /\ v.sc \in Seq(Q)
    BY <1>1, IntervalIs DEF Chains
  <1>4. s.min = seq /\ s.maxp1 = seq + 1 /\ s.sc = <<seq>> /\ <<seq>> \in Seq(Q)
    BY DEF Interval
  <1> HIDE DEF s
  <1>5. o.reorder.ivs = ivs /\ o.reorder.next_seq = got.maxp1 /\ o.sc = got.sc
    BY <1>4 DEF DeliverSample, Result, Reorders
  <1>6. CASE joins
    <2>1. first \in r.ivs /\ first.min = seq + 1
      BY <1>1, <1>2, <1>3, <1>6
    <2>2. got.maxp1 = first.maxp1 /\ got.sc = <<seq>> \o first.sc
      BY <1>4, <1>6 DEF append_rsample_interval, Interval
    <2>3. got.sc \in Seq(Q)
      BY <1>3, <1>4, <2>1, <2>2, ConcatProperties
    <2>4. Chains(ivs, Q)
      BY DEF Chains
    <2>5. Has(o.reorder) = (1..(first.maxp1 - 1)) \cup Known(r.ivs \ {first})
      BY <1>5, <1>6, <2>2 DEF Has
    <2>6. (1..(first.maxp1 - 1)) \cup Known(r.ivs \ {first}) = (1..(r.next_seq - 1)) \cup Known(r.ivs) \cup {seq}
      BY <1>1, <1>3, <2>1 DEF Known
    <2> HIDE DEF o, ivs, first, joins, got
    <2>7. o.reorder.ivs = ivs /\ o.reorder.next_seq \in Nat
      BY <1>3, <1>5, <2>1, <2>2
    <2>8. Has(o.reorder) = Has(r) \cup {seq}
      BY <2>5, <2>6 DEF Has
    <2> QED
      BY <1>5, <2>3, <2>4, <2>7, <2>8 DEF o, s
  <1>7. CASE ~joins
    <2>1. got = s /\ ivs = r.ivs
      BY <1>7
    <2>2. 1..seq = (1..(seq - 1)) \cup {seq}
      BY <1>1
    <2>3. Has(o.reorder) = (1..seq) \cup Known(r.ivs)
      BY <1>1, <1>4, <1>5, <2>1 DEF Has
    <2>4. Has(o.reorder) = Has(r) \cup {seq}
      BY <2>2, <2>3 DEF Has
    <2> HIDE DEF o, ivs, first, joins, got
    <2>5. Chains(o.reorder.ivs, Q) /\ o.sc \in Seq(Q) /\ o.reorder.next_seq \in Nat
      <3>1. o.reorder.ivs = r.ivs /\ o.sc = s.sc /\ o.reorder.next_seq = s.maxp1
        BY <1>5, <2>1
      <3> HIDE DEF s
      <3> QED
        BY <1>1, <1>4, <3>1
    <2> QED
      BY <2>4, <2>5 DEF o, s
  <1> QED
    BY <1>6, <1>7 DEF s

LEMMA InsertedHas ==
    ASSUME NEW r \in Reorders, NEW un \in SUBSET (Nat \ {0}), ROK(r, un),
           NEW Q, Chains(r.ivs, Q), NEW seq \in Q, seq \in Nat \ {0}, r.ivs # {},
           r.next_seq < seq, seq < r.max_sampleiv.maxp1
    PROVE  LET o == InsertSample(r, Interval(seq, seq + 1, <<seq>>))
           IN /\ Chains(o.reorder.ivs, Q) /\ o.sc \in Seq(Q) /\ o.reorder.next_seq = r.next_seq
              /\ (seq \in Has(r) \/ r.n_samples < r.max_samples) => Has(o.reorder) = Has(r) \cup {seq}
  <1> DEFINE s == Interval(seq, seq + 1, <<seq>>)
             o == InsertSample(r, s)
             predeq == LookupPredEq(r.ivs, seq)
             immsucc == Lookup(r.ivs, seq + 1)
             grows == predeq # NoInterval /\ predeq.maxp1 = seq
             ends == immsucc # NoInterval
             head == IF grows THEN append_rsample_interval(predeq, s) ELSE s
             new == IF ends THEN append_rsample_interval(head, immsucc) ELSE head
             used == {v \in {predeq, immsucc} : v = immsucc \/ grows}
             rest == r.ivs \ used
             last == r.max_sampleiv
             newlast == IF last \in used THEN new ELSE last
             q == WithTree(r, rest \cup {new}, newlast)
  <1>1. Tree(r.ivs) /\ last = FindMax(r.ivs) /\ r.next_seq \in Nat \ {0} /\ last \in r.ivs
    BY LastProperties DEF ROK, Reorders
  <1>2. s.min = seq /\ s.maxp1 = seq + 1 /\ s.sc = <<seq>> /\ <<seq>> \in Seq(Q)
    BY DEF Interval
  <1>3. o = IF seq < predeq.maxp1 THEN Refuse(r, "REJECT") ELSE Accept(CountOrDeleteLast(q))
    <2>1. InsertSample(r, s) =
            IF s.min < LookupPredEq(r.ivs, s.min).maxp1 THEN Refuse(r, "REJECT")
            ELSE LET p == LookupPredEq(r.ivs, s.min)
                     i == Lookup(r.ivs, s.maxp1)
                     g == p # NoInterval /\ p.maxp1 = s.min
                     h == IF g THEN append_rsample_interval(p, s) ELSE s
                     w == IF i # NoInterval THEN append_rsample_interval(h, i) ELSE h
                     u == {v \in {p, i} : v = i \/ g}
                 IN Accept(CountOrDeleteLast(WithTree(r, (r.ivs \ u) \cup {w}, IF last \in u THEN w ELSE last)))
      BY Zenon DEF InsertSample, WithTree
    <2> HIDE DEF s
    <2> QED
      BY <1>2, <2>1, Zenon
  <1>4. \A v \in r.ivs : /\ v.min \in Nat /\ v.maxp1 \in Nat /\ v.min < v.maxp1 /\ v.sc \in Seq(Q)
                         /\ v.sc # <<>> /\ v \in Intervals
    BY <1>1, IntervalIs DEF Chains, Tree, Filled
  <1>5. NoInterval.min = 0 /\ NoInterval.maxp1 = 0
    BY DEF NoInterval, Interval
  <1>6. CASE seq < predeq.maxp1
    <2>1. predeq \in r.ivs /\ predeq.min <= seq
      BY <1>1, <1>5, <1>6, LookupIs
    <2>2. seq \in Known(r.ivs)
      BY <1>6, <2>1 DEF Known
    <2>3. o.reorder = r /\ o.sc = <<>> /\ <<>> \in Seq(Q)
      BY <1>3, <1>6 DEF Refuse, Result
    <2> HIDE DEF o
    <2>4. Has(r) \cup {seq} = Has(r)
      BY <2>2 DEF Has
    <2> QED
      BY <2>3, <2>4 DEF o
  <1>7. CASE ~(seq < predeq.maxp1)
    <2>1. predeq # NoInterval => predeq \in r.ivs /\ predeq.min <= seq /\ \A w \in r.ivs : w.min <= seq => w.min <= predeq.min
      BY <1>1, LookupIs
    <2>2. immsucc # NoInterval => immsucc \in r.ivs /\ immsucc.min = seq + 1
      BY <1>1, LookupIs
    <2>3. predeq = NoInterval => \A w \in r.ivs : ~(w.min <= seq)
      BY <1>1, LookupIs, NoIntervalNot
    <2>4. seq \notin Has(r)
      <3> SUFFICES ASSUME NEW w \in r.ivs, w.min <= seq, seq < w.maxp1 PROVE FALSE
        BY <1>1 DEF Has, Known
      <3>1. predeq \in r.ivs /\ w.min <= predeq.min /\ predeq.min <= seq
        BY <2>1, <2>3
      <3>2. w = predeq \/ w.maxp1 < predeq.min \/ predeq.maxp1 < w.min
        BY <1>1, <3>1 DEF Tree, Disjoint
      <3> HIDE DEF predeq
      <3> QED
        BY <1>4, <1>7, <3>1, <3>2
    <2>5. grows => predeq \in r.ivs /\ predeq.maxp1 = seq
      BY <2>1
    <2>6. ends => immsucc \in r.ivs /\ immsucc.min = seq + 1
      BY <2>2
    <2> DEFINE U == {v \in r.ivs : v \in used}
    <2>7. rest = r.ivs \ U /\ U \subseteq r.ivs
      OBVIOUS
    <2>8. \A v : v \in U <=> (v = predeq /\ grows) \/ (v = immsucc /\ ends)
      <3>1. NoInterval \notin r.ivs
        BY <1>1, NoIntervalNot
      <3> HIDE DEF predeq, immsucc
      <3> QED
        BY <2>5, <2>6, <3>1
    <2> HIDE DEF s, predeq, immsucc, U, grows, ends, used
    <2>9. /\ head.min = (IF grows THEN predeq.min ELSE seq) /\ head.maxp1 = seq + 1
          /\ head.sc = (IF grows THEN predeq.sc \o <<seq>> ELSE <<seq>>)
      BY <1>2, <2>5 DEF append_rsample_interval, Interval
    <2>10. head.sc \in Seq(Q) /\ head.sc # <<>> /\ head.min \in Nat
      <3>1. CASE grows
        <4>1. predeq.sc \in Seq(Q) /\ predeq.sc # <<>> /\ head.sc = predeq.sc \o <<seq>>
          BY <1>4, <2>5, <2>9, <3>1
        <4>2. head.sc \in Seq(Q) /\ head.sc # <<>>
          BY <1>2, <4>1, SeqJoin
        <4> QED
          BY <1>4, <2>5, <2>9, <3>1, <4>2
      <3>2. CASE ~grows
        <4>1. <<seq>> # <<>>
          OBVIOUS
        <4> QED
          BY <1>2, <2>9, <3>2, <4>1
      <3> QED
        BY <3>1, <3>2
    <2>11. head = Interval(head.min, head.maxp1, head.sc)
      BY DEF append_rsample_interval, Interval, s
    <2> HIDE DEF head
    <2>12. /\ new.min = head.min /\ new.maxp1 = (IF ends THEN immsucc.maxp1 ELSE seq + 1)
           /\ new.sc = (IF ends THEN head.sc \o immsucc.sc ELSE head.sc)
      BY <2>9 DEF append_rsample_interval, Interval
    <2>13. new.sc \in Seq(Q) /\ new.sc # <<>>
      <3>1. CASE ends
        <4>1. immsucc.sc \in Seq(Q) /\ new.sc = head.sc \o immsucc.sc
          BY <1>4, <2>6, <2>12, <3>1
        <4> QED
          BY <2>10, <4>1, SeqJoin
      <3>2. CASE ~ends
        BY <2>10, <2>12, <3>2
      <3> QED
        BY <3>1, <3>2
    <2>14. new.min \in Nat /\ new.maxp1 \in Nat /\ new = Interval(new.min, new.maxp1, new.sc)
      <3>1. new = Interval(new.min, new.maxp1, new.sc)
        BY <2>11 DEF append_rsample_interval, Interval
      <3> HIDE DEF new
      <3> QED
        BY <1>4, <2>6, <2>10, <2>12, <3>1
    <2>15. \A n \in Nat : new.min <= n /\ n < new.maxp1 <=> n = seq \/ \E w \in U : w.min <= n /\ n < w.maxp1
      <3>5. \A n \in Nat : (\E w \in U : w.min <= n /\ n < w.maxp1) <=>
               \/ grows /\ predeq.min <= n /\ n < predeq.maxp1
               \/ ends /\ immsucc.min <= n /\ n < immsucc.maxp1
        BY <2>8
      <3>1. CASE grows /\ ends
        <4>1. /\ new.min = predeq.min /\ new.maxp1 = immsucc.maxp1 /\ predeq.maxp1 = seq /\ immsucc.min = seq + 1
              /\ predeq.min \in Nat /\ predeq.min < predeq.maxp1 /\ immsucc.maxp1 \in Nat /\ immsucc.min < immsucc.maxp1
          BY <1>4, <2>5, <2>6, <2>9, <2>12, <3>1
        <4> HIDE DEF U, new
        <4> QED
          BY <3>1, <3>5, <4>1
      <3>2. CASE grows /\ ~ends
        BY <1>4, <2>5, <2>8, <2>9, <2>12, <3>2
      <3>3. CASE ~grows /\ ends
        BY <1>4, <2>6, <2>8, <2>9, <2>12, <3>3
      <3>4. CASE ~grows /\ ~ends
        BY <2>8, <2>9, <2>12, <3>4
      <3> QED
        BY <3>1, <3>2, <3>3, <3>4
    <2> HIDE DEF new, rest, last
    <2>16. Known(rest \cup {new}) = Known(r.ivs) \cup {seq}
      <3>1. Known((r.ivs \ U) \cup {new}) = Known(r.ivs) \cup {seq}
        BY <2>7, <2>14, <2>15 DEF Known
      <3> QED
        BY <2>7, <3>1
    <2>17. Chains(rest \cup {new}, Q)
      BY <2>7, <2>13 DEF Chains
    <2>18. q.ivs = rest \cup {new} /\ q.max_sampleiv = newlast /\ q.next_seq = r.next_seq
           /\ q.n_samples = r.n_samples /\ q.max_samples = r.max_samples
      BY DEF WithTree, Reorders
    <2>19. q \in Reorders /\ newlast \in rest \cup {new} /\ newlast.sc # <<>>
      <3>1. new \in Intervals
        <4>1. new.sc \in Seq(Nat)
          <5>1. <<seq>> \in Seq(Nat) /\ \A v \in r.ivs : v.sc \in Seq(Nat)
            BY <1>4 DEF Intervals
          <5>2. head.sc \in Seq(Nat)
            BY <2>5, <2>9, <5>1, ConcatProperties
          <5> QED
            BY <2>6, <2>12, <5>1, <5>2, ConcatProperties
        <4> QED
          BY <2>14, <4>1 DEF Intervals, Interval
      <3>2. newlast \in rest \cup {new} /\ newlast.sc # <<>>
        BY <1>1, <1>4, <2>7, <2>13 DEF U
      <3>3. rest \cup {new} \in SUBSET Intervals /\ newlast \in Intervals
        BY <1>4, <2>7, <3>1, <3>2
      <3> QED
        BY <3>2, <3>3, ChangedTree
    <2> DEFINE c == CountOrDeleteLast(q)
    <2> HIDE DEF q, newlast
    <2>20. /\ Chains(c.ivs, Q) /\ c.next_seq = r.next_seq
           /\ r.n_samples < r.max_samples => c.ivs = rest \cup {new}
      BY <2>17, <2>18, <2>19, CountedChains
    <2>21. o.reorder = c /\ o.sc = <<>> /\ <<>> \in Seq(Q)
      BY <1>3, <1>7 DEF Accept, Result
    <2> HIDE DEF c, o
    <2>22. r.n_samples < r.max_samples => Has(o.reorder) = Has(r) \cup {seq}
      BY <2>16, <2>20, <2>21 DEF Has
    <2> QED
      BY <2>4, <2>20, <2>21, <2>22 DEF o, s
  <1> QED
    BY <1>6, <1>7 DEF s

LEMMA AddedHas ==
    ASSUME NEW r \in Reorders, NEW Q, Chains(r.ivs, Q), NEW v, v.sc \in Seq(Q)
    PROVE  \A out : LET o == Accept(AddAtEnd(r, v, out))
                    IN /\ o.reorder.ivs = (r.ivs \ {out}) \cup {v} /\ o.reorder.next_seq = r.next_seq
                       /\ o.sc \in Seq(Q) /\ Chains(o.reorder.ivs, Q)
  <1> TAKE out
  <1> DEFINE o == Accept(AddAtEnd(r, v, out))
  <1>1. o.reorder.ivs = (r.ivs \ {out}) \cup {v} /\ o.reorder.next_seq = r.next_seq /\ o.sc = <<>>
    BY DEF Accept, AddAtEnd, Result, Reorders
  <1> HIDE DEF o
  <1>2. <<>> \in Seq(Q)
    OBVIOUS
  <1> QED
    BY <1>1, <1>2 DEF Chains, o

\* A sample that has come is among the numbers that are here, and nothing is
\* dropped for it as long as there is room.
LEMMA SampleHas ==
    ASSUME NEW r \in Reorders, NEW un \in SUBSET (Nat \ {0}), ROK(r, un), r.mode = "NORMAL",
           NEW Q, Chains(r.ivs, Q), NEW seq \in Q, seq \in Nat \ {0}
    PROVE  LET o == nn_reorder_rsample(r, seq, FALSE)
           IN /\ Chains(o.reorder.ivs, Q) /\ o.sc \in Seq(Q)
              /\ seq \in Has(r) \cup {r.next_seq} \/ r.n_samples < r.max_samples => Has(o.reorder) = Has(r) \cup {seq}
  <1> DEFINE s == Interval(seq, seq + 1, <<seq>>)
             o == nn_reorder_rsample(r, seq, FALSE)
             last == r.max_sampleiv
             end == last.maxp1
             c == append_rsample_interval(last, s)
  <1>1. /\ Tree(r.ivs) /\ last = FindMax(r.ivs) /\ r.next_seq \in Nat \ {0}
        /\ r.n_samples = Total(r.ivs) /\ r.n_samples <= r.max_samples
        /\ r.n_samples \in Nat /\ r.max_samples \in Nat
        /\ \A v \in r.ivs : r.next_seq < v.min
    BY DEF ROK, Total, Reorders
  <1>2. s.min = seq /\ s.maxp1 = seq + 1 /\ s.sc = <<seq>> /\ <<seq>> \in Seq(Q) /\ <<>> \in Seq(Q)
    BY DEF Interval
  <1>3. \A v \in r.ivs : /\ v.min \in Nat /\ v.maxp1 \in Nat /\ v.min < v.maxp1 /\ v.sc \in Seq(Q)
    BY <1>1, IntervalIs DEF Chains
  <1>4. r.ivs # {} => last \in r.ivs /\ \A w \in r.ivs : w.maxp1 <= last.maxp1
    <2>1. ASSUME r.ivs # {} PROVE last \in r.ivs /\ \A w \in r.ivs : w = last \/ w.maxp1 < last.min
      BY <1>1, <2>1, LastProperties
    <2> QED
      BY <1>3, <2>1
  <1> DEFINE Goal == /\ Chains(o.reorder.ivs, Q) /\ o.sc \in Seq(Q)
                     /\ seq \in Has(r) \cup {r.next_seq} \/ r.n_samples < r.max_samples => Has(o.reorder) = Has(r) \cup {seq}
  <1>0. o = nn_reorder_rsample(r, seq, FALSE) /\ s = Interval(seq, seq + 1, <<seq>>) /\ end = last.maxp1 /\ last = r.max_sampleiv
        /\ c = append_rsample_interval(last, s)
    OBVIOUS
  <1> SUFFICES Goal
    OBVIOUS
  <1> HIDE DEF o, s, end, c, last, Goal
  <1>5. \A res : seq \in Has(r) /\ o = Refuse(r, res) => Goal
    <2> SUFFICES ASSUME NEW res, seq \in Has(r), o = Refuse(r, res) PROVE Goal
      OBVIOUS
    <2>1. o.reorder = r /\ o.sc = <<>>
      BY DEF Refuse, Result
    <2>2. Has(r) \cup {seq} = Has(r)
      OBVIOUS
    <2> QED
      BY <1>2, <2>1, <2>2 DEF Goal
  <1>6. CASE seq = r.next_seq
    <2>1. o = DeliverSample(r, s)
      BY <1>0, <1>6 DEF nn_reorder_rsample
    <2> QED
      BY <1>0, <1>6, <2>1, DeliverHas DEF Goal
  <1>7. CASE seq < r.next_seq
    <2>1. o = Refuse(r, "TOO_OLD")
      BY <1>0, <1>1, <1>7 DEF nn_reorder_rsample
    <2>2. seq \in Has(r)
      BY <1>1, <1>7 DEF Has
    <2> QED
      BY <1>5, <2>1, <2>2
  <1>8. CASE r.next_seq < seq
    <2>1. o = IF r.ivs = {} THEN IF r.max_samples = 0 THEN Refuse(r, "REJECT")
                                 ELSE Accept(AddAtEnd(r, s, NoInterval))
              ELSE IF seq < end THEN InsertSample(r, s)
              ELSE IF ~(r.n_samples < r.max_samples) THEN Refuse(r, "REJECT")
              ELSE IF seq = end THEN Accept(AddAtEnd(r, c, last))
                   ELSE Accept(AddAtEnd(r, s, NoInterval))
      <3>1. seq # r.next_seq /\ ~(seq < r.next_seq)
        BY <1>1, <1>8
      <3> QED
        BY <1>0, <3>1 DEF nn_reorder_rsample
    <2>2. ~(r.ivs # {} /\ seq < end) => seq \notin Has(r)
      <3> SUFFICES ASSUME NEW v \in r.ivs, v.min <= seq, seq < v.maxp1 PROVE seq < end
        BY <1>1, <1>8 DEF Has, Known
      <3> QED
        BY <1>0, <1>3, <1>4
    <2>3. ASSUME seq \notin Has(r), ~(r.n_samples < r.max_samples), NEW res, o = Refuse(r, res) PROVE Goal
      <3>1. o.reorder = r /\ o.sc = <<>>
        BY <2>3 DEF Refuse, Result
      <3> QED
        BY <1>1, <1>2, <1>8, <2>3, <3>1 DEF Goal
    <2>4. ASSUME NEW v, v.sc \in Seq(Q), v.min \in Nat, v.maxp1 \in Nat, NEW out,
                 o = Accept(AddAtEnd(r, v, out)),
                 \A n \in Nat : (v.min <= n /\ n < v.maxp1) <=>
                    (n = seq \/ (out \in r.ivs /\ out.min <= n /\ n < out.maxp1))
          PROVE Goal
      <3>1. /\ o.reorder.ivs = (r.ivs \ {out}) \cup {v} /\ o.reorder.next_seq = r.next_seq
            /\ o.sc \in Seq(Q) /\ Chains(o.reorder.ivs, Q)
        BY <2>4, AddedHas
      <3>2. Known((r.ivs \ {out}) \cup {v}) = Known(r.ivs) \cup {seq}
        BY <2>4 DEF Known
      <3> QED
        BY <3>1, <3>2 DEF Has, Goal
    <2>5. NoInterval \notin r.ivs
      BY <1>1, NoIntervalNot
    <2>6. ASSUME o = Accept(AddAtEnd(r, s, NoInterval)) PROVE Goal
      <3>1. \A n \in Nat : (s.min <= n /\ n < s.maxp1) <=>
                    (n = seq \/ (NoInterval \in r.ivs /\ NoInterval.min <= n /\ n < NoInterval.maxp1))
        <4> QED
          BY <1>2, <2>5
      <3>2. s.min \in Nat /\ s.maxp1 \in Nat /\ s.sc \in Seq(Q)
        BY <1>2
      <3> QED
        BY <2>4, <2>6, <3>1, <3>2
    <2>7. ASSUME r.ivs # {}, seq = end, o = Accept(AddAtEnd(r, c, last)) PROVE Goal
      <3>1. last \in r.ivs /\ last.min \in Nat /\ last.maxp1 = seq /\ last.min < last.maxp1 /\ last.sc \in Seq(Q)
        BY <1>0, <1>3, <1>4, <2>7
      <3>2. c.min = last.min /\ c.maxp1 = seq + 1 /\ c.sc = last.sc \o <<seq>>
        BY <1>0, <1>2 DEF append_rsample_interval, Interval
      <3>3. c.sc \in Seq(Q)
        BY <1>2, <3>1, <3>2, ConcatProperties
      <3>4. \A n \in Nat : (c.min <= n /\ n < c.maxp1) <=>
                    (n = seq \/ (last \in r.ivs /\ last.min <= n /\ n < last.maxp1))
        BY <3>1, <3>2
      <3>5. c.min \in Nat /\ c.maxp1 \in Nat
        BY <3>1, <3>2
      <3> QED
        BY <2>4, <2>7, <3>3, <3>4, <3>5
    <2>8. ASSUME r.ivs # {}, seq < end, o = InsertSample(r, s) PROVE Goal
      <3>1. r.next_seq < seq /\ seq < r.max_sampleiv.maxp1 /\ o = InsertSample(r, Interval(seq, seq + 1, <<seq>>))
        BY <1>0, <1>8, <2>8
      <3>2. seq # r.next_seq
        BY <1>1, <1>8
      <3> QED
        BY <2>8, <3>1, <3>2, InsertedHas DEF Goal
    <2>9. CASE r.ivs = {}
      <3>1. r.n_samples = 0
        BY <1>1, <2>9, TotalEmpty
      <3>2. CASE r.max_samples = 0
        <4>1. o = Refuse(r, "REJECT") /\ seq \notin Has(r) /\ ~(r.n_samples < r.max_samples)
          BY <2>1, <2>2, <2>9, <3>1, <3>2
        <4> QED
          BY <2>3, <4>1
      <3>3. CASE r.max_samples # 0
        BY <2>1, <2>6, <2>9, <3>3
      <3> QED
        BY <3>2, <3>3
    <2>10. CASE r.ivs # {} /\ ~(seq < end)
      <3>1. CASE ~(r.n_samples < r.max_samples)
        <4>1. o = Refuse(r, "REJECT") /\ seq \notin Has(r)
          BY <2>1, <2>2, <2>10, <3>1
        <4> QED
          BY <2>3, <3>1, <4>1
      <3>2. CASE r.n_samples < r.max_samples
        <4>1. o = IF seq = end THEN Accept(AddAtEnd(r, c, last)) ELSE Accept(AddAtEnd(r, s, NoInterval))
          BY <2>1, <2>10, <3>2
        <4> QED
          BY <2>6, <2>7, <2>10, <4>1
      <3> QED
        BY <3>1, <3>2
    <2>11. CASE r.ivs # {} /\ seq < end
      <3>1. o = InsertSample(r, s)
        <4> QED
          BY <2>1, <2>11
      <3> QED
        BY <2>8, <2>11, <3>1
    <2> QED
      BY <2>9, <2>10, <2>11
  <1> QED
    <2>1. seq = r.next_seq \/ seq < r.next_seq \/ r.next_seq < seq
      BY <1>1
    <2> QED
      BY <1>6, <1>7, <1>8, <2>1

\* What is here says where the next one is.
LEMMA NextNotHere ==
    ASSUME NEW r \in Reorders, NEW un, ROK(r, un)
    PROVE  r.next_seq \in Nat \ {0} /\ r.next_seq \notin Has(r) /\ \A n \in 1..(r.next_seq - 1) : n \in Has(r)
  <1>1. r.next_seq \in Nat \ {0} /\ \A v \in r.ivs : r.next_seq < v.min /\ v.min \in Nat
    BY IntervalIs DEF ROK, Reorders
  <1> QED
    BY <1>1 DEF Has, Known

LEMMA NextOfMore ==
    ASSUME NEW r \in Reorders, NEW un, ROK(r, un), NEW q \in Reorders, NEW um, ROK(q, um), Has(r) \subseteq Has(q)
    PROVE  r.next_seq <= q.next_seq
  <1>1. r.next_seq \in Nat \ {0} /\ \A n \in 1..(r.next_seq - 1) : n \in Has(r)
    BY NextNotHere
  <1>2. q.next_seq \in Nat \ {0} /\ q.next_seq \notin Has(q)
    BY NextNotHere
  <1>3. ASSUME q.next_seq < r.next_seq PROVE FALSE
    <2>1. q.next_seq \in 1..(r.next_seq - 1)
      BY <1>1, <1>2, <1>3
    <2> QED
      BY <1>1, <1>2, <2>1
  <1> QED
    BY <1>1, <1>2, <1>3

\* As long as not everything has come there is room.
LEMMA RoomLeft ==
    ASSUME NEW r \in Reorders, NEW un, ROK(r, un), NEW N \in Nat, Has(r) \subseteq 1..N,
           N <= r.max_samples + 1, NEW x \in 1..N, x \notin Has(r), r.next_seq < x
    PROVE  r.n_samples < r.max_samples
  <1> DEFINE A == {v \in r.ivs : v.maxp1 <= x}  B == r.ivs \ A
  <1>1. /\ Tree(r.ivs) /\ r.n_samples = Total(r.ivs) /\ r.next_seq \in Nat \ {0} /\ r.max_samples \in Nat
        /\ \A v \in r.ivs : r.next_seq < v.min
    BY DEF ROK, Total, Reorders
  <1>2. \A v \in r.ivs : v.min \in Nat /\ v.maxp1 \in Nat /\ v.min < v.maxp1
    BY <1>1, IntervalIs
  <1>3. Tree(A) /\ Tree(B) /\ A \subseteq r.ivs
    BY <1>1, TreeSubset
  <1>4. \A v \in A : r.next_seq + 1 <= v.min /\ v.maxp1 <= x
    BY <1>1, <1>2
  <1>5. \A v \in B : x + 1 <= v.min /\ v.maxp1 <= N + 1
    <2> TAKE v \in B
    <2>1. v \in r.ivs /\ x < v.maxp1
      BY <1>2
    <2>2. x < v.min
      BY <1>2, <2>1 DEF Has, Known
    <2>3. v.maxp1 - 1 \in Has(r)
      BY <1>2, <2>1 DEF Has, Known
    <2> QED
      BY <1>2, <2>1, <2>2, <2>3
  <1> HIDE DEF A
  <1>6. Fits(ChainOf(A), r.next_seq + 1, x)
    <2>1. r.next_seq + 1 \in Nat /\ x \in Nat /\ r.next_seq + 1 <= x
      BY <1>1
    <2> QED
      BY <1>3, <1>4, <2>1, ChainFits
  <1> HIDE DEF B
  <1>7. Fits(ChainOf(B), x + 1, N + 1)
    <2>1. x + 1 \in Nat /\ N + 1 \in Nat /\ x + 1 <= N + 1
      OBVIOUS
    <2> QED
      BY <1>3, <1>5, <2>1, ChainFits
  <1>8. Total(r.ivs) = Total(A) + Total(B) /\ Total(A) \in Nat /\ Total(B) \in Nat
    BY <1>1, <1>3, TotalParts DEF B
  <1>9. r.next_seq + 1 + Total(A) <= x /\ x + 1 + Total(B) <= N + 1
    <2>1. (r.next_seq + 1) + Total(A) <= x /\ (x + 1) + Total(B) <= N + 1
      BY <1>6, <1>7 DEF Fits, Total
    <2> QED
      BY <1>1, <1>8, <2>1
  <1> QED
    BY <1>1, <1>8, <1>9

LEMMA GapHas ==
    ASSUME NEW r \in Reorders, NEW un, ROK(r, un), r.mode = "NORMAL",
           NEW Q, Chains(r.ivs, Q), 0 \in Q, NEW min \in Nat \ {0}, NEW maxp1 \in Nat,
           min < maxp1 \/ maxp1 <= r.next_seq, min..(maxp1 - 1) \subseteq un
    PROVE  LET o == nn_reorder_gap(r, min, maxp1)
           IN /\ Chains(o.reorder.ivs, Q) /\ o.sc \in Seq(Q)
              /\ min..(maxp1 - 1) \subseteq Has(r) \/ r.n_samples < r.max_samples \/ min <= r.next_seq =>
                   Has(o.reorder) = Has(r) \cup min..(maxp1 - 1)
  <1> DEFINE ts == Touching(r.ivs, min, maxp1)
             new == coalesce_intervals_touching_range(r.ivs, min, maxp1)
             rest == r.ivs \ ts
             gap == Interval(min, maxp1, <<0>>)
             WithMax(q) == [q EXCEPT !.max_sampleiv = FindMax(q.ivs)]
             o == nn_reorder_gap(r, min, maxp1)
             passed == Accept([r EXCEPT !.next_seq = maxp1])
             p == [r EXCEPT !.ivs = @ \cup {gap}]
             stored == Accept(WithMax(CountOrDeleteLast(p)))
             given == Result(WithMax([r EXCEPT !.ivs = rest, !.next_seq = new.maxp1,
                                               !.n_samples = @ - Len(new.sc)]), "DELIVER", new.sc)
             merged(res) == Result(WithMax([r EXCEPT !.ivs = rest \cup {new}]), res, <<>>)
             full == /\ r.n_samples = r.max_samples
                     /\ r.max_sampleiv = NoInterval \/ min > r.max_sampleiv.maxp1
             room == min..(maxp1 - 1) \subseteq Has(r) \/ r.n_samples < r.max_samples \/ min <= r.next_seq
             Goal == /\ Chains(o.reorder.ivs, Q) /\ o.sc \in Seq(Q)
                     /\ room => Has(o.reorder) = Has(r) \cup min..(maxp1 - 1)
  <1> SUFFICES Goal
    OBVIOUS
  <1>1. /\ Tree(r.ivs) /\ r.next_seq \in Nat \ {0} /\ <<>> \in Seq(Q) /\ r.max_sampleiv = FindMax(r.ivs)
        /\ \A v \in r.ivs : r.next_seq < v.min
    BY DEF ROK, Reorders
  <1>2. \A v \in r.ivs : /\ v.min \in Nat /\ v.maxp1 \in Nat /\ v.min < v.maxp1 /\ v.sc \in Seq(Q)
                         /\ v \in ts <=> v.maxp1 >= min /\ v.min <= maxp1
    BY <1>1, IntervalIs DEF Chains, Touching
  <1>3. ts \subseteq r.ivs
    BY DEF Touching
  <1> HIDE DEF Goal
  <1>4. CASE maxp1 <= r.next_seq
    <2>1. o = Refuse(r, "TOO_OLD")
      BY <1>1, <1>4 DEF nn_reorder_gap
    <2> HIDE DEF o, full, room
    <2>2. o.reorder = r /\ o.sc = <<>>
      BY <2>1 DEF Refuse, Result
    <2>3. min..(maxp1 - 1) \subseteq Has(r)
      BY <1>1, <1>4 DEF Has
    <2> QED
      BY <1>1, <2>2, <2>3 DEF Goal
  <1>5. CASE r.next_seq < maxp1
    <2>1. ~(maxp1 <= r.next_seq) /\ min < maxp1
      BY <1>1, <1>5
    <2>2. o = IF ts = {} THEN
                 IF min <= r.next_seq THEN passed
                 ELSE IF full THEN Refuse(r, "REJECT") ELSE stored
              ELSE IF new.min <= r.next_seq THEN given
                   ELSE merged(IF ts = {new} THEN "REJECT" ELSE "ACCEPT")
      <3> HIDE DEF full, gap
      <3> QED
        BY <2>1, Zenon DEF nn_reorder_gap, full, gap
    <2>3. CASE ts = {} /\ min <= r.next_seq
      <3>1. o = passed
        BY <2>2, <2>3
      <3>2. o.reorder.ivs = r.ivs /\ o.reorder.next_seq = maxp1 /\ o.sc = <<>>
        BY <3>1 DEF Accept, Result, Reorders
      <3> HIDE DEF o, room
      <3>3. Has(o.reorder) = Has(r) \cup min..(maxp1 - 1)
        <4>1. 1..(maxp1 - 1) = 1..(r.next_seq - 1) \cup min..(maxp1 - 1)
          BY <1>1, <1>5, <2>3
        <4> QED
          BY <3>2, <4>1 DEF Has
      <3> QED
        BY <1>1, <3>2, <3>3 DEF Goal
    <2>4. ASSUME ts = {}, ~(min <= r.next_seq), room PROVE r.n_samples < r.max_samples
      <3>1. min \in min..(maxp1 - 1) /\ min \notin Has(r)
        BY <1>1, <1>2, <2>1, <2>4 DEF Has, Known
      <3> QED
        BY <2>4, <3>1
    <2>5. CASE ts = {} /\ ~(min <= r.next_seq) /\ full
      <3>1. o = Refuse(r, "REJECT")
        BY <2>2, <2>5
      <3>2. ~room
        BY <2>4, <2>5 DEF Reorders
      <3> HIDE DEF o, room, full
      <3>3. o.reorder = r /\ o.sc = <<>>
        BY <3>1 DEF Refuse, Result
      <3> QED
        BY <1>1, <3>2, <3>3 DEF Goal
    <2>6. CASE ts = {} /\ ~(min <= r.next_seq) /\ ~full
      <3>1. o = stored
        BY <2>2, <2>6
      <3>2. /\ gap.min = min /\ gap.maxp1 = maxp1 /\ gap.sc = <<0>> /\ <<0>> \in Seq(Q) /\ gap \in Intervals
            /\ gap.sc # <<>>
        BY DEF Interval, Intervals
      <3> HIDE DEF gap
      <3>3. /\ p \in Reorders /\ p.ivs = r.ivs \cup {gap} /\ p.max_sampleiv = r.max_sampleiv
            /\ p.n_samples = r.n_samples /\ p.max_samples = r.max_samples /\ p.next_seq = r.next_seq
        BY <3>2 DEF Reorders
      <3> HIDE DEF p
      <3>4. Chains(p.ivs, Q)
        BY <3>2, <3>3 DEF Chains
      <3> DEFINE c == CountOrDeleteLast(p)
      <3>5. /\ Chains(c.ivs, Q) /\ c.next_seq = r.next_seq
            /\ r.n_samples < r.max_samples => c.ivs = r.ivs \cup {gap}
        <4>1. CASE r.max_sampleiv \in r.ivs
          <5>1. p.max_sampleiv \in p.ivs /\ p.max_sampleiv.sc # <<>>
            BY <1>1, <3>3, <4>1 DEF Tree, Filled
          <5> QED
            BY <3>3, <3>4, <5>1, CountedChains
        <4>2. CASE r.max_sampleiv \notin r.ivs
          <5>1. r.max_sampleiv = NoInterval
            BY <1>1, <4>2, LastProperties DEF FindMax
          <5>2. r.n_samples # r.max_samples /\ r.n_samples <= r.max_samples
            BY <2>6, <5>1 DEF ROK
          <5>3. r.n_samples < r.max_samples
            BY <5>2 DEF Reorders
          <5>4. c.ivs = p.ivs /\ c.next_seq = p.next_seq
            BY <3>3, <5>3 DEF CountOrDeleteLast, Reorders
          <5> HIDE DEF c
          <5> QED
            BY <3>3, <3>4, <5>4
        <4> QED
          BY <4>1, <4>2
      <3>6. o.reorder.ivs = c.ivs /\ o.reorder.next_seq = c.next_seq /\ o.sc = <<>>
        <4>1. CountOrDeleteLast(p).next_seq = c.next_seq /\ c = CountOrDeleteLast(p)
          OBVIOUS
        <4> DEFINE d == [c EXCEPT !.max_sampleiv = FindMax(c.ivs)]
        <4>2. d.ivs = c.ivs /\ d.next_seq = c.next_seq
          <5>1. c = [p EXCEPT !.n_samples = @ + 1] \/ c = delete_last_sample(p)
            BY DEF CountOrDeleteLast
          <5> QED
            BY <3>3, <5>1 DEF delete_last_sample, Reorders
        <4>3. o = Accept(d)
          BY <3>1
        <4> HIDE DEF d, o
        <4> QED
          BY <4>2, <4>3 DEF Accept, Result
      <3> HIDE DEF c, o
      <3>7. Known(r.ivs \cup {gap}) = Known(r.ivs) \cup min..(maxp1 - 1)
        BY <3>2 DEF Known
      <3>8. room => Has(o.reorder) = Has(r) \cup min..(maxp1 - 1)
        <4> SUFFICES ASSUME room PROVE Has(o.reorder) = Has(r) \cup min..(maxp1 - 1)
          OBVIOUS
        <4>1. r.n_samples < r.max_samples
          BY <2>4, <2>6
        <4> HIDE DEF room
        <4> QED
          BY <3>5, <3>6, <3>7, <4>1 DEF Has
      <3> HIDE DEF room
      <3> QED
        BY <1>1, <3>5, <3>6, <3>8 DEF Goal
    <2>7. CASE ts # {}
      <3>1. /\ Sound(new, un) /\ new.sc = ChainOf(ts) /\ new.min <= min /\ maxp1 <= new.maxp1
            /\ \A v \in ts : new.min <= v.min /\ v.maxp1 <= new.maxp1
            /\ new.min = min \/ \E v \in ts : new.min = v.min
            /\ new.maxp1 = maxp1 \/ \E v \in ts : new.maxp1 = v.maxp1
        BY <2>1, <2>7, CoalescedIs
      <3>2. new.min \in Nat /\ new.maxp1 \in Nat /\ new.min < new.maxp1
        BY <3>1, SoundIs
      <3>3. new.sc \in Seq(Q)
        <4>1. Tree(ts) /\ Chains(ts, Q)
          BY <1>1, <1>3, TreeSubset DEF Chains
        <4> QED
          BY <3>1, <4>1, ChainsConcat
      <3>4. o = IF new.min <= r.next_seq THEN given ELSE merged(IF ts = {new} THEN "REJECT" ELSE "ACCEPT")
        BY <2>2, <2>7
      <3> HIDE DEF new, ts
      <3>5. \A n \in Nat : (new.min <= n /\ n < new.maxp1) <=>
               (n \in min..(maxp1 - 1) \/ \E v \in ts : v.min <= n /\ n < v.maxp1)
        <4> TAKE n \in Nat
        <4>1. ASSUME new.min <= n, n < min PROVE \E v \in ts : v.min <= n /\ n < v.maxp1
          <5>1. PICK v \in ts : new.min = v.min
            BY <3>1, <3>2, <4>1
          <5>2. v.min <= n /\ n < v.maxp1
            BY <1>2, <1>3, <3>2, <4>1, <5>1
          <5> QED
            BY <5>2
        <4>2. ASSUME n < new.maxp1, maxp1 <= n PROVE \E v \in ts : v.min <= n /\ n < v.maxp1
          <5>1. PICK v \in ts : new.maxp1 = v.maxp1
            BY <3>1, <3>2, <4>2
          <5>2. v.min <= n /\ n < v.maxp1
            BY <1>2, <1>3, <3>2, <4>2, <5>1
          <5> QED
            BY <5>2
        <4>3. ASSUME NEW v \in ts, v.min <= n, n < v.maxp1 PROVE new.min <= n /\ n < new.maxp1
          BY <1>2, <1>3, <3>1, <3>2, <4>3
        <4>4. ASSUME n \in min..(maxp1 - 1) PROVE new.min <= n /\ n < new.maxp1
          BY <3>1, <3>2, <4>4
        <4>5. n < min \/ n \in min..(maxp1 - 1) \/ maxp1 <= n
          OBVIOUS
        <4> QED
          BY <4>1, <4>2, <4>3, <4>4, <4>5
      <3>6. Chains(rest, Q) /\ Chains(rest \cup {new}, Q)
        BY <3>3 DEF Chains
      <3> HIDE DEF o, room
      <3>7. CASE new.min <= r.next_seq
        <4>1. o.reorder.ivs = rest /\ o.reorder.next_seq = new.maxp1 /\ o.sc = new.sc
          <5>1. o = given
            BY <3>4, <3>7
          <5> HIDE DEF rest
          <5> QED
            BY <5>1 DEF Result, Reorders
        <4>2. Has(o.reorder) = Has(r) \cup min..(maxp1 - 1)
          <5>1. Has(o.reorder) = 1..(new.maxp1 - 1) \cup Known(rest)
            BY <4>1 DEF Has
          <5>2. \A n \in 1..(new.maxp1 - 1) : n \in 1..(r.next_seq - 1) \/ (new.min <= n /\ n < new.maxp1)
            BY <1>1, <3>2, <3>7
          <5>3. 1..(r.next_seq - 1) \subseteq 1..(new.maxp1 - 1)
            BY <1>1, <1>5, <3>1, <3>2
          <5>4. Known(rest) \cup {n \in Nat : new.min <= n /\ n < new.maxp1} = Known(r.ivs) \cup min..(maxp1 - 1)
            BY <1>3, <3>5 DEF Known
          <5>5. \A n \in Nat : new.min <= n /\ n < new.maxp1 => n \in 1..(new.maxp1 - 1)
            <6>1. new.min # 0
              BY <1>1, <1>3, <3>1
            <6> QED
              BY <3>2, <6>1
          <5> HIDE DEF rest
          <5> QED
            BY <5>1, <5>2, <5>3, <5>4, <5>5 DEF Has
        <4> HIDE DEF rest
        <4> QED
          BY <3>3, <3>6, <4>1, <4>2 DEF Goal
      <3>8. CASE ~(new.min <= r.next_seq)
        <4>1. o.reorder.ivs = rest \cup {new} /\ o.reorder.next_seq = r.next_seq /\ o.sc = <<>>
          <5>1. PICK res : o = merged(res)
            BY <3>4, <3>8
          <5> HIDE DEF rest
          <5> QED
            BY <5>1 DEF Result, Reorders
        <4>2. Known(rest \cup {new}) = Known(r.ivs) \cup min..(maxp1 - 1)
          BY <1>3, <3>5 DEF Known
        <4>3. Has(o.reorder) = Has(r) \cup min..(maxp1 - 1)
          BY <4>1, <4>2 DEF Has
        <4> HIDE DEF rest
        <4> QED
          BY <1>1, <3>6, <4>1, <4>3 DEF Goal
      <3> QED
        BY <3>7, <3>8
    <2> QED
      BY <2>3, <2>5, <2>6, <2>7
  <1> QED
    BY <1>1, <1>4, <1>5

\* With a buffer as long as the stream nothing is refused for want of room.
LEMMA AlwaysRoom ==
    ASSUME NEW r \in Reorders, NEW un, ROK(r, un), NEW N \in Nat, Has(r) \subseteq 1..N,
           N <= r.max_samples + 1
    PROVE  /\ \A seq \in 1..N : seq \in Has(r) \cup {r.next_seq} \/ r.n_samples < r.max_samples
           /\ \A min \in Nat \ {0}, maxp1 \in 0..(N + 1) :
                min..(maxp1 - 1) \subseteq Has(r) \/ r.n_samples < r.max_samples \/ min <= r.next_seq
  <1>1. r.next_seq \in Nat \ {0} /\ \A n \in 1..(r.next_seq - 1) : n \in Has(r)
    BY NextNotHere
  <1>2. ASSUME NEW x \in 1..N, x \notin Has(r), x # r.next_seq
        PROVE  r.next_seq < x /\ r.n_samples < r.max_samples
    <2>1. r.next_seq < x
      BY <1>1, <1>2
    <2> QED
      BY <1>2, <2>1, RoomLeft
  <1>3. ASSUME NEW min \in Nat \ {0}, NEW maxp1 \in 0..(N + 1), NEW x \in min..(maxp1 - 1), x \notin Has(r)
        PROVE  r.n_samples < r.max_samples \/ min <= r.next_seq
    <2>1. x \in 1..N /\ min <= x
      OBVIOUS
    <2> QED
      BY <1>2, <1>3, <2>1
  <1> QED
    BY <1>2, <1>3

----------------------------------------------------------------------------
(* The steps of the specification.                                           *)

LEMMA MaxOfTwo ==
    ASSUME NEW a \in Int, NEW b \in Int
    PROVE  /\ Max({a, b}) \in {a, b} /\ a <= Max({a, b}) /\ b <= Max({a, b})
  <1> DEFINE S == {a, b}
  <1>1. \E x \in S : \A y \in S : x >= y
    <2>1. CASE a <= b
      BY <2>1
    <2>2. CASE b <= a
      BY <2>2
    <2> QED
      BY <2>1, <2>2
  <1>2. a \in S /\ b \in S
    OBVIOUS
  <1>3. Max(S) \in S /\ \A y \in S : Max(S) >= y
    <2> HIDE DEF S
    <2> QED
      BY <1>1 DEF Max
  <1> QED
    BY <1>2, <1>3

LEMMA MoreIsKnown ==
    ASSUME NEW r, NEW un, NEW more, un \subseteq more, ROK(r, un)
    PROVE  ROK(r, more)
  BY DEF ROK, Explains

LEMMA GapsStillBegin ==
    ASSUME NEW r \in Reorders, NEW q \in Reorders, NEW un \in SUBSET (Nat \ {0}), GapsBegin(r, un),
           q.mode = r.mode, q.max_samples = r.max_samples,
           r.mode = "NORMAL" => r.next_seq <= q.next_seq
    PROVE  GapsBegin(q, un)
  <1> SUFFICES ASSUME q.mode = "NORMAL", NEW n \in un, ~(n - 1 \in un \cup {0})
               PROVE  n < q.next_seq + q.max_samples
    BY DEF GapsBegin
  <1>1. n < r.next_seq + r.max_samples
    BY DEF GapsBegin
  <1>2. /\ n \in Nat /\ r.next_seq \in Nat /\ q.next_seq \in Nat /\ r.max_samples \in Nat
        /\ r.next_seq <= q.next_seq
    BY DEF Reorders
  <1> QED
    BY <1>1, <1>2

LEMMA DeliveredMore ==
    ASSUME NEW r \in Reorders, NEW un, NEW more, un \subseteq more,
           NEW dl \in Seq(Nat), DeliveredOK(r, un, dl), NEW o, Good(o, r, more)
    PROVE  dl \o o.sc \in Seq(Nat) /\ DeliveredOK(o.reorder, more, dl \o o.sc)
  <1> DEFINE q == o.reorder  sc == o.sc  c == dl \o sc  m == Len(dl)  n == Len(sc)
  <1>1. /\ q \in Reorders /\ q.mode = r.mode /\ sc \in Seq(Nat)
        /\ r.mode # "ALWAYS_DELIVER" =>
             /\ r.next_seq <= q.next_seq /\ Rising(sc)
             /\ \A i \in 1..n : sc[i] # 0 => r.next_seq <= sc[i] /\ sc[i] < q.next_seq
        /\ r.mode = "NORMAL" => Explains(sc, r.next_seq, q.next_seq, more)
    BY DEF Good
  <1>2. r.next_seq \in Nat \ {0} /\ q.next_seq \in Nat \ {0}
    BY <1>1 DEF Reorders
  <1>3. m \in Nat /\ n \in Nat /\ c \in Seq(Nat) /\ Len(c) = m + n
    BY <1>1, LenProperties, ConcatProperties
  <1>4. \A i \in 1..(m + n) : IF i <= m THEN i \in 1..m /\ c[i] = dl[i]
                              ELSE i - m \in 1..n /\ c[i] = sc[i - m]
    BY <1>1, <1>3, ConcatProperties
  <1>5. (\A i \in 1..m : dl[i] \in Nat) /\ (\A i \in 1..n : sc[i] \in Nat)
    BY <1>1, ElementOfSeq
  <1>6. ASSUME r.mode # "ALWAYS_DELIVER"
        PROVE  Rising(c) /\ \A i \in 1..Len(c) : c[i] < q.next_seq
    <2>1. /\ \A i \in 1..m : dl[i] < r.next_seq
          /\ \A i, j \in 1..m : i < j /\ dl[i] # 0 /\ dl[j] # 0 => dl[i] < dl[j]
      BY <1>6 DEF DeliveredOK, Rising
    <2>2. /\ r.next_seq <= q.next_seq
          /\ \A i, j \in 1..n : i < j /\ sc[i] # 0 /\ sc[j] # 0 => sc[i] < sc[j]
          /\ \A i \in 1..n : sc[i] # 0 => r.next_seq <= sc[i] /\ sc[i] < q.next_seq
      BY <1>1, <1>6 DEF Rising
    <2> DEFINE lo == r.next_seq  hi == q.next_seq
    <2>3. lo \in Nat \ {0} /\ hi \in Nat \ {0} /\ lo <= hi
      BY <1>2, <2>2
    <2> HIDE DEF lo, hi, q, sc, c, m, n
    <2>4. ASSUME NEW i \in 1..(m + n), NEW j \in 1..(m + n), i < j, c[i] # 0, c[j] # 0
          PROVE  c[i] < c[j]
      <3>1. CASE j <= m
        <4>1. i <= m
          BY <1>3, <2>4, <3>1
        <4>2. i \in 1..m /\ j \in 1..m /\ c[i] = dl[i] /\ c[j] = dl[j]
          BY <1>4, <3>1, <4>1
        <4> QED
          BY <2>1, <2>4, <4>2
      <3>2. CASE ~(i <= m)
        <4>1. ~(j <= m)
          BY <1>3, <2>4, <3>2
        <4>2. i - m \in 1..n /\ j - m \in 1..n /\ c[i] = sc[i - m] /\ c[j] = sc[j - m]
          BY <1>4, <3>2, <4>1
        <4>3. i - m < j - m
          BY <1>3, <2>4
        <4> QED
          BY <2>2, <2>4, <4>2, <4>3
      <3>3. CASE i <= m /\ ~(j <= m)
        <4>1. i \in 1..m /\ c[i] = dl[i] /\ j - m \in 1..n /\ c[j] = sc[j - m]
          BY <1>4, <3>3
        <4>2. dl[i] < lo /\ lo <= sc[j - m] /\ dl[i] \in Nat /\ sc[j - m] \in Nat
          BY <1>5, <2>1, <2>2, <2>4, <4>1 DEF lo
        <4> QED
          BY <2>3, <4>1, <4>2
      <3> QED
        BY <3>1, <3>2, <3>3
    <2>5. ASSUME NEW i \in 1..(m + n) PROVE c[i] < hi
      <3>1. CASE i <= m
        <4>1. i \in 1..m /\ c[i] = dl[i]
          BY <1>4, <3>1
        <4>2. dl[i] < lo /\ dl[i] \in Nat
          BY <1>5, <2>1, <4>1 DEF lo
        <4> QED
          BY <2>3, <4>1, <4>2
      <3>2. CASE ~(i <= m)
        <4>1. i - m \in 1..n /\ c[i] = sc[i - m]
          BY <1>4, <3>2
        <4>2. sc[i - m] = 0 \/ sc[i - m] < hi
          BY <2>2, <4>1 DEF hi
        <4> QED
          BY <2>3, <4>1, <4>2
      <3> QED
        BY <3>1, <3>2
    <2> QED
      BY <1>3, <2>4, <2>5 DEF Rising, hi
  <1>7. ASSUME r.mode = "NORMAL" PROVE Explains(c, 1, q.next_seq, more)
    <2> SUFFICES ASSUME NEW k \in 1..(q.next_seq - 1) PROVE k \in more \/ InChain(c, k)
      BY DEF Explains
    <2>1. CASE k < r.next_seq
      <3>1. k \in 1..(r.next_seq - 1)
        BY <1>2, <2>1
      <3>2. k \in un \/ InChain(dl, k)
        BY <1>7, <3>1 DEF DeliveredOK, Explains
      <3> QED
        BY <1>1, <3>2, InConcat
    <2>2. CASE ~(k < r.next_seq)
      <3>1. k \in r.next_seq..(q.next_seq - 1)
        BY <1>2, <2>2
      <3>2. k \in more \/ InChain(sc, k)
        BY <1>1, <1>7, <3>1 DEF Explains
      <3> QED
        BY <1>1, <3>2, InConcat
    <2> QED
      BY <2>1, <2>2
  <1>8. DeliveredOK(q, more, c)
    <2> HIDE DEF q, c
    <2> QED
      BY <1>1, <1>6, <1>7 DEF DeliveredOK
  <1> QED
    BY <1>3, <1>8

LEMMA Applied ==
    ASSUME IInv, NEW more \in SUBSET (Nat \ {0}), unavailable \subseteq more, unavailable' = more,
           GapsBegin(reorder, more), NEW o, Good(o, reorder, more), Apply(o), last_seq' \in Nat
    PROVE  IInv'
  <1>1. /\ reorder \in Reorders /\ delivered \in Seq(Nat) /\ reorder.max_samples = MaxSamples
        /\ DeliveredOK(reorder, unavailable, delivered)
    BY DEF IInv, TypeOK
  <1>2. reorder' = o.reorder /\ delivered' = delivered \o o.sc
    BY DEF Apply
  <1>3. /\ reorder' \in Reorders /\ reorder'.mode = reorder.mode
        /\ reorder'.max_samples = MaxSamples /\ ROK(reorder', more)
        /\ reorder.mode # "ALWAYS_DELIVER" => reorder.next_seq <= reorder'.next_seq
    BY <1>1, <1>2 DEF Good
  <1>4. delivered' \in Seq(Nat) /\ DeliveredOK(reorder', more, delivered')
    BY <1>1, <1>2, DeliveredMore
  <1>5. GapsBegin(reorder', more)
    <2>1. reorder.mode = "NORMAL" => reorder.next_seq <= reorder'.next_seq
      BY <1>3
    <2> QED
      BY <1>1, <1>3, <2>1, GapsStillBegin
  <1>6. TypeOK'
    BY <1>3, <1>4 DEF TypeOK
  <1> QED
    BY <1>3, <1>4, <1>5, <1>6 DEF IInv

LEMMA InitI == Init => IInv
  <1> SUFFICES ASSUME Init PROVE IInv
    OBVIOUS
  <1>1. PICK mode \in Modes : reorder = nn_reorder_new(mode, MaxSamples)
    BY DEF Init
  <1>2. mode \in Modes3 /\ MaxSamples \in Nat
    BY ReorderAssumption DEF Modes3
  <1>3. /\ reorder.mode = mode /\ reorder.max_samples = MaxSamples /\ reorder.next_seq = 1
        /\ reorder.ivs = {} /\ reorder.max_sampleiv = NoInterval /\ reorder.n_samples = 0
    BY <1>1 DEF nn_reorder_new
  <1>4. NoInterval \in Intervals
    BY DEF NoInterval, Interval, Intervals
  <1>5. reorder \in Reorders
    BY <1>1, <1>2, <1>4 DEF nn_reorder_new, Reorders
  <1>6. last_seq = 0 /\ unavailable = {} /\ delivered = <<>>
    BY DEF Init
  <1>7. <<>> \in Seq(Nat) /\ Len(<<>>) = 0 /\ \A i \in 1..0 : FALSE
    OBVIOUS
  <1>8. Tree({})
    BY FS_EmptySet DEF Tree, Disjoint, Filled
  <1>9. FindMax({}) = NoInterval /\ Len(ChainOf({})) = 0
    BY TotalEmpty DEF FindMax, Total
  <1>10. ROK(reorder, unavailable)
    BY <1>2, <1>3, <1>8, <1>9 DEF ROK
  <1>11. Rising(<<>>) /\ Explains(<<>>, 1, 1, {})
    BY <1>7 DEF Rising, Explains
  <1>12. DeliveredOK(reorder, unavailable, delivered)
    BY <1>3, <1>6, <1>7, <1>11 DEF DeliveredOK
  <1>13. GapsBegin(reorder, unavailable)
    BY <1>6 DEF GapsBegin
  <1>14. TypeOK
    BY <1>5, <1>6, <1>7 DEF TypeOK
  <1> QED
    BY <1>3, <1>10, <1>12, <1>13, <1>14 DEF IInv

\* A gap that begins within the window, or a heartbeat's, which begins at one.
LEMMA GapStep ==
    ASSUME IInv, NEW min \in Nat \ {0}, NEW maxp1 \in Nat \ {0}, min < maxp1 \/ maxp1 <= reorder.next_seq,
           min = 1 \/ min < reorder.next_seq + MaxSamples,
           Apply(nn_reorder_gap(reorder, min, maxp1)),
           unavailable' = unavailable \cup min..(maxp1 - 1), last_seq' \in Nat
    PROVE  IInv'
  <1> DEFINE more == unavailable \cup min..(maxp1 - 1)  o == nn_reorder_gap(reorder, min, maxp1)
  <1>1. /\ reorder \in Reorders /\ unavailable \in SUBSET (Nat \ {0}) /\ reorder.max_samples = MaxSamples
        /\ ROK(reorder, unavailable) /\ GapsBegin(reorder, unavailable)
    BY DEF IInv, TypeOK
  <1>2. more \in SUBSET (Nat \ {0}) /\ unavailable \subseteq more /\ min..(maxp1 - 1) \subseteq more
    BY <1>1
  <1>3. GapsBegin(reorder, more)
    <2> SUFFICES ASSUME reorder.mode = "NORMAL", NEW n \in more
                 PROVE  n - 1 \in more \cup {0} \/ n < reorder.next_seq + reorder.max_samples
      BY DEF GapsBegin
    <2>1. CASE n \in unavailable
      BY <1>1, <2>1 DEF GapsBegin
    <2>2. CASE n \in min..(maxp1 - 1)
      <3>1. CASE n = min
        BY <1>1, <3>1
      <3>2. CASE n # min
        <4>1. n - 1 \in min..(maxp1 - 1)
          BY <2>2, <3>2
        <4> QED
          BY <4>1
      <3> QED
        BY <3>1, <3>2
    <2> QED
      BY <2>1, <2>2
  <1>4. ROK(reorder, more)
    BY <1>1, <1>2, MoreIsKnown
  <1> HIDE DEF more
  <1>5. Good(o, reorder, more)
    BY <1>1, <1>2, <1>3, <1>4, GapGood
  <1>6. unavailable' = more /\ Apply(o)
    BY DEF more
  <1> HIDE DEF o
  <1> QED
    BY <1>2, <1>3, <1>5, <1>6, Applied

LEMMA NextI == IInv /\ [Next]_vars => IInv'
  <1> SUFFICES ASSUME IInv, [Next]_vars PROVE IInv'
    OBVIOUS
  <1>1. /\ reorder \in Reorders /\ unavailable \in SUBSET (Nat \ {0}) /\ reorder.max_samples = MaxSamples
        /\ ROK(reorder, unavailable) /\ GapsBegin(reorder, unavailable) /\ last_seq \in Nat
        /\ reorder.next_seq \in Nat \ {0} /\ MaxSeq \in Nat /\ MaxSamples \in Nat
    BY ReorderAssumption DEF IInv, TypeOK, Reorders
  <1>2. \A n \in Nat : Max({last_seq, n}) \in Nat
    <2> SUFFICES ASSUME NEW n \in Nat PROVE Max({last_seq, n}) \in Nat
      OBVIOUS
    <2>1. last_seq \in Int /\ n \in Int
      BY <1>1
    <2>2. Max({last_seq, n}) \in {last_seq, n}
      BY <2>1, MaxOfTwo, Zenon
    <2> QED
      BY <1>1, <2>2
  <1>3. ASSUME NEW seq \in Seqs, Sample(seq) PROVE IInv'
    <2>1. seq \in Nat \ {0}
      BY <1>1 DEF Seqs
    <2>2. PICK full \in BOOLEAN : Apply(nn_reorder_rsample(reorder, seq, full))
      BY <1>3 DEF Sample
    <2>3. unavailable' = unavailable /\ last_seq' = Max({last_seq, seq})
      BY <1>3 DEF Sample
    <2>4. last_seq' \in Nat
      BY <1>2, <2>1, <2>3
    <2>5. Good(nn_reorder_rsample(reorder, seq, full), reorder, unavailable)
      BY <1>1, <2>1, SampleGood
    <2>6. unavailable \subseteq unavailable
      OBVIOUS
    <2> QED
      BY <1>1, <2>2, <2>3, <2>4, <2>5, <2>6, Applied
  <1>4. ASSUME NEW min \in Seqs, NEW maxp1 \in 2..(MaxSeq + 1), min < maxp1, Gap(min, maxp1) PROVE IInv'
    <2>1. min \in Nat \ {0} /\ maxp1 \in Nat \ {0} /\ maxp1 - 1 \in Nat
      BY <1>1 DEF Seqs
    <2>2. min < reorder.next_seq + MaxSamples
      BY <1>1, <1>4, <2>1 DEF Gap, Window
    <2>3. /\ Apply(nn_reorder_gap(reorder, min, maxp1)) /\ unavailable' = unavailable \cup min..(maxp1 - 1)
          /\ last_seq' = Max({last_seq, maxp1 - 1})
      BY <1>4 DEF Gap
    <2>4. last_seq' \in Nat
      BY <1>2, <2>1, <2>3
    <2> QED
      BY <1>4, <2>1, <2>2, <2>3, <2>4, GapStep
  <1>5. ASSUME NEW first \in Seqs, NEW last \in 0..MaxSeq, Heartbeat(first, last) PROVE IInv'
    <2>1. 1 \in Nat \ {0} /\ first \in Nat \ {0} /\ last \in Nat
      BY <1>1 DEF Seqs
    <2>2. 1 < first \/ first <= reorder.next_seq
      BY <1>1, <2>1
    <2>3. /\ Apply(nn_reorder_gap(reorder, 1, first)) /\ unavailable' = unavailable \cup 1..(first - 1)
          /\ last_seq' = Max({last_seq, last})
      BY <1>5 DEF Heartbeat
    <2>4. last_seq' \in Nat
      BY <1>2, <2>1, <2>3
    <2>5. 1 = 1
      OBVIOUS
    <2> QED
      BY <2>1, <2>2, <2>3, <2>4, <2>5, GapStep
  <1>6. CASE UNCHANGED vars
    <2>1. reorder' = reorder /\ last_seq' = last_seq /\ unavailable' = unavailable /\ delivered' = delivered
      BY <1>6 DEF vars
    <2> QED
      BY <2>1 DEF IInv, TypeOK
  <1> QED
    BY <1>3, <1>4, <1>5, <1>6 DEF Next

LEMMA AlwaysIInv == Spec => []IInv
  BY InitI, NextI, PTL DEF Spec

\* The administration's fields keep their types, and the readers' sequence is
\* one of numbers.
THEOREM TypesStay == Spec => []TypeOK
  <1>1. IInv => TypeOK
    BY DEF IInv
  <1> QED
    BY <1>1, AlwaysIInv, PTL

\* Whatever mixture of joins, gaps and evictions led here, the tree is what
\* nn_reorder_rsample asserts on entry: disjoint intervals, not consecutive
\* and beyond next_seq, max_sampleiv the last of them, and as many samples as
\* are counted, within max_samples.
THEOREM TreeStaysSound == Spec => []TreeIsSound
  <1>1. ASSUME IInv PROVE TreeIsSound
    <2>1. ROK(reorder, unavailable) /\ Tree(reorder.ivs)
      BY <1>1 DEF IInv, ROK
    <2>2. ASSUME NEW v \in reorder.ivs
          PROVE  /\ reorder.next_seq < v.min
                 /\ v.min + Len(v.sc) <= v.maxp1
                 /\ \A w \in reorder.ivs : v.min < w.min => v.maxp1 < w.min
      <3>1. reorder.next_seq < v.min
        BY <2>1 DEF ROK
      <3>2. v.min + Len(v.sc) <= v.maxp1 /\ v.min \in Nat /\ v.maxp1 \in Nat
        BY <2>1, IntervalIs
      <3>3. ASSUME NEW w \in reorder.ivs, v.min < w.min PROVE v.maxp1 < w.min
        <4>1. w.min \in Nat /\ w.maxp1 \in Nat /\ w.min < w.maxp1
          BY <2>1, IntervalIs
        <4>2. v = w \/ v.maxp1 < w.min \/ w.maxp1 < v.min
          BY <2>1 DEF Tree, Disjoint
        <4> QED
          BY <3>2, <3>3, <4>1, <4>2
      <3> QED
        BY <3>1, <3>2, <3>3
    <2> QED
      BY <2>1, <2>2 DEF TreeIsSound, ROK
  <1> QED
    BY <1>1, AlwaysIInv, PTL

\* Readers get a writer's samples in order and none of them twice.
THEOREM DeliveredInOrder == Spec => []InOrder
  <1>1. ASSUME IInv PROVE InOrder
    <2>1. delivered \in Seq(Nat)
      BY <1>1 DEF IInv, TypeOK
    <2>2. DOMAIN delivered = 1..Len(delivered)
      BY <2>1, LenProperties
    <2>3. reorder.mode # "ALWAYS_DELIVER" => Rising(delivered)
      BY <1>1 DEF IInv, DeliveredOK
    <2> QED
      BY <2>2, <2>3 DEF InOrder, Rising
  <1> QED
    BY <1>1, AlwaysIInv, PTL

\* A reliable reader passes over a number only if it is unavailable: no gap,
\* join or eviction moves next_seq across a sample the writer still offers.
THEOREM OnlyTheUnavailableSkipped == Spec => []SkipsOnlyTheUnavailable
  <1>1. ASSUME IInv PROVE SkipsOnlyTheUnavailable
    <2>1. delivered \in Seq(Nat)
      BY <1>1 DEF IInv, TypeOK
    <2>2. DOMAIN delivered = 1..Len(delivered)
      BY <2>1, LenProperties
    <2>3. reorder.mode = "NORMAL" => Explains(delivered, 1, reorder.next_seq, unavailable)
      BY <1>1 DEF IInv, DeliveredOK
    <2> QED
      BY <2>2, <2>3 DEF SkipsOnlyTheUnavailable, Normal, Explains, InChain
  <1> QED
    BY <1>1, AlwaysIInv, PTL

\* A NACK asks for nothing that is stored or stored as unavailable.
THEOREM WantedIsNacked == Spec => []NacksAreWanted
  <1>1. ASSUME IInv PROVE NacksAreWanted
    <2>1. ROK(reorder, unavailable) /\ Tree(reorder.ivs) /\ reorder \in Reorders /\ last_seq \in Nat
      BY <1>1 DEF IInv, TypeOK, ROK
    <2> DEFINE next == reorder.next_seq
               known == UNION {v.min .. (v.maxp1 - 1) : v \in reorder.ivs}
               numbits == Min({256, reorder.max_samples, Max({0, last_seq + 1 - Min({next, next})})})
               map == nn_reorder_nackmap(reorder, next, last_seq, 256, FALSE)
    <2>2. next \in Nat \ {0} /\ reorder.max_samples \in Nat
      BY <2>1 DEF Reorders
    <2>3. Min({next, next}) = next
      <3>1. {next, next} \subseteq Nat /\ {next, next} # {}
        BY <2>2
      <3>2. \E x \in {next, next} : \A y \in {next, next} : x <= y
        BY <2>2
      <3>3. Min({next, next}) \in {next, next}
        BY <3>2 DEF Min
      <3> QED
        BY <3>3
    <2>4. numbits \in Nat
      <3> DEFINE z == Max({0, last_seq + 1 - Min({next, next})})  A == {256, reorder.max_samples, z}
      <3>1. 0 \in Int /\ last_seq + 1 - Min({next, next}) \in Int
        BY <2>1, <2>2, <2>3
      <3>2. z \in {0, last_seq + 1 - Min({next, next})} /\ 0 <= z
        BY <3>1, MaxOfTwo, Zenon
      <3>3. z \in Nat
        BY <3>1, <3>2
      <3> HIDE DEF z
      <3>4. A \subseteq Nat /\ A # {}
        BY <2>2, <3>3
      <3> HIDE DEF A
      <3>5. \E x \in A : \A y \in A : x <= y
        BY <3>4, LeastNumber
      <3>6. Min(A) \in A
        BY <3>5 DEF Min
      <3>7. numbits = Min(A)
        BY DEF A, z
      <3> HIDE DEF numbits
      <3> QED
        BY <3>4, <3>6, <3>7
    <2>5. map.bits = (next .. ((next + numbits) - 1)) \ known
      <3> DEFINE b == Min({next, next})
                 end == IF FALSE THEN Min({b + numbits, Max({b} \cup {v.maxp1 : v \in reorder.ivs})})
                        ELSE b + numbits
                 bits(x, e) == (x .. (e - 1)) \ known
      <3>1. map = [base |-> b, numbits |-> end - b, bits |-> bits(b, end)]
        BY DEF nn_reorder_nackmap
      <3>2. b = next /\ end = b + numbits
        BY <2>3
      <3> HIDE DEF b, end, map, bits
      <3>3. map.bits = bits(b, end)
        BY <3>1
      <3> HIDE DEF numbits, known, next
      <3>4. map.bits = bits(next, next + numbits)
        BY <3>2, <3>3
      <3> QED
        BY <3>4 DEF bits
    <2> HIDE DEF map, numbits
    <2>6. ASSUME NEW seq \in map.bits
          PROVE  seq \notin Stored /\ nn_reorder_wantsample(reorder, seq)
      <3>1. seq \in Nat /\ next <= seq
        BY <2>2, <2>4, <2>5
      <3>2. \A v \in reorder.ivs : ~(v.min <= seq /\ seq < v.maxp1)
        <4> SUFFICES ASSUME NEW v \in reorder.ivs, v.min <= seq, seq < v.maxp1 PROVE FALSE
          OBVIOUS
        <4>1. v.min \in Nat /\ v.maxp1 \in Nat
          BY <2>1, IntervalIs
        <4>2. seq \in v.min .. (v.maxp1 - 1)
          BY <3>1, <4>1
        <4>3. seq \in known
          BY <4>2
        <4> QED
          BY <2>5, <4>3
      <3>3. seq \notin Stored
        <4> SUFFICES ASSUME NEW v \in reorder.ivs, NEW i \in 1..Len(v.sc), seq = v.sc[i], seq # 0 PROVE FALSE
          BY DEF Stored
        <4> DEFINE n == Len(v.sc)
        <4>1. v.min \in Nat /\ v.maxp1 \in Nat /\ n \in Nat
          BY <2>1, IntervalIs
        <4>2. v.min + i - 1 <= seq /\ seq <= v.maxp1 - 1 - (n - i)
          BY <2>1, IntervalIs DEF Fits
        <4>3. i \in 1..n
          OBVIOUS
        <4>4. \A a, b \in Nat : a + i - 1 <= seq /\ seq <= b - 1 - (n - i) => a <= seq /\ seq < b
          <5> HIDE DEF n
          <5> QED
            BY <3>1, <4>1, <4>3
        <4> QED
          BY <3>2, <4>1, <4>2, <4>4
      <3>4. LookupPredEq(reorder.ivs, seq).maxp1 <= seq
        <4> DEFINE p == LookupPredEq(reorder.ivs, seq)
        <4>1. CASE \E w \in reorder.ivs : w.min <= seq
          <5>1. p \in reorder.ivs /\ p.min <= seq
            BY <2>1, <4>1, LookupIs
          <5>2. p.maxp1 \in Nat
            BY <2>1, <5>1, IntervalIs
          <5> HIDE DEF p
          <5>3. p.maxp1 <= seq
            BY <3>1, <3>2, <5>1, <5>2
          <5> QED
            BY <5>3 DEF p
        <4>2. CASE ~(\E w \in reorder.ivs : w.min <= seq)
          <5>1. p = NoInterval
            BY <2>1, <4>2, LookupIs
          <5>2. NoInterval.maxp1 = 0
            BY DEF NoInterval, Interval
          <5> HIDE DEF p
          <5>3. p.maxp1 <= seq
            BY <3>1, <5>1, <5>2
          <5> QED
            BY <5>3 DEF p
        <4> QED
          BY <4>1, <4>2
      <3> QED
        BY <3>1, <3>3, <3>4 DEF nn_reorder_wantsample
    <2> QED
      BY <2>6 DEF NacksAreWanted, map
  <1> QED
    BY <1>1, AlwaysIInv, PTL
=============================================================================
