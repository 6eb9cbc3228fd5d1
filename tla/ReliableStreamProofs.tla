------------------------ MODULE ReliableStreamProofs ------------------------
(***************************************************************************)
(* The reliable protocol delivers in order what it owes, and what it       *)
(* acknowledges it has delivered: for any network, stream and buffer as    *)
(* long as the reader catches up, and for good when the writer keeps       *)
(* everything and the buffer is as long as the stream.                     *)
(***************************************************************************)
EXTENDS ReliableStream, FiniteSetTheorems, WellFoundedInduction, SequenceTheorems, TLAPS

\* The reorder administration, with what is proved of it.
RB == INSTANCE ReorderBufferProofs WITH MaxSeq <- 1, Modes <- {"NORMAL"}, reorder <- rd.own,
                                        last_seq <- 0, unavailable <- {}, delivered <- <<>>

----------------------------------------------------------------------------
(* Numbers and sequences.                                                   *)

\* A nonempty set of natural numbers has a least element.
LEMMA LeastNumber ==
    ASSUME NEW S, S \subseteq Nat, S # {}
    PROVE  \E x \in S : \A y \in S : x <= y
  <1>1. PICK x \in S : \A y \in S : ~(<<y, x>> \in OpToRel(<, Nat))
    BY NatLessThanWellFounded, WFMin, Zenon
  <1>2. \A y \in S : ~(y < x)
    BY <1>1 DEF OpToRel
  <1> QED
    BY <1>2

\* So has a set of integers that has a lower bound.
LEMMA LeastOfInts ==
    ASSUME NEW S, NEW a \in Int, S \subseteq Int, \A x \in S : a <= x, S # {}
    PROVE  \E x \in S : \A y \in S : x <= y
  <1> DEFINE T == {x - a : x \in S}
  <1>1. T \subseteq Nat /\ T # {}
    <2>1. \A x \in S : x \in Int /\ x - a >= 0
      OBVIOUS
    <2>2. \A x \in S : x - a \in Nat
      BY <2>1
    <2>3. PICK x \in S : TRUE
      OBVIOUS
    <2>4. x - a \in T
      BY <2>3
    <2> QED
      BY <2>2, <2>4
  <1>2. PICK t \in T : \A y \in T : t <= y
    <2> HIDE DEF T
    <2> QED
      BY <1>1, LeastNumber
  <1>3. PICK x \in S : t = x - a
    OBVIOUS
  <1>4. \A y \in S : x - a <= y - a
    BY <1>2, <1>3
  <1>5. ASSUME NEW y \in S PROVE x <= y
    <2>1. x \in Int /\ y \in Int /\ x - a <= y - a
      BY <1>4
    <2> HIDE DEF T
    <2> QED
      BY <2>1
  <1> QED
    BY <1>5

\* Induction over an interval, stated with a set for the property.
LEMMA IntervalInduction ==
    ASSUME NEW a \in Int, NEW b \in Int, NEW P,
           a <= b => a \in P, \A n \in a..b : n \in P /\ n < b => n + 1 \in P
    PROVE  a..b \subseteq P
  <1> DEFINE bad == (a..b) \ P
  <1> SUFFICES ASSUME bad # {} PROVE FALSE
    OBVIOUS
  <1>1. bad \subseteq Int /\ \A x \in bad : a <= x
    OBVIOUS
  <1>2. PICK x \in bad : \A y \in bad : x <= y
    <2> HIDE DEF bad
    <2> QED
      BY <1>1, LeastOfInts
  <1>3. x # a /\ x \in a..b
    OBVIOUS
  <1>4. x - 1 \in a..b /\ x - 1 < b
    BY <1>3
  <1>5. x - 1 \in P
    BY <1>2, <1>4
  <1>6. (x - 1) + 1 \in P
    BY <1>4, <1>5
  <1> QED
    BY <1>3, <1>6

\* The larger and the smaller of two numbers.
LEMMA MaxOfTwo ==
    ASSUME NEW a \in Int, NEW b \in Int
    PROVE  /\ Max({a, b}) \in {a, b} /\ a <= Max({a, b}) /\ b <= Max({a, b})
           /\ Min({a, b}) \in {a, b} /\ Min({a, b}) <= a /\ Min({a, b}) <= b
  <1> DEFINE S == {a, b}
  <1>1. (\E x \in S : \A y \in S : x >= y) /\ (\E x \in S : \A y \in S : x <= y)
    <2>1. CASE a <= b
      BY <2>1
    <2>2. CASE b <= a
      BY <2>2
    <2> QED
      BY <2>1, <2>2
  <1>2. a \in S /\ b \in S
    OBVIOUS
  <1>3. Max(S) \in S /\ (\A y \in S : Max(S) >= y) /\ Min(S) \in S /\ \A y \in S : Min(S) <= y
    <2> HIDE DEF S
    <2> QED
      BY <1>1 DEF Max, Min
  <1> QED
    BY <1>2, <1>3

\* The least of a set of natural numbers.
LEMMA MinIs ==
    ASSUME NEW S, S \subseteq Nat, S # {}
    PROVE  Min(S) \in S /\ \A y \in S : Min(S) <= y
  BY LeastNumber DEF Min

\* The largest of a bounded set of natural numbers.
LEMMA MaxIs ==
    ASSUME NEW N \in Nat, NEW S \in SUBSET (0..N), S # {}
    PROVE  Max(S) \in S /\ \A y \in S : y <= Max(S)
  <1> DEFINE T == {N - x : x \in S}
  <1>1. T \subseteq Nat /\ T # {}
    <2>1. \A x \in S : x \in Int /\ N - x >= 0
      OBVIOUS
    <2>2. \A x \in S : N - x \in Nat
      BY <2>1
    <2>3. PICK x \in S : TRUE
      OBVIOUS
    <2>4. N - x \in T
      BY <2>3
    <2> QED
      BY <2>2, <2>4
  <1>2. PICK t \in T : \A y \in T : t <= y
    <2> HIDE DEF T
    <2> QED
      BY <1>1, LeastNumber
  <1>3. PICK x \in S : t = N - x
    OBVIOUS
  <1>4. \A y \in S : N - x <= N - y
    BY <1>2, <1>3
  <1>5. \A y \in S : x >= y
    BY <1>4
  <1> QED
    BY <1>5 DEF Max

\* Where a run of consecutive numbers ends.
LEMMA FirstOutside ==
    ASSUME NEW N \in Nat, NEW S \in SUBSET (0..N), NEW a \in S
    PROVE  \E b \in (a + 1)..(N + 1) : b \notin S /\ a..(b - 1) \subseteq S /\ b - 1 \in S
  <1> DEFINE T == {x \in (a + 1)..(N + 1) : x \notin S}
  <1>1. N + 1 \in T
    OBVIOUS
  <1>2. a \in Int /\ T \subseteq Int /\ T # {} /\ \A x \in T : a <= x
    BY <1>1
  <1>3. PICK b \in T : \A y \in T : b <= y
    <2> HIDE DEF T
    <2> QED
      BY <1>2, LeastOfInts
  <1>4. \A x \in a..(b - 1) : x \in S
    <2> TAKE x \in a..(b - 1)
    <2>1. CASE x = a
      BY <2>1
    <2>2. CASE x # a
      BY <1>3, <2>2
    <2> QED
      BY <2>1, <2>2
  <1>5. b - 1 \in a..(b - 1)
    OBVIOUS
  <1> QED
    BY <1>4, <1>5

----------------------------------------------------------------------------
(* Samples, a recursive function over the elements of a chain.              *)

IsPick(f, sc, n) ==
    f = [i \in 0..n |-> IF i = 0 THEN <<>>
                        ELSE IF sc[i] = 0 THEN f[i - 1] ELSE Append(f[i - 1], sc[i])]

\* The function that picks the samples of a chain, place by place.
LEMMA PickIs ==
    ASSUME NEW f, NEW sc, NEW n \in Nat, IsPick(f, sc, n), NEW i \in 0..n
    PROVE  f[i] = IF i = 0 THEN <<>> ELSE IF sc[i] = 0 THEN f[i - 1] ELSE Append(f[i - 1], sc[i])
  BY Zenon DEF IsPick

\* There is such a function.
LEMMA PickExists ==
    ASSUME NEW sc, NEW m \in Nat
    PROVE  \E f : IsPick(f, sc, m)
  <1> DEFINE P == {n \in 0..m : \E f : IsPick(f, sc, n)}
  <1>1. 0 \in P
    <2> DEFINE f == [i \in 0..0 |-> <<>>]
    <2>1. \A i \in 0..0 : i = 0
      OBVIOUS
    <2>2. f = [i \in 0..0 |-> IF i = 0 THEN <<>> ELSE IF sc[i] = 0 THEN f[i - 1] ELSE Append(f[i - 1], sc[i])]
      BY <2>1, Zenon
    <2>3. IsPick(f, sc, 0)
      BY <2>2, Zenon DEF IsPick
    <2> QED
      BY <2>3
  <1>2. ASSUME NEW n \in 0..m, n \in P, n < m
        PROVE  n + 1 \in P
    <2>1. PICK g : IsPick(g, sc, n)
      BY <1>2
    <2> DEFINE f == [i \in 0..(n + 1) |->
                       IF i = n + 1 THEN IF sc[i] = 0 THEN g[n] ELSE Append(g[n], sc[i]) ELSE g[i]]
               E(i) == IF i = 0 THEN <<>> ELSE IF sc[i] = 0 THEN f[i - 1] ELSE Append(f[i - 1], sc[i])
    <2>2. \A i \in 0..(n + 1) : f[i] = E(i)
      <3> TAKE i \in 0..(n + 1)
      <3>1. CASE i = n + 1
        <4>1. i - 1 = n /\ i # 0 /\ n \in 0..(n + 1) /\ n # n + 1
          BY <3>1
        <4>2. f[n] = g[n]
          BY <4>1
        <4>3. f[i] = IF sc[i] = 0 THEN g[n] ELSE Append(g[n], sc[i])
          BY <3>1
        <4> QED
          BY <4>1, <4>2, <4>3
      <3>2. CASE i # n + 1
        <4>1. i \in 0..n
          BY <3>2
        <4>2. f[i] = g[i] /\ (i # 0 => f[i - 1] = g[i - 1])
          BY <4>1
        <4>3. g[i] = IF i = 0 THEN <<>> ELSE IF sc[i] = 0 THEN g[i - 1] ELSE Append(g[i - 1], sc[i])
          BY <2>1, <4>1, PickIs
        <4> QED
          BY <4>2, <4>3
      <3> QED
        BY <3>1, <3>2
    <2>3. f = [i \in 0..(n + 1) |-> f[i]]
      BY Zenon
    <2> HIDE DEF f
    <2>4. [i \in 0..(n + 1) |-> f[i]] = [i \in 0..(n + 1) |-> E(i)]
      BY <2>2
    <2>5. IsPick(f, sc, n + 1)
      BY <2>3, <2>4 DEF IsPick
    <2> QED
      BY <1>2, <2>5
  <1>3. 0..m \subseteq P
    <2> HIDE DEF P
    <2> QED
      BY <1>1, <1>2, IntervalInduction
  <1> QED
    BY <1>3

Increasing(s) == \A i, j \in 1..Len(s) : i < j => s[i] < s[j]
Elements(s) == {s[i] : i \in 1..Len(s)}

\* One element more at the end.
LEMMA ElementsAppend ==
    ASSUME NEW T, NEW s \in Seq(T), NEW x \in T
    PROVE  /\ Append(s, x) \in Seq(T) /\ Len(Append(s, x)) = Len(s) + 1
           /\ \A i \in 1..Len(s) : Append(s, x)[i] = s[i]
           /\ Append(s, x)[Len(s) + 1] = x
           /\ Elements(Append(s, x)) = Elements(s) \cup {x}
  <1>1. /\ Append(s, x) \in Seq(T) /\ Len(Append(s, x)) = Len(s) + 1
        /\ \A i \in 1..Len(s) : Append(s, x)[i] = s[i]
        /\ Append(s, x)[Len(s) + 1] = x
    BY AppendProperties
  <1>2. Len(s) \in Nat
    OBVIOUS
  <1>3. 1..(Len(s) + 1) = 1..Len(s) \cup {Len(s) + 1}
    BY <1>2
  <1> QED
    BY <1>1, <1>2, <1>3 DEF Elements

\* The samples of a chain, without the places of the gaps.
LEMMA SamplesAre ==
    ASSUME NEW Q, NEW sc \in Seq(Q), Q \subseteq Nat
    PROVE  /\ Samples(sc) \in Seq(Q \ {0})
           /\ Elements(Samples(sc)) = Elements(sc) \ {0}
           /\ RB!Rising(sc) => Increasing(Samples(sc))
  <1> DEFINE m == Len(sc)
             c == CHOOSE f : IsPick(f, sc, m)
  <1>1. m \in Nat /\ \A i \in 1..m : sc[i] \in Q
    OBVIOUS
  <1>2. IsPick(c, sc, m)
    BY <1>1, PickExists, Zenon
  <1>3. Samples(sc) = c[m]
    BY Zenon DEF Samples, IsPick
  <1> HIDE DEF c
  <1> DEFINE P == {n \in 0..m : /\ c[n] \in Seq(Q \ {0})
                                /\ Elements(c[n]) = {sc[i] : i \in 1..n} \ {0}
                                /\ RB!Rising(sc) => Increasing(c[n])}
  <1>4. 0 \in P
    <2>1. c[0] = <<>>
      BY <1>1, <1>2, PickIs
    <2>2. Elements(<<>>) = {} /\ Increasing(<<>>)
      BY DEF Elements, Increasing
    <2>3. <<>> \in Seq(Q \ {0})
      OBVIOUS
    <2>4. {sc[i] : i \in 1..0} \ {0} = {}
      OBVIOUS
    <2>5. 0 \in 0..m
      BY <1>1
    <2> QED
      BY <2>1, <2>2, <2>3, <2>4, <2>5
  <1>5. ASSUME NEW n \in 0..m, n \in P, n < m
        PROVE  n + 1 \in P
    <2>1. c[n + 1] = IF sc[n + 1] = 0 THEN c[n] ELSE Append(c[n], sc[n + 1])
      <3>1. n + 1 \in 0..m /\ n + 1 # 0 /\ (n + 1) - 1 = n
        BY <1>1, <1>5
      <3> QED
        BY <1>1, <1>2, <3>1, PickIs
    <2>2. {sc[i] : i \in 1..(n + 1)} = {sc[i] : i \in 1..n} \cup {sc[n + 1]}
      <3>1. 1..(n + 1) = 1..n \cup {n + 1}
        OBVIOUS
      <3> QED
        BY <3>1
    <2>3. n + 1 \in 0..m /\ n + 1 \in 1..m
      BY <1>1, <1>5
    <2>4. CASE sc[n + 1] = 0
      BY <1>5, <2>1, <2>2, <2>3, <2>4
    <2>5. CASE sc[n + 1] # 0
      <3> DEFINE s == c[n]  x == sc[n + 1]
      <3>1. x \in Q \ {0} /\ s \in Seq(Q \ {0}) /\ c[n + 1] = Append(s, x)
        BY <1>1, <1>5, <2>1, <2>3, <2>5
      <3>2. /\ Append(s, x) \in Seq(Q \ {0}) /\ Len(Append(s, x)) = Len(s) + 1
            /\ \A i \in 1..Len(s) : Append(s, x)[i] = s[i]
            /\ Append(s, x)[Len(s) + 1] = x
            /\ Elements(Append(s, x)) = Elements(s) \cup {x}
        BY <3>1, ElementsAppend
      <3>3. RB!Rising(sc) => \A k \in 1..Len(s) : s[k] < x
        <4> SUFFICES ASSUME RB!Rising(sc), NEW k \in 1..Len(s) PROVE s[k] < x
          OBVIOUS
        <4>1. s[k] \in Elements(s)
          BY DEF Elements
        <4>2. PICK i \in 1..n : s[k] = sc[i] /\ sc[i] # 0
          BY <1>5, <4>1
        <4>3. i \in 1..m /\ i < n + 1
          BY <1>1, <2>3
        <4> QED
          BY <2>3, <2>5, <4>2, <4>3 DEF RB!Rising
      <3>4. RB!Rising(sc) => Increasing(Append(s, x))
        <4> SUFFICES ASSUME RB!Rising(sc), NEW i \in 1..(Len(s) + 1), NEW j \in 1..(Len(s) + 1), i < j
                     PROVE  Append(s, x)[i] < Append(s, x)[j]
          BY <3>2 DEF Increasing
        <4>1. Len(s) \in Nat /\ Increasing(s)
          BY <1>5, <3>1
        <4>2. i \in 1..Len(s)
          BY <4>1
        <4> HIDE DEF s, x
        <4>3. CASE j = Len(s) + 1
          BY <3>2, <3>3, <4>2, <4>3
        <4>4. CASE j # Len(s) + 1
          <5>1. j \in 1..Len(s)
            BY <4>1, <4>4
          <5> QED
            BY <3>2, <4>1, <4>2, <5>1 DEF Increasing
        <4> QED
          BY <4>3, <4>4
      <3>5. Elements(Append(s, x)) = {sc[i] : i \in 1..(n + 1)} \ {0}
        BY <1>5, <2>2, <2>5, <3>2
      <3> QED
        BY <2>3, <3>1, <3>2, <3>4, <3>5
    <2> QED
      BY <2>4, <2>5
  <1>6. 0..m \subseteq P
    <2> HIDE DEF P, m
    <2> QED
      BY <1>1, <1>4, <1>5, IntervalInduction
  <1>7. m \in P
    <2>1. m \in 0..m
      BY <1>1
    <2> HIDE DEF P, m
    <2> QED
      BY <1>6, <2>1
  <1> QED
    BY <1>3, <1>7 DEF Elements

----------------------------------------------------------------------------
(* One reorder administration.                                              *)

\* The instance of ReorderBufferProofs is about the same operators: a sample,
LEMMA SameSample ==
    ASSUME NEW r, NEW seq, NEW full
    PROVE  RB!nn_reorder_rsample(r, seq, full) = nn_reorder_rsample(r, seq, full)
  BY DEF RB!nn_reorder_rsample, nn_reorder_rsample, RB!Interval, Interval, RB!DeliverSample, DeliverSample,
         RB!FindMin, FindMin, RB!FindMax, FindMax, RB!NoInterval, NoInterval, RB!Result, Result,
         RB!Refuse, Refuse, RB!Accept, Accept, RB!AddAtEnd, AddAtEnd,
         RB!append_rsample_interval, append_rsample_interval, RB!InsertSample, InsertSample,
         RB!LookupPredEq, LookupPredEq, RB!Lookup, Lookup,
         RB!CountOrDeleteLast, CountOrDeleteLast, RB!delete_last_sample, delete_last_sample

\* a gap,
LEMMA SameGap ==
    ASSUME NEW r, NEW min, NEW maxp1
    PROVE  RB!nn_reorder_gap(r, min, maxp1) = nn_reorder_gap(r, min, maxp1)
  BY DEF RB!nn_reorder_gap, nn_reorder_gap, RB!Interval, Interval, RB!Touching, Touching,
         RB!coalesce_intervals_touching_range, coalesce_intervals_touching_range, RB!ChainOf, ChainOf,
         RB!Max, Max, RB!Min, Min,
         RB!FindMin, FindMin, RB!FindMax, FindMax, RB!NoInterval, NoInterval, RB!Result, Result,
         RB!Refuse, Refuse, RB!Accept, Accept,
         RB!CountOrDeleteLast, CountOrDeleteLast, RB!delete_last_sample, delete_last_sample

\* and the administration at the start.
LEMMA SameNew == RB!nn_reorder_new("NORMAL", MaxSamples) = nn_reorder_new("NORMAL", MaxSamples)
  BY DEF RB!nn_reorder_new, nn_reorder_new, RB!NoInterval, NoInterval, RB!Interval, Interval

Numbers == Nat \ {0}

\* An administration of samples in lo..N that is sound, whatever is taken to
\* be unavailable.
Sound(a, lo, N) ==
    /\ a \in RB!Reorders /\ a.mode = "NORMAL" /\ a.max_samples = MaxSamples
    /\ RB!ROK(a, Numbers) /\ RB!Chains(a.ivs, {0} \cup lo..N)

\* Nothing but the numbers of un is skipped.
Sure(a, un) == RB!ROK(a, un) /\ RB!GapsBegin(a, un)

\* It holds all of its numbers.
Holds(a, N) == RB!Has(a) \subseteq 1..N /\ N <= MaxSamples + 1

\* The buffer holds at least one sample.
LEMMA Administration == RB!ReorderAssumption
  BY StreamAssumption DEF RB!ReorderAssumption

\* When any number may be unavailable, gaps may begin anywhere.
LEMMA AnythingMissing == \A a : RB!GapsBegin(a, Numbers)
  <1>1. \A n \in Numbers : n - 1 \in Numbers \cup {0}
    BY DEF Numbers
  <1> QED
    BY <1>1 DEF RB!GapsBegin

\* What a message does to an administration.
Taken(o, a, lo, N) ==
    /\ Sound(o.reorder, lo, N) /\ o.sc \in Seq({0} \cup lo..N) /\ a.next_seq <= o.reorder.next_seq
    /\ o.reorder.next_seq \in Numbers /\ a.next_seq \in Numbers

\* What ReorderBufferProofs says of an answer, in terms of lo..N.
LEMMA Good_Taken ==
    ASSUME NEW lo \in Numbers, NEW N \in Nat, NEW a, Sound(a, lo, N), NEW o,
           RB!Good(o, a, Numbers), RB!Chains(o.reorder.ivs, {0} \cup lo..N), o.sc \in Seq({0} \cup lo..N)
    PROVE  Taken(o, a, lo, N)
  <1>1. /\ o.reorder \in RB!Reorders /\ o.reorder.mode = a.mode /\ o.reorder.max_samples = a.max_samples
        /\ RB!ROK(o.reorder, Numbers)
    BY DEF RB!Good
  <1>2. a.mode = "NORMAL" /\ a \in RB!Reorders
    BY DEF Sound
  <1>3. a.next_seq <= o.reorder.next_seq
    BY <1>2 DEF RB!Good
  <1> QED
    BY <1>1, <1>2, <1>3 DEF Taken, Sound, RB!Reorders, Numbers

\* And nothing but the numbers of un is skipped afterwards.
LEMMA Good_Sure ==
    ASSUME NEW lo \in Numbers, NEW N \in Nat, NEW a, Sound(a, lo, N), NEW o, NEW un \in SUBSET Numbers,
           RB!Good(o, a, un), RB!GapsBegin(a, un)
    PROVE  Sure(o.reorder, un)
  <1>1. a.mode = "NORMAL" /\ a \in RB!Reorders
    BY DEF Sound
  <1>2. /\ o.reorder \in RB!Reorders /\ o.reorder.mode = a.mode /\ o.reorder.max_samples = a.max_samples
        /\ RB!ROK(o.reorder, un) /\ a.next_seq <= o.reorder.next_seq
    BY <1>1 DEF RB!Good
  <1>3. RB!GapsBegin(o.reorder, un)
    BY <1>1, <1>2, RB!GapsStillBegin, Administration DEF Numbers
  <1> QED
    BY <1>2, <1>3 DEF Sure

\* A sample keeps the administration sound, skips nothing, and is held when there
\* is room (nn_reorder_rsample).
LEMMA SampleArrives ==
    ASSUME NEW lo \in Numbers, NEW N \in Nat, NEW a, Sound(a, lo, N), NEW seq \in lo..N
    PROVE  LET o == nn_reorder_rsample(a, seq, FALSE)
           IN /\ Taken(o, a, lo, N)
              /\ \A un \in SUBSET Numbers : Sure(a, un) => RB!Good(o, a, un) /\ Sure(o.reorder, un)
              /\ Holds(a, N) => RB!Has(o.reorder) = RB!Has(a) \cup {seq} /\ Holds(o.reorder, N)
  <1> DEFINE o == nn_reorder_rsample(a, seq, FALSE)
             Q == {0} \cup lo..N
  <1>1. /\ a \in RB!Reorders /\ a.mode = "NORMAL" /\ RB!ROK(a, Numbers) /\ RB!Chains(a.ivs, Q)
        /\ a.max_samples = MaxSamples
    BY DEF Sound
  <1>2. seq \in Nat \ {0} /\ seq \in Q /\ Numbers \in SUBSET (Nat \ {0}) /\ seq \in 1..N
    BY DEF Numbers
  <1>3. o = RB!nn_reorder_rsample(a, seq, FALSE)
    BY SameSample
  <1> HIDE DEF o, Q
  <1>4. ASSUME NEW un \in SUBSET Numbers, Sure(a, un) PROVE RB!Good(o, a, un)
    <2>1. RB!ROK(a, un) /\ RB!GapsBegin(a, un)
      BY <1>4 DEF Sure
    <2> QED
      BY <1>1, <1>2, <1>3, <2>1, RB!SampleGood, Administration DEF Numbers
  <1>5. Sure(a, Numbers)
    BY <1>1, AnythingMissing DEF Sure
  <1>6. /\ RB!Chains(o.reorder.ivs, Q) /\ o.sc \in Seq(Q)
        /\ seq \in RB!Has(a) \cup {a.next_seq} \/ a.n_samples < a.max_samples => RB!Has(o.reorder) = RB!Has(a) \cup {seq}
    BY <1>1, <1>2, <1>3, RB!SampleHas, Administration
  <1>7. ASSUME Holds(a, N)
        PROVE  RB!Has(o.reorder) = RB!Has(a) \cup {seq} /\ Holds(o.reorder, N)
    <2>1. RB!Has(a) \subseteq 1..N /\ N <= a.max_samples + 1
      BY <1>1, <1>7 DEF Holds
    <2>2. seq \in RB!Has(a) \cup {a.next_seq} \/ a.n_samples < a.max_samples
      BY <1>1, <1>2, <2>1, RB!AlwaysRoom, Administration
    <2> QED
      BY <1>2, <1>6, <1>7, <2>2 DEF Holds
  <1>8. Taken(o, a, lo, N)
    BY <1>4, <1>5, <1>6, Good_Taken DEF Q
  <1>9. \A un \in SUBSET Numbers : Sure(a, un) => RB!Good(o, a, un) /\ Sure(o.reorder, un)
    <2> SUFFICES ASSUME NEW un \in SUBSET Numbers, Sure(a, un) PROVE RB!Good(o, a, un) /\ Sure(o.reorder, un)
      OBVIOUS
    <2>1. RB!Good(o, a, un) /\ RB!GapsBegin(a, un)
      BY <1>4 DEF Sure
    <2> QED
      BY <2>1, Good_Sure
  <1> QED
    BY <1>7, <1>8, <1>9 DEF o

\* So does a gap for numbers that are not to be had (nn_reorder_gap).
LEMMA GapArrives ==
    ASSUME NEW lo \in Numbers, NEW N \in Nat, NEW a, Sound(a, lo, N),
           NEW min \in Numbers, NEW maxp1 \in Numbers, min < maxp1 \/ maxp1 <= a.next_seq
    PROVE  LET o == nn_reorder_gap(a, min, maxp1)
           IN /\ Taken(o, a, lo, N)
              /\ \A un \in SUBSET Numbers : Sure(a, un) /\ min..(maxp1 - 1) \subseteq un =>
                    RB!Good(o, a, un) /\ Sure(o.reorder, un)
              /\ Holds(a, N) /\ maxp1 <= N + 1 =>
                    RB!Has(o.reorder) = RB!Has(a) \cup min..(maxp1 - 1) /\ Holds(o.reorder, N)
  <1> DEFINE o == nn_reorder_gap(a, min, maxp1)
             Q == {0} \cup lo..N
  <1>1. /\ a \in RB!Reorders /\ a.mode = "NORMAL" /\ RB!ROK(a, Numbers) /\ RB!Chains(a.ivs, Q)
        /\ a.max_samples = MaxSamples
    BY DEF Sound
  <1>2. /\ min \in Nat \ {0} /\ min \in Nat /\ maxp1 \in Nat /\ 0 \in Q /\ Numbers \in SUBSET (Nat \ {0})
        /\ min..(maxp1 - 1) \subseteq Numbers
    BY DEF Numbers
  <1>3. o = RB!nn_reorder_gap(a, min, maxp1)
    BY SameGap
  <1> HIDE DEF o, Q
  <1>4. ASSUME NEW un \in SUBSET Numbers, Sure(a, un), min..(maxp1 - 1) \subseteq un PROVE RB!Good(o, a, un)
    <2>1. RB!ROK(a, un) /\ RB!GapsBegin(a, un)
      BY <1>4 DEF Sure
    <2> QED
      BY <1>1, <1>2, <1>3, <1>4, <2>1, RB!GapGood, Administration DEF Numbers
  <1>5. Sure(a, Numbers)
    BY <1>1, AnythingMissing DEF Sure
  <1>6. /\ RB!Chains(o.reorder.ivs, Q) /\ o.sc \in Seq(Q)
        /\ min..(maxp1 - 1) \subseteq RB!Has(a) \/ a.n_samples < a.max_samples \/ min <= a.next_seq =>
              RB!Has(o.reorder) = RB!Has(a) \cup min..(maxp1 - 1)
    <2> DEFINE g == RB!nn_reorder_gap(a, min, maxp1)
    <2>1. /\ RB!Chains(g.reorder.ivs, Q) /\ g.sc \in Seq(Q)
          /\ min..(maxp1 - 1) \subseteq RB!Has(a) \/ a.n_samples < a.max_samples \/ min <= a.next_seq =>
                RB!Has(g.reorder) = RB!Has(a) \cup min..(maxp1 - 1)
      BY <1>1, <1>2, RB!GapHas, Administration
    <2>2. o = g
      BY <1>3
    <2> HIDE DEF g
    <2> QED
      BY <2>1, <2>2
  <1>7. ASSUME Holds(a, N), maxp1 <= N + 1
        PROVE  RB!Has(o.reorder) = RB!Has(a) \cup min..(maxp1 - 1) /\ Holds(o.reorder, N)
    <2>1. RB!Has(a) \subseteq 1..N /\ N <= a.max_samples + 1
      BY <1>1, <1>7 DEF Holds
    <2>2. min..(maxp1 - 1) \subseteq RB!Has(a) \/ a.n_samples < a.max_samples \/ min <= a.next_seq
      <3>1. maxp1 \in 0..(N + 1)
        BY <1>2, <1>7
      <3> QED
        BY <1>1, <1>2, <2>1, <3>1, RB!AlwaysRoom, Administration
    <2>3. min..(maxp1 - 1) \subseteq 1..N
      BY <1>2, <1>7
    <2> QED
      BY <1>6, <1>7, <2>2, <2>3 DEF Holds
  <1>8. Taken(o, a, lo, N)
    BY <1>2, <1>4, <1>5, <1>6, Good_Taken DEF Q
  <1>9. \A un \in SUBSET Numbers : Sure(a, un) /\ min..(maxp1 - 1) \subseteq un =>
                    RB!Good(o, a, un) /\ Sure(o.reorder, un)
    <2> SUFFICES ASSUME NEW un \in SUBSET Numbers, Sure(a, un), min..(maxp1 - 1) \subseteq un
                 PROVE  RB!Good(o, a, un) /\ Sure(o.reorder, un)
      OBVIOUS
    <2>1. RB!Good(o, a, un) /\ RB!GapsBegin(a, un)
      BY <1>4 DEF Sure
    <2> QED
      BY <2>1, Good_Sure
  <1> QED
    BY <1>7, <1>8, <1>9 DEF o

----------------------------------------------------------------------------
(* What is delivered.                                                        *)

\* One sequence after another.
LEMMA Joined ==
    ASSUME NEW T, NEW s \in Seq(T), NEW t \in Seq(T)
    PROVE  /\ s \o t \in Seq(T) /\ Elements(s \o t) = Elements(s) \cup Elements(t)
           /\ Len(s \o t) = Len(s) + Len(t)
           /\ \A i \in 1..Len(s) : (s \o t)[i] = s[i]
           /\ \A i \in 1..Len(t) : (s \o t)[Len(s) + i] = t[i]
  <1>1. Len(s) \in Nat /\ Len(t) \in Nat
    OBVIOUS
  <1>2. /\ s \o t \in Seq(T) /\ Len(s \o t) = Len(s) + Len(t)
        /\ \A i \in 1..(Len(s) + Len(t)) : (s \o t)[i] = IF i <= Len(s) THEN s[i] ELSE t[i - Len(s)]
    BY ConcatProperties
  <1>3. \A i \in 1..Len(s) : (s \o t)[i] = s[i]
    <2> TAKE i \in 1..Len(s)
    <2>1. i \in 1..(Len(s) + Len(t)) /\ i <= Len(s)
      BY <1>1
    <2> QED
      BY <1>2, <2>1
  <1>4. \A i \in 1..Len(t) : (s \o t)[Len(s) + i] = t[i]
    <2> TAKE i \in 1..Len(t)
    <2>1. Len(s) + i \in 1..(Len(s) + Len(t)) /\ ~(Len(s) + i <= Len(s)) /\ (Len(s) + i) - Len(s) = i
      BY <1>1
    <2> QED
      BY <1>2, <2>1
  <1>5. \A k \in 1..(Len(s) + Len(t)) : k \in 1..Len(s) \/ \E i \in 1..Len(t) : k = Len(s) + i
    <2> TAKE k \in 1..(Len(s) + Len(t))
    <2>1. CASE k <= Len(s)
      BY <2>1
    <2>2. CASE ~(k <= Len(s))
      <3>1. k - Len(s) \in 1..Len(t) /\ k = Len(s) + (k - Len(s))
        BY <1>1, <2>2
      <3> QED
        BY <3>1
    <2> QED
      BY <2>1, <2>2
  <1>6. \A i \in 1..Len(s) : i \in 1..(Len(s) + Len(t))
    BY <1>1
  <1>7. \A i \in 1..Len(t) : Len(s) + i \in 1..(Len(s) + Len(t))
    BY <1>1
  <1>8. Elements(s \o t) \subseteq Elements(s) \cup Elements(t)
    <2> SUFFICES ASSUME NEW k \in 1..(Len(s) + Len(t)) PROVE (s \o t)[k] \in Elements(s) \cup Elements(t)
      BY <1>2 DEF Elements
    <2> QED
      BY <1>3, <1>4, <1>5 DEF Elements
  <1>9. Elements(s) \subseteq Elements(s \o t)
    BY <1>2, <1>3, <1>6 DEF Elements
  <1>10. Elements(t) \subseteq Elements(s \o t)
    BY <1>2, <1>4, <1>7 DEF Elements
  <1> QED
    BY <1>2, <1>3, <1>4, <1>8, <1>9, <1>10

\* The delivered samples are those of an administration's past: in order, and
\* none of its numbers is passed over that is not given up.
Served(dl, cur, base, lo, N) ==
    /\ dl \in Seq(lo..N) /\ Increasing(dl) /\ \A i \in 1..Len(dl) : dl[i] < cur.next_seq
    /\ \A n \in 1..(cur.next_seq - 1) : n \in base \cup Elements(dl)
    /\ \E un \in SUBSET (base \cup Elements(dl)) : Sure(cur, un)

\* The elements of a sequence are of its type.
LEMMA ElementsType ==
    ASSUME NEW T, NEW s \in Seq(T)
    PROVE  Elements(s) \subseteq T
  BY DEF Elements

\* What the administration gives out goes on where delivery had stopped.
LEMMA ServedMore ==
    ASSUME NEW lo \in Numbers, NEW N \in Nat, NEW base \in SUBSET Numbers, NEW a, Sound(a, lo, N),
           NEW dl, Served(dl, a, base, lo, N), NEW o, Taken(o, a, lo, N),
           NEW un \in SUBSET (base \cup Elements(dl)), RB!Good(o, a, un), Sure(o.reorder, un)
    PROVE  Served(dl \o Samples(o.sc), o.reorder, base, lo, N)
  <1> DEFINE s == Samples(o.sc)  c == dl \o s  Q == {0} \cup lo..N  next == o.reorder.next_seq
  <1>1. /\ dl \in Seq(lo..N) /\ Increasing(dl) /\ \A i \in 1..Len(dl) : dl[i] < a.next_seq
        /\ \A n \in 1..(a.next_seq - 1) : n \in base \cup Elements(dl)
    BY DEF Served
  <1>2. a.mode = "NORMAL"
    BY DEF Sound
  <1>3. /\ RB!Rising(o.sc) /\ \A i \in 1..Len(o.sc) : o.sc[i] # 0 => a.next_seq <= o.sc[i] /\ o.sc[i] < next
        /\ \A n \in a.next_seq..(next - 1) : n \in un \/ \E i \in 1..Len(o.sc) : o.sc[i] = n
    BY <1>2 DEF RB!Good, RB!Explains, RB!InChain
  <1>4. a.next_seq \in Nat /\ next \in Nat /\ a.next_seq >= 1 /\ a.next_seq <= next /\ o.sc \in Seq(Q)
    BY DEF Taken, Numbers
  <1>5. s \in Seq(lo..N) /\ Elements(s) = Elements(o.sc) \ {0} /\ Increasing(s)
    <2>1. Q \subseteq Nat /\ Q \ {0} = lo..N
      BY DEF Numbers
    <2> HIDE DEF Q
    <2> QED
      BY <1>3, <1>4, <2>1, SamplesAre
  <1> HIDE DEF s, Q
  <1>6. /\ c \in Seq(lo..N) /\ Elements(c) = Elements(dl) \cup Elements(s) /\ Len(c) = Len(dl) + Len(s)
        /\ \A i \in 1..Len(dl) : c[i] = dl[i]
        /\ \A i \in 1..Len(s) : c[Len(dl) + i] = s[i]
    BY <1>1, <1>5, Joined
  <1> HIDE DEF c, next
  <1>7. \A i \in 1..Len(s) : s[i] \in Nat /\ a.next_seq <= s[i] /\ s[i] < next
    <2> TAKE i \in 1..Len(s)
    <2>1. s[i] \in Elements(o.sc) /\ s[i] # 0
      BY <1>5 DEF Elements
    <2>2. PICK k \in 1..Len(o.sc) : s[i] = o.sc[k]
      BY <2>1 DEF Elements
    <2>3. s[i] \in lo..N
      BY <1>5, ElementsType DEF Elements
    <2> QED
      BY <1>3, <2>1, <2>2, <2>3 DEF Numbers
  <1>8. \A i \in 1..Len(dl) : dl[i] \in Nat
    BY <1>1 DEF Numbers
  <1>9. \A k \in 1..Len(c) : k \in 1..Len(dl) \/ (k - Len(dl) \in 1..Len(s) /\ c[k] = s[k - Len(dl)])
    <2> TAKE k \in 1..Len(c)
    <2>1. Len(dl) \in Nat /\ Len(s) \in Nat
      BY <1>1, <1>5
    <2>2. CASE ~(k <= Len(dl))
      <3>1. k - Len(dl) \in 1..Len(s) /\ Len(dl) + (k - Len(dl)) = k
        BY <1>6, <2>1, <2>2
      <3> QED
        BY <1>6, <3>1
    <2> QED
      BY <2>1, <2>2
  <1>10. \A k \in 1..Len(c) : c[k] < next
    <2> TAKE k \in 1..Len(c)
    <2>1. CASE k \in 1..Len(dl)
      BY <1>1, <1>4, <1>6, <1>8, <2>1
    <2>2. CASE k \notin 1..Len(dl)
      BY <1>7, <1>9, <2>2
    <2> QED
      BY <2>1, <2>2
  <1>11. Increasing(c)
    <2> SUFFICES ASSUME NEW i \in 1..Len(c), NEW j \in 1..Len(c), i < j PROVE c[i] < c[j]
      BY DEF Increasing
    <2>1. CASE i \in 1..Len(dl) /\ j \in 1..Len(dl)
      BY <1>1, <1>6, <2>1 DEF Increasing
    <2>2. CASE i \in 1..Len(dl) /\ j \notin 1..Len(dl)
      <3>1. c[i] < a.next_seq /\ c[i] \in Nat
        BY <1>1, <1>6, <1>8, <2>2
      <3>2. c[j] \in Nat /\ a.next_seq <= c[j]
        BY <1>7, <1>9, <2>2
      <3> QED
        BY <1>4, <3>1, <3>2
    <2>3. CASE i \notin 1..Len(dl)
      <3>1. Len(dl) \in Nat
        BY <1>1
      <3>2. j \notin 1..Len(dl)
        BY <2>3, <3>1
      <3>3. /\ i - Len(dl) \in 1..Len(s) /\ c[i] = s[i - Len(dl)]
            /\ j - Len(dl) \in 1..Len(s) /\ c[j] = s[j - Len(dl)]
        BY <1>9, <2>3, <3>2
      <3>4. i - Len(dl) < j - Len(dl)
        BY <3>1
      <3> QED
        BY <1>5, <3>3, <3>4 DEF Increasing
    <2> QED
      BY <2>1, <2>2, <2>3
  <1>12. \A n \in 1..(next - 1) : n \in base \cup Elements(c)
    <2> TAKE n \in 1..(next - 1)
    <2>1. CASE n < a.next_seq
      <3>1. n \in 1..(a.next_seq - 1)
        BY <1>4, <2>1
      <3> QED
        BY <1>1, <1>6, <3>1
    <2>2. CASE ~(n < a.next_seq)
      <3>1. n \in a.next_seq..(next - 1) /\ n # 0
        BY <1>4, <2>2
      <3>2. n \in un \/ n \in Elements(o.sc)
        BY <1>3, <3>1 DEF Elements
      <3> QED
        BY <1>5, <1>6, <3>1, <3>2
    <2> QED
      BY <2>1, <2>2
  <1>13. un \in SUBSET (base \cup Elements(c))
    BY <1>6
  <1> QED
    BY <1>6, <1>10, <1>11, <1>12, <1>13 DEF Served, c, next, s

----------------------------------------------------------------------------
(* The reader with both of its administrations.                             *)

\* The writer keeps everything, and the buffer has room for all of the stream.
Roomy == Depths \subseteq {0} /\ MaxSeq <= MaxSamples + 1

Syncs == {"OUT_OF_SYNC", "TLCATCHUP", "SYNC"}
Trusted(sync) == sync = "OUT_OF_SYNC" \/ Roomy
Current(sync, all, one) == IF sync = "SYNC" THEN all ELSE one
New == nn_reorder_new("NORMAL", MaxSamples)

\* The reader's own administration has what the proxy writer's has, from the
\* first heartbeat on, but for what comes before that administration's first.
Together(hb, sync, all, one, lo, N) ==
    /\ RB!ROK(all, {}) /\ Holds(all, N)
    /\ sync # "SYNC" => Holds(one, N)
    /\ hb /\ sync # "SYNC" => RB!Has(all) = RB!Has(one) \cup 1..(all.next_seq - 1)
    /\ sync = "TLCATCHUP" => one.next_seq = all.next_seq
    /\ hb => lo <= all.next_seq

ReaderOK(hb, sync, all, one, dl, base, lo, N) ==
    /\ hb \in BOOLEAN /\ sync \in Syncs /\ Sound(all, lo, N) /\ Sound(one, lo, N) /\ dl \in Seq(lo..N)
    /\ ~hb => sync = "OUT_OF_SYNC" /\ all = New /\ one = New /\ dl = <<>>
    /\ Trusted(sync) => Served(dl, Current(sync, all, one), base, lo, N)
    /\ Roomy => Together(hb, sync, all, one, lo, N)

\* The numbers before lo are not owed to the reader; with a writer that keeps
\* everything no others are given up.
Owed(base, lo, N) ==
    /\ lo \in Numbers /\ N \in Nat /\ lo <= N + 1 /\ base \in SUBSET Numbers /\ 1..(lo - 1) \subseteq base
    /\ Roomy => base \subseteq 1..(lo - 1)

\* The next number of a sound administration.
LEMMA SoundNext ==
    ASSUME NEW a, NEW lo, NEW N, Sound(a, lo, N)
    PROVE  /\ a \in RB!Reorders /\ a.next_seq \in Nat /\ a.next_seq \in Numbers /\ a.next_seq >= 1
           /\ RB!ROK(a, Numbers)
  BY DEF Sound, RB!Reorders, Numbers

\* Who has more has got at least as far.
LEMMA NextOf ==
    ASSUME NEW a, NEW b, NEW lo, NEW N, Sound(a, lo, N), Sound(b, lo, N), RB!Has(a) \subseteq RB!Has(b)
    PROVE  a.next_seq <= b.next_seq
  BY SoundNext, RB!NextOfMore, Administration

\* It has everything before its next number.
LEMMA HasBefore ==
    ASSUME NEW a, NEW lo, NEW N, Sound(a, lo, N)
    PROVE  \A n \in 1..(a.next_seq - 1) : n \in RB!Has(a)
  BY SoundNext, RB!NextNotHere, Administration

\* Without gaps beyond next_seq, nothing is skipped.
LEMMA NothingMissing ==
    ASSUME NEW a, RB!ROK(a, {})
    PROVE  Sure(a, {})
  BY DEF Sure, RB!GapsBegin

\* An administration that skips numbers of un skips numbers of a larger set.
LEMMA SureOfMore ==
    ASSUME NEW a, NEW un, NEW more, un \subseteq more, RB!ROK(a, un)
    PROVE  RB!ROK(a, more)
  BY RB!MoreIsKnown, Administration

\* What is given up or delivered the proxy writer's administration is past.
LEMMA GoneIsPast ==
    ASSUME NEW sync, NEW all, NEW one, NEW dl, NEW base, NEW lo, NEW N, Owed(base, lo, N),
           ReaderOK(TRUE, sync, all, one, dl, base, lo, N), Roomy
    PROVE  /\ sync # "SYNC" => one.next_seq <= all.next_seq
           /\ \A n \in base \cup Elements(dl) : n \in Nat /\ n < all.next_seq
  <1>1. /\ Together(TRUE, sync, all, one, lo, N) /\ Sound(all, lo, N) /\ Sound(one, lo, N)
        /\ Served(dl, Current(sync, all, one), base, lo, N)
    BY DEF ReaderOK, Trusted
  <1>2. all.next_seq \in Nat /\ one.next_seq \in Nat
    BY <1>1, SoundNext
  <1>3. sync # "SYNC" => one.next_seq <= all.next_seq
    BY <1>1, NextOf DEF Together
  <1>4. Current(sync, all, one).next_seq <= all.next_seq /\ Current(sync, all, one).next_seq \in Nat
    BY <1>2, <1>3 DEF Current
  <1>5. \A n \in base : n \in Nat /\ n < all.next_seq
    BY <1>1, <1>2 DEF Owed, Together, Numbers
  <1>6. \A n \in Elements(dl) : n \in Nat /\ n < all.next_seq
    <2> SUFFICES ASSUME NEW i \in 1..Len(dl) PROVE dl[i] \in Nat /\ dl[i] < all.next_seq
      BY DEF Elements
    <2>1. dl \in Seq(lo..N) /\ dl[i] < Current(sync, all, one).next_seq
      BY <1>1 DEF Served
    <2>2. dl[i] \in Nat
      BY <2>1 DEF Owed, Numbers
    <2> QED
      BY <1>2, <1>4, <2>1, <2>2
  <1> QED
    BY <1>3, <1>5, <1>6

\* A gap before the next number changes nothing.
LEMMA PastIsTooOld ==
    ASSUME NEW a, NEW lo, NEW N, Sound(a, lo, N), NEW min, NEW maxp1 \in Nat, maxp1 <= a.next_seq
    PROVE  nn_reorder_gap(a, min, maxp1) = Refuse(a, "TOO_OLD") /\ nn_reorder_gap(a, min, maxp1).reorder = a
           /\ nn_reorder_gap(a, min, maxp1).sc = <<>>
  <1>1. ~(maxp1 > a.next_seq)
    BY SoundNext
  <1>2. nn_reorder_gap(a, min, maxp1) = Refuse(a, "TOO_OLD")
    BY <1>1 DEF nn_reorder_gap
  <1> QED
    BY <1>2 DEF Refuse, Result

\* An empty chain delivers nothing.
LEMMA NoSamples == Samples(<<>>) = <<>> /\ \A T : \A s \in Seq(T) : s \o <<>> = s
  <1>1. <<>> \in Seq({}) /\ {} \subseteq Nat
    OBVIOUS
  <1>2. Samples(<<>>) \in Seq({} \ {0})
    BY <1>1, SamplesAre
  <1>3. Samples(<<>>) = <<>>
    <2>1. Len(Samples(<<>>)) = 0
      <3> SUFFICES ASSUME Len(Samples(<<>>)) # 0 PROVE FALSE
        OBVIOUS
      <3>1. 1 \in 1..Len(Samples(<<>>))
        BY <1>2
      <3>2. Samples(<<>>)[1] \in {} \ {0}
        BY <1>2, <3>1
      <3> QED
        BY <3>2
    <2> QED
      BY <1>2, <2>1, EmptySeq
  <1>4. \A T : \A s \in Seq(T) : s \o <<>> = s
    OBVIOUS
  <1> QED
    BY <1>3, <1>4

\* What was delivered stays delivered.
LEMMA MoreDelivered ==
    ASSUME NEW lo \in Numbers, NEW N \in Nat, NEW dl \in Seq(lo..N), NEW sc \in Seq({0} \cup lo..N)
    PROVE  /\ dl \o Samples(sc) \in Seq(lo..N) /\ Elements(dl) \subseteq Elements(dl \o Samples(sc))
           /\ Samples(sc) \in Seq(lo..N)
  <1>1. {0} \cup lo..N \subseteq Nat /\ ({0} \cup lo..N) \ {0} = lo..N
    BY DEF Numbers
  <1>2. Samples(sc) \in Seq(lo..N)
    BY <1>1, SamplesAre
  <1> QED
    BY <1>2, Joined

\* Both administrations have taken the same numbers.
LEMMA StillTogether ==
    ASSUME NEW sync, NEW all, NEW one, NEW lo \in Numbers, NEW N \in Nat, Together(TRUE, sync, all, one, lo, N),
           Sound(all, lo, N), Sound(one, lo, N), sync # "SYNC", NEW X, NEW a, NEW o,
           Sound(a, lo, N), Sound(o, lo, N), RB!ROK(a, {}), Holds(a, N), Holds(o, N), all.next_seq <= a.next_seq,
           RB!Has(a) = RB!Has(all) \cup X, RB!Has(o) = RB!Has(one) \cup X
    PROVE  Together(TRUE, sync, a, o, lo, N)
  <1>1. all.next_seq \in Nat /\ a.next_seq \in Nat /\ one.next_seq \in Nat /\ o.next_seq \in Nat
    BY SoundNext
  <1>2. /\ \A n \in 1..(a.next_seq - 1) : n \in RB!Has(a)
        /\ \A n \in 1..(one.next_seq - 1) : n \in RB!Has(one)
    BY HasBefore
  <1>3. RB!Has(all) = RB!Has(one) \cup 1..(all.next_seq - 1)
    BY DEF Together
  <1>4. RB!Has(a) = RB!Has(o) \cup 1..(a.next_seq - 1)
    <2>1. 1..(all.next_seq - 1) \subseteq 1..(a.next_seq - 1)
      BY <1>1
    <2> QED
      BY <1>2, <1>3, <2>1
  <1>5. ASSUME sync = "TLCATCHUP" PROVE o.next_seq = a.next_seq
    <2>1. one.next_seq = all.next_seq
      BY <1>5 DEF Together
    <2>2. RB!Has(all) = RB!Has(one)
      BY <1>2, <1>3, <2>1
    <2>3. RB!Has(a) \subseteq RB!Has(o) /\ RB!Has(o) \subseteq RB!Has(a)
      BY <2>2
    <2> QED
      BY <1>1, <2>3, NextOf
  <1>6. lo <= a.next_seq
    BY <1>1 DEF Together, Numbers
  <1> QED
    BY <1>4, <1>5, <1>6 DEF Together

\* A sample for a reader that is not in sync goes to both administrations, and is
\* delivered from its own.
LEMMA SampleCatchingUp ==
    ASSUME NEW sync, NEW all, NEW one, NEW dl, NEW base, NEW lo, NEW N, Owed(base, lo, N),
           ReaderOK(TRUE, sync, all, one, dl, base, lo, N), sync # "SYNC", NEW seq \in lo..N
    PROVE  LET ao == nn_reorder_rsample(all, seq, FALSE)
               oo == nn_reorder_rsample(one, seq, FALSE)
           IN /\ ReaderOK(TRUE, sync, ao.reorder, oo.reorder, dl \o Samples(oo.sc), base, lo, N)
              /\ one.next_seq <= oo.reorder.next_seq
              /\ Samples(oo.sc) \in Seq(lo..N)
              /\ Elements(dl) \subseteq Elements(dl \o Samples(oo.sc))
  <1> DEFINE ao == nn_reorder_rsample(all, seq, FALSE)
             oo == nn_reorder_rsample(one, seq, FALSE)
             dl2 == dl \o Samples(oo.sc)
  <1>1. /\ sync \in Syncs /\ Sound(all, lo, N) /\ Sound(one, lo, N) /\ dl \in Seq(lo..N)
        /\ Trusted(sync) => Served(dl, one, base, lo, N)
        /\ Roomy => Together(TRUE, sync, all, one, lo, N)
    BY DEF ReaderOK, Current
  <1>2. lo \in Numbers /\ N \in Nat /\ base \in SUBSET Numbers
    BY DEF Owed
  <1>3. /\ Taken(ao, all, lo, N)
        /\ \A un \in SUBSET Numbers : Sure(all, un) => RB!Good(ao, all, un) /\ Sure(ao.reorder, un)
        /\ Holds(all, N) => RB!Has(ao.reorder) = RB!Has(all) \cup {seq} /\ Holds(ao.reorder, N)
    BY <1>1, <1>2, SampleArrives
  <1>4. /\ Taken(oo, one, lo, N)
        /\ \A un \in SUBSET Numbers : Sure(one, un) => RB!Good(oo, one, un) /\ Sure(oo.reorder, un)
        /\ Holds(one, N) => RB!Has(oo.reorder) = RB!Has(one) \cup {seq} /\ Holds(oo.reorder, N)
    BY <1>1, <1>2, SampleArrives
  <1> HIDE DEF ao, oo
  <1>5. /\ dl2 \in Seq(lo..N) /\ Elements(dl) \subseteq Elements(dl2)
        /\ Samples(oo.sc) \in Seq(lo..N)
    BY <1>1, <1>2, <1>4, MoreDelivered DEF Taken
  <1>6. ASSUME Trusted(sync) PROVE Served(dl2, oo.reorder, base, lo, N)
    <2>1. PICK un \in SUBSET (base \cup Elements(dl)) : Sure(one, un)
      BY <1>1, <1>6 DEF Served
    <2>2. un \in SUBSET Numbers
      <3>1. Elements(dl) \subseteq Numbers
        BY <1>1, <1>2, ElementsType DEF Numbers
      <3> QED
        BY <1>2, <3>1
    <2>3. RB!Good(oo, one, un) /\ Sure(oo.reorder, un)
      BY <1>4, <2>1, <2>2
    <2> QED
      BY <1>1, <1>2, <1>4, <1>6, <2>3, ServedMore
  <1>7. ASSUME Roomy PROVE Together(TRUE, sync, ao.reorder, oo.reorder, lo, N)
    <2>1. /\ Together(TRUE, sync, all, one, lo, N) /\ Holds(all, N) /\ Holds(one, N) /\ Sure(all, {})
      BY <1>1, <1>7, NothingMissing DEF Together
    <2>2. RB!ROK(ao.reorder, {})
      <3>1. {} \in SUBSET Numbers
        OBVIOUS
      <3> QED
        BY <1>3, <2>1, <3>1 DEF Sure
    <2> HIDE DEF dl2
    <2> QED
      BY <1>1, <1>2, <1>3, <1>4, <2>1, <2>2, StillTogether DEF Taken
  <1> HIDE DEF dl2
  <1>8. ReaderOK(TRUE, sync, ao.reorder, oo.reorder, dl2, base, lo, N)
    BY <1>1, <1>3, <1>4, <1>5, <1>6, <1>7 DEF ReaderOK, Current, Taken
  <1> QED
    BY <1>4, <1>5, <1>8 DEF ao, oo, dl2, Taken

\* A sample for a reader in sync is delivered from the proxy writer's.
LEMMA SampleInSync ==
    ASSUME NEW all, NEW one, NEW dl, NEW base, NEW lo, NEW N, Owed(base, lo, N),
           ReaderOK(TRUE, "SYNC", all, one, dl, base, lo, N), NEW seq \in lo..N
    PROVE  LET ao == nn_reorder_rsample(all, seq, FALSE)
           IN /\ ReaderOK(TRUE, "SYNC", ao.reorder, one, dl \o Samples(ao.sc), base, lo, N)
              /\ Samples(ao.sc) \in Seq(lo..N)
              /\ Elements(dl) \subseteq Elements(dl \o Samples(ao.sc))
  <1> DEFINE ao == nn_reorder_rsample(all, seq, FALSE)
             dl2 == dl \o Samples(ao.sc)
  <1>1. /\ Sound(all, lo, N) /\ Sound(one, lo, N) /\ dl \in Seq(lo..N)
        /\ Roomy => Served(dl, all, base, lo, N) /\ Together(TRUE, "SYNC", all, one, lo, N)
    BY DEF ReaderOK, Current, Trusted
  <1>2. lo \in Numbers /\ N \in Nat /\ base \in SUBSET Numbers
    BY DEF Owed
  <1>3. /\ Taken(ao, all, lo, N)
        /\ \A un \in SUBSET Numbers : Sure(all, un) => RB!Good(ao, all, un) /\ Sure(ao.reorder, un)
        /\ Holds(all, N) => RB!Has(ao.reorder) = RB!Has(all) \cup {seq} /\ Holds(ao.reorder, N)
    BY <1>1, <1>2, SampleArrives
  <1> HIDE DEF ao
  <1>4. /\ dl2 \in Seq(lo..N) /\ Elements(dl) \subseteq Elements(dl2) /\ Samples(ao.sc) \in Seq(lo..N)
    BY <1>1, <1>2, <1>3, MoreDelivered DEF Taken
  <1>5. ASSUME Roomy PROVE Served(dl2, ao.reorder, base, lo, N) /\ RB!ROK(ao.reorder, {})
    <2>1. Sure(all, {}) /\ {} \in SUBSET Numbers /\ {} \in SUBSET (base \cup Elements(dl))
      BY <1>1, <1>5, NothingMissing DEF Together
    <2>2. RB!Good(ao, all, {}) /\ Sure(ao.reorder, {})
      BY <1>3, <2>1
    <2> QED
      BY <1>1, <1>2, <1>3, <1>5, <2>1, <2>2, ServedMore DEF Sure
  <1> HIDE DEF dl2
  <1>6. ASSUME Roomy PROVE Together(TRUE, "SYNC", ao.reorder, one, lo, N)
    <2>1. all.next_seq \in Nat /\ ao.reorder.next_seq \in Nat /\ lo \in Nat
      BY <1>2, <1>3 DEF Taken, Numbers
    <2> QED
      BY <1>1, <1>3, <1>5, <1>6, <2>1 DEF Together, Taken
  <1>7. ReaderOK(TRUE, "SYNC", ao.reorder, one, dl2, base, lo, N)
    BY <1>1, <1>3, <1>4, <1>5, <1>6 DEF ReaderOK, Current, Taken, Trusted, Syncs
  <1> QED
    BY <1>4, <1>7 DEF ao, dl2

\* A gap that is told truly, and while the reader catches up begins in the
\* window of its own administration.
TrueGap(sync, one, gone, min, maxp1, N) ==
    /\ min \in Numbers /\ maxp1 \in Numbers /\ (min < maxp1 \/ maxp1 = 1) /\ maxp1 <= N + 1
    /\ Trusted(sync) => min..(maxp1 - 1) \subseteq gone
    /\ sync = "OUT_OF_SYNC" => min < one.next_seq + MaxSamples

\* A gap that is true is old to a proxy writer with room for everything.
LEMMA GapIsOld ==
    ASSUME NEW sync, NEW all, NEW one, NEW dl, NEW base, NEW lo, NEW N, Owed(base, lo, N),
           ReaderOK(TRUE, sync, all, one, dl, base, lo, N), Roomy, NEW min, NEW maxp1,
           min \in Numbers, maxp1 \in Numbers, min < maxp1 \/ maxp1 = 1,
           min..(maxp1 - 1) \subseteq base \cup Elements(dl)
    PROVE  /\ nn_reorder_gap(all, min, maxp1).reorder = all /\ nn_reorder_gap(all, min, maxp1).sc = <<>>
           /\ maxp1 <= all.next_seq
  <1>1. Sound(all, lo, N)
    BY DEF ReaderOK
  <1>2. all.next_seq \in Nat /\ all.next_seq >= 1 /\ min \in Nat /\ maxp1 \in Nat
    BY <1>1, SoundNext DEF Numbers
  <1>3. maxp1 <= all.next_seq
    <2>1. CASE maxp1 = 1
      BY <1>2, <2>1
    <2>2. CASE maxp1 # 1
      <3>1. maxp1 - 1 \in min..(maxp1 - 1)
        BY <1>2, <2>2
      <3>2. maxp1 - 1 < all.next_seq
        BY <3>1, GoneIsPast
      <3> QED
        BY <1>2, <3>2
    <2> QED
      BY <2>1, <2>2
  <1> QED
    BY <1>1, <1>2, <1>3, PastIsTooOld

\* A gap as the writer sends it, or the empty one up to 1.
LEMMA GapInRange ==
    ASSUME NEW a, NEW lo, NEW N, Sound(a, lo, N), lo \in Numbers, N \in Nat,
           NEW min, NEW maxp1, min \in Numbers, maxp1 \in Numbers, min < maxp1 \/ maxp1 = 1
    PROVE  LET o == nn_reorder_gap(a, min, maxp1)
           IN /\ Taken(o, a, lo, N)
              /\ \A un \in SUBSET Numbers : Sure(a, un) /\ min..(maxp1 - 1) \subseteq un =>
                    RB!Good(o, a, un) /\ Sure(o.reorder, un)
              /\ Holds(a, N) /\ maxp1 <= N + 1 =>
                    RB!Has(o.reorder) = RB!Has(a) \cup min..(maxp1 - 1) /\ Holds(o.reorder, N)
  <1>1. min < maxp1 \/ maxp1 <= a.next_seq
    BY SoundNext DEF Numbers
  <1> QED
    BY <1>1, GapArrives

\* A true gap for a reader that is out of sync.
LEMMA GapCatchingUp ==
    ASSUME NEW all, NEW one, NEW dl, NEW base, NEW lo, NEW N, Owed(base, lo, N),
           ReaderOK(TRUE, "OUT_OF_SYNC", all, one, dl, base, lo, N), NEW min, NEW maxp1,
           TrueGap("OUT_OF_SYNC", one, base \cup Elements(dl), min, maxp1, N)
    PROVE  LET ao == nn_reorder_gap(all, min, maxp1)
               oo == nn_reorder_gap(one, min, maxp1)
           IN /\ ReaderOK(TRUE, "OUT_OF_SYNC", ao.reorder, oo.reorder, dl \o Samples(oo.sc), base, lo, N)
              /\ one.next_seq <= oo.reorder.next_seq
              /\ Samples(oo.sc) \in Seq(lo..N)
              /\ Elements(dl) \subseteq Elements(dl \o Samples(oo.sc))
  <1> DEFINE ao == nn_reorder_gap(all, min, maxp1)
             oo == nn_reorder_gap(one, min, maxp1)
             dl2 == dl \o Samples(oo.sc)
             sync == "OUT_OF_SYNC"
             range == min..(maxp1 - 1)
  <1>1. /\ sync \in Syncs /\ Sound(all, lo, N) /\ Sound(one, lo, N) /\ dl \in Seq(lo..N)
        /\ Served(dl, one, base, lo, N)
        /\ Roomy => Together(TRUE, sync, all, one, lo, N)
    BY DEF ReaderOK, Current, Trusted
  <1>2. lo \in Numbers /\ N \in Nat /\ base \in SUBSET Numbers
    BY DEF Owed
  <1>3. /\ min \in Numbers /\ maxp1 \in Numbers /\ (min < maxp1 \/ maxp1 = 1) /\ maxp1 <= N + 1
        /\ range \subseteq base \cup Elements(dl) /\ min < one.next_seq + MaxSamples
    BY DEF TrueGap, Trusted
  <1>4. Taken(ao, all, lo, N)
    BY <1>1, <1>2, <1>3, GapInRange
  <1>5. /\ Taken(oo, one, lo, N)
        /\ \A un \in SUBSET Numbers : Sure(one, un) /\ range \subseteq un =>
                    RB!Good(oo, one, un) /\ Sure(oo.reorder, un)
        /\ Holds(one, N) => RB!Has(oo.reorder) = RB!Has(one) \cup range /\ Holds(oo.reorder, N)
    BY <1>1, <1>2, <1>3, GapInRange
  <1>6. Roomy => ao.reorder = all /\ ao.sc = <<>> /\ maxp1 <= all.next_seq
    BY <1>3, GapIsOld
  <1> HIDE DEF ao, oo, sync
  <1>7. /\ dl2 \in Seq(lo..N) /\ Elements(dl) \subseteq Elements(dl2)
        /\ Samples(oo.sc) \in Seq(lo..N)
    BY <1>1, <1>2, <1>5, MoreDelivered DEF Taken
  <1>8. Served(dl2, oo.reorder, base, lo, N)
    <2>1. PICK un \in SUBSET (base \cup Elements(dl)) : Sure(one, un)
      BY <1>1 DEF Served
    <2> DEFINE more == un \cup range
    <2>2. more \in SUBSET Numbers /\ more \in SUBSET (base \cup Elements(dl)) /\ un \subseteq more /\ range \subseteq more
      <3>1. Elements(dl) \subseteq Numbers
        BY <1>1, <1>2, ElementsType DEF Numbers
      <3> QED
        BY <1>2, <1>3, <3>1
    <2>3. RB!ROK(one, more)
      BY <2>1, <2>2, SureOfMore DEF Sure
    <2>4. RB!GapsBegin(one, more)
      <3>1. one.mode = "NORMAL" /\ one.max_samples = MaxSamples
        BY <1>1 DEF Sound
      <3>2. \A n \in un : n - 1 \in un \cup {0} \/ n < one.next_seq + one.max_samples
        BY <2>1, <3>1 DEF Sure, RB!GapsBegin
      <3>3. \A n \in range : n - 1 \in range \/ n = min
        BY <1>3 DEF Numbers
      <3> HIDE DEF range
      <3>4. \A n \in more : n - 1 \in more \cup {0} \/ n < one.next_seq + one.max_samples
        BY <1>3, <3>1, <3>2, <3>3
      <3> HIDE DEF more
      <3> QED
        BY <3>4 DEF RB!GapsBegin
    <2> HIDE DEF more
    <2>5. RB!Good(oo, one, more) /\ Sure(oo.reorder, more)
      BY <1>5, <2>2, <2>3, <2>4 DEF Sure
    <2> QED
      BY <1>1, <1>2, <1>5, <2>2, <2>5, ServedMore
  <1>9. ASSUME Roomy PROVE Together(TRUE, sync, ao.reorder, oo.reorder, lo, N)
    <2>1. /\ Together(TRUE, sync, all, one, lo, N) /\ Holds(all, N) /\ Holds(one, N) /\ RB!ROK(all, {})
          /\ sync # "SYNC"
      BY <1>1, <1>9 DEF Together, sync
    <2>2. ao.reorder = all /\ all.next_seq \in Nat
      BY <1>1, <1>6, <1>9, SoundNext
    <2>3. RB!Has(all) = RB!Has(all) \cup range
      <3>1. \A n \in range : n \in 1..(all.next_seq - 1)
        BY <1>3, <1>6, <1>9, <2>2 DEF Numbers
      <3> HIDE DEF range
      <3> QED
        BY <1>1, <3>1, HasBefore
    <2> HIDE DEF dl2, range
    <2> QED
      BY <1>1, <1>2, <1>4, <1>5, <2>1, <2>2, <2>3, StillTogether DEF Taken
  <1> HIDE DEF dl2
  <1>10. ReaderOK(TRUE, sync, ao.reorder, oo.reorder, dl2, base, lo, N)
    BY <1>1, <1>4, <1>5, <1>7, <1>8, <1>9 DEF ReaderOK, Current, Taken, sync
  <1> QED
    BY <1>5, <1>7, <1>10 DEF ao, oo, dl2, Taken, sync

\* With the proxy writer's administration in sync, or the reader no longer
\* taking gaps itself.
LEMMA GapLater ==
    ASSUME NEW sync, NEW all, NEW one, NEW dl, NEW base, NEW lo, NEW N, Owed(base, lo, N),
           ReaderOK(TRUE, sync, all, one, dl, base, lo, N), sync # "OUT_OF_SYNC", NEW min, NEW maxp1,
           TrueGap(sync, one, base \cup Elements(dl), min, maxp1, N)
    PROVE  LET ao == nn_reorder_gap(all, min, maxp1)
               dl2 == dl \o Samples(ao.sc)
           IN /\ sync = "SYNC" => ReaderOK(TRUE, sync, ao.reorder, one, dl2, base, lo, N)
              /\ sync = "TLCATCHUP" => ReaderOK(TRUE, sync, ao.reorder, one, dl, base, lo, N)
              /\ Samples(ao.sc) \in Seq(lo..N)
              /\ Elements(dl) \subseteq Elements(dl2)
  <1> DEFINE ao == nn_reorder_gap(all, min, maxp1)
             dl2 == dl \o Samples(ao.sc)
  <1>1. /\ sync \in Syncs /\ Sound(all, lo, N) /\ Sound(one, lo, N) /\ dl \in Seq(lo..N)
        /\ Trusted(sync) => Served(dl, Current(sync, all, one), base, lo, N)
        /\ Roomy => Together(TRUE, sync, all, one, lo, N)
    BY DEF ReaderOK
  <1>2. lo \in Numbers /\ N \in Nat /\ base \in SUBSET Numbers
    BY DEF Owed
  <1>3. /\ min \in Numbers /\ maxp1 \in Numbers /\ (min < maxp1 \/ maxp1 = 1)
        /\ Trusted(sync) => min..(maxp1 - 1) \subseteq base \cup Elements(dl)
        /\ Trusted(sync) <=> Roomy
    BY DEF TrueGap, Trusted
  <1>4. Taken(ao, all, lo, N)
    BY <1>1, <1>2, <1>3, GapInRange
  <1>5. ASSUME Roomy PROVE ao.reorder = all /\ ao.sc = <<>>
    <2>1. min..(maxp1 - 1) \subseteq base \cup Elements(dl)
      BY <1>3, <1>5
    <2>2. min \in Numbers /\ maxp1 \in Numbers /\ (min < maxp1 \/ maxp1 = 1)
      BY <1>3
    <2>3. maxp1 <= all.next_seq
      <3> HIDE DEF ao
      <3> QED
        BY <1>5, <2>1, <2>2, GapIsOld
    <2>4. maxp1 \in Nat
      BY <2>2 DEF Numbers
    <2> QED
      BY <1>1, <2>3, <2>4, PastIsTooOld
  <1> HIDE DEF ao
  <1>6. /\ dl2 \in Seq(lo..N) /\ Elements(dl) \subseteq Elements(dl2)
        /\ Samples(ao.sc) \in Seq(lo..N)
    BY <1>1, <1>2, <1>4, MoreDelivered DEF Taken
  <1>7. Roomy => dl2 = dl
    BY <1>1, <1>5, NoSamples
  <1> HIDE DEF dl2
  <1>8. Sound(ao.reorder, lo, N)
    BY <1>4 DEF Taken
  <1>9. ReaderOK(TRUE, sync, ao.reorder, one, dl2, base, lo, N) /\ ReaderOK(TRUE, sync, ao.reorder, one, dl, base, lo, N)
    <2>1. CASE Roomy
      BY <1>5, <1>7, <2>1
    <2>2. CASE ~Roomy
      BY <1>1, <1>3, <1>6, <1>8, <2>2 DEF ReaderOK
    <2> QED
      BY <2>1, <2>2
  <1> QED
    BY <1>6, <1>9 DEF ao, dl2

\* maybe_set_reader_in_sync
LEMMA Switched ==
    ASSUME NEW sync, NEW all, NEW one, NEW dl, NEW base, NEW lo, NEW N, Owed(base, lo, N),
           ReaderOK(TRUE, sync, all, one, dl, base, lo, N),
           sync = "TLCATCHUP" \/ (sync = "OUT_OF_SYNC" /\ one.next_seq = all.next_seq),
           NEW s \in {"TLCATCHUP", "SYNC"}
    PROVE  ReaderOK(TRUE, s, all, one, dl, base, lo, N)
  <1>1. /\ Sound(all, lo, N) /\ Sound(one, lo, N) /\ dl \in Seq(lo..N)
        /\ Trusted(sync) => Served(dl, one, base, lo, N)
        /\ Roomy => Together(TRUE, sync, all, one, lo, N)
    BY DEF ReaderOK, Current
  <1>2. ASSUME Roomy
        PROVE  Served(dl, Current(s, all, one), base, lo, N) /\ Together(TRUE, s, all, one, lo, N)
    <2>1. one.next_seq = all.next_seq /\ Sure(all, {}) /\ Served(dl, one, base, lo, N)
      BY <1>1, <1>2, NothingMissing DEF Together, Trusted
    <2>2. Served(dl, all, base, lo, N)
      BY <2>1 DEF Served
    <2>3. Together(TRUE, s, all, one, lo, N)
      BY <1>1, <1>2, <2>1 DEF Together
    <2> QED
      BY <2>1, <2>2, <2>3 DEF Current
  <1> QED
    BY <1>1, <1>2 DEF ReaderOK, Trusted, Syncs

\* An administration that has passed the numbers below b, and holds none.
Passed(b) == [New EXCEPT !.next_seq = b]

\* An administration that was started at b.
LEMMA PassedIs ==
    ASSUME NEW b \in Numbers
    PROVE  /\ \A lo, N : Sound(Passed(b), lo, N)
           /\ \A un : RB!ROK(Passed(b), un)
           /\ RB!Has(Passed(b)) = 1..(b - 1) /\ Passed(b).next_seq = b
           /\ nn_reorder_gap(New, 1, b).reorder = Passed(b) /\ nn_reorder_gap(New, 1, b).sc = <<>>
  <1>1. /\ New = [mode |-> "NORMAL", max_samples |-> MaxSamples, next_seq |-> 1,
                  ivs |-> {}, max_sampleiv |-> NoInterval, n_samples |-> 0]
        /\ Passed(b) = [mode |-> "NORMAL", max_samples |-> MaxSamples, next_seq |-> b,
                        ivs |-> {}, max_sampleiv |-> NoInterval, n_samples |-> 0]
    BY DEF New, nn_reorder_new, Passed
  <1>2. /\ NoInterval = RB!NoInterval /\ RB!FindMax({}) = NoInterval /\ RB!NoInterval \in RB!Intervals
    BY DEF NoInterval, Interval, RB!NoInterval, RB!Interval, RB!FindMax, RB!Intervals
  <1>3. RB!Tree({}) /\ Len(RB!ChainOf({})) = 0
    <2>1. RB!IsFiniteSet({})
      BY RB!FS_EmptySet, Administration
    <2>2. RB!Total({}) = 0
      BY RB!TotalEmpty, Administration
    <2> QED
      BY <2>1, <2>2 DEF RB!Tree, RB!Disjoint, RB!Filled, RB!Total
  <1>4. Passed(b) \in RB!Reorders
    BY <1>1, <1>2, StreamAssumption DEF RB!Reorders, RB!Modes3, Numbers
  <1>5. \A un : RB!ROK(Passed(b), un)
    BY <1>1, <1>2, <1>3, StreamAssumption DEF RB!ROK
  <1>6. \A lo, N : Sound(Passed(b), lo, N)
    BY <1>1, <1>4, <1>5 DEF Sound, RB!Chains
  <1>7. RB!Has(Passed(b)) = 1..(b - 1)
    BY <1>1 DEF RB!Has, RB!Known
  <1>8. nn_reorder_gap(New, 1, b).reorder = Passed(b) /\ nn_reorder_gap(New, 1, b).sc = <<>>
    <2> DEFINE o == nn_reorder_gap(New, 1, b)
    <2>1. CASE b = 1
      <3>1. o = Refuse(New, "TOO_OLD")
        BY <1>1, <2>1 DEF nn_reorder_gap
      <3>2. Passed(b) = New
        BY <1>1, <2>1
      <3> QED
        BY <3>1, <3>2 DEF Refuse, Result
    <2>2. CASE b # 1
      <3>1. ~(b <= New.next_seq) /\ b > New.next_seq /\ 1 <= New.next_seq
        BY <1>1, <2>2 DEF Numbers
      <3>2. Touching(New.ivs, 1, b) = {}
        BY <1>1 DEF Touching
      <3>3. New.mode = "NORMAL"
        BY <1>1
      <3>4. o = Accept([New EXCEPT !.next_seq = b])
        <4> HIDE DEF New
        <4> QED
          BY <3>1, <3>2, <3>3 DEF nn_reorder_gap
      <3> QED
        BY <3>4 DEF Accept, Result, Passed
    <2> QED
      BY <2>1, <2>2
  <1>9. Passed(b).next_seq = b
    BY <1>1
  <1> QED
    BY <1>5, <1>6, <1>7, <1>8, <1>9

\* Before the first heartbeat.
LEMMA AtFirst ==
    ASSUME NEW base, NEW lo, NEW N, Owed(base, lo, N), N <= MaxSeq
    PROVE  ReaderOK(FALSE, "OUT_OF_SYNC", New, New, <<>>, base, lo, N)
  <1>1. 1 \in Numbers /\ New = Passed(1)
    BY DEF Numbers, Passed, New, nn_reorder_new
  <1>2. /\ Sound(New, lo, N) /\ RB!ROK(New, {}) /\ RB!Has(New) = 1..0 /\ New.next_seq = 1
    BY <1>1, PassedIs
  <1>3. Served(<<>>, New, base, lo, N)
    <2>1. Sure(New, {})
      BY <1>2, NothingMissing
    <2>2. 1..(1 - 1) = {} /\ <<>> \in Seq(lo..N) /\ Len(<<>>) = 0
      OBVIOUS
    <2> QED
      BY <1>2, <2>1, <2>2 DEF Served, Increasing
  <1>4. Roomy => Together(FALSE, "OUT_OF_SYNC", New, New, lo, N)
    <2> SUFFICES ASSUME Roomy PROVE Together(FALSE, "OUT_OF_SYNC", New, New, lo, N)
      OBVIOUS
    <2>1. N <= MaxSamples + 1 /\ 1..0 \subseteq 1..N
      BY StreamAssumption DEF Roomy, Owed
    <2> QED
      BY <1>2, <2>1 DEF Together, Holds
  <1>5. <<>> \in Seq(lo..N)
    OBVIOUS
  <1> QED
    BY <1>2, <1>3, <1>4, <1>5 DEF ReaderOK, Current, Syncs

\* The first heartbeat starts the proxy writer after its last number and the
\* reader's own administration at its first.
LEMMA FirstHeartbeat ==
    ASSUME NEW base, NEW lo, NEW N, Owed(base, lo, N), NEW sync, NEW all, NEW one, NEW dl,
           ReaderOK(FALSE, sync, all, one, dl, base, lo, N),
           NEW f \in Numbers, NEW l \in Nat, f <= l + 1, lo <= l + 1, l <= N,
           1..(f - 1) \subseteq base \cup Elements(dl)
    PROVE  LET ao == nn_reorder_gap(all, 1, l + 1)
               oo == nn_reorder_gap(one, 1, f)
           IN /\ sync = "OUT_OF_SYNC" /\ ReaderOK(TRUE, sync, ao.reorder, oo.reorder, dl, base, lo, N)
              /\ oo.sc = <<>> /\ one.next_seq <= oo.reorder.next_seq
  <1>1. /\ sync = "OUT_OF_SYNC" /\ all = New /\ one = New /\ dl = <<>>
        /\ Roomy => N <= MaxSamples + 1
    BY DEF ReaderOK, Together, Holds
  <1>2. l + 1 \in Numbers
    BY DEF Numbers
  <1> DEFINE ao == nn_reorder_gap(all, 1, l + 1)
             oo == nn_reorder_gap(one, 1, f)
  <1>3. /\ ao.reorder = Passed(l + 1) /\ oo.reorder = Passed(f) /\ oo.sc = <<>>
    BY <1>1, <1>2, PassedIs
  <1>4. /\ Sound(Passed(f), lo, N) /\ Sound(Passed(l + 1), lo, N)
        /\ RB!ROK(Passed(l + 1), {}) /\ RB!ROK(Passed(f), {})
        /\ RB!Has(Passed(l + 1)) = 1..((l + 1) - 1) /\ RB!Has(Passed(f)) = 1..(f - 1)
        /\ Passed(l + 1).next_seq = l + 1 /\ Passed(f).next_seq = f
    BY <1>2, PassedIs
  <1>5. New.next_seq = 1
    BY DEF New, nn_reorder_new
  <1>6. Served(<<>>, Passed(f), base, lo, N)
    <2>1. Sure(Passed(f), {})
      BY <1>4, NothingMissing
    <2>2. <<>> \in Seq(lo..N) /\ Len(<<>>) = 0
      OBVIOUS
    <2> QED
      BY <1>1, <1>4, <2>1, <2>2 DEF Served, Increasing
  <1>7. ASSUME Roomy PROVE Together(TRUE, "OUT_OF_SYNC", Passed(l + 1), Passed(f), lo, N)
    <2>1. /\ 1..((l + 1) - 1) \subseteq 1..N /\ 1..(f - 1) \subseteq 1..((l + 1) - 1)
      BY DEF Owed, Numbers
    <2>2. 1..((l + 1) - 1) = 1..(f - 1) \cup 1..((l + 1) - 1)
      BY <2>1
    <2> QED
      BY <1>1, <1>4, <1>7, <2>1, <2>2 DEF Together, Holds
  <1>8. ReaderOK(TRUE, sync, Passed(l + 1), Passed(f), dl, base, lo, N)
    <2>1. dl \in Seq(lo..N)
      BY <1>1
    <2> QED
      BY <1>1, <1>4, <1>6, <1>7, <2>1 DEF ReaderOK, Current, Syncs
  <1>9. one.next_seq <= oo.reorder.next_seq
    BY <1>1, <1>3, <1>4, <1>5 DEF Numbers
  <1> HIDE DEF ao, oo
  <1>10. ReaderOK(TRUE, sync, ao.reorder, oo.reorder, dl, base, lo, N)
    BY <1>3, <1>8
  <1> QED
    BY <1>1, <1>3, <1>9, <1>10 DEF ao, oo

\* More is written, and more is given up.
LEMMA MoreWritten ==
    ASSUME NEW base, NEW lo, NEW N, Owed(base, lo, N), NEW more, NEW M, Owed(more, lo, M),
           base \subseteq more, N <= M, M <= MaxSeq,
           NEW hb, NEW sync, NEW all, NEW one, NEW dl, ReaderOK(hb, sync, all, one, dl, base, lo, N)
    PROVE  ReaderOK(hb, sync, all, one, dl, more, lo, M)
  <1>1. N \in Nat /\ M \in Nat /\ lo \in Nat
    BY DEF Owed, Numbers
  <1>2. lo..N \subseteq lo..M /\ 1..N \subseteq 1..M /\ {0} \cup lo..N \subseteq {0} \cup lo..M
    BY <1>1
  <1>0. \A S, T : S \subseteq T => \A s : s \in Seq(S) => s \in Seq(T)
    OBVIOUS
  <1>3. \A s : s \in Seq(lo..N) => s \in Seq(lo..M)
    BY <1>0, <1>2
  <1>4. \A s : s \in Seq({0} \cup lo..N) => s \in Seq({0} \cup lo..M)
    BY <1>0, <1>2
  <1>5. \A a : Sound(a, lo, N) => Sound(a, lo, M)
    BY <1>4 DEF Sound, RB!Chains
  <1>6. \A a : Served(dl, a, base, lo, N) => Served(dl, a, more, lo, M)
    <2> SUFFICES ASSUME NEW a, Served(dl, a, base, lo, N) PROVE Served(dl, a, more, lo, M)
      OBVIOUS
    <2>1. PICK un \in SUBSET (base \cup Elements(dl)) : Sure(a, un)
      BY DEF Served
    <2>2. un \in SUBSET (more \cup Elements(dl))
      OBVIOUS
    <2> QED
      BY <1>3, <2>1, <2>2 DEF Served
  <1>7. Roomy => \A a : Holds(a, N) => Holds(a, M)
    BY <1>1, <1>2, StreamAssumption DEF Holds, Roomy
  <1>8. Roomy => Together(hb, sync, all, one, lo, M)
    BY <1>7 DEF Together, ReaderOK
  <1> QED
    BY <1>3, <1>5, <1>6, <1>8 DEF ReaderOK

----------------------------------------------------------------------------
(* What the reader's handlers do.                                           *)

Readers ==
    [have_seen_heartbeat : BOOLEAN, last_seq : Nat, reorder : RB!Reorders, own : RB!Reorders,
     in_sync : Syncs, end_of_tl_seq : Nat, heartbeat_since_ack : BOOLEAN, ack_requested : BOOLEAN,
     scheduled : BOOLEAN, last_nack_end : Nat]

Reads(r, dl, base, lo, N) ==
    /\ r \in Readers
    /\ ReaderOK(r.have_seen_heartbeat, r.in_sync, r.reorder, r.own, dl, base, lo, N)

\* The reader never falls back.
Onward(r, dl, q, dl2) ==
    /\ Elements(dl) \subseteq Elements(dl2)
    /\ q.in_sync = "OUT_OF_SYNC" => r.in_sync = "OUT_OF_SYNC" /\ r.own.next_seq <= q.own.next_seq

\* What becomes of the reader when a message is handled.
Handled(o, r, dl, base, lo, N) ==
    /\ o.sc \in Seq(lo..N) /\ Reads(o.rd, dl \o o.sc, base, lo, N)
    /\ Onward(r, dl, o.rd, dl \o o.sc)
    /\ r.have_seen_heartbeat => o.rd.have_seen_heartbeat

\* The larger of two natural numbers is one.
LEMMA MaxType ==
    ASSUME NEW a \in Nat, NEW b \in Nat
    PROVE  Max({a, b}) \in Nat
  <1>1. Max({a, b}) \in {a, b}
    BY MaxOfTwo
  <1> QED
    BY <1>1

\* maybe_set_reader_in_sync keeps the reader sound.
LEMMA MaybeSync ==
    ASSUME NEW r, NEW dl, NEW base, NEW lo, NEW N, Owed(base, lo, N), Reads(r, dl, base, lo, N),
           r.have_seen_heartbeat, NEW last
    PROVE  LET q == maybe_set_reader_in_sync(r, last)
           IN /\ Reads(q, dl, base, lo, N) /\ q.have_seen_heartbeat
              /\ q.own = r.own
              /\ q.in_sync = "OUT_OF_SYNC" => r.in_sync = "OUT_OF_SYNC"
  <1> DEFINE q == maybe_set_reader_in_sync(r, last)
             catchup == \/ r.in_sync = "TLCATCHUP"
                        \/ /\ r.in_sync = "OUT_OF_SYNC" /\ r.have_seen_heartbeat
                           /\ r.own.next_seq = r.reorder.next_seq
             s == IF last >= r.end_of_tl_seq THEN "SYNC" ELSE "TLCATCHUP"
  <1>1. q = IF ~catchup THEN r ELSE [r EXCEPT !.in_sync = s]
    BY DEF maybe_set_reader_in_sync
  <1>2. r \in Readers /\ ReaderOK(TRUE, r.in_sync, r.reorder, r.own, dl, base, lo, N) /\ r.have_seen_heartbeat = TRUE
    BY DEF Reads, Readers
  <1>3. s \in {"TLCATCHUP", "SYNC"}
    OBVIOUS
  <1> HIDE DEF q, s
  <1>4. CASE catchup
    <2>1. /\ q \in Readers /\ q.in_sync = s /\ q.own = r.own /\ q.reorder = r.reorder
          /\ q.have_seen_heartbeat = TRUE
      BY <1>1, <1>2, <1>3, <1>4 DEF Readers, Syncs
    <2>2. ReaderOK(TRUE, s, r.reorder, r.own, dl, base, lo, N)
      BY <1>2, <1>3, <1>4, Switched
    <2> QED
      BY <1>3, <2>1, <2>2 DEF Reads, q
  <1>5. CASE ~catchup
    <2>1. q = r
      BY <1>1, <1>5
    <2> QED
      BY <2>1 DEF q
  <1> QED
    BY <1>4, <1>5

\* handle_regular keeps it sound, for every sample written.
LEMMA HandledRegular ==
    ASSUME NEW r, NEW dl, NEW base, NEW lo, NEW N, Owed(base, lo, N), Reads(r, dl, base, lo, N),
           NEW seq \in lo..N
    PROVE  Handled(handle_regular(r, seq), r, dl, base, lo, N)
  <1> DEFINE all == nn_reorder_rsample(r.reorder, seq, FALSE)
             one == nn_reorder_rsample(r.own, seq, FALSE)
             r1 == [r EXCEPT !.last_seq = Max({@, seq}), !.reorder = all.reorder]
             r2 == [r1 EXCEPT !.own = one.reorder]
             o == handle_regular(r, seq)
             late == IF one.res = "DELIVER" THEN maybe_set_reader_in_sync(r2, seq) ELSE r2
  <1>1. /\ r \in Readers /\ ReaderOK(r.have_seen_heartbeat, r.in_sync, r.reorder, r.own, dl, base, lo, N)
        /\ r.have_seen_heartbeat \in BOOLEAN /\ dl \in Seq(lo..N)
    BY DEF Reads, Readers, ReaderOK
  <1>2. seq \in Nat
    BY DEF Owed, Numbers
  <1>3. Max({r.last_seq, seq}) \in Nat
    <2>1. r.last_seq \in Nat
      BY <1>1 DEF Readers
    <2> QED
      BY <1>2, <2>1, MaxType
  <1>4. o = CASE ~r.have_seen_heartbeat -> Out(r, <<>>)
              [] r.have_seen_heartbeat /\ r.in_sync = "SYNC" -> Out(r1, all.sc)
              [] OTHER -> Out(late, one.sc)
    BY DEF handle_regular
  <1> HIDE DEF all, one, o
  <1>5. ASSUME all.reorder \in RB!Reorders
        PROVE  /\ r1 \in Readers /\ r1.have_seen_heartbeat = r.have_seen_heartbeat /\ r1.in_sync = r.in_sync
               /\ r1.reorder = all.reorder /\ r1.own = r.own
    BY <1>1, <1>3, <1>5 DEF Readers
  <1> HIDE DEF r1
  <1>6. ASSUME all.reorder \in RB!Reorders, one.reorder \in RB!Reorders
        PROVE  /\ r2 \in Readers /\ r2.have_seen_heartbeat = r.have_seen_heartbeat /\ r2.in_sync = r.in_sync
               /\ r2.reorder = all.reorder /\ r2.own = one.reorder
    BY <1>5, <1>6 DEF Readers
  <1> HIDE DEF r2, late
  <1>7. CASE ~r.have_seen_heartbeat
    <2>1. o.rd = r /\ o.sc = <<>>
      BY <1>4, <1>7, NoSamples DEF Out
    <2>2. dl \o <<>> = dl /\ <<>> \in Seq(lo..N)
      BY <1>1, NoSamples
    <2>3. r.own.next_seq <= r.own.next_seq
      BY <1>1, SoundNext DEF ReaderOK
    <2> QED
      BY <1>1, <2>1, <2>2, <2>3 DEF Handled, Onward, Reads, o
  <1>8. CASE r.have_seen_heartbeat /\ r.in_sync = "SYNC"
    <2>1. o.rd = r1 /\ o.sc = Samples(all.sc)
      BY <1>4, <1>8 DEF Out
    <2>2. /\ ReaderOK(TRUE, "SYNC", all.reorder, r.own, dl \o Samples(all.sc), base, lo, N)
          /\ Samples(all.sc) \in Seq(lo..N)
          /\ Elements(dl) \subseteq Elements(dl \o Samples(all.sc))
      BY <1>1, <1>8, SampleInSync DEF all
    <2>3. all.reorder \in RB!Reorders
      BY <2>2 DEF ReaderOK, Sound
    <2> QED
      BY <1>5, <1>8, <2>1, <2>2, <2>3 DEF Handled, Onward, Reads, o
  <1>9. CASE r.have_seen_heartbeat /\ r.in_sync # "SYNC"
    <2>1. o.rd = late /\ o.sc = Samples(one.sc)
      BY <1>4, <1>9 DEF Out
    <2>2. /\ ReaderOK(TRUE, r.in_sync, all.reorder, one.reorder, dl \o Samples(one.sc), base, lo, N)
          /\ Samples(one.sc) \in Seq(lo..N) /\ r.own.next_seq <= one.reorder.next_seq
          /\ Elements(dl) \subseteq Elements(dl \o Samples(one.sc))
      BY <1>1, <1>9, SampleCatchingUp DEF all, one
    <2>3. all.reorder \in RB!Reorders /\ one.reorder \in RB!Reorders
      BY <2>2 DEF ReaderOK, Sound
    <2> DEFINE dl2 == dl \o Samples(one.sc)
    <2>4. Reads(r2, dl2, base, lo, N) /\ r2.have_seen_heartbeat
      BY <1>6, <1>9, <2>2, <2>3 DEF Reads
    <2> HIDE DEF dl2
    <2>5. /\ Reads(late, dl2, base, lo, N) /\ late.have_seen_heartbeat
          /\ late.own = r2.own /\ (late.in_sync = "OUT_OF_SYNC" => r2.in_sync = "OUT_OF_SYNC")
      BY <2>4, MaybeSync DEF late
    <2> QED
      BY <1>6, <2>1, <2>2, <2>3, <2>5 DEF Handled, Onward, o, dl2
  <1> QED
    BY <1>1, <1>7, <1>8, <1>9

\* handle_one_gap keeps it sound, for every gap that is true.
LEMMA HandledOneGap ==
    ASSUME NEW r, NEW dl, NEW base, NEW lo, NEW N, Owed(base, lo, N), Reads(r, dl, base, lo, N),
           r.have_seen_heartbeat, NEW a, NEW b,
           TrueGap(r.in_sync, r.own, base \cup Elements(dl), a, b, N)
    PROVE  Handled(handle_one_gap(r, a, b), r, dl, base, lo, N)
  <1> DEFINE all == nn_reorder_gap(r.reorder, a, b)
             one == nn_reorder_gap(r.own, a, b)
             r1 == [r EXCEPT !.reorder = all.reorder]
             r2 == [r1 EXCEPT !.own = one.reorder]
             o == handle_one_gap(r, a, b)
             late1 == maybe_set_reader_in_sync(r1, b - 1)
             late2 == maybe_set_reader_in_sync(r2, b - 1)
  <1>1. /\ r \in Readers /\ ReaderOK(TRUE, r.in_sync, r.reorder, r.own, dl, base, lo, N)
        /\ r.have_seen_heartbeat = TRUE /\ dl \in Seq(lo..N) /\ r.in_sync \in Syncs
    BY DEF Reads, Readers, ReaderOK
  <1>2. o = CASE r.in_sync = "SYNC" -> Out(r1, all.sc)
              [] r.in_sync = "TLCATCHUP" -> Out(late1, <<>>)
              [] OTHER -> Out(late2, one.sc)
    BY DEF handle_one_gap
  <1> HIDE DEF all, one, o
  <1>3. ASSUME all.reorder \in RB!Reorders
        PROVE  /\ r1 \in Readers /\ r1.have_seen_heartbeat = TRUE /\ r1.in_sync = r.in_sync
               /\ r1.reorder = all.reorder /\ r1.own = r.own
    BY <1>1, <1>3 DEF Readers
  <1> HIDE DEF r1
  <1>4. ASSUME all.reorder \in RB!Reorders, one.reorder \in RB!Reorders
        PROVE  /\ r2 \in Readers /\ r2.have_seen_heartbeat = TRUE /\ r2.in_sync = r.in_sync
               /\ r2.reorder = all.reorder /\ r2.own = one.reorder
    BY <1>3, <1>4 DEF Readers
  <1> HIDE DEF r2, late1, late2
  <1>5. dl \o <<>> = dl /\ <<>> \in Seq(lo..N)
    BY <1>1, NoSamples
  <1>6. CASE r.in_sync = "OUT_OF_SYNC"
    <2>1. o.rd = late2 /\ o.sc = Samples(one.sc)
      BY <1>2, <1>6 DEF Out
    <2>2. /\ ReaderOK(TRUE, r.in_sync, all.reorder, one.reorder, dl \o Samples(one.sc), base, lo, N)
          /\ Samples(one.sc) \in Seq(lo..N) /\ r.own.next_seq <= one.reorder.next_seq
          /\ Elements(dl) \subseteq Elements(dl \o Samples(one.sc))
      <3>1. /\ TrueGap("OUT_OF_SYNC", r.own, base \cup Elements(dl), a, b, N)
            /\ ReaderOK(TRUE, "OUT_OF_SYNC", r.reorder, r.own, dl, base, lo, N)
        BY <1>1, <1>6
      <3> QED
        BY <1>6, <3>1, GapCatchingUp DEF all, one
    <2>3. all.reorder \in RB!Reorders /\ one.reorder \in RB!Reorders
      BY <2>2 DEF ReaderOK, Sound
    <2> DEFINE dl2 == dl \o Samples(one.sc)
    <2>4. Reads(r2, dl2, base, lo, N) /\ r2.have_seen_heartbeat
      BY <1>4, <2>2, <2>3 DEF Reads
    <2> HIDE DEF dl2
    <2>5. /\ Reads(late2, dl2, base, lo, N) /\ late2.have_seen_heartbeat
          /\ late2.own = r2.own /\ (late2.in_sync = "OUT_OF_SYNC" => r2.in_sync = "OUT_OF_SYNC")
      BY <2>4, MaybeSync DEF late2
    <2> QED
      BY <1>4, <2>1, <2>2, <2>3, <2>5 DEF Handled, Onward, o, dl2
  <1>7. CASE r.in_sync = "SYNC"
    <2>1. o.rd = r1 /\ o.sc = Samples(all.sc)
      BY <1>2, <1>7 DEF Out
    <2>2. /\ ReaderOK(TRUE, r.in_sync, all.reorder, r.own, dl \o Samples(all.sc), base, lo, N)
          /\ Samples(all.sc) \in Seq(lo..N)
          /\ Elements(dl) \subseteq Elements(dl \o Samples(all.sc))
      BY <1>1, <1>7, GapLater DEF all
    <2>3. all.reorder \in RB!Reorders
      BY <2>2 DEF ReaderOK, Sound
    <2> QED
      BY <1>3, <1>7, <2>1, <2>2, <2>3 DEF Handled, Onward, Reads, o
  <1>8. CASE r.in_sync = "TLCATCHUP"
    <2>1. o.rd = late1 /\ o.sc = <<>>
      BY <1>2, <1>8, NoSamples DEF Out
    <2>2. ReaderOK(TRUE, r.in_sync, all.reorder, r.own, dl, base, lo, N)
      BY <1>1, <1>8, GapLater DEF all
    <2>3. all.reorder \in RB!Reorders
      BY <2>2 DEF ReaderOK, Sound
    <2>4. Reads(r1, dl, base, lo, N) /\ r1.have_seen_heartbeat
      BY <1>3, <2>2, <2>3 DEF Reads
    <2>5. /\ Reads(late1, dl, base, lo, N) /\ late1.have_seen_heartbeat
          /\ (late1.in_sync = "OUT_OF_SYNC" => r1.in_sync = "OUT_OF_SYNC")
      BY <2>4, MaybeSync DEF late1
    <2> QED
      BY <1>3, <1>5, <1>8, <2>1, <2>3, <2>5 DEF Handled, Onward, o
  <1> QED
    BY <1>1, <1>6, <1>7, <1>8 DEF Syncs

\* A gap message: a range, and numbers beyond it.
GapType(m, N) ==
    /\ m.start \in Numbers /\ m.end \in Numbers /\ m.start <= m.end /\ m.end <= N + 1
    /\ m.bits \in SUBSET (1..N)
GapTrue(m, sync, one, gone) ==
    /\ Trusted(sync) => m.start..(m.end - 1) \cup m.bits \subseteq gone
    /\ sync = "OUT_OF_SYNC" => \A n \in {m.start} \cup m.bits : n < one.next_seq + MaxSamples

GapAgain(o, a, b) == LET p == handle_one_gap(o.rd, a, b) IN [rd |-> p.rd, sc |-> o.sc \o p.sc]
GapFirst(r, m) == IF m.start < m.end THEN GapAgain(Out(r, <<>>), m.start, m.end) ELSE Out(r, <<>>)

IsGaps(f, r, m, n) ==
    f = [s \in (m.end - 1)..n |->
            IF s = m.end - 1 THEN GapFirst(r, m)
            ELSE IF s \in m.bits /\ s - 1 \notin m.bits THEN GapAgain(f[s - 1], s, RunEnd(m.bits, s))
            ELSE f[s - 1]]

\* The function with which handle_Gap goes through a bitmap, number by number.
LEMMA GapsIs ==
    ASSUME NEW f, NEW r, NEW m, NEW n, IsGaps(f, r, m, n), NEW s \in (m.end - 1)..n
    PROVE  f[s] = IF s = m.end - 1 THEN GapFirst(r, m)
                  ELSE IF s \in m.bits /\ s - 1 \notin m.bits THEN GapAgain(f[s - 1], s, RunEnd(m.bits, s))
                  ELSE f[s - 1]
  BY Zenon DEF IsGaps

\* There is such a function.
LEMMA GapsExist ==
    ASSUME NEW r, NEW m, NEW k \in Int, m.end \in Int, m.end - 1 <= k
    PROVE  \E f : IsGaps(f, r, m, k)
  <1> DEFINE a == m.end - 1
             E(f, s) == IF s = a THEN GapFirst(r, m)
                        ELSE IF s \in m.bits /\ s - 1 \notin m.bits THEN GapAgain(f[s - 1], s, RunEnd(m.bits, s))
                        ELSE f[s - 1]
             P == {n \in a..k : \E f : f = [s \in a..n |-> E(f, s)]}
  <1>0. a \in Int
    OBVIOUS
  <1>1. a \in P
    <2> DEFINE f == [s \in a..a |-> GapFirst(r, m)]
    <2>1. \A s \in a..a : s = a
      OBVIOUS
    <2>2. f = [s \in a..a |-> E(f, s)]
      BY <2>1, Zenon
    <2>3. a \in a..k
      OBVIOUS
    <2> QED
      BY <2>2, <2>3, Zenon
  <1>2. ASSUME NEW n \in a..k, n \in P, n < k
        PROVE  n + 1 \in P
    <2>1. PICK g : g = [s \in a..n |-> E(g, s)]
      BY <1>2
    <2> HIDE DEF a
    <2> DEFINE f == [s \in a..(n + 1) |-> IF s = n + 1 THEN E(g, s) ELSE g[s]]
    <2>2. \A s \in a..(n + 1) : f[s] = E(f, s)
      <3> TAKE s \in a..(n + 1)
      <3>1. CASE s = n + 1
        <4>1. s - 1 = n /\ s # a /\ n \in a..(n + 1) /\ n # n + 1
          BY <1>0, <3>1
        <4>2. f[s - 1] = g[s - 1]
          BY <4>1
        <4>3. f[s] = E(g, s)
          BY <3>1
        <4> HIDE DEF f
        <4> QED
          BY <4>2, <4>3
      <3>2. CASE s # n + 1
        <4>1. s \in a..n /\ (s # a => s - 1 \in a..n /\ s - 1 \in a..(n + 1) /\ s - 1 # n + 1)
          BY <1>0, <3>2
        <4>2. f[s] = g[s] /\ (s # a => f[s - 1] = g[s - 1])
          BY <3>2, <4>1
        <4>3. g[s] = E(g, s)
          BY <2>1, <4>1, Zenon
        <4> HIDE DEF f
        <4> QED
          BY <4>2, <4>3
      <3> QED
        BY <3>1, <3>2
    <2>3. f = [s \in a..(n + 1) |-> f[s]]
      BY Zenon
    <2> HIDE DEF f
    <2>4. [s \in a..(n + 1) |-> f[s]] = [s \in a..(n + 1) |-> E(f, s)]
      BY <2>2
    <2>5. n + 1 \in a..k
      BY <1>0, <1>2
    <2>6. f = [s \in a..(n + 1) |-> E(f, s)]
      BY <2>3, <2>4
    <2> HIDE DEF E
    <2> QED
      BY <2>5, <2>6
  <1>3. a..k \subseteq P
    <2> HIDE DEF P, a
    <2> QED
      BY <1>0, <1>1, <1>2, IntervalInduction
  <1>4. k \in P
    <2>1. k \in a..k
      OBVIOUS
    <2> HIDE DEF P, a
    <2> QED
      BY <1>3, <2>1
  <1>5. \E f : f = [s \in a..k |-> E(f, s)]
    <2> HIDE DEF E, a
    <2> QED
      BY <1>4
  <1> QED
    BY <1>5, Zenon DEF IsGaps

\* What is true of a gap stays true while the reader goes on.
LEMMA GapStaysTrue ==
    ASSUME NEW m, NEW r, NEW q, NEW base, NEW dl, NEW dl2, NEW lo, NEW N,
           Reads(r, dl, base, lo, N), Reads(q, dl2, base, lo, N), Onward(r, dl, q, dl2),
           GapType(m, N), N \in Nat, GapTrue(m, r.in_sync, r.own, base \cup Elements(dl))
    PROVE  GapTrue(m, q.in_sync, q.own, base \cup Elements(dl2))
  <1>1. Trusted(q.in_sync) => Trusted(r.in_sync)
    BY DEF Onward, Trusted
  <1>2. Trusted(q.in_sync) => m.start..(m.end - 1) \cup m.bits \subseteq base \cup Elements(dl2)
    BY <1>1 DEF Onward, GapTrue
  <1>3. ASSUME q.in_sync = "OUT_OF_SYNC", NEW n \in {m.start} \cup m.bits PROVE n < q.own.next_seq + MaxSamples
    <2>1. n < r.own.next_seq + MaxSamples /\ r.own.next_seq <= q.own.next_seq
      BY <1>3 DEF Onward, GapTrue
    <2>2. n \in Nat
      BY DEF GapType, Numbers
    <2>3. r.own.next_seq \in Nat /\ q.own.next_seq \in Nat /\ MaxSamples \in Nat
      BY StreamAssumption, SoundNext DEF Reads, ReaderOK
    <2> QED
      BY <2>1, <2>2, <2>3
  <1> QED
    BY <1>2, <1>3 DEF GapTrue

GapHandled(o, r, dl, base, lo, N) ==
    o \in [rd : Readers, sc : Seq(lo..N)] /\ Handled(o, r, dl, base, lo, N)

\* Sequences join in any grouping.
LEMMA Regrouped ==
    \A T : \A s, t, u \in Seq(T) : (s \o t) \o u = s \o (t \o u)
  BY ConcatAssociative

\* One gap after others.
LEMMA HandledAgain ==
    ASSUME NEW r, NEW dl, NEW base, NEW lo, NEW N, Owed(base, lo, N), Reads(r, dl, base, lo, N),
           r.have_seen_heartbeat, NEW o, GapHandled(o, r, dl, base, lo, N), NEW a, NEW b,
           TrueGap(o.rd.in_sync, o.rd.own, base \cup Elements(dl \o o.sc), a, b, N)
    PROVE  GapHandled(GapAgain(o, a, b), r, dl, base, lo, N)
  <1> DEFINE p == handle_one_gap(o.rd, a, b)
  <1>1. /\ o.sc \in Seq(lo..N) /\ Reads(o.rd, dl \o o.sc, base, lo, N) /\ o.rd.have_seen_heartbeat
        /\ Onward(r, dl, o.rd, dl \o o.sc)
    BY DEF GapHandled, Handled
  <1>2. Handled(p, o.rd, dl \o o.sc, base, lo, N)
    BY <1>1, HandledOneGap
  <1> HIDE DEF p
  <1>3. dl \in Seq(lo..N)
    BY DEF Reads, ReaderOK
  <1>4. p.sc \in Seq(lo..N)
    BY <1>2 DEF Handled
  <1>5. (dl \o o.sc) \o p.sc = dl \o (o.sc \o p.sc) /\ o.sc \o p.sc \in Seq(lo..N)
    <2>1. o.sc \o p.sc \in Seq(lo..N)
      BY <1>1, <1>4, ConcatProperties
    <2>2. (dl \o o.sc) \o p.sc = dl \o (o.sc \o p.sc)
      <3>1. \A s, t, u \in Seq(lo..N) : (s \o t) \o u = s \o (t \o u)
        <4> DEFINE T == lo..N
        <4> HIDE DEF T
        <4>1. \A s, t, u \in Seq(T) : (s \o t) \o u = s \o (t \o u)
          BY Regrouped
        <4> QED
          BY <4>1 DEF T
      <3>2. o.sc \in Seq(lo..N)
        BY <1>1
      <3> QED
        BY <1>3, <1>4, <3>1, <3>2, Zenon
    <2> QED
      BY <2>1, <2>2
  <1>6. GapAgain(o, a, b) = [rd |-> p.rd, sc |-> o.sc \o p.sc]
    BY DEF GapAgain, p
  <1>7. p.rd \in Readers
    BY <1>2 DEF Handled, Reads
  <1>8. Onward(r, dl, p.rd, (dl \o o.sc) \o p.sc)
    <2>1. Onward(o.rd, dl \o o.sc, p.rd, (dl \o o.sc) \o p.sc)
      BY <1>2 DEF Handled
    <2>2. r.own.next_seq \in Nat /\ o.rd.own.next_seq \in Nat /\ p.rd.own.next_seq \in Nat
      BY <1>1, <1>2, SoundNext DEF Reads, ReaderOK, Handled
    <2> QED
      BY <1>1, <2>1, <2>2 DEF Onward
  <1> QED
    BY <1>1, <1>2, <1>5, <1>6, <1>7, <1>8 DEF GapHandled, Handled

\* A run of numbers in a bitmap ends behind its last.
LEMMA RunEndIs ==
    ASSUME NEW N \in Nat, NEW bits \in SUBSET (1..N), NEW a \in bits
    PROVE  /\ RunEnd(bits, a) \in Nat /\ a < RunEnd(bits, a) /\ RunEnd(bits, a) <= N + 1
           /\ a..(RunEnd(bits, a) - 1) \subseteq bits
  <1>1. PICK b \in (a + 1)..(N + 1) : b \notin bits /\ a..(b - 1) \subseteq bits /\ b - 1 \in bits
    <2>1. bits \in SUBSET (0..N)
      OBVIOUS
    <2> QED
      BY <2>1, FirstOutside
  <1>2. b \in {s + 1 : s \in bits} /\ a < b
    <2>1. b = (b - 1) + 1
      OBVIOUS
    <2> QED
      BY <1>1, <2>1
  <1> DEFINE c == RunEnd(bits, a)
  <1>3. c \in {s + 1 : s \in bits} /\ a < c /\ a..(c - 1) \subseteq bits
    BY <1>1, <1>2 DEF RunEnd
  <1>4. c \in Nat /\ c <= N + 1
    <2> HIDE DEF c
    <2> QED
      BY <1>3
  <1> QED
    BY <1>3, <1>4

\* handle_Gap keeps the reader sound, for every gap message that is true.
LEMMA HandledGap ==
    ASSUME NEW r, NEW dl, NEW base, NEW lo, NEW N, Owed(base, lo, N), Reads(r, dl, base, lo, N),
           NEW m, GapType(m, N), GapTrue(m, r.in_sync, r.own, base \cup Elements(dl))
    PROVE  Handled(handle_Gap(r, m), r, dl, base, lo, N)
  <1> DEFINE none == Out(r, <<>>)
             last == Max({m.end - 1} \cup m.bits)
             f == CHOOSE f : IsGaps(f, r, m, last)
  <1>1. handle_Gap(r, m) = IF ~r.have_seen_heartbeat THEN none
                           ELSE [f[last] EXCEPT !.rd.last_seq = Max({@, last})]
    BY Zenon DEF handle_Gap, IsGaps, GapFirst, GapAgain
  <1>2. /\ N \in Nat /\ m.start \in Nat /\ m.end \in Nat /\ m.start >= 1 /\ m.start <= m.end /\ m.end <= N + 1
        /\ m.bits \in SUBSET (1..N) /\ dl \in Seq(lo..N) /\ r \in Readers
    BY DEF Owed, GapType, Numbers, Reads, ReaderOK
  <1>3. GapHandled(none, r, dl, base, lo, N)
    <2>1. dl \o <<>> = dl /\ <<>> \in Seq(lo..N)
      BY <1>2, NoSamples
    <2>2. none = [rd |-> r, sc |-> <<>>]
      BY NoSamples DEF Out
    <2>3. Onward(r, dl, r, dl)
      <3>1. r.own.next_seq <= r.own.next_seq
        BY SoundNext DEF Reads, ReaderOK
      <3> QED
        BY <3>1 DEF Onward
    <2> HIDE DEF none
    <2>4. none.rd = r /\ none.sc = <<>>
      BY <2>2
    <2>5. none \in [rd : Readers, sc : Seq(lo..N)]
      BY <1>2, <2>1, <2>2
    <2> QED
      BY <2>1, <2>3, <2>4, <2>5 DEF GapHandled, Handled
  <1>4. CASE ~r.have_seen_heartbeat
    BY <1>1, <1>3, <1>4 DEF GapHandled
  <1>5. CASE r.have_seen_heartbeat
    <2>1. last \in Nat /\ m.end - 1 <= last /\ \A s \in m.bits : s <= last
      <3> DEFINE S == {m.end - 1} \cup m.bits
      <3>1. S \in SUBSET (0..N) /\ S # {} /\ m.end - 1 \in S
        BY <1>2
      <3> HIDE DEF S
      <3>2. Max(S) \in S /\ \A y \in S : y <= Max(S)
        BY <1>2, <3>1, MaxIs
      <3>3. Max(S) \in Nat /\ m.end - 1 <= Max(S)
        <4>1. Max(S) \in 0..N
          BY <3>1, <3>2
        <4>2. Max(S) \in Nat
          BY <1>2, <4>1
        <4>3. m.end - 1 <= Max(S)
          BY <3>1, <3>2, Zenon
        <4> QED
          BY <4>2, <4>3
      <3>4. \A s \in m.bits : s <= Max(S)
        BY <3>2 DEF S
      <3> QED
        BY <3>3, <3>4 DEF S
    <2> HIDE DEF last
    <2>2. IsGaps(f, r, m, last)
      <3>1. \E g : IsGaps(g, r, m, last)
        <4>1. last \in Int /\ m.end \in Int
          BY <1>2, <2>1
        <4> QED
          BY <2>1, <4>1, GapsExist
      <3> QED
        BY <3>1, Zenon
    <2> HIDE DEF f, none
    <2> DEFINE P == {s \in (m.end - 1)..last : GapHandled(f[s], r, dl, base, lo, N)}
    <2>3. m.end - 1 \in P
      <3>1. m.end - 1 \in (m.end - 1)..last
        BY <1>2, <2>1
      <3>2. f[m.end - 1] = GapFirst(r, m)
        BY <2>2, <3>1, GapsIs
      <3>3. CASE m.start < m.end
        <4>1. TrueGap(r.in_sync, r.own, base \cup Elements(dl), m.start, m.end, N)
          BY <1>2, <3>3 DEF TrueGap, GapTrue, GapType
        <4>2. none.rd = r /\ none.sc = <<>> /\ dl \o <<>> = dl
          BY <1>2, NoSamples DEF none, Out
        <4>3. TrueGap(none.rd.in_sync, none.rd.own, base \cup Elements(dl \o none.sc), m.start, m.end, N)
          BY <4>1, <4>2
        <4> QED
          BY <1>3, <1>5, <3>1, <3>2, <3>3, <4>3, HandledAgain DEF GapFirst, none
      <3>4. CASE ~(m.start < m.end)
        BY <1>3, <3>1, <3>2, <3>4 DEF GapFirst, none
      <3> QED
        BY <3>3, <3>4
    <2>4. ASSUME NEW s \in (m.end - 1)..last, s \in P, s < last
          PROVE  s + 1 \in P
      <3> DEFINE t == s + 1  o == f[s]
      <3>1. t \in (m.end - 1)..last /\ t # m.end - 1 /\ t - 1 = s
        BY <1>2, <2>1, <2>4
      <3> HIDE DEF t
      <3>2. f[t] = IF t \in m.bits /\ t - 1 \notin m.bits THEN GapAgain(o, t, RunEnd(m.bits, t)) ELSE o
        BY <2>2, <3>1, GapsIs
      <3>3. GapHandled(o, r, dl, base, lo, N)
        BY <2>4
      <3> HIDE DEF o
      <3>4. CASE t \in m.bits /\ t - 1 \notin m.bits
        <4> DEFINE b == RunEnd(m.bits, t)
        <4>0. t \in Nat /\ t >= 1
          BY <1>2, <3>4
        <4>1. b \in Nat /\ t < b /\ b <= N + 1 /\ t..(b - 1) \subseteq m.bits
          <5>1. t \in m.bits
            BY <3>4
          <5> QED
            BY <1>2, <5>1, RunEndIs
        <4> HIDE DEF b
        <4>2. GapTrue(m, o.rd.in_sync, o.rd.own, base \cup Elements(dl \o o.sc))
          BY <1>2, <3>3, GapStaysTrue DEF GapHandled, Handled
        <4>3. TrueGap(o.rd.in_sync, o.rd.own, base \cup Elements(dl \o o.sc), t, b, N)
          BY <3>4, <4>0, <4>1, <4>2 DEF GapTrue, TrueGap, Numbers
        <4>4. GapHandled(GapAgain(o, t, b), r, dl, base, lo, N)
          BY <1>5, <3>3, <4>3, HandledAgain
        <4> QED
          BY <3>1, <3>2, <3>4, <4>4 DEF b, t
      <3>5. CASE ~(t \in m.bits /\ t - 1 \notin m.bits)
        BY <3>1, <3>2, <3>3, <3>5 DEF t
      <3> QED
        BY <3>4, <3>5
    <2>5. last \in P
      <3>1. (m.end - 1)..last \subseteq P
        <4> DEFINE a == m.end - 1
        <4>1. a \in Int /\ last \in Int
          BY <1>2, <2>1
        <4>2. a \in P /\ \A s \in a..last : s \in P /\ s < last => s + 1 \in P
          BY <2>3, <2>4
        <4> HIDE DEF P, a
        <4>3. a..last \subseteq P
          BY <4>1, <4>2, IntervalInduction
        <4> QED
          BY <4>3 DEF a
      <3>2. last \in (m.end - 1)..last
        BY <1>2, <2>1
      <3> HIDE DEF P
      <3> QED
        BY <3>1, <3>2
    <2> DEFINE g == f[last]  o == [g EXCEPT !.rd.last_seq = Max({@, last})]
    <2>6. GapHandled(g, r, dl, base, lo, N)
      BY <2>5
    <2> HIDE DEF g
    <2>7. /\ o.sc = g.sc /\ o.rd \in Readers /\ o.rd.in_sync = g.rd.in_sync /\ o.rd.own = g.rd.own
          /\ o.rd.reorder = g.rd.reorder /\ o.rd.have_seen_heartbeat = g.rd.have_seen_heartbeat
      <3>1. g \in [rd : Readers, sc : Seq(lo..N)]
        BY <2>6 DEF GapHandled
      <3>2. Max({g.rd.last_seq, last}) \in Nat
        BY <2>1, <3>1, MaxType DEF Readers
      <3>3. o = [g EXCEPT !.rd = [g.rd EXCEPT !.last_seq = Max({g.rd.last_seq, last})]]
        OBVIOUS
      <3> HIDE DEF o
      <3>4. o.rd = [g.rd EXCEPT !.last_seq = Max({g.rd.last_seq, last})] /\ o.sc = g.sc
        BY <3>1, <3>3
      <3> QED
        BY <3>1, <3>2, <3>4 DEF Readers
    <2>8. handle_Gap(r, m) = o
      BY <1>1, <1>5 DEF g
    <2> HIDE DEF o
    <2>9. Handled(o, r, dl, base, lo, N)
      BY <2>6, <2>7 DEF GapHandled, Handled, Reads, Onward
    <2> QED
      BY <2>8, <2>9
  <1> QED
    BY <1>4, <1>5


\* A heartbeat.
BeatType(m, lo, N) ==
    /\ m.first \in Numbers /\ m.last \in Nat /\ m.first <= m.last + 1 /\ m.last <= N
    /\ lo <= m.last + 1 /\ m.ans \in BOOLEAN
BeatTrue(m, sync, gone) == Trusted(sync) => 1..(m.first - 1) \subseteq gone

\* handle_Heartbeat keeps it sound, for every heartbeat that is true.
LEMMA HandledHeartbeat ==
    ASSUME NEW r, NEW dl, NEW base, NEW lo, NEW N, Owed(base, lo, N), Reads(r, dl, base, lo, N),
           NEW m, BeatType(m, lo, N), BeatTrue(m, r.in_sync, base \cup Elements(dl))
    PROVE  Handled(handle_Heartbeat(r, m), r, dl, base, lo, N)
  <1> DEFINE end == IF r.have_seen_heartbeat THEN m.first ELSE m.last + 1
             all == nn_reorder_gap(r.reorder, 1, end)
             one == nn_reorder_gap(r.own, 1, m.first)
             tl == IF r.in_sync # "SYNC" /\ r.end_of_tl_seq = MAX_SEQ_NUMBER THEN m.last ELSE r.end_of_tl_seq
             r1 == [r EXCEPT !.have_seen_heartbeat = TRUE, !.last_seq = Max({@, m.last}),
                             !.reorder = all.reorder, !.end_of_tl_seq = tl,
                             !.heartbeat_since_ack = TRUE, !.ack_requested = @ \/ m.ans]
             r2 == [r1 EXCEPT !.own = one.reorder]
             late1 == maybe_set_reader_in_sync(r1, all.reorder.next_seq - 1)
             late2 == maybe_set_reader_in_sync(r2, one.reorder.next_seq - 1)
             o == CASE r.in_sync = "SYNC" -> Out(r1, all.sc)
                    [] r.in_sync = "TLCATCHUP" -> Out(late1, <<>>)
                    [] OTHER -> Out(late2, one.sc)
             q == [o EXCEPT !.rd.scheduled = @ \/ get_AckNack_info(o.rd) # {"SUPPRESSED_ACK"}]
  <1>1. handle_Heartbeat(r, m) = q
    BY DEF handle_Heartbeat
  <1>2. /\ r \in Readers /\ ReaderOK(r.have_seen_heartbeat, r.in_sync, r.reorder, r.own, dl, base, lo, N)
        /\ r.have_seen_heartbeat \in BOOLEAN /\ dl \in Seq(lo..N) /\ r.in_sync \in Syncs
    BY DEF Reads, Readers, ReaderOK
  <1>3. /\ m.first \in Numbers /\ m.last \in Nat /\ m.first <= m.last + 1 /\ m.last <= N /\ lo <= m.last + 1
        /\ m.ans \in BOOLEAN
    BY DEF BeatType
  <1>4. dl \o <<>> = dl /\ <<>> \in Seq(lo..N)
    BY <1>2, NoSamples
  <1>5. Max({r.last_seq, m.last}) \in Nat /\ tl \in Nat
    <2>1. r.last_seq \in Nat /\ r.end_of_tl_seq \in Nat
      BY <1>2 DEF Readers
    <2> QED
      BY <1>3, <2>1, MaxType
  <1> HIDE DEF end, all, one, tl
  <1>6. ASSUME all.reorder \in RB!Reorders
        PROVE  /\ r1 \in Readers /\ r1.have_seen_heartbeat = TRUE /\ r1.in_sync = r.in_sync
               /\ r1.reorder = all.reorder /\ r1.own = r.own
    BY <1>2, <1>3, <1>5, <1>6 DEF Readers
  <1> HIDE DEF r1
  <1>7. ASSUME all.reorder \in RB!Reorders, one.reorder \in RB!Reorders
        PROVE  /\ r2 \in Readers /\ r2.have_seen_heartbeat = TRUE /\ r2.in_sync = r.in_sync
               /\ r2.reorder = all.reorder /\ r2.own = one.reorder
    BY <1>6, <1>7 DEF Readers
  <1> HIDE DEF r2, late1, late2
  <1>8. ASSUME r.have_seen_heartbeat
        PROVE  TrueGap(r.in_sync, r.own, base \cup Elements(dl), 1, m.first, N) /\ end = m.first
               /\ ReaderOK(TRUE, r.in_sync, r.reorder, r.own, dl, base, lo, N)
    <2>1. m.first <= N + 1 /\ (1 < m.first \/ m.first = 1) /\ 1 \in Numbers
      BY <1>3 DEF Numbers, Owed
    <2>2. 1 < r.own.next_seq + MaxSamples
      <3>1. r.own.next_seq \in Nat /\ r.own.next_seq >= 1
        BY <1>2, SoundNext DEF ReaderOK
      <3> QED
        BY <3>1, StreamAssumption
    <2>3. r.have_seen_heartbeat = TRUE
      BY <1>2, <1>8
    <2> QED
      BY <1>2, <1>3, <1>8, <2>1, <2>2, <2>3 DEF TrueGap, BeatTrue, end
  <1>9. Handled(o, r, dl, base, lo, N) /\ o \in [rd : Readers, sc : Seq(lo..N)] /\ o.rd.have_seen_heartbeat
    <2>1. CASE r.in_sync = "OUT_OF_SYNC"
      <3>1. o = Out(late2, one.sc)
        BY <2>1
      <3>2. /\ ReaderOK(TRUE, r.in_sync, all.reorder, one.reorder, dl \o Samples(one.sc), base, lo, N)
            /\ Samples(one.sc) \in Seq(lo..N) /\ r.own.next_seq <= one.reorder.next_seq
            /\ Elements(dl) \subseteq Elements(dl \o Samples(one.sc))
        <4>1. CASE r.have_seen_heartbeat
          <5>1. /\ TrueGap("OUT_OF_SYNC", r.own, base \cup Elements(dl), 1, m.first, N)
                /\ ReaderOK(TRUE, "OUT_OF_SYNC", r.reorder, r.own, dl, base, lo, N)
                /\ all = nn_reorder_gap(r.reorder, 1, m.first)
            BY <1>8, <2>1, <4>1 DEF all
          <5> QED
            BY <2>1, <5>1, GapCatchingUp DEF one
        <4>2. CASE ~r.have_seen_heartbeat
          <5>1. /\ ReaderOK(FALSE, r.in_sync, r.reorder, r.own, dl, base, lo, N)
                /\ 1..(m.first - 1) \subseteq base \cup Elements(dl)
                /\ all = nn_reorder_gap(r.reorder, 1, m.last + 1)
            BY <1>2, <2>1, <4>2 DEF BeatTrue, Trusted, all, end
          <5>2. /\ ReaderOK(TRUE, r.in_sync, all.reorder, one.reorder, dl, base, lo, N)
                /\ one.sc = <<>> /\ r.own.next_seq <= one.reorder.next_seq
            <6> DEFINE f == m.first  l == m.last
            <6>1. /\ f \in Numbers /\ l \in Nat /\ f <= l + 1 /\ lo <= l + 1 /\ l <= N
                  /\ 1..(f - 1) \subseteq base \cup Elements(dl)
              BY <1>3, <5>1
            <6>2. all = nn_reorder_gap(r.reorder, 1, l + 1) /\ one = nn_reorder_gap(r.own, 1, f)
              BY <5>1 DEF one
            <6> HIDE DEF f, l
            <6>3. LET ao == nn_reorder_gap(r.reorder, 1, l + 1)
                      oo == nn_reorder_gap(r.own, 1, f)
                  IN /\ r.in_sync = "OUT_OF_SYNC" /\ ReaderOK(TRUE, r.in_sync, ao.reorder, oo.reorder, dl, base, lo, N)
                     /\ oo.sc = <<>> /\ r.own.next_seq <= oo.reorder.next_seq
              BY <5>1, <6>1, FirstHeartbeat
            <6> QED
              BY <6>2, <6>3
          <5>3. Samples(one.sc) = <<>>
            BY <5>2, NoSamples
          <5> QED
            BY <1>4, <5>2, <5>3
        <4> QED
          BY <4>1, <4>2
      <3>3. all.reorder \in RB!Reorders /\ one.reorder \in RB!Reorders
        BY <3>2 DEF ReaderOK, Sound
      <3> DEFINE dl2 == dl \o Samples(one.sc)
      <3>4. Reads(r2, dl2, base, lo, N) /\ r2.have_seen_heartbeat
        BY <1>7, <3>2, <3>3 DEF Reads
      <3> HIDE DEF dl2, o
      <3>5. /\ Reads(late2, dl2, base, lo, N) /\ late2.have_seen_heartbeat
            /\ late2.own = r2.own /\ (late2.in_sync = "OUT_OF_SYNC" => r2.in_sync = "OUT_OF_SYNC")
        BY <3>4, MaybeSync DEF late2
      <3>6. o = [rd |-> late2, sc |-> Samples(one.sc)]
        BY <3>1 DEF Out
      <3>7. Handled(o, r, dl, base, lo, N)
        BY <1>7, <3>2, <3>3, <3>5, <3>6 DEF Handled, Onward, dl2
      <3> QED
        BY <3>2, <3>5, <3>6, <3>7 DEF Reads
    <2>2. CASE r.in_sync = "SYNC"
      <3>0. o = Out(r1, all.sc)
        BY <2>2
      <3>1. r.have_seen_heartbeat
        BY <1>2, <2>2 DEF ReaderOK
      <3>2. /\ ReaderOK(TRUE, r.in_sync, all.reorder, r.own, dl \o Samples(all.sc), base, lo, N)
            /\ Samples(all.sc) \in Seq(lo..N)
            /\ Elements(dl) \subseteq Elements(dl \o Samples(all.sc))
        <4>1. all = nn_reorder_gap(r.reorder, 1, m.first)
          BY <1>8, <3>1 DEF all
        <4> QED
          BY <1>8, <2>2, <3>1, <4>1, GapLater
      <3>3. all.reorder \in RB!Reorders
        BY <3>2 DEF ReaderOK, Sound
      <3> HIDE DEF o
      <3>4. o = [rd |-> r1, sc |-> Samples(all.sc)]
        BY <3>0 DEF Out
      <3>5. Handled(o, r, dl, base, lo, N)
        BY <1>6, <2>2, <3>2, <3>3, <3>4 DEF Handled, Onward, Reads
      <3> QED
        BY <1>6, <3>2, <3>3, <3>4, <3>5
    <2>3. CASE r.in_sync = "TLCATCHUP"
      <3>0. o = Out(late1, <<>>)
        BY <2>3
      <3>1. r.have_seen_heartbeat
        BY <1>2, <2>3 DEF ReaderOK
      <3>2. ReaderOK(TRUE, r.in_sync, all.reorder, r.own, dl, base, lo, N)
        <4>1. all = nn_reorder_gap(r.reorder, 1, m.first)
          BY <1>8, <3>1 DEF all
        <4> QED
          BY <1>8, <2>3, <3>1, <4>1, GapLater
      <3>3. all.reorder \in RB!Reorders
        BY <3>2 DEF ReaderOK, Sound
      <3>4. Reads(r1, dl, base, lo, N) /\ r1.have_seen_heartbeat
        BY <1>6, <3>2, <3>3 DEF Reads
      <3> HIDE DEF o
      <3>5. /\ Reads(late1, dl, base, lo, N) /\ late1.have_seen_heartbeat
            /\ (late1.in_sync = "OUT_OF_SYNC" => r1.in_sync = "OUT_OF_SYNC")
        BY <3>4, MaybeSync DEF late1
      <3>6. o = [rd |-> late1, sc |-> <<>>]
        BY <3>0, NoSamples DEF Out
      <3>7. Handled(o, r, dl, base, lo, N)
        BY <1>4, <1>6, <2>3, <3>3, <3>5, <3>6 DEF Handled, Onward
      <3> QED
        BY <1>4, <3>5, <3>6, <3>7 DEF Reads
    <2> QED
      BY <1>2, <2>1, <2>2, <2>3 DEF Syncs
  <1> HIDE DEF o
  <1>10. /\ q.sc = o.sc /\ q.rd \in Readers /\ q.rd.in_sync = o.rd.in_sync /\ q.rd.own = o.rd.own
         /\ q.rd.reorder = o.rd.reorder /\ q.rd.have_seen_heartbeat = o.rd.have_seen_heartbeat
    <2> DEFINE s == o.rd.scheduled \/ get_AckNack_info(o.rd) # {"SUPPRESSED_ACK"}
    <2>1. q = [o EXCEPT !.rd = [o.rd EXCEPT !.scheduled = s]]
      OBVIOUS
    <2>2. s \in BOOLEAN
      OBVIOUS
    <2> HIDE DEF q, s
    <2>3. q.rd = [o.rd EXCEPT !.scheduled = s] /\ q.sc = o.sc
      BY <1>9, <2>1
    <2> QED
      BY <1>9, <2>2, <2>3 DEF Readers
  <1> HIDE DEF q
  <1>11. Handled(q, r, dl, base, lo, N)
    BY <1>9, <1>10 DEF Handled, Reads, Onward
  <1> QED
    BY <1>1, <1>11

----------------------------------------------------------------------------
(* The writer's history of n samples of one instance.                       *)

Fields == {"wrinfo", "node", "idx", "max_drop_seq", "maxseq_node", "unacked_bytes"}
Infos == [is_transient_local : BOOLEAN, hdepth : Depths, tldepth : Nat, idxdepth : Nat]

InfoOK(info) ==
    /\ info \in Infos /\ info.idxdepth = info.hdepth
    /\ info.tldepth = IF info.is_transient_local THEN info.hdepth ELSE 0

\* The index holds numbers of samples written.
IndexOK(c, n) ==
    "k" \in DOMAIN c.idx /\ c.wrinfo.idxdepth > 0 =>
        /\ DOMAIN c.idx["k"] = {"headidx", "hist"} /\ c.idx["k"].headidx \in Nat
        /\ c.idx["k"].hist \in [0..(c.wrinfo.idxdepth - 1) -> 0..n]

\* Without index, there is one run of numbers up to the last.
CacheOK(c, n) ==
    /\ DOMAIN c = Fields /\ InfoOK(c.wrinfo) /\ IndexOK(c, n) /\ DOMAIN c.node \subseteq 1..n
    /\ c.maxseq_node = FindMaxSeq(c.node)
    /\ (c.wrinfo.hdepth = 0 /\ ~c.wrinfo.is_transient_local) =>
          \A s \in DOMAIN c.node : s..n \subseteq DOMAIN c.node

\* The last number of a history.
LEMMA MaxSeqIs ==
    ASSUME NEW n \in Nat, NEW node, DOMAIN node \subseteq 1..n
    PROVE  /\ FindMaxSeq(node) \in {0} \cup DOMAIN node /\ FindMaxSeq(node) \in 0..n
           /\ \A s \in DOMAIN node : s <= FindMaxSeq(node)
           /\ FindMaxSeq(node) = 0 <=> DOMAIN node = {}
  <1> DEFINE S == {0} \cup DOMAIN node
  <1>1. S \in SUBSET (0..n) /\ S # {}
    OBVIOUS
  <1>2. Max(S) \in S /\ \A y \in S : y <= Max(S)
    <2> HIDE DEF S
    <2> QED
      BY <1>1, MaxIs
  <1>3. FindMaxSeq(node) = Max(S)
    BY DEF FindMaxSeq
  <1> DEFINE x == Max(S)
  <1>4. x \in {0} \cup DOMAIN node /\ x \in 0..n /\ \A s \in DOMAIN node : s <= x
    <2> HIDE DEF x
    <2>1. x \in S /\ \A y \in S : y <= x
      BY <1>2 DEF x
    <2> QED
      BY <1>1, <2>1
  <1>5. x = 0 <=> DOMAIN node = {}
    <2> HIDE DEF x, S
    <2>1. CASE DOMAIN node = {}
      BY <1>4, <2>1
    <2>2. CASE DOMAIN node # {}
      BY <1>4, <2>2
    <2> QED
      BY <2>1, <2>2
  <1> HIDE DEF x
  <1> QED
    BY <1>3, <1>4, <1>5 DEF x

\* A number that no other exceeds is the last.
LEMMA MaxSeqOf ==
    ASSUME NEW n \in Nat, NEW node, DOMAIN node \subseteq 1..n, NEW t \in DOMAIN node,
           \A s \in DOMAIN node : s <= t
    PROVE  FindMaxSeq(node) = t
  <1>1. FindMaxSeq(node) \in {0} \cup DOMAIN node /\ t <= FindMaxSeq(node) /\ FindMaxSeq(node) \in 0..n /\ t \in 1..n
    BY MaxSeqIs
  <1>2. FindMaxSeq(node) \in DOMAIN node
    BY <1>1
  <1>3. FindMaxSeq(node) <= t
    BY <1>2
  <1> QED
    BY <1>1, <1>3

\* Dropping samples leaves the others, and the index within bounds.
LEMMA DeletedIs ==
    ASSUME NEW c, NEW n \in Nat, DOMAIN c = Fields, IndexOK(c, n), NEW seqs
    PROVE  LET d == whc_delete(c, seqs)
           IN /\ DOMAIN d = Fields /\ d.wrinfo = c.wrinfo /\ d.maxseq_node = c.maxseq_node
              /\ DOMAIN d.node = DOMAIN c.node \ seqs /\ IndexOK(d, n)
  <1> DEFINE d == whc_delete(c, seqs)
  <1>1. /\ DOMAIN d = Fields /\ d.wrinfo = c.wrinfo /\ d.maxseq_node = c.maxseq_node
        /\ DOMAIN d.node = DOMAIN c.node \ seqs
        /\ d.idx = [k \in DOMAIN c.idx |-> delete_from_idx(c.idx[k], seqs)]
    BY DEF whc_delete, Restrict, Fields
  <1> HIDE DEF d
  <1>2. IndexOK(d, n)
    <2> SUFFICES ASSUME "k" \in DOMAIN d.idx, d.wrinfo.idxdepth > 0
                 PROVE  /\ DOMAIN d.idx["k"] = {"headidx", "hist"} /\ d.idx["k"].headidx \in Nat
                        /\ d.idx["k"].hist \in [0..(d.wrinfo.idxdepth - 1) -> 0..n]
      BY DEF IndexOK
    <2> DEFINE e == c.idx["k"]  f == d.idx["k"]
    <2>1. "k" \in DOMAIN c.idx /\ c.wrinfo.idxdepth > 0 /\ f = delete_from_idx(e, seqs)
      BY <1>1
    <2>2. /\ DOMAIN e = {"headidx", "hist"} /\ e.headidx \in Nat
          /\ e.hist \in [0..(d.wrinfo.idxdepth - 1) -> 0..n]
      BY <1>1, <2>1 DEF IndexOK
    <2> HIDE DEF e, f
    <2>3. /\ DOMAIN f = {"headidx", "hist"} /\ f.headidx = e.headidx
          /\ f.hist = [p \in DOMAIN e.hist |-> IF e.hist[p] \in seqs THEN 0 ELSE e.hist[p]]
      BY <2>1, <2>2 DEF delete_from_idx
    <2>4. f.hist \in [0..(d.wrinfo.idxdepth - 1) -> 0..n]
      <3> DEFINE P == 0..(d.wrinfo.idxdepth - 1)  Q == 0..n  h == e.hist
      <3>1. h \in [P -> Q] /\ 0 \in Q /\ f.hist = [p \in DOMAIN h |-> IF h[p] \in seqs THEN 0 ELSE h[p]]
        BY <2>2, <2>3
      <3> HIDE DEF P, Q, h
      <3>2. f.hist \in [P -> Q]
        BY <3>1
      <3> QED
        BY <3>2 DEF P, Q
    <2> QED
      BY <2>2, <2>3, <2>4 DEF f
  <1> QED
    BY <1>1, <1>2 DEF d

\* A further sample takes the place of one, if there is no room in the index.
LEMMA AddedTo ==
    ASSUME NEW c, NEW n \in Nat, CacheOK(c, n), NEW new, DOMAIN new = Fields, new.wrinfo = c.wrinfo,
           new.idx = c.idx, new.maxseq_node = n + 1, DOMAIN new.node = DOMAIN c.node \cup {n + 1},
           "k" \in DOMAIN c.idx, c.wrinfo.idxdepth > 0, NEW m
    PROVE  LET d == AddToInstance(new, m, n + 1, "k")
           IN /\ DOMAIN d = Fields /\ d.wrinfo = c.wrinfo /\ d.maxseq_node = n + 1 /\ IndexOK(d, n + 1)
              /\ n + 1 \in DOMAIN d.node /\ DOMAIN d.node \subseteq DOMAIN c.node \cup {n + 1}
  <1> DEFINE info == new.wrinfo
             e == new.idx["k"]
             head == (e.headidx + 1) % info.idxdepth
             oldn == e.hist[head]
             entry == [headidx |-> head, hist |-> [e.hist EXCEPT ![head] = n + 1]]
             added == [new EXCEPT !.idx["k"] = entry]
             overwrite == /\ oldn # 0 /\ (info.hdepth > 0 \/ oldn <= m)
                          /\ (~info.is_transient_local \/ info.tldepth > 0)
             whc1 == IF overwrite THEN whc_delete(added, {oldn}) ELSE added
             tail == whc1.idx["k"].hist[(head + info.idxdepth - info.tldepth) % info.idxdepth]
             d == AddToInstance(new, m, n + 1, "k")
  <1>1. d = IF n + 1 <= m /\ info.tldepth > 0 /\ info.idxdepth > info.tldepth /\ tail # 0
            THEN whc_delete(whc1, {tail}) ELSE whc1
    BY DEF AddToInstance
  <1>2. /\ info.idxdepth \in Nat /\ info.idxdepth > 0 /\ ~(info.tldepth > 0 /\ info.idxdepth > info.tldepth)
    <2>1. InfoOK(info)
      BY DEF CacheOK
    <2>2. info.hdepth \in Nat
      BY <2>1, StreamAssumption DEF InfoOK, Infos
    <2> QED
      BY <2>1, <2>2 DEF InfoOK
  <1>3. d = whc1
    BY <1>1, <1>2
  <1>4. /\ DOMAIN e = {"headidx", "hist"} /\ e.headidx \in Nat
        /\ e.hist \in [0..(info.idxdepth - 1) -> 0..n]
    BY DEF CacheOK, IndexOK
  <1>5. head \in 0..(info.idxdepth - 1)
    <2> DEFINE h == e.headidx  i == info.idxdepth
    <2>1. h \in Nat /\ i \in Nat /\ i > 0
      BY <1>2, <1>4
    <2> HIDE DEF h, i
    <2>2. (h + 1) % i \in 0..(i - 1)
      BY <2>1
    <2> QED
      BY <2>2 DEF h, i
  <1> HIDE DEF d, head, tail
  <1>6. oldn \in 0..n
    BY <1>4, <1>5
  <1>7. /\ DOMAIN added = Fields /\ added.wrinfo = c.wrinfo /\ added.maxseq_node = n + 1
        /\ added.node = new.node /\ added.idx["k"] = entry /\ DOMAIN added.idx = DOMAIN c.idx
    <2> HIDE DEF entry
    <2> QED
      BY DEF Fields
  <1>8. IndexOK(added, n + 1)
    <2>1. entry.headidx \in Nat /\ DOMAIN entry = {"headidx", "hist"}
      <3> HIDE DEF e
      <3>1. head \in Nat
        BY <1>2, <1>5
      <3> QED
        BY <3>1
    <2>2. entry.hist \in [0..(info.idxdepth - 1) -> 0..(n + 1)]
      <3> DEFINE P == 0..(info.idxdepth - 1)  Q == 0..n  h == e.hist  R == 0..(n + 1)  t == n + 1
      <3>1. h \in [P -> Q] /\ Q \subseteq R /\ t \in R
        BY <1>4
      <3>2. entry.hist = [h EXCEPT ![head] = t]
        OBVIOUS
      <3> HIDE DEF P, Q, h, R, entry, t
      <3>3. entry.hist \in [P -> R]
        BY <3>1, <3>2
      <3> QED
        BY <3>3 DEF P, R
    <2> HIDE DEF entry, added
    <2>3. added.wrinfo.idxdepth = info.idxdepth
      BY <1>7
    <2> QED
      BY <1>7, <2>1, <2>2, <2>3 DEF IndexOK
  <1> HIDE DEF added, overwrite
  <1>9. LET w == whc_delete(added, {oldn})
        IN /\ DOMAIN w = Fields /\ w.wrinfo = added.wrinfo /\ w.maxseq_node = added.maxseq_node
           /\ DOMAIN w.node = DOMAIN added.node \ {oldn} /\ IndexOK(w, n + 1)
    <2>1. n + 1 \in Nat
      OBVIOUS
    <2> HIDE DEF oldn
    <2> QED
      BY <1>7, <1>8, <2>1, DeletedIs
  <1>10. n + 1 # oldn
    BY <1>6
  <1> HIDE DEF oldn
  <1>11. CASE overwrite
    BY <1>3, <1>7, <1>9, <1>10, <1>11 DEF d
  <1>12. CASE ~overwrite
    BY <1>3, <1>7, <1>8, <1>12 DEF d
  <1> QED
    BY <1>11, <1>12

\* whc_insert adds the sample; only a history of limited depth gives up another.
LEMMA InsertIs ==
    ASSUME NEW c, NEW n \in Nat, CacheOK(c, n), NEW m
    PROVE  LET d == whc_insert(c, m, n + 1, "k", FALSE)
           IN /\ CacheOK(d, n + 1) /\ d.wrinfo = c.wrinfo /\ n + 1 \in DOMAIN d.node
              /\ DOMAIN d.node \subseteq DOMAIN c.node \cup {n + 1}
              /\ c.wrinfo.hdepth = 0 => DOMAIN d.node = DOMAIN c.node \cup {n + 1}
  <1> DEFINE new == whc_insert_seq(c, m, n + 1, "k")
             depth == c.wrinfo.idxdepth
             entry == [headidx |-> 0, hist |-> [p \in 0..(depth - 1) |-> IF p = 0 THEN n + 1 ELSE 0]]
             bound == [new EXCEPT !.idx = Bind(@, "k", entry)]
             d == whc_insert(c, m, n + 1, "k", FALSE)
  <1>1. d = IF "k" \notin DOMAIN c.idx THEN bound
            ELSE IF depth > 0 THEN AddToInstance(new, m, n + 1, "k") ELSE new
    <2>1. new.idx = c.idx
      BY DEF whc_insert_seq, CacheOK, Fields
    <2> QED
      BY <2>1 DEF whc_insert
  <1>2. /\ DOMAIN c = Fields /\ InfoOK(c.wrinfo) /\ IndexOK(c, n) /\ DOMAIN c.node \subseteq 1..n
    BY DEF CacheOK
  <1>3. depth \in Nat /\ c.wrinfo.hdepth = depth
    BY <1>2, StreamAssumption DEF InfoOK, Infos
  <1>4. /\ DOMAIN new = Fields /\ new.wrinfo = c.wrinfo /\ new.idx = c.idx /\ new.maxseq_node = n + 1
        /\ DOMAIN new.node = DOMAIN c.node \cup {n + 1}
    BY <1>2 DEF whc_insert_seq, Fields, Bind
  <1> HIDE DEF new, d
  <1>5. /\ DOMAIN d = Fields /\ d.wrinfo = c.wrinfo /\ d.maxseq_node = n + 1 /\ IndexOK(d, n + 1)
        /\ n + 1 \in DOMAIN d.node /\ DOMAIN d.node \subseteq DOMAIN c.node \cup {n + 1}
        /\ c.wrinfo.hdepth = 0 => DOMAIN d.node = DOMAIN c.node \cup {n + 1}
    <2>1. CASE "k" \notin DOMAIN c.idx
      <3> HIDE DEF entry
      <3>1. /\ DOMAIN bound = Fields /\ bound.wrinfo = c.wrinfo /\ bound.maxseq_node = n + 1
            /\ bound.node = new.node /\ bound.idx["k"] = entry
        BY <1>4 DEF Fields, Bind
      <3>2. IndexOK(bound, n + 1)
        <4>1. DOMAIN entry = {"headidx", "hist"} /\ entry.headidx \in Nat
          BY DEF entry
        <4>2. entry.hist \in [0..(depth - 1) -> 0..(n + 1)]
          <5>1. entry.hist = [p \in 0..(depth - 1) |-> IF p = 0 THEN n + 1 ELSE 0]
            BY DEF entry
          <5>2. n + 1 \in 0..(n + 1) /\ 0 \in 0..(n + 1)
            OBVIOUS
          <5> QED
            BY <5>1, <5>2
        <4> HIDE DEF bound
        <4> QED
          BY <3>1, <4>1, <4>2 DEF IndexOK
      <3> HIDE DEF bound
      <3>3. d = bound
        BY <1>1, <2>1
      <3> QED
        BY <1>4, <3>1, <3>2, <3>3
    <2>2. CASE "k" \in DOMAIN c.idx /\ depth > 0
      <3>1. d = AddToInstance(new, m, n + 1, "k")
        BY <1>1, <2>2
      <3> HIDE DEF bound
      <3> QED
        BY <1>3, <1>4, <2>2, <3>1, AddedTo
    <2>3. CASE "k" \in DOMAIN c.idx /\ ~(depth > 0)
      <3>1. d = new
        BY <1>1, <2>3
      <3>2. IndexOK(new, n + 1)
        BY <1>4, <2>3 DEF IndexOK
      <3> QED
        BY <1>4, <3>1, <3>2
    <2> QED
      BY <2>1, <2>2, <2>3
  <1>6. DOMAIN d.node \subseteq 1..(n + 1) /\ d.maxseq_node = FindMaxSeq(d.node)
    <2>1. DOMAIN d.node \subseteq 1..(n + 1) /\ \A s \in DOMAIN d.node : s <= n + 1
      BY <1>2, <1>5
    <2>2. n + 1 \in Nat
      OBVIOUS
    <2> QED
      BY <1>5, <2>1, <2>2, MaxSeqOf
  <1>7. ASSUME d.wrinfo.hdepth = 0, ~d.wrinfo.is_transient_local
        PROVE  \A s \in DOMAIN d.node : s..(n + 1) \subseteq DOMAIN d.node
    <2>1. DOMAIN d.node = DOMAIN c.node \cup {n + 1} /\ \A s \in DOMAIN c.node : s..n \subseteq DOMAIN c.node
      BY <1>5, <1>7 DEF CacheOK
    <2> TAKE s \in DOMAIN d.node
    <2>2. s \in 1..(n + 1)
      BY <1>6
    <2>3. CASE s = n + 1
      BY <2>1, <2>3
    <2>4. CASE s # n + 1
      <3>1. s..n \subseteq DOMAIN c.node
        BY <2>1, <2>4
      <3>2. \A x \in s..(n + 1) : x \in s..n \/ x = n + 1
        BY <2>2
      <3> QED
        BY <2>1, <3>1, <3>2
    <2> QED
      BY <2>3, <2>4
  <1>8. CacheOK(d, n + 1)
    BY <1>2, <1>5, <1>6, <1>7 DEF CacheOK
  <1> QED
    BY <1>5, <1>8 DEF d

\* What the removal of samples up to m leaves.
Remains(d, c, m, n) ==
    /\ CacheOK(d, n) /\ d.wrinfo = c.wrinfo /\ DOMAIN d.node \subseteq DOMAIN c.node
    /\ \A s \in DOMAIN c.node : s > m => s \in DOMAIN d.node

\* What was dropped last does not matter to the samples held.
LEMMA MovedOn ==
    ASSUME NEW c, NEW n, CacheOK(c, n), NEW v
    PROVE  LET d == [c EXCEPT !.max_drop_seq = v]
           IN CacheOK(d, n) /\ d.wrinfo = c.wrinfo /\ d.node = c.node
  <1> DEFINE d == [c EXCEPT !.max_drop_seq = v]
  <1>1. /\ DOMAIN d = Fields /\ d.wrinfo = c.wrinfo /\ d.node = c.node /\ d.idx = c.idx
        /\ d.maxseq_node = c.maxseq_node
    BY DEF CacheOK, Fields
  <1> HIDE DEF d
  <1>2. CacheOK(d, n)
    BY <1>1 DEF CacheOK, IndexOK
  <1> QED
    BY <1>1, <1>2 DEF d

\* Dropping acknowledged samples keeps all that are not (with index),
LEMMA RemoveFullIs ==
    ASSUME NEW c, NEW n \in Nat, CacheOK(c, n), NEW m \in 0..n,
           c.wrinfo.hdepth > 0 \/ c.wrinfo.is_transient_local
    PROVE  Remains(whc_remove_acked_messages_full(c, m), c, m, n)
  <1> DEFINE acked == {s \in DOMAIN c.node : c.max_drop_seq < s /\ s <= m}
             keep == {s \in acked : whcn_in_tlidx(c, s)}
             clear == ClearUnacked(c, keep)
             kept == whc_delete(clear, acked \ keep)
             prune == IF c.wrinfo.tldepth > 0 /\ c.wrinfo.idxdepth > c.wrinfo.tldepth
                      THEN UNION {BeyondTl(kept, c.node[s].key) : s \in keep} ELSE {}
             pruned == whc_delete(kept, prune)
             all == ClearUnacked(c, acked)
             rest == WithMaxSeq(pruned)
             d == whc_remove_acked_messages_full(c, m)
  <1>1. d = [all EXCEPT !.max_drop_seq = m] \/ d = [rest EXCEPT !.max_drop_seq = m]
    BY Zenon DEF whc_remove_acked_messages_full
  <1>2. /\ DOMAIN c = Fields /\ InfoOK(c.wrinfo) /\ IndexOK(c, n) /\ DOMAIN c.node \subseteq 1..n
        /\ c.maxseq_node = FindMaxSeq(c.node) /\ c.wrinfo.hdepth \in Nat
    BY StreamAssumption DEF CacheOK, InfoOK, Infos
  <1>3. prune = {} /\ acked \subseteq DOMAIN c.node /\ \A s \in acked : s <= m
    <2>1. ~(c.wrinfo.tldepth > 0 /\ c.wrinfo.idxdepth > c.wrinfo.tldepth)
      BY <1>2 DEF InfoOK
    <2> QED
      BY <2>1
  <1> HIDE DEF d, acked, keep, prune
  <1>4. \A seqs : LET w == ClearUnacked(c, seqs)
                  IN /\ DOMAIN w = Fields /\ w.wrinfo = c.wrinfo /\ w.maxseq_node = c.maxseq_node
                     /\ w.idx = c.idx /\ DOMAIN w.node = DOMAIN c.node
    BY <1>2 DEF ClearUnacked, Fields
  <1>5. /\ DOMAIN all = Fields /\ all.wrinfo = c.wrinfo /\ all.maxseq_node = c.maxseq_node
        /\ all.idx = c.idx /\ DOMAIN all.node = DOMAIN c.node
        /\ DOMAIN clear = Fields /\ clear.wrinfo = c.wrinfo /\ clear.maxseq_node = c.maxseq_node
        /\ clear.idx = c.idx /\ DOMAIN clear.node = DOMAIN c.node
    BY <1>4
  <1> HIDE DEF all, clear
  <1>6. Remains(all, c, m, n)
    <2>1. CacheOK(all, n)
      <3>1. FindMaxSeq(all.node) = FindMaxSeq(c.node)
        BY <1>5 DEF FindMaxSeq
      <3> QED
        BY <1>2, <1>5, <3>1 DEF CacheOK, IndexOK
    <2> QED
      BY <1>5, <2>1 DEF Remains
  <1>7. /\ DOMAIN kept = Fields /\ kept.wrinfo = c.wrinfo /\ kept.maxseq_node = c.maxseq_node
        /\ DOMAIN kept.node = DOMAIN c.node \ (acked \ keep) /\ IndexOK(kept, n)
    <2>1. IndexOK(clear, n)
      BY <1>2, <1>5 DEF IndexOK
    <2> DEFINE seqs == acked \ keep
    <2> HIDE DEF seqs
    <2>2. LET w == whc_delete(clear, seqs)
          IN /\ DOMAIN w = Fields /\ w.wrinfo = clear.wrinfo /\ w.maxseq_node = clear.maxseq_node
             /\ DOMAIN w.node = DOMAIN clear.node \ seqs /\ IndexOK(w, n)
      BY <1>5, <2>1, DeletedIs
    <2> QED
      BY <1>5, <2>2 DEF seqs
  <1> HIDE DEF kept
  <1>8. /\ DOMAIN pruned = Fields /\ pruned.wrinfo = c.wrinfo
        /\ DOMAIN pruned.node = DOMAIN c.node \ (acked \ keep) /\ IndexOK(pruned, n)
    <2>1. LET w == whc_delete(kept, prune)
          IN /\ DOMAIN w = Fields /\ w.wrinfo = kept.wrinfo /\ w.maxseq_node = kept.maxseq_node
             /\ DOMAIN w.node = DOMAIN kept.node \ prune /\ IndexOK(w, n)
      BY <1>7, DeletedIs
    <2> QED
      BY <1>3, <1>7, <2>1
  <1> HIDE DEF pruned
  <1>9. Remains(rest, c, m, n)
    <2>1. /\ DOMAIN rest = Fields /\ rest.wrinfo = c.wrinfo /\ rest.node = pruned.node /\ rest.idx = pruned.idx
          /\ rest.maxseq_node = FindMaxSeq(pruned.node)
      BY <1>8 DEF WithMaxSeq, Fields
    <2> HIDE DEF rest
    <2>2. IndexOK(rest, n) /\ DOMAIN rest.node \subseteq DOMAIN c.node
      BY <1>8, <2>1 DEF IndexOK
    <2>3. ~(c.wrinfo.hdepth = 0 /\ ~c.wrinfo.is_transient_local)
      BY <1>2
    <2>4. \A s \in DOMAIN c.node : s > m => s \in DOMAIN rest.node
      <3> SUFFICES ASSUME NEW s \in DOMAIN c.node, s > m PROVE s \in DOMAIN rest.node
        OBVIOUS
      <3>1. s \notin acked
        BY <1>2, <1>3
      <3> QED
        BY <1>8, <2>1, <3>1
    <2>5. CacheOK(rest, n)
      BY <1>2, <2>1, <2>2, <2>3 DEF CacheOK
    <2> QED
      BY <2>1, <2>2, <2>4, <2>5 DEF Remains
  <1> HIDE DEF rest
  <1>10. \A v \in {all, rest} : Remains([v EXCEPT !.max_drop_seq = m], c, m, n)
    <2> TAKE v \in {all, rest}
    <2> DEFINE w == [v EXCEPT !.max_drop_seq = m]
    <2>1. Remains(v, c, m, n)
      BY <1>6, <1>9
    <2>2. CacheOK(w, n) /\ w.wrinfo = v.wrinfo /\ w.node = v.node
      BY <2>1, MovedOn DEF Remains
    <2> HIDE DEF w
    <2>3. Remains(w, c, m, n)
      BY <2>1, <2>2 DEF Remains
    <2> QED
      BY <2>3 DEF w
  <1> QED
    BY <1>1, <1>10 DEF d

\* (without index),
LEMMA RemoveNoidxIs ==
    ASSUME NEW c, NEW n \in Nat, CacheOK(c, n), NEW m \in 0..n,
           c.wrinfo.hdepth = 0, ~c.wrinfo.is_transient_local
    PROVE  Remains(whc_remove_acked_messages_noidx(c, m), c, m, n)
  <1> DEFINE open == {s \in DOMAIN c.node : s..FindMaxSeq(c.node) \subseteq DOMAIN c.node}
             first_ == OpenMin(c.node)
             last == IF m \in DOMAIN c.node THEN m ELSE c.maxseq_node
             rest == Restrict(c.node, DOMAIN c.node \ first_..last)
             cut == [c EXCEPT !.node = rest, !.maxseq_node = IF last = @ THEN 0 ELSE @,
                              !.unacked_bytes = @ - (last - first_ + 1)]
             keeps == m <= c.max_drop_seq \/ c.maxseq_node = 0 \/ m < first_
             d == whc_remove_acked_messages_noidx(c, m)
  <1>1. \E v : d = IF keeps THEN [c EXCEPT !.max_drop_seq = v] ELSE [cut EXCEPT !.max_drop_seq = v]
    <2>1. d = IF keeps THEN [c EXCEPT !.max_drop_seq = Max({@, m})] ELSE [cut EXCEPT !.max_drop_seq = Max({@, m})]
      BY Zenon DEF whc_remove_acked_messages_noidx
    <2>2. cut.max_drop_seq = c.max_drop_seq
      <3> HIDE DEF rest, first_, last
      <3> QED
        BY DEF CacheOK, Fields
    <2> HIDE DEF d, cut, keeps
    <2> QED
      BY <2>1, <2>2
  <1>2. /\ DOMAIN c = Fields /\ InfoOK(c.wrinfo) /\ IndexOK(c, n) /\ DOMAIN c.node \subseteq 1..n
        /\ c.maxseq_node = FindMaxSeq(c.node) /\ \A s \in DOMAIN c.node : s..n \subseteq DOMAIN c.node
    BY DEF CacheOK
  <1>3. Remains(c, c, m, n)
    BY DEF Remains
  <1>4. ASSUME ~keeps PROVE Remains(cut, c, m, n)
    <2> DEFINE top == FindMaxSeq(c.node)
    <2>1. /\ top \in DOMAIN c.node /\ top \in 0..n /\ top # 0
          /\ \A s \in DOMAIN c.node : s <= top
      <3>1. top \in {0} \cup DOMAIN c.node /\ top \in 0..n /\ \A s \in DOMAIN c.node : s <= top
        BY <1>2, MaxSeqIs
      <3>2. top # 0
        BY <1>2, <1>4
      <3> HIDE DEF top
      <3> QED
        BY <3>1, <3>2
    <2>2. top = n
      <3> HIDE DEF top
      <3>1. n \in top..n
        BY <2>1
      <3>2. n \in DOMAIN c.node
        BY <1>2, <2>1, <3>1
      <3>3. n <= top
        BY <2>1, <3>2
      <3> QED
        BY <2>1, <3>3
    <2>3. open = DOMAIN c.node
      BY <1>2, <2>2
    <2>4. first_ = Min(DOMAIN c.node)
      BY <2>3 DEF OpenMin
    <2>5. DOMAIN c.node \subseteq Nat /\ DOMAIN c.node # {}
      BY <1>2, <2>1
    <2>6. first_ \in DOMAIN c.node /\ \A s \in DOMAIN c.node : first_ <= s
      BY <2>4, <2>5, MinIs
    <2> HIDE DEF first_, open, top
    <2>7. m \in DOMAIN c.node /\ last = m
      <3>1. first_ \in 1..n /\ m >= first_
        BY <1>2, <1>4, <2>6
      <3>2. m \in first_..n
        BY <3>1
      <3> QED
        BY <1>2, <2>6, <3>2
    <2>8. DOMAIN rest = {s \in DOMAIN c.node : s > m}
      <3>1. DOMAIN rest = DOMAIN c.node \ first_..m
        BY <2>7 DEF Restrict
      <3>2. \A s \in DOMAIN c.node : s \in first_..m <=> ~(s > m)
        <4> TAKE s \in DOMAIN c.node
        <4>1. s \in 1..n /\ first_ \in 1..n /\ first_ <= s
          BY <1>2, <2>6
        <4> QED
          BY <4>1
      <3> HIDE DEF rest
      <3> QED
        BY <3>1, <3>2
    <2> HIDE DEF rest, last
    <2>9. /\ DOMAIN cut = Fields /\ cut.wrinfo = c.wrinfo /\ cut.idx = c.idx /\ cut.node = rest
          /\ cut.maxseq_node = IF m = n THEN 0 ELSE n
      BY <1>2, <2>2, <2>7 DEF Fields, top
    <2> HIDE DEF cut
    <2>10. DOMAIN rest \subseteq 1..n
      BY <1>2, <2>8
    <2>11. cut.maxseq_node = FindMaxSeq(rest)
      <3>1. CASE m = n
        <4>1. DOMAIN rest = {}
          BY <1>2, <2>8, <3>1
        <4>2. FindMaxSeq(rest) = 0
          BY <2>10, <4>1, MaxSeqIs
        <4> QED
          BY <2>9, <3>1, <4>2
      <3>2. CASE m # n
        <4>1. n \in DOMAIN rest /\ \A s \in DOMAIN rest : s <= n
          BY <2>1, <2>2, <2>8, <2>10, <3>2 DEF top
        <4>2. FindMaxSeq(rest) = n
          BY <2>10, <4>1, MaxSeqOf
        <4> QED
          BY <2>9, <3>2, <4>2
      <3> QED
        BY <3>1, <3>2
    <2>12. \A s \in DOMAIN rest : s..n \subseteq DOMAIN rest
      <3> TAKE s \in DOMAIN rest
      <3>1. s \in DOMAIN c.node /\ s > m /\ s \in 1..n /\ s..n \subseteq DOMAIN c.node
        BY <1>2, <2>8
      <3>2. \A x \in s..n : x > m
        BY <3>1
      <3> QED
        BY <2>8, <3>1, <3>2
    <2>13. IndexOK(cut, n)
      BY <1>2, <2>9 DEF IndexOK
    <2>14. CacheOK(cut, n)
      BY <1>2, <2>9, <2>10, <2>11, <2>12, <2>13 DEF CacheOK
    <2> QED
      BY <2>8, <2>9, <2>14 DEF Remains
  <1> HIDE DEF cut, d, keeps
  <1>5. PICK w \in {c, cut} : (\E v : d = [w EXCEPT !.max_drop_seq = v]) /\ Remains(w, c, m, n)
    BY <1>1, <1>3, <1>4
  <1>6. PICK v : d = [w EXCEPT !.max_drop_seq = v]
    BY <1>5
  <1>7. CacheOK(d, n) /\ d.wrinfo = w.wrinfo /\ d.node = w.node
    BY <1>5, <1>6, MovedOn DEF Remains
  <1>8. Remains(d, c, m, n)
    BY <1>5, <1>7 DEF Remains
  <1> QED
    BY <1>8 DEF d

\* (of either kind).
LEMMA RemoveIs ==
    ASSUME NEW c, NEW n \in Nat, CacheOK(c, n), NEW m \in 0..n
    PROVE  Remains(whc_remove_acked_messages(c, m), c, m, n)
  <1>1. InfoOK(c.wrinfo) /\ c.wrinfo.hdepth \in Nat /\ c.wrinfo.idxdepth = c.wrinfo.hdepth
    BY StreamAssumption DEF CacheOK, InfoOK, Infos
  <1>2. CASE c.wrinfo.idxdepth = 0 /\ ~c.wrinfo.is_transient_local
    BY <1>1, <1>2, RemoveNoidxIs DEF whc_remove_acked_messages
  <1>3. CASE ~(c.wrinfo.idxdepth = 0 /\ ~c.wrinfo.is_transient_local)
    <2>1. c.wrinfo.hdepth > 0 \/ c.wrinfo.is_transient_local
      BY <1>1, <1>3
    <2> QED
      BY <1>3, <2>1, RemoveFullIs DEF whc_remove_acked_messages
  <1> QED
    BY <1>2, <1>3

HistoryStep(info, f, i) ==
    IF i = 0 \/ ~info.is_transient_local THEN whc_new(info) ELSE whc_insert(f[i - 1], i, i, "k", FALSE)
IsHistory(f, info, n) == f = [i \in 0..n |-> HistoryStep(info, f, i)]

\* The history written before the match, sample by sample.
LEMMA HistoriesAre ==
    ASSUME NEW f, NEW info, NEW n, IsHistory(f, info, n), NEW i \in 0..n
    PROVE  f[i] = HistoryStep(info, f, i)
  BY Zenon DEF IsHistory

\* There is such a history.
LEMMA HistoriesExist ==
    ASSUME NEW info, NEW k \in Nat
    PROVE  \E f : IsHistory(f, info, k)
  <1> DEFINE P == {n \in 0..k : \E f : f = [i \in 0..n |-> HistoryStep(info, f, i)]}
  <1>1. 0 \in P
    <2> DEFINE f == [i \in 0..0 |-> whc_new(info)]
    <2>1. \A i \in 0..0 : i = 0
      OBVIOUS
    <2>2. f = [i \in 0..0 |-> HistoryStep(info, f, i)]
      BY <2>1, Zenon DEF HistoryStep
    <2>3. 0 \in 0..k
      OBVIOUS
    <2> QED
      BY <2>2, <2>3, Zenon
  <1>2. ASSUME NEW n \in 0..k, n \in P, n < k
        PROVE  n + 1 \in P
    <2>1. PICK g : g = [i \in 0..n |-> HistoryStep(info, g, i)]
      BY <1>2
    <2> DEFINE f == [i \in 0..(n + 1) |-> IF i = n + 1 THEN HistoryStep(info, g, i) ELSE g[i]]
    <2>2. \A i \in 0..(n + 1) : f[i] = HistoryStep(info, f, i)
      <3> TAKE i \in 0..(n + 1)
      <3>1. CASE i = n + 1
        <4>1. i - 1 = n /\ n \in 0..(n + 1) /\ n # n + 1
          BY <3>1
        <4>2. f[i - 1] = g[i - 1]
          BY <4>1
        <4>3. f[i] = HistoryStep(info, g, i)
          BY <3>1
        <4> HIDE DEF f
        <4> QED
          BY <4>2, <4>3 DEF HistoryStep
      <3>2. CASE i # n + 1
        <4>1. i \in 0..n /\ (i # 0 => i - 1 \in 0..n /\ i - 1 \in 0..(n + 1) /\ i - 1 # n + 1)
          BY <3>2
        <4>2. f[i] = g[i] /\ (i # 0 => f[i - 1] = g[i - 1])
          BY <3>2, <4>1
        <4>3. g[i] = HistoryStep(info, g, i)
          BY <2>1, <4>1, Zenon
        <4> HIDE DEF f
        <4> QED
          BY <4>2, <4>3 DEF HistoryStep
      <3> QED
        BY <3>1, <3>2
    <2>3. f = [i \in 0..(n + 1) |-> f[i]]
      BY Zenon
    <2> HIDE DEF f
    <2>4. [i \in 0..(n + 1) |-> f[i]] = [i \in 0..(n + 1) |-> HistoryStep(info, f, i)]
      BY <2>2
    <2>5. n + 1 \in 0..k
      BY <1>2
    <2>6. f = [i \in 0..(n + 1) |-> HistoryStep(info, f, i)]
      BY <2>3, <2>4
    <2> QED
      BY <2>5, <2>6
  <1>3. 0..k \subseteq P
    <2> HIDE DEF P
    <2> QED
      BY <1>1, <1>2, IntervalInduction
  <1>4. k \in P
    <2>1. k \in 0..k
      OBVIOUS
    <2> HIDE DEF P
    <2> QED
      BY <1>3, <2>1
  <1>5. \E f : f = [i \in 0..k |-> HistoryStep(info, f, i)]
    BY <1>4
  <1> QED
    BY <1>5, Zenon DEF IsHistory

\* The settings of a history.
LEMMA InfoIs ==
    ASSUME NEW tl \in BOOLEAN, NEW depth \in Depths
    PROVE  LET info == whc_make_wrinfo(tl, depth, depth)
           IN InfoOK(info) /\ info.is_transient_local = tl /\ info.hdepth = depth
  <1> DEFINE t == IF tl THEN depth ELSE 0  i == Max({depth, t})
             info == whc_make_wrinfo(tl, depth, depth)
  <1>1. info = [is_transient_local |-> tl, hdepth |-> depth, tldepth |-> t, idxdepth |-> i]
    BY DEF whc_make_wrinfo
  <1>2. depth \in Nat /\ t \in Nat /\ t <= depth
    BY StreamAssumption
  <1>3. i = depth
    <2> HIDE DEF t
    <2>1. i \in {depth, t} /\ depth <= i
      BY <1>2, MaxOfTwo
    <2> HIDE DEF i
    <2> QED
      BY <1>2, <2>1
  <1> HIDE DEF i, info
  <1>4. /\ info \in Infos /\ info.idxdepth = depth /\ info.hdepth = depth /\ info.tldepth = t
        /\ info.is_transient_local = tl
    BY <1>1, <1>2, <1>3 DEF Infos
  <1> QED
    BY <1>4 DEF InfoOK, info

\* An empty history.
LEMMA NewCache ==
    ASSUME NEW info, InfoOK(info), NEW n \in Nat
    PROVE  LET c == whc_new(info) IN CacheOK(c, n) /\ c.wrinfo = info /\ DOMAIN c.node = {}
  <1> DEFINE c == whc_new(info)
  <1>1. /\ DOMAIN c = Fields /\ c.wrinfo = info /\ c.node = <<>> /\ c.idx = <<>> /\ c.maxseq_node = 0
    BY DEF whc_new, Fields
  <1>2. DOMAIN <<>> = {}
    OBVIOUS
  <1> HIDE DEF c
  <1>3. DOMAIN c.node = {} /\ DOMAIN c.idx = {}
    BY <1>1, <1>2
  <1>4. FindMaxSeq(c.node) = 0
    BY <1>3, MaxSeqIs
  <1>5. CacheOK(c, n)
    BY <1>1, <1>3, <1>4 DEF CacheOK, IndexOK
  <1> QED
    BY <1>1, <1>3, <1>5 DEF c

\* A transient-local writer that keeps everything has all it wrote before the match.
LEMMA HistoryIs ==
    ASSUME NEW info, InfoOK(info), NEW n \in Nat
    PROVE  LET c == HistoryOf(info, n)
           IN /\ CacheOK(c, n) /\ c.wrinfo = info
              /\ info.is_transient_local /\ info.hdepth = 0 => DOMAIN c.node = 1..n
  <1> DEFINE f == CHOOSE g : IsHistory(g, info, n)
             whole == info.is_transient_local /\ info.hdepth = 0
             P == {i \in 0..n : /\ CacheOK(f[i], i) /\ f[i].wrinfo = info
                                /\ whole => DOMAIN f[i].node = 1..i}
  <1>1. HistoryOf(info, n) = f[n]
    BY Zenon DEF HistoryOf, IsHistory, HistoryStep
  <1>2. IsHistory(f, info, n)
    <2>1. \E g : IsHistory(g, info, n)
      BY HistoriesExist
    <2> QED
      BY <2>1, Zenon
  <1> HIDE DEF f, whole
  <1>3. 0 \in P
    <2>1. f[0] = whc_new(info)
      <3>1. 0 \in 0..n
        OBVIOUS
      <3>2. f[0] = HistoryStep(info, f, 0)
        BY <1>2, <3>1, HistoriesAre
      <3> QED
        BY <3>2 DEF HistoryStep
    <2>2. 1..0 = {} /\ 0 \in Nat /\ 0 \in 0..n
      OBVIOUS
    <2>3. CacheOK(whc_new(info), 0) /\ whc_new(info).wrinfo = info /\ DOMAIN whc_new(info).node = {}
      BY <2>2, NewCache
    <2> QED
      BY <2>1, <2>2, <2>3
  <1>4. ASSUME NEW i \in 0..n, i \in P, i < n PROVE i + 1 \in P
    <2> DEFINE c == f[i]  d == f[i + 1]
    <2>1. CacheOK(c, i) /\ c.wrinfo = info /\ (whole => DOMAIN c.node = 1..i)
      BY <1>4
    <2>2. i \in Nat /\ i + 1 \in Nat /\ i + 1 \in 0..n /\ i + 1 # 0 /\ (i + 1) - 1 = i
      BY <1>4
    <2>3. d = HistoryStep(info, f, i + 1)
      BY <1>2, <2>2, HistoriesAre
    <2>4. d = IF ~info.is_transient_local THEN whc_new(info) ELSE whc_insert(c, i + 1, i + 1, "k", FALSE)
      BY <2>2, <2>3 DEF HistoryStep
    <2> HIDE DEF c, d
    <2>5. CASE info.is_transient_local
      <3>1. /\ CacheOK(d, i + 1) /\ d.wrinfo = c.wrinfo
            /\ c.wrinfo.hdepth = 0 => DOMAIN d.node = DOMAIN c.node \cup {i + 1}
        BY <2>1, <2>2, <2>4, <2>5, InsertIs
      <3>2. 1..i \cup {i + 1} = 1..(i + 1)
        BY <2>2
      <3>3. whole => DOMAIN d.node = 1..(i + 1)
        BY <2>1, <3>1, <3>2 DEF whole
      <3> QED
        BY <2>1, <2>2, <3>1, <3>3 DEF d
    <2>6. CASE ~info.is_transient_local
      <3>1. d = whc_new(info)
        BY <2>4, <2>6
      <3>2. CacheOK(d, i + 1) /\ d.wrinfo = info
        BY <2>2, <3>1, NewCache
      <3> QED
        BY <2>2, <2>6, <3>2 DEF d, whole
    <2> QED
      BY <2>5, <2>6
  <1>5. n \in P
    <2>1. 0..n \subseteq P
      <3> HIDE DEF P
      <3> QED
        BY <1>3, <1>4, IntervalInduction
    <2>2. n \in 0..n
      OBVIOUS
    <2> HIDE DEF P
    <2> QED
      BY <2>1, <2>2
  <1> QED
    BY <1>1, <1>5 DEF whole

----------------------------------------------------------------------------
(* The invariant.                                                            *)

\* Acknowledged numbers the reader does not wait for.
AskType(m) ==
    /\ m.base \in Numbers /\ m.numbits \in 0..MaxSamples /\ m.bits \in SUBSET (m.base..(m.base + m.numbits - 1))
    /\ m.preemptive \in BOOLEAN
AskTrue(m, sync, one, gone) ==
    /\ Trusted(sync) => 1..(m.base - 1) \subseteq gone
    /\ sync = "OUT_OF_SYNC" => m.base <= one.next_seq

\* What is on its way says nothing untrue: of a number the reader still waits
\* for it does not say that it is not to be had.
MessageOK(m, lo, N, sync, one, gone) ==
    \/ m.type = "DATA" /\ m.seq \in lo..N
    \/ m.type = "GAP" /\ GapType(m, N) /\ GapTrue(m, sync, one, gone)
    \/ m.type = "HEARTBEAT" /\ BeatType(m, lo, N) /\ BeatTrue(m, sync, gone)
    \/ m.type = "ACKNACK" /\ AskType(m) /\ AskTrue(m, sync, one, gone)

WriterFields == {"whc", "seq", "seq_xmit", "acked", "has_replied_to_hb", "volatile"}
WriterOK(w) ==
    /\ DOMAIN w = WriterFields /\ w.seq \in Nat /\ w.seq <= MaxSeq
    /\ w.seq_xmit \in 0..w.seq /\ w.acked \in 0..w.seq /\ w.volatile \in BOOLEAN
    /\ CacheOK(w.whc, w.seq)

\* The writer has what the reader waits for.
Kept(w, sync, gone) ==
    Trusted(sync) => /\ \A n \in 1..w.seq : n \in DOMAIN w.whc.node \/ n \in gone
                     /\ w.volatile => \A n \in 1..w.acked : n \in gone

\* Samples from before the match are owed to a transient-local reader only.
Matched(w, lo) ==
    /\ lo \in Numbers /\ lo - 1 <= w.acked /\ lo - 1 <= w.seq_xmit /\ (~w.volatile => lo = 1)

\* With a writer that keeps everything no later sample takes a place.
Given(w, rep, lo) ==
    /\ rep \in SUBSET (1..w.seq) /\ (Roomy => rep \subseteq 1..(lo - 1))

Base == 1..(first - 1) \cup replaced
Gone == Base \cup Elements(delivered)

StreamInv ==
    /\ WriterOK(wr) /\ Kept(wr, rd.in_sync, Gone) /\ Matched(wr, first) /\ Given(wr, replaced, first)
    /\ Reads(rd, delivered, Base, first, wr.seq)
    /\ \A m \in net : MessageOK(m, first, wr.seq, rd.in_sync, rd.own, Gone)

\* The reader never goes back, and what is given up or delivered stays so.
LEMMA MessageStays ==
    ASSUME NEW m, NEW lo, NEW N \in Nat, NEW M \in Nat, N <= M, NEW sync, NEW one, NEW gone,
           MessageOK(m, lo, N, sync, one, gone), lo \in Numbers, NEW sync2, NEW two, NEW more,
           gone \subseteq more, one.next_seq \in Nat, two.next_seq \in Nat,
           sync2 = "OUT_OF_SYNC" => sync = "OUT_OF_SYNC" /\ one.next_seq <= two.next_seq
    PROVE  MessageOK(m, lo, M, sync2, two, more)
  <1>0. MaxSamples \in Nat /\ lo \in Nat
    BY StreamAssumption DEF Numbers
  <1>1. Trusted(sync2) => Trusted(sync)
    BY DEF Trusted
  <1>2. CASE m.type = "DATA" /\ m.seq \in lo..N
    <2>1. m.seq \in lo..M
      BY <1>0, <1>2
    <2> QED
      BY <1>2, <2>1 DEF MessageOK
  <1>3. CASE m.type = "GAP" /\ GapType(m, N) /\ GapTrue(m, sync, one, gone)
    <2>1. GapType(m, M)
      <3>1. /\ m.start \in Numbers /\ m.end \in Numbers /\ m.start <= m.end /\ m.end <= N + 1
            /\ m.bits \in SUBSET (1..N)
        BY <1>3 DEF GapType
      <3>2. 1..N \subseteq 1..M
        OBVIOUS
      <3>3. m.end <= M + 1
        BY <3>1 DEF Numbers
      <3>4. m.bits \in SUBSET (1..M)
        BY <3>1, <3>2
      <3> QED
        BY <3>1, <3>3, <3>4 DEF GapType
    <2>2. GapTrue(m, sync2, two, more)
      <3>1. Trusted(sync2) => m.start..(m.end - 1) \cup m.bits \subseteq more
        BY <1>1, <1>3 DEF GapTrue
      <3>2. ASSUME sync2 = "OUT_OF_SYNC", NEW n \in {m.start} \cup m.bits PROVE n < two.next_seq + MaxSamples
        <4>1. n < one.next_seq + MaxSamples /\ one.next_seq <= two.next_seq
          BY <1>3, <3>2 DEF GapTrue
        <4>2. n \in Nat
          BY <1>3 DEF GapType, Numbers
        <4> QED
          BY <1>0, <4>1, <4>2
      <3> QED
        BY <3>1, <3>2 DEF GapTrue
    <2> QED
      BY <1>3, <2>1, <2>2 DEF MessageOK
  <1>4. CASE m.type = "HEARTBEAT" /\ BeatType(m, lo, N) /\ BeatTrue(m, sync, gone)
    <2>1. BeatType(m, lo, M)
      BY <1>4 DEF BeatType
    <2>2. BeatTrue(m, sync2, more)
      BY <1>1, <1>4 DEF BeatTrue
    <2> QED
      BY <1>4, <2>1, <2>2 DEF MessageOK
  <1>5. CASE m.type = "ACKNACK" /\ AskType(m) /\ AskTrue(m, sync, one, gone)
    <2>1. AskTrue(m, sync2, two, more)
      <3>1. m.base \in Nat
        BY <1>5 DEF AskType, Numbers
      <3> QED
        BY <1>1, <1>5, <3>1 DEF AskTrue
    <2> QED
      BY <1>5, <2>1 DEF MessageOK
  <1> QED
    BY <1>2, <1>3, <1>4, <1>5 DEF MessageOK

\* What a message of each kind says.
LEMMA Kinds ==
    ASSUME NEW m, NEW lo, NEW N, NEW sync, NEW one, NEW gone, MessageOK(m, lo, N, sync, one, gone)
    PROVE  /\ m.type \in {"DATA", "GAP", "HEARTBEAT", "ACKNACK"}
           /\ m.type = "DATA" => m.seq \in lo..N
           /\ m.type = "GAP" => GapType(m, N) /\ GapTrue(m, sync, one, gone)
           /\ m.type = "HEARTBEAT" => BeatType(m, lo, N) /\ BeatTrue(m, sync, gone)
           /\ m.type = "ACKNACK" => AskType(m) /\ AskTrue(m, sync, one, gone)
  BY DEF MessageOK

\* A heartbeat names what the writer has: of what comes before its first number
\* the reader waits for nothing.
LEMMA BeatSent ==
    ASSUME NEW w, NEW sync, NEW one, NEW gone, NEW lo, WriterOK(w), Kept(w, sync, gone), Matched(w, lo),
           NEW ans \in BOOLEAN
    PROVE  MessageOK(add_Heartbeat(w, ans), lo, w.seq, sync, one, gone)
  <1> DEFINE st == whc_state(w.whc)
             max == IF w.seq_xmit < w.seq /\ ~w.whc.wrinfo.is_transient_local
                    THEN Max({w.seq_xmit, st.min_seq - 1}) ELSE w.seq
             m == add_Heartbeat(w, ans)
             S == DOMAIN w.whc.node
  <1>1. /\ w.seq \in Nat /\ w.seq_xmit \in 0..w.seq /\ S \subseteq 1..w.seq
        /\ w.whc.maxseq_node = FindMaxSeq(w.whc.node) /\ lo \in Nat /\ lo - 1 <= w.seq_xmit
    BY DEF WriterOK, CacheOK, Matched, Numbers
  <1>2. m = IF WHCST_ISEMPTY(st) THEN Heartbeat(w.seq + 1, w.seq, ans) ELSE Heartbeat(st.min_seq, max, ans)
    BY DEF add_Heartbeat
  <1>3. WHCST_ISEMPTY(st) <=> S = {}
    <2>1. S # {} => FindMaxSeq(w.whc.node) # 0
      BY <1>1, MaxSeqIs
    <2> QED
      BY <1>1, <2>1 DEF WHCST_ISEMPTY, whc_state
  <1>4. CASE S = {}
    <2>1. m = Heartbeat(w.seq + 1, w.seq, ans)
      BY <1>2, <1>3, <1>4
    <2> HIDE DEF m
    <2>2. m.type = "HEARTBEAT" /\ m.first = w.seq + 1 /\ m.last = w.seq /\ m.ans = ans
      BY <2>1 DEF Heartbeat
    <2>3. BeatType(m, lo, w.seq)
      BY <1>1, <2>2 DEF BeatType, Numbers
    <2>4. BeatTrue(m, sync, gone)
      <3>1. Trusted(sync) => \A n \in 1..w.seq : n \in gone
        BY <1>4 DEF Kept
      <3>2. (w.seq + 1) - 1 = w.seq
        BY <1>1
      <3> QED
        BY <2>2, <3>1, <3>2 DEF BeatTrue
    <2> QED
      BY <2>2, <2>3, <2>4 DEF MessageOK, m
  <1>5. CASE S # {}
    <2>1. m = Heartbeat(st.min_seq, max, ans) /\ st.min_seq = Min(S)
      BY <1>2, <1>3, <1>5 DEF whc_state
    <2> DEFINE min == st.min_seq
    <2>2. min \in 1..w.seq /\ \A s \in S : min <= s
      <3>1. S \subseteq Nat
        BY <1>1
      <3>2. Min(S) \in S /\ \A s \in S : Min(S) <= s
        BY <1>5, <3>1, MinIs
      <3> HIDE DEF S
      <3> QED
        BY <1>1, <2>1, <3>2
    <2> HIDE DEF st, m
    <2>3. max \in Nat /\ max <= w.seq /\ min <= max + 1 /\ lo <= max + 1
      <3> DEFINE a == w.seq_xmit  b == min - 1
      <3>1. a \in 0..w.seq /\ b \in 0..w.seq
        BY <1>1, <2>2
      <3>0. lo - 1 <= a /\ min = b + 1 /\ (max = Max({a, b}) \/ max = w.seq)
        BY <1>1, <2>2
      <3> HIDE DEF max, a, b
      <3>2. Max({a, b}) \in {a, b} /\ a <= Max({a, b}) /\ b <= Max({a, b})
        BY <3>1, MaxOfTwo
      <3>3. Max({a, b}) \in 0..w.seq /\ min <= Max({a, b}) + 1 /\ lo <= Max({a, b}) + 1
        <4> DEFINE x == Max({a, b})
        <4> HIDE DEF x
        <4>1. x \in {a, b} /\ a <= x /\ b <= x
          BY <3>2 DEF x
        <4>2. x \in 0..w.seq /\ min <= x + 1 /\ lo <= x + 1
          BY <1>1, <2>2, <3>0, <3>1, <4>1
        <4> QED
          BY <4>2 DEF x
      <3> QED
        BY <1>1, <2>2, <3>0, <3>3
    <2> HIDE DEF max
    <2>4. m.type = "HEARTBEAT" /\ m.first = min /\ m.last = max /\ m.ans = ans
      BY <2>1 DEF Heartbeat
    <2>5. BeatType(m, lo, w.seq)
      BY <2>2, <2>3, <2>4 DEF BeatType, Numbers
    <2>6. BeatTrue(m, sync, gone)
      <3> SUFFICES ASSUME Trusted(sync), NEW n \in 1..(min - 1) PROVE n \in gone
        BY <2>4 DEF BeatTrue
      <3>1. n \in 1..w.seq /\ ~(min <= n)
        BY <1>1, <2>2
      <3>2. n \notin S
        BY <2>2, <3>1
      <3> QED
        BY <3>1, <3>2 DEF Kept
    <2> QED
      BY <2>4, <2>5, <2>6 DEF MessageOK, m
  <1> QED
    BY <1>4, <1>5

\* What the reader would acknowledge or ask for.
LEMMA MapIs ==
    ASSUME NEW r, NEW dl, NEW base, NEW lo, NEW N, Reads(r, dl, base, lo, N)
    PROVE  LET map == add_AckNack_makebitmaps(r)
           IN /\ map.base = (IF r.in_sync = "OUT_OF_SYNC" THEN r.own ELSE r.reorder).next_seq
              /\ map.base \in Numbers /\ map.numbits \in 0..MaxSamples
              /\ map.bits \in SUBSET (map.base..(map.base + map.numbits - 1))
              /\ Trusted(r.in_sync) => 1..(map.base - 1) \subseteq base \cup Elements(dl)
  <1> DEFINE a == IF r.in_sync = "OUT_OF_SYNC" THEN r.own ELSE r.reorder
             next == a.next_seq
             b == Min({next, next})
             wide == Max({0, r.last_seq + 1 - b})
             S == {256, a.max_samples, wide}
             known == UNION {v.min .. (v.maxp1 - 1) : v \in a.ivs}
             map == add_AckNack_makebitmaps(r)
  <1>1. /\ r \in Readers /\ ReaderOK(r.have_seen_heartbeat, r.in_sync, r.reorder, r.own, dl, base, lo, N)
        /\ r.last_seq \in Nat
    BY DEF Reads, Readers
  <1>2. Sound(a, lo, N)
    BY <1>1 DEF ReaderOK
  <1>3. next \in Nat /\ next \in Numbers /\ a.max_samples = MaxSamples /\ MaxSamples \in Nat
    BY <1>2, SoundNext, StreamAssumption DEF Sound
  <1>4. map = [base |-> b, numbits |-> (b + Min(S)) - b, bits |-> (b .. ((b + Min(S)) - 1)) \ known]
    BY DEF add_AckNack_makebitmaps, nn_reorder_nackmap
  <1>5. Trusted(r.in_sync) => 1..(next - 1) \subseteq base \cup Elements(dl)
    <2> SUFFICES ASSUME Trusted(r.in_sync) PROVE 1..(next - 1) \subseteq base \cup Elements(dl)
      OBVIOUS
    <2>1. /\ Served(dl, Current(r.in_sync, r.reorder, r.own), base, lo, N)
          /\ Roomy => Together(r.have_seen_heartbeat, r.in_sync, r.reorder, r.own, lo, N)
          /\ r.in_sync \in Syncs
      BY <1>1 DEF ReaderOK
    <2>2. Current(r.in_sync, r.reorder, r.own).next_seq = next
      <3>1. CASE r.in_sync = "OUT_OF_SYNC"
        BY <3>1 DEF Current
      <3>2. CASE r.in_sync = "SYNC"
        BY <3>2 DEF Current
      <3>3. CASE r.in_sync = "TLCATCHUP"
        <4>1. r.own.next_seq = r.reorder.next_seq
          BY <2>1, <3>3 DEF Together, Trusted
        <4> QED
          BY <3>3, <4>1 DEF Current
      <3> QED
        BY <2>1, <3>1, <3>2, <3>3 DEF Syncs
    <2> QED
      BY <2>1, <2>2 DEF Served
  <1> HIDE DEF a, known, map
  <1>6. b = next
    <2> DEFINE x == a.next_seq
    <2>1. x \in Int
      BY <1>3
    <2> HIDE DEF x
    <2>2. Min({x, x}) \in {x, x}
      BY <2>1, MaxOfTwo
    <2> QED
      BY <2>2 DEF x
  <1>7. Min(S) \in 0..MaxSamples
    <2>1. wide \in Nat
      <3> DEFINE y == r.last_seq + 1 - b
      <3>1. y \in Int
        BY <1>1, <1>3, <1>6
      <3>2. wide = Max({0, y})
        OBVIOUS
      <3> HIDE DEF y, wide
      <3>3. Max({0, y}) \in {0, y} /\ 0 <= Max({0, y})
        BY <3>1, MaxOfTwo
      <3> DEFINE z == Max({0, y})
      <3> HIDE DEF z
      <3>4. z \in {0, y} /\ 0 <= z
        BY <3>3 DEF z
      <3>5. z \in Nat
        BY <3>1, <3>4
      <3> QED
        BY <3>2, <3>5 DEF z
    <2> HIDE DEF wide
    <2>2. S \subseteq Nat /\ S # {} /\ MaxSamples \in S
      BY <1>3, <2>1
    <2> HIDE DEF S
    <2>3. Min(S) \in S /\ \A y \in S : Min(S) <= y
      BY <2>2, MinIs
    <2>4. Min(S) \in Nat /\ Min(S) <= MaxSamples
      BY <2>2, <2>3
    <2> DEFINE x == Min(S)
    <2> HIDE DEF x
    <2>5. x \in Nat /\ x <= MaxSamples
      BY <2>4 DEF x
    <2>6. x \in 0..MaxSamples
      BY <1>3, <2>5
    <2> QED
      BY <2>6 DEF x
  <1> DEFINE k == Min(S)
  <1> HIDE DEF k, b, S
  <1>8. k \in 0..MaxSamples /\ map = [base |-> b, numbits |-> (b + k) - b, bits |-> (b .. ((b + k) - 1)) \ known]
    BY <1>4, <1>7 DEF k
  <1>9. map.base = next /\ map.numbits = k /\ map.bits = (next .. ((next + k) - 1)) \ known
    <2>1. b \in Nat /\ k \in Nat
      BY <1>3, <1>6, <1>8
    <2>2. (b + k) - b = k
      BY <2>1
    <2> QED
      BY <1>6, <1>8, <2>2
  <1>10. map.bits \in SUBSET (map.base..(map.base + map.numbits - 1))
    <2>1. next \in Nat /\ k \in Nat /\ map.base + map.numbits - 1 = next + k - 1 /\ map.base = next
      BY <1>3, <1>8, <1>9
    <2>2. next + k - 1 = (next + k) - 1
      BY <2>1
    <2>3. map.bits \subseteq next .. ((next + k) - 1)
      BY <1>9
    <2> QED
      BY <2>1, <2>2, <2>3
  <1> QED
    BY <1>3, <1>5, <1>8, <1>9, <1>10 DEF a, map

\* An AckNack that says what the reader has, and asks for no more than its
\* administration holds.
LEMMA AnswerSent ==
    ASSUME NEW r, NEW dl, NEW base, NEW lo, NEW N, Reads(r, dl, base, lo, N), NEW nack \in BOOLEAN
    PROVE  LET map == add_AckNack_makebitmaps(r)
               m == AckNack(map.base, IF nack THEN map.numbits ELSE 0, IF nack THEN map.bits ELSE {}, FALSE)
           IN MessageOK(m, lo, N, r.in_sync, r.own, base \cup Elements(dl))
  <1> DEFINE map == add_AckNack_makebitmaps(r)
             m == AckNack(map.base, IF nack THEN map.numbits ELSE 0, IF nack THEN map.bits ELSE {}, FALSE)
  <1>1. /\ map.base = (IF r.in_sync = "OUT_OF_SYNC" THEN r.own ELSE r.reorder).next_seq
        /\ map.base \in Numbers /\ map.numbits \in 0..MaxSamples
        /\ map.bits \in SUBSET (map.base..(map.base + map.numbits - 1))
        /\ Trusted(r.in_sync) => 1..(map.base - 1) \subseteq base \cup Elements(dl)
    BY MapIs
  <1> HIDE DEF map
  <1>2. /\ m.type = "ACKNACK" /\ m.base = map.base /\ m.preemptive = FALSE
        /\ m.numbits = (IF nack THEN map.numbits ELSE 0) /\ m.bits = (IF nack THEN map.bits ELSE {})
    BY DEF AckNack
  <1> HIDE DEF m
  <1>3. AskType(m)
    <2>1. m.numbits \in 0..MaxSamples
      BY <1>1, <1>2, StreamAssumption
    <2>2. m.bits \in SUBSET (m.base..(m.base + m.numbits - 1))
      BY <1>1, <1>2
    <2> QED
      BY <1>1, <1>2, <2>1, <2>2 DEF AskType
  <1>4. AskTrue(m, r.in_sync, r.own, base \cup Elements(dl))
    <2>1. r.in_sync = "OUT_OF_SYNC" => m.base <= r.own.next_seq
      BY <1>1, <1>2 DEF Numbers
    <2> QED
      BY <1>1, <1>2, <2>1 DEF AskTrue
  <1> QED
    BY <1>2, <1>3, <1>4 DEF MessageOK, m, map

\* A pre-emptive AckNack acknowledges nothing.
LEMMA PreemptiveSent ==
    ASSUME NEW r, NEW dl, NEW base, NEW lo, NEW N, Reads(r, dl, base, lo, N)
    PROVE  MessageOK(AckNack(1, 0, {}, TRUE), lo, N, r.in_sync, r.own, base \cup Elements(dl))
  <1> DEFINE m == AckNack(1, 0, {}, TRUE)
  <1>1. m.type = "ACKNACK" /\ m.base = 1 /\ m.numbits = 0 /\ m.bits = {} /\ m.preemptive = TRUE
    BY DEF AckNack
  <1>2. r.own.next_seq \in Nat /\ r.own.next_seq >= 1
    BY SoundNext DEF Reads, ReaderOK
  <1> HIDE DEF m
  <1>3. AskType(m)
    <2>1. m.base \in Numbers /\ m.numbits \in 0..MaxSamples /\ m.preemptive \in BOOLEAN
      <3>1. 1 \in Numbers /\ 0 \in 0..MaxSamples
        BY StreamAssumption DEF Numbers
      <3>2. m.preemptive \in BOOLEAN
        BY <1>1, Zenon
      <3> QED
        BY <1>1, <3>1, <3>2
    <2>2. m.bits \in SUBSET (m.base..(m.base + m.numbits - 1))
      BY <1>1
    <2> QED
      BY <2>1, <2>2 DEF AskType
  <1>4. AskTrue(m, r.in_sync, r.own, base \cup Elements(dl))
    BY <1>1, <1>2 DEF AskTrue
  <1> QED
    BY <1>1, <1>3, <1>4 DEF MessageOK, m

\* A gap for what is asked for and cannot be sent.
LEMMA GapSent ==
    ASSUME NEW w, NEW sync, NEW one, NEW gone, NEW lo, WriterOK(w), Kept(w, sync, gone), one.next_seq \in Nat,
           NEW m, AskType(m), AskTrue(m, sync, one, gone), NEW lost \in SUBSET m.bits, lost # {},
           \A s \in lost : s <= w.seq_xmit /\ (s \notin DOMAIN w.whc.node \/ (w.volatile /\ s <= w.acked))
    PROVE  MessageOK(GapFor(w, m, lost), lo, w.seq, sync, one, gone)
  <1> DEFINE start == Min(lost)
             top == Max(lost)
             end == CHOOSE e \in (start + 1)..(top + 1) : e \notin lost /\ start..(e - 1) \subseteq lost
             end2 == IF end = m.base + m.numbits THEN grow_gap_to_next_seq(w, end) ELSE end
             g == GapFor(w, m, lost)
             X == w.seq_xmit
  <1>1. g = Gap(start, end2, {s \in lost : s > end})
    BY DEF GapFor
  <1>2. /\ w.seq \in Nat /\ X \in 0..w.seq /\ w.acked \in 0..w.seq
        /\ DOMAIN w.whc.node \subseteq 1..w.seq
    BY DEF WriterOK, CacheOK
  <1>3. /\ m.base \in Nat /\ m.base >= 1 /\ m.numbits \in 0..MaxSamples /\ MaxSamples \in Nat
        /\ \A s \in lost : s \in m.base..(m.base + m.numbits - 1)
    BY StreamAssumption DEF AskType, Numbers
  <1>4. lost \in SUBSET (0..X) /\ \A s \in lost : s \in Nat /\ s >= 1 /\ s <= X /\ s < m.base + m.numbits
    <2> SUFFICES ASSUME NEW s \in lost PROVE s \in Nat /\ s >= 1 /\ s <= X /\ s \in 0..X /\ s < m.base + m.numbits
      OBVIOUS
    <2>1. s \in m.base..(m.base + m.numbits - 1) /\ s <= X
      BY <1>3
    <2> QED
      BY <1>2, <1>3, <2>1
  <1>5. start \in lost /\ \A s \in lost : start <= s
    <2>1. lost \subseteq Nat
      BY <1>4
    <2> QED
      BY <2>1, MinIs
  <1>6. top \in lost /\ \A s \in lost : s <= top
    <2>1. X \in Nat
      BY <1>2
    <2> QED
      BY <1>4, <2>1, MaxIs
  <1> HIDE DEF start, top, g
  <1>7. end \in (start + 1)..(top + 1) /\ end \notin lost /\ start..(end - 1) \subseteq lost
    <2>1. top \in Nat /\ lost \in SUBSET (0..top)
      BY <1>4, <1>6
    <2>2. \E e \in (start + 1)..(top + 1) : e \notin lost /\ start..(e - 1) \subseteq lost /\ e - 1 \in lost
      BY <1>5, <2>1, FirstOutside
    <2> QED
      BY <2>2
  <1> HIDE DEF end
  <1>8. start \in Nat /\ start >= 1 /\ end \in Nat /\ start < end /\ end <= X + 1
    <2>1. start \in Nat /\ start >= 1 /\ top \in Nat /\ top <= X
      BY <1>4, <1>5, <1>6
    <2> QED
      BY <1>2, <1>7, <2>1
  <1>9. /\ end2 \in Nat /\ end - 1 <= end2 /\ end2 <= X + 1
        /\ \A s \in DOMAIN w.whc.node : end <= s => end2 <= s
    <2> DEFINE later == {s \in DOMAIN w.whc.node : s > end - 1}
               next == whc_next_seq(w.whc, end - 1)
               grown == grow_gap_to_next_seq(w, end)
    <2>1. next = IF later = {} THEN 0 ELSE Min(later)
      BY DEF whc_next_seq
    <2>2. grown = IF next = 0 THEN X + 1 ELSE Min({next, X})
      BY DEF grow_gap_to_next_seq
    <2>3. \A s \in DOMAIN w.whc.node : s \in Nat /\ s >= 1 /\ (end <= s <=> s \in later)
      BY <1>2, <1>8
    <2> HIDE DEF grown, next
    <2>4. CASE later = {}
      <3>1. grown = X + 1
        BY <2>1, <2>2, <2>4
      <3> HIDE DEF later
      <3>2. \A s \in DOMAIN w.whc.node : ~(end <= s)
        BY <2>3, <2>4
      <3>3. end2 = X + 1 \/ end2 = end
        BY <3>1 DEF grown
      <3> HIDE DEF end2
      <3> QED
        BY <1>2, <1>8, <3>2, <3>3
    <2>5. CASE later # {}
      <3>1. later \subseteq Nat
        BY <2>3
      <3>2. next \in later /\ \A s \in later : next <= s
        <4> HIDE DEF later
        <4> QED
          BY <2>1, <2>5, <3>1, MinIs
      <3>3. next \in Nat /\ next # 0 /\ end <= next
        BY <2>3, <3>2
      <3> DEFINE y == Min({next, X})
      <3>4. y \in {next, X} /\ y <= next /\ y <= X
        <4>1. next \in Int /\ X \in Int
          BY <1>2, <3>3
        <4> QED
          BY <4>1, MaxOfTwo
      <3> HIDE DEF y, later
      <3>5. grown = y
        BY <2>2, <3>3 DEF y
      <3>6. y \in Nat /\ end - 1 <= y /\ y <= X + 1
        BY <1>2, <1>8, <3>3, <3>4
      <3>7. \A s \in DOMAIN w.whc.node : end <= s => y <= s
        <4> SUFFICES ASSUME NEW s \in DOMAIN w.whc.node, end <= s PROVE y <= s
          OBVIOUS
        <4>1. s \in Nat /\ next <= s
          BY <2>3, <3>2
        <4> QED
          BY <3>3, <3>4, <3>6, <4>1
      <3>8. end2 = y \/ end2 = end
        BY <3>5 DEF grown
      <3> HIDE DEF end2
      <3> QED
        BY <1>2, <1>8, <3>6, <3>7, <3>8
    <2> QED
      BY <2>4, <2>5
  <1> HIDE DEF end2
  <1>10. /\ g.type = "GAP" /\ g.start = start /\ g.end = end2 /\ g.bits = {s \in lost : s > end}
    BY <1>1 DEF Gap
  <1>11. GapType(g, w.seq)
    <2>1. start \in Numbers /\ end2 \in Numbers /\ start <= end2 /\ end2 <= w.seq + 1
      BY <1>2, <1>8, <1>9 DEF Numbers
    <2>2. {s \in lost : s > end} \in SUBSET (1..w.seq)
      <3>1. \A s \in lost : s \in 1..w.seq
        BY <1>2, <1>4
      <3> QED
        BY <3>1
    <2> QED
      BY <1>10, <2>1, <2>2 DEF GapType
  <1>12. Trusted(sync) => \A s \in lost : s \in gone
    <2> SUFFICES ASSUME Trusted(sync), NEW s \in lost PROVE s \in gone
      OBVIOUS
    <2>1. s \in 1..w.seq /\ (s \notin DOMAIN w.whc.node \/ (w.volatile /\ s \in 1..w.acked))
      BY <1>2, <1>4
    <2> QED
      BY <2>1 DEF Kept
  <1>13. Trusted(sync) => start..(end2 - 1) \subseteq gone
    <2> SUFFICES ASSUME Trusted(sync), NEW s \in start..(end2 - 1) PROVE s \in gone
      OBVIOUS
    <2>1. s \in Nat /\ start <= s /\ s < end2
      BY <1>8, <1>9
    <2>2. CASE s < end
      <3>1. s \in start..(end - 1)
        BY <1>8, <2>1, <2>2
      <3> QED
        BY <1>7, <1>12, <3>1
    <2>3. CASE ~(s < end)
      <3>1. s \notin DOMAIN w.whc.node
        BY <1>8, <1>9, <2>1, <2>3
      <3>2. s \in 1..w.seq
        BY <1>2, <1>8, <1>9, <2>1
      <3> QED
        BY <3>1, <3>2 DEF Kept
    <2> QED
      BY <2>2, <2>3
  <1>14. ASSUME sync = "OUT_OF_SYNC", NEW s \in {start} \cup {t \in lost : t > end}
         PROVE  s < one.next_seq + MaxSamples
    <2>1. s \in lost /\ m.base <= one.next_seq
      BY <1>5, <1>14 DEF AskTrue
    <2>2. s \in Nat /\ s < m.base + m.numbits
      BY <1>4, <2>1
    <2> QED
      BY <1>3, <2>1, <2>2
  <1>15. GapTrue(g, sync, one, gone)
    BY <1>10, <1>12, <1>13, <1>14 DEF GapTrue
  <1> QED
    BY <1>10, <1>11, <1>15 DEF MessageOK, g

\* The writer takes an AckNack.
LEMMA AckNackHandled ==
    ASSUME NEW sync, NEW one, NEW gone, NEW lo, WriterOK(wr), Kept(wr, sync, gone), Matched(wr, lo),
           one.next_seq \in Nat, NEW m, AskType(m), AskTrue(m, sync, one, gone)
    PROVE  LET o == handle_AckNack(m)
           IN /\ WriterOK(o.wr) /\ Kept(o.wr, sync, gone) /\ Matched(o.wr, lo)
              /\ o.wr.seq = wr.seq /\ o.wr.volatile = wr.volatile
              /\ o.wr.acked = wr.acked \/ (wr.acked < o.wr.acked /\ o.wr.acked <= m.base - 1)
              /\ \A x \in o.replies : MessageOK(x, lo, wr.seq, sync, one, gone)
  <1> DEFINE acks == m.base - 1 > wr.acked
             acked == IF acks THEN Min({m.base - 1, wr.seq}) ELSE wr.acked
             cache == IF acks THEN whc_remove_acked_messages(wr.whc, acked) ELSE wr.whc
             replied == wr.has_replied_to_hb \/ (m.bits = {} /\ m.base - 1 >= wr.acked)
             w == [wr EXCEPT !.acked = acked, !.whc = cache, !.has_replied_to_hb = replied]
             from == IF w.volatile /\ m.base <= acked THEN acked + 1 ELSE 0
             asked == {s \in m.bits : s <= w.seq_xmit}
             found == {s \in asked : s >= from /\ s \in DOMAIN w.whc.node}
             gap == IF asked = found THEN {} ELSE {GapFor(w, m, asked \ found)}
             hb == IF m.preemptive \/ asked # {} THEN {add_Heartbeat(w, TRUE)} ELSE {}
             o == handle_AckNack(m)
  <1>1. o = [wr |-> w, replies |-> {Data(s) : s \in found} \cup gap \cup hb]
    BY DEF handle_AckNack
  <1>2. /\ DOMAIN wr = WriterFields /\ wr.seq \in Nat /\ wr.seq <= MaxSeq /\ wr.seq_xmit \in 0..wr.seq
        /\ wr.acked \in 0..wr.seq /\ wr.volatile \in BOOLEAN /\ CacheOK(wr.whc, wr.seq)
        /\ m.base \in Nat /\ m.base >= 1 /\ lo \in Numbers /\ lo \in Nat /\ lo - 1 <= wr.acked /\ lo - 1 <= wr.seq_xmit
        /\ (~wr.volatile => lo = 1) /\ m.numbits \in Nat /\ m.numbits \in 0..MaxSamples
        /\ m.bits \in SUBSET (m.base..(m.base + m.numbits - 1))
    BY StreamAssumption DEF WriterOK, Matched, AskType, Numbers
  <1>3. acked \in 0..wr.seq /\ wr.acked <= acked /\ (acks => acked <= m.base - 1) /\ (~acks => acked = wr.acked)
    <2>1. CASE acks
      <3> DEFINE x == m.base - 1  y == wr.seq  z == Min({x, y})
      <3>1. x \in Int /\ y \in Int /\ wr.acked < x /\ wr.acked <= y /\ wr.acked \in Nat /\ acked = z
        BY <1>2, <2>1
      <3> HIDE DEF x, y, acked
      <3>2. z \in {x, y} /\ z <= x /\ z <= y
        BY <3>1, MaxOfTwo
      <3> HIDE DEF z
      <3>3. z \in 0..y /\ wr.acked <= z /\ z <= x
        BY <3>1, <3>2
      <3> QED
        BY <2>1, <3>1, <3>3 DEF x, y
    <2>2. CASE ~acks
      BY <1>2, <2>2
    <2> QED
      BY <2>1, <2>2
  <1> HIDE DEF acked, replied
  <1>4. /\ CacheOK(cache, wr.seq) /\ DOMAIN cache.node \subseteq DOMAIN wr.whc.node
        /\ \A s \in DOMAIN wr.whc.node : s \in DOMAIN cache.node \/ (acks /\ ~(s > acked))
    <2>1. CASE acks
      <3>1. Remains(whc_remove_acked_messages(wr.whc, acked), wr.whc, acked, wr.seq)
        BY <1>2, <1>3, RemoveIs
      <3> QED
        BY <2>1, <3>1 DEF Remains
    <2>2. CASE ~acks
      BY <1>2, <2>2
    <2> QED
      BY <2>1, <2>2
  <1> HIDE DEF cache
  <1>5. /\ DOMAIN w = WriterFields /\ w.seq = wr.seq /\ w.seq_xmit = wr.seq_xmit /\ w.volatile = wr.volatile
        /\ w.acked = acked /\ w.whc = cache
    BY <1>2 DEF WriterFields
  <1> HIDE DEF w, o
  <1>6. WriterOK(w) /\ Matched(w, lo)
    <2>1. lo - 1 <= acked
      BY <1>2, <1>3
    <2> QED
      BY <1>2, <1>3, <1>4, <1>5, <2>1 DEF WriterOK, Matched
  <1>7. Kept(w, sync, gone)
    <2> SUFFICES ASSUME Trusted(sync)
                 PROVE  /\ \A n \in 1..wr.seq : n \in DOMAIN cache.node \/ n \in gone
                        /\ wr.volatile => \A n \in 1..acked : n \in gone
      BY <1>5 DEF Kept
    <2>1. \A n \in 1..(m.base - 1) : n \in gone
      BY DEF AskTrue
    <2>2. ASSUME acks, NEW n \in Nat, n >= 1, ~(n > acked) PROVE n \in gone
      <3>1. n \in 1..(m.base - 1)
        BY <1>2, <1>3, <2>2
      <3> QED
        BY <2>1, <3>1
    <2>3. ASSUME NEW n \in 1..wr.seq PROVE n \in DOMAIN cache.node \/ n \in gone
      <3>1. n \in DOMAIN wr.whc.node \/ n \in gone
        BY DEF Kept
      <3>2. n \in Nat /\ n >= 1
        BY <1>2
      <3> QED
        BY <1>4, <2>2, <3>1, <3>2
    <2>4. ASSUME wr.volatile, NEW n \in 1..acked PROVE n \in gone
      <3>1. n \in Nat /\ n >= 1 /\ ~(n > acked)
        BY <1>3
      <3>2. CASE acks
        BY <2>2, <3>1, <3>2
      <3>3. CASE ~acks
        BY <1>3, <2>4, <3>3 DEF Kept
      <3> QED
        BY <3>2, <3>3
    <2> QED
      BY <2>3, <2>4
  <1>8. ASSUME NEW s \in found PROVE MessageOK(Data(s), lo, wr.seq, sync, one, gone)
    <2>1. s \in m.base..(m.base + m.numbits - 1) /\ s <= wr.seq_xmit /\ s >= from
      BY <1>2, <1>5
    <2>2. s \in Nat /\ m.base <= s /\ s <= wr.seq
      BY <1>2, <2>1
    <2>3. lo <= s
      <3>1. CASE ~wr.volatile
        BY <1>2, <2>2, <3>1
      <3>2. CASE wr.volatile /\ m.base <= acked
        <4>1. s >= acked + 1
          BY <1>5, <2>1, <3>2
        <4> QED
          BY <1>2, <1>3, <2>2, <4>1
      <3>3. CASE wr.volatile /\ ~(m.base <= acked)
        BY <1>2, <1>3, <2>2, <3>3
      <3> QED
        BY <3>1, <3>2, <3>3
    <2>4. s \in lo..wr.seq
      BY <1>2, <2>2, <2>3
    <2>5. Data(s).type = "DATA" /\ Data(s).seq = s
      BY DEF Data
    <2> HIDE DEF found, from
    <2> QED
      BY <2>4, <2>5 DEF MessageOK
  <1>9. ASSUME NEW x \in gap PROVE MessageOK(x, lo, wr.seq, sync, one, gone)
    <2> DEFINE lost == asked \ found
    <2>1. x = GapFor(w, m, lost) /\ lost # {} /\ lost \in SUBSET m.bits
      BY <1>9
    <2>2. \A s \in lost : s <= w.seq_xmit /\ (s \notin DOMAIN w.whc.node \/ (w.volatile /\ s <= w.acked))
      <3> TAKE s \in lost
      <3>1. s \in m.bits /\ s <= w.seq_xmit /\ (~(s >= from) \/ s \notin DOMAIN w.whc.node)
        OBVIOUS
      <3>2. s \in m.base..(m.base + m.numbits - 1)
        BY <1>2, <3>1
      <3>3. s \in Nat /\ s >= 1
        BY <1>2, <3>2
      <3>4. CASE ~(s >= from)
        <4>1. w.volatile /\ from = acked + 1
          BY <3>3, <3>4
        <4>2. s <= acked
          BY <1>3, <3>3, <3>4, <4>1
        <4> QED
          BY <1>5, <3>1, <4>1, <4>2
      <3>5. CASE s \notin DOMAIN w.whc.node
        BY <3>1, <3>5
      <3> QED
        BY <3>1, <3>4, <3>5
    <2> HIDE DEF lost
    <2>3. MessageOK(GapFor(w, m, lost), lo, w.seq, sync, one, gone)
      BY <1>6, <1>7, <2>1, <2>2, GapSent
    <2> QED
      BY <1>5, <2>1, <2>3
  <1>10. ASSUME NEW x \in hb PROVE MessageOK(x, lo, wr.seq, sync, one, gone)
    <2>1. x = add_Heartbeat(w, TRUE)
      BY <1>10
    <2> HIDE DEF hb
    <2>2. MessageOK(add_Heartbeat(w, TRUE), lo, w.seq, sync, one, gone)
      BY <1>6, <1>7, BeatSent
    <2> QED
      BY <1>5, <2>1, <2>2
  <1>11. o.wr = w /\ o.replies = {Data(s) : s \in found} \cup gap \cup hb
    <2> HIDE DEF gap, hb, found
    <2> QED
      BY <1>1
  <1> HIDE DEF gap, hb, found
  <1>12. \A x \in o.replies : MessageOK(x, lo, wr.seq, sync, one, gone)
    BY <1>8, <1>9, <1>10, <1>11
  <1>13. acked = wr.acked \/ (wr.acked < acked /\ acked <= m.base - 1)
    BY <1>2, <1>3
  <1> QED
    BY <1>5, <1>6, <1>7, <1>11, <1>12, <1>13 DEF o

----------------------------------------------------------------------------
(* Every step keeps the invariant.                                          *)

\* What is not owed: what came before the first sample, and what was replaced.
LEMMA OwedIs ==
    ASSUME NEW w, NEW rep, NEW lo, WriterOK(w), Matched(w, lo), Given(w, rep, lo)
    PROVE  Owed(1..(lo - 1) \cup rep, lo, w.seq)
  <1>1. /\ w.seq \in Nat /\ w.acked \in 0..w.seq /\ lo \in Numbers /\ lo \in Nat /\ lo - 1 <= w.acked
        /\ rep \in SUBSET (1..w.seq) /\ (Roomy => rep \subseteq 1..(lo - 1))
    BY DEF WriterOK, Matched, Given, Numbers
  <1>2. lo <= w.seq + 1
    BY <1>1
  <1>3. 1..(lo - 1) \subseteq Numbers /\ rep \subseteq Numbers
    BY <1>1 DEF Numbers
  <1> DEFINE gap == 1..(lo - 1)
  <1> HIDE DEF gap
  <1>4. /\ gap \cup rep \in SUBSET Numbers /\ gap \subseteq gap \cup rep
        /\ (Roomy => gap \cup rep \subseteq gap)
    BY <1>1, <1>3 DEF gap
  <1> QED
    BY <1>1, <1>2, <1>4 DEF Owed, gap

\* The same, of the invariant.
LEMMA InvOwed == StreamInv => /\ Owed(Base, first, wr.seq) /\ wr.seq \in Nat /\ wr.seq <= MaxSeq /\ first \in Numbers
                              /\ rd.own.next_seq \in Nat
  <1> SUFFICES ASSUME StreamInv PROVE Owed(Base, first, wr.seq) /\ wr.seq \in Nat /\ wr.seq <= MaxSeq
                                      /\ first \in Numbers /\ rd.own.next_seq \in Nat
    OBVIOUS
  <1>1. Owed(Base, first, wr.seq)
    BY OwedIs DEF StreamInv, Base
  <1>2. wr.seq \in Nat /\ wr.seq <= MaxSeq /\ first \in Numbers
    BY DEF StreamInv, WriterOK, Matched
  <1>3. rd.own.next_seq \in Nat
    BY SoundNext DEF StreamInv, Reads, ReaderOK
  <1> QED
    BY <1>1, <1>2, <1>3

\* The invariant holds at the start.
LEMMA InitInv == Init => StreamInv
  <1> SUFFICES ASSUME Init PROVE StreamInv
    OBVIOUS
  <1>1. PICK n \in Before, tlwr \in BOOLEAN, tlrd \in BOOLEAN, depth \in Depths :
          /\ tlrd => tlwr
          /\ wr = [whc |-> HistoryOf(whc_make_wrinfo(tlwr, depth, depth), n), seq |-> n,
                   seq_xmit |-> n, acked |-> n, has_replied_to_hb |-> FALSE, volatile |-> ~tlrd]
          /\ first = IF tlrd THEN 1 ELSE n + 1
          /\ replaced = (1..n) \ DOMAIN wr.whc.node
    BY DEF Init
  <1>2. n \in Nat /\ n <= MaxSeq
    BY StreamAssumption
  <1> DEFINE info == whc_make_wrinfo(tlwr, depth, depth)  c == HistoryOf(info, n)
  <1>3. InfoOK(info) /\ info.is_transient_local = tlwr /\ info.hdepth = depth
    BY InfoIs
  <1> HIDE DEF info
  <1>4. /\ CacheOK(c, n) /\ c.wrinfo = info
        /\ info.is_transient_local /\ info.hdepth = 0 => DOMAIN c.node = 1..n
    BY <1>2, <1>3, HistoryIs
  <1> HIDE DEF c
  <1>5. /\ DOMAIN wr = WriterFields /\ wr.whc = c /\ wr.seq = n /\ wr.seq_xmit = n /\ wr.acked = n
        /\ wr.volatile = ~tlrd
    BY <1>1 DEF WriterFields, c, info
  <1>6. WriterOK(wr)
    BY <1>2, <1>4, <1>5 DEF WriterOK
  <1>7. Matched(wr, first)
    <2>1. first \in Nat /\ first >= 1 /\ first - 1 <= n /\ (tlrd => first = 1)
      BY <1>1, <1>2
    <2>2. ~wr.volatile => tlrd
      BY <1>5, Zenon
    <2> QED
      BY <1>5, <2>1, <2>2 DEF Matched, Numbers
  <1>8. Given(wr, replaced, first)
    <2>1. replaced \in SUBSET (1..n)
      BY <1>1
    <2>2. ASSUME Roomy PROVE replaced \subseteq 1..(first - 1)
      <3>1. CASE tlrd
        <4>1. depth = 0 /\ tlwr
          BY <1>1, <2>2, <3>1 DEF Roomy
        <4>2. DOMAIN c.node = 1..n
          BY <1>3, <1>4, <4>1
        <4>3. replaced = {}
          BY <1>1, <1>5, <4>2
        <4> QED
          BY <4>3
      <3>2. CASE ~tlrd
        <4>1. first - 1 = n
          BY <1>1, <1>2, <3>2
        <4> QED
          BY <2>1, <4>1
      <3> QED
        BY <3>1, <3>2
    <2> QED
      BY <1>5, <2>1, <2>2 DEF Given
  <1>9. Owed(Base, first, wr.seq)
    BY <1>6, <1>7, <1>8, OwedIs DEF Base
  <1>10. /\ rd = [have_seen_heartbeat |-> FALSE, last_seq |-> 0, reorder |-> New, own |-> New,
                 in_sync |-> "OUT_OF_SYNC", end_of_tl_seq |-> MAX_SEQ_NUMBER,
                 heartbeat_since_ack |-> FALSE, ack_requested |-> FALSE, scheduled |-> TRUE, last_nack_end |-> 0]
         /\ net = {} /\ delivered = <<>>
    BY DEF Init, New
  <1>11. Reads(rd, delivered, Base, first, wr.seq)
    <2>1. ReaderOK(FALSE, "OUT_OF_SYNC", New, New, <<>>, Base, first, wr.seq)
      BY <1>2, <1>5, <1>9, AtFirst
    <2>2. New \in RB!Reorders
      BY <2>1 DEF ReaderOK, Sound
    <2>3. MAX_SEQ_NUMBER \in Nat
      BY StreamAssumption DEF MAX_SEQ_NUMBER
    <2> HIDE DEF New
    <2>4. rd \in Readers
      BY <1>10, <2>2, <2>3 DEF Readers, Syncs
    <2> QED
      BY <1>10, <2>1, <2>4 DEF Reads
  <1>12. Kept(wr, rd.in_sync, Gone)
    <2>1. ASSUME NEW x \in 1..n PROVE x \in DOMAIN wr.whc.node \/ x \in Gone
      BY <1>1 DEF Gone, Base
    <2>2. ASSUME wr.volatile, NEW x \in 1..n PROVE x \in Gone
      <3>0. ~tlrd
        BY <1>5, <2>2, Zenon
      <3>1. first - 1 = n
        BY <1>1, <1>2, <3>0
      <3> QED
        BY <3>1 DEF Gone, Base
    <2> QED
      BY <1>5, <2>1, <2>2 DEF Kept
  <1> QED
    BY <1>6, <1>7, <1>8, <1>10, <1>11, <1>12 DEF StreamInv

\* The reader's handlers.
LEMMA ReaderSteps ==
    ASSUME StreamInv, NEW o, Handled(o, rd, delivered, Base, first, wr.seq),
           rd' = o.rd, delivered' = delivered \o o.sc, UNCHANGED <<wr, first, replaced>>,
           \A m \in net' : m \in net
    PROVE  StreamInv'
  <1>1. /\ Reads(rd', delivered', Base, first, wr.seq) /\ Onward(rd, delivered, rd', delivered')
    BY DEF Handled
  <1>2. wr' = wr /\ first' = first /\ replaced' = replaced /\ Base' = Base
    BY DEF Base
  <1>3. Gone \subseteq Gone'
    BY <1>1, <1>2 DEF Gone, Onward
  <1>4. Reads(rd', delivered', Base', first', wr'.seq)
    BY <1>1, <1>2
  <1>5. rd.own.next_seq \in Nat /\ rd'.own.next_seq \in Nat /\ wr.seq \in Nat /\ first \in Numbers
    BY <1>1, InvOwed, SoundNext DEF Reads, ReaderOK
  <1>6. rd'.in_sync = "OUT_OF_SYNC" => rd.in_sync = "OUT_OF_SYNC" /\ rd.own.next_seq <= rd'.own.next_seq
    BY <1>1 DEF Onward
  <1>7. \A m \in net' : MessageOK(m, first', wr'.seq, rd'.in_sync, rd'.own, Gone')
    <2> SUFFICES ASSUME NEW m \in net PROVE MessageOK(m, first, wr.seq, rd'.in_sync, rd'.own, Gone')
      BY <1>2
    <2>1. MessageOK(m, first, wr.seq, rd.in_sync, rd.own, Gone) /\ wr.seq <= wr.seq
      BY <1>5 DEF StreamInv
    <2> DEFINE more == Gone'  two == rd'.own  sync2 == rd'.in_sync
    <2>2. /\ Gone \subseteq more /\ two.next_seq \in Nat
          /\ sync2 = "OUT_OF_SYNC" => rd.in_sync = "OUT_OF_SYNC" /\ rd.own.next_seq <= two.next_seq
      BY <1>3, <1>5, <1>6
    <2> HIDE DEF more, two, sync2
    <2>3. MessageOK(m, first, wr.seq, sync2, two, more)
      BY <1>5, <2>1, <2>2, MessageStays
    <2> QED
      BY <2>3 DEF more, two, sync2
  <1>8. Kept(wr', rd'.in_sync, Gone')
    <2>1. Trusted(rd'.in_sync) => Trusted(rd.in_sync)
      BY <1>6 DEF Trusted
    <2> DEFINE more == Gone'  sync2 == rd'.in_sync
    <2> HIDE DEF more, sync2
    <2>2. Kept(wr, sync2, more)
      BY <1>3, <2>1 DEF StreamInv, Kept, more, sync2
    <2> QED
      BY <1>2, <2>2 DEF more, sync2
  <1>9. WriterOK(wr') /\ Matched(wr', first') /\ Given(wr', replaced', first')
    BY <1>2 DEF StreamInv
  <1> QED
    BY <1>4, <1>7, <1>8, <1>9 DEF StreamInv

\* The writer's steps.
LEMMA WriterSteps ==
    ASSUME StreamInv, UNCHANGED <<rd, first, delivered>>, WriterOK(wr'), Matched(wr', first),
           Given(wr', replaced', first), replaced \subseteq replaced', wr.seq <= wr'.seq,
           Kept(wr', rd.in_sync, Gone'),
           \A m \in net' : m \in net \/ MessageOK(m, first, wr'.seq, rd.in_sync, rd.own, Gone')
    PROVE  StreamInv'
  <1>1. rd' = rd /\ first' = first /\ delivered' = delivered
    OBVIOUS
  <1>2. /\ Owed(Base, first, wr.seq) /\ wr.seq \in Nat /\ first \in Numbers /\ rd.own.next_seq \in Nat
    BY InvOwed
  <1>3. wr'.seq \in Nat /\ wr'.seq <= MaxSeq
    BY DEF WriterOK
  <1>4. Base' = 1..(first - 1) \cup replaced' /\ Base \subseteq Base' /\ Gone' = Base' \cup Elements(delivered)
        /\ Gone \subseteq Gone'
    BY <1>1 DEF Base, Gone
  <1>5. Reads(rd', delivered', Base', first', wr'.seq)
    <2> DEFINE more == 1..(first - 1) \cup replaced'
    <2>1. Owed(more, first, wr'.seq)
      BY OwedIs
    <2>2. Base \subseteq more
      BY <1>4
    <2> DEFINE M == wr'.seq
    <2> HIDE DEF more, M
    <2>3. /\ Owed(more, first, M) /\ wr.seq <= M /\ M <= MaxSeq
      BY <1>3, <2>1 DEF M
    <2>4. /\ rd \in Readers
          /\ ReaderOK(rd.have_seen_heartbeat, rd.in_sync, rd.reorder, rd.own, delivered, Base, first, wr.seq)
      BY DEF StreamInv, Reads
    <2>5. ReaderOK(rd.have_seen_heartbeat, rd.in_sync, rd.reorder, rd.own, delivered, more, first, M)
      BY <1>2, <2>2, <2>3, <2>4, MoreWritten
    <2>6. Reads(rd, delivered, more, first, M)
      BY <2>4, <2>5 DEF Reads
    <2>7. more = Base'
      BY <1>4 DEF more
    <2> QED
      BY <1>1, <2>6, <2>7 DEF M
  <1>6. \A m \in net' : MessageOK(m, first', wr'.seq, rd'.in_sync, rd'.own, Gone')
    <2> SUFFICES ASSUME NEW m \in net PROVE MessageOK(m, first, wr'.seq, rd.in_sync, rd.own, Gone')
      BY <1>1
    <2>1. MessageOK(m, first, wr.seq, rd.in_sync, rd.own, Gone)
      BY DEF StreamInv
    <2> DEFINE more == Gone'  M == wr'.seq
    <2>2. Gone \subseteq more /\ M \in Nat /\ wr.seq <= M
      BY <1>3, <1>4
    <2>3. rd.in_sync = "OUT_OF_SYNC" => rd.in_sync = "OUT_OF_SYNC" /\ rd.own.next_seq <= rd.own.next_seq
      BY <1>2
    <2> HIDE DEF more, M
    <2>4. MessageOK(m, first, M, rd.in_sync, rd.own, more)
      BY <1>2, <2>1, <2>2, <2>3, MessageStays
    <2> QED
      BY <2>4 DEF more, M
  <1> QED
    BY <1>1, <1>5, <1>6 DEF StreamInv

\* Write preserves it,
LEMMA WriteInv == StreamInv /\ Write => StreamInv'
  <1> SUFFICES ASSUME StreamInv, Write PROVE StreamInv'
    OBVIOUS
  <1> DEFINE n == wr.seq
             c == wr.whc
             d == whc_insert(c, wr.acked, n + 1, "k", FALSE)
  <1>1. /\ n < MaxSeq /\ wr' = [wr EXCEPT !.seq = n + 1, !.whc = d]
        /\ replaced' = replaced \cup (DOMAIN c.node \ DOMAIN d.node)
        /\ UNCHANGED <<rd, net, faults, first, delivered>>
    BY DEF Write
  <1>2. WriterOK(wr) /\ Kept(wr, rd.in_sync, Gone) /\ Matched(wr, first) /\ Given(wr, replaced, first)
    BY DEF StreamInv
  <1>3. /\ n \in Nat /\ n <= MaxSeq /\ CacheOK(c, n) /\ DOMAIN wr = WriterFields /\ MaxSeq \in Nat
        /\ wr.acked \in 0..n /\ wr.seq_xmit \in 0..n /\ wr.volatile \in BOOLEAN /\ DOMAIN c.node \subseteq 1..n
    BY <1>2, StreamAssumption DEF WriterOK, CacheOK
  <1> HIDE DEF d
  <1>4. /\ CacheOK(d, n + 1) /\ d.wrinfo = c.wrinfo /\ n + 1 \in DOMAIN d.node
        /\ DOMAIN d.node \subseteq DOMAIN c.node \cup {n + 1}
        /\ c.wrinfo.hdepth = 0 => DOMAIN d.node = DOMAIN c.node \cup {n + 1}
    BY <1>3, InsertIs DEF d
  <1>5. /\ DOMAIN wr' = WriterFields /\ wr'.seq = n + 1 /\ wr'.whc = d /\ wr'.acked = wr.acked
        /\ wr'.seq_xmit = wr.seq_xmit /\ wr'.volatile = wr.volatile
    BY <1>1, <1>3 DEF WriterFields
  <1>6. WriterOK(wr')
    <2>1. n + 1 \in Nat /\ n + 1 <= MaxSeq /\ wr.acked \in 0..(n + 1) /\ wr.seq_xmit \in 0..(n + 1)
      BY <1>1, <1>3
    <2> QED
      BY <1>3, <1>4, <1>5, <2>1 DEF WriterOK
  <1>7. Matched(wr', first)
    BY <1>2, <1>5 DEF Matched
  <1>8. Given(wr', replaced', first)
    <2>1. replaced \in SUBSET (1..n) /\ (Roomy => replaced \subseteq 1..(first - 1))
      BY <1>2 DEF Given
    <2>2. replaced' \in SUBSET (1..(n + 1))
      <3>1. 1..n \subseteq 1..(n + 1)
        BY <1>3
      <3> QED
        BY <1>1, <1>3, <2>1, <3>1
    <2>3. ASSUME Roomy PROVE replaced' = replaced
      <3>1. c.wrinfo.hdepth = 0
        BY <1>3, <2>3 DEF Roomy, CacheOK, InfoOK, Infos
      <3> QED
        BY <1>1, <1>4, <3>1
    <2> QED
      BY <1>5, <2>1, <2>2, <2>3 DEF Given
  <1>9. Kept(wr', rd.in_sync, Gone')
    <2>1. Gone \subseteq Gone' /\ replaced' \subseteq Gone'
      BY <1>1 DEF Gone, Base
    <2> DEFINE more == Gone'
    <2> HIDE DEF more
    <2>2. ASSUME Trusted(rd.in_sync), NEW x \in 1..(n + 1) PROVE x \in DOMAIN d.node \/ x \in more
      <3>1. CASE x = n + 1
        BY <1>4, <3>1
      <3>2. CASE x # n + 1
        <4>1. x \in 1..n
          BY <1>3, <3>2
        <4>2. x \in DOMAIN c.node \/ x \in Gone
          BY <1>2, <2>2, <4>1 DEF Kept
        <4> QED
          BY <1>1, <2>1, <4>2 DEF more
      <3> QED
        BY <3>1, <3>2
    <2>3. Trusted(rd.in_sync) /\ wr.volatile => \A x \in 1..wr.acked : x \in more
      BY <1>2, <2>1 DEF Kept, more
    <2> QED
      BY <1>5, <2>2, <2>3 DEF Kept, more
  <1>10. replaced \subseteq replaced' /\ wr.seq <= wr'.seq /\ \A m \in net' : m \in net
    BY <1>1, <1>3, <1>5
  <1> QED
    BY <1>1, <1>6, <1>7, <1>8, <1>9, <1>10, WriterSteps

\* Transmit preserves it,
LEMMA TransmitInv == StreamInv /\ Transmit => StreamInv'
  <1> SUFFICES ASSUME StreamInv, Transmit PROVE StreamInv'
    OBVIOUS
  <1>1. /\ wr.seq_xmit < wr.seq /\ wr' = [wr EXCEPT !.seq_xmit = wr.seq_xmit + 1]
        /\ net' = net \cup {Data(wr.seq_xmit + 1)} /\ UNCHANGED <<rd, first, delivered, replaced>>
    BY DEF Transmit
  <1>2. WriterOK(wr) /\ Kept(wr, rd.in_sync, Gone) /\ Matched(wr, first) /\ Given(wr, replaced, first)
    BY DEF StreamInv
  <1>3. DOMAIN wr = WriterFields /\ wr.seq \in Nat /\ wr.seq_xmit \in 0..wr.seq /\ first \in Nat /\ first - 1 <= wr.seq_xmit
    BY <1>2 DEF WriterOK, Matched, Numbers
  <1>4. /\ DOMAIN wr' = WriterFields /\ wr'.seq = wr.seq /\ wr'.whc = wr.whc /\ wr'.acked = wr.acked
        /\ wr'.seq_xmit = wr.seq_xmit + 1 /\ wr'.volatile = wr.volatile
    BY <1>1, <1>3 DEF WriterFields
  <1>5. WriterOK(wr') /\ Matched(wr', first) /\ Given(wr', replaced', first)
    <2>1. wr.seq_xmit + 1 \in 0..wr.seq /\ first - 1 <= wr.seq_xmit + 1 /\ replaced' = replaced
      BY <1>1, <1>3
    <2> QED
      BY <1>2, <1>4, <2>1 DEF WriterOK, Matched, Given
  <1>6. Gone' = Gone
    BY <1>1 DEF Gone, Base
  <1>7. Kept(wr', rd.in_sync, Gone')
    BY <1>2, <1>4, <1>6 DEF Kept
  <1>8. MessageOK(Data(wr.seq_xmit + 1), first, wr'.seq, rd.in_sync, rd.own, Gone')
    <2>1. wr.seq_xmit + 1 \in first..wr'.seq
      BY <1>1, <1>3, <1>4
    <2>2. Data(wr.seq_xmit + 1).type = "DATA" /\ Data(wr.seq_xmit + 1).seq = wr.seq_xmit + 1
      BY DEF Data
    <2> QED
      BY <2>1, <2>2 DEF MessageOK
  <1>9. replaced \subseteq replaced' /\ wr.seq <= wr'.seq
    BY <1>1, <1>3, <1>4
  <1> QED
    BY <1>1, <1>5, <1>7, <1>8, <1>9, WriterSteps

\* More is sent, by either side.
LEMMA SentInv ==
    ASSUME StreamInv, UNCHANGED <<wr, rd, first, delivered, replaced>>,
           \A m \in net' : m \in net \/ MessageOK(m, first, wr.seq, rd.in_sync, rd.own, Gone)
    PROVE  StreamInv'
  <1>1. wr' = wr /\ Gone' = Gone /\ replaced' = replaced
    BY DEF Gone, Base
  <1>2. wr.seq <= wr'.seq
    BY <1>1, InvOwed
  <1>3. /\ WriterOK(wr') /\ Matched(wr', first) /\ Given(wr', replaced', first) /\ Kept(wr', rd.in_sync, Gone')
    BY <1>1 DEF StreamInv
  <1>4. \A m \in net' : m \in net \/ MessageOK(m, first, wr'.seq, rd.in_sync, rd.own, Gone')
    BY <1>1
  <1> QED
    BY <1>1, <1>2, <1>3, <1>4, WriterSteps

\* SendHeartbeat preserves it,
LEMMA SendHeartbeatInv ==
    ASSUME StreamInv, NEW ans \in Answers, SendHeartbeat(ans)
    PROVE  StreamInv'
  <1>1. net' = net \cup {add_Heartbeat(wr, ans)} /\ UNCHANGED <<wr, rd, first, delivered, replaced>>
    BY DEF SendHeartbeat
  <1>2. ans \in BOOLEAN
    BY StreamAssumption
  <1>3. MessageOK(add_Heartbeat(wr, ans), first, wr.seq, rd.in_sync, rd.own, Gone)
    BY <1>2, BeatSent DEF StreamInv
  <1> QED
    BY <1>1, <1>3, SentInv

\* SendPreemptive preserves it,
LEMMA SendPreemptiveInv == StreamInv /\ SendPreemptive => StreamInv'
  <1> SUFFICES ASSUME StreamInv, SendPreemptive PROVE StreamInv'
    OBVIOUS
  <1>1. net' = net \cup {AckNack(1, 0, {}, TRUE)} /\ UNCHANGED <<wr, rd, first, delivered, replaced>>
    BY DEF SendPreemptive
  <1>2. MessageOK(AckNack(1, 0, {}, TRUE), first, wr.seq, rd.in_sync, rd.own, Gone)
    BY PreemptiveSent DEF StreamInv, Gone
  <1> QED
    BY <1>1, <1>2, SentInv

\* SendAckNack preserves it,
LEMMA SendAckNackInv ==
    ASSUME StreamInv, NEW result, SendAckNack(result)
    PROVE  StreamInv'
  <1> DEFINE map == add_AckNack_makebitmaps(rd)
             sends == result # "SUPPRESSED_ACK"
             nack == result = "NACK"
             m == AckNack(map.base, IF nack THEN map.numbits ELSE 0, IF nack THEN map.bits ELSE {}, FALSE)
             end == IF nack THEN map.base + map.numbits ELSE rd.last_nack_end
             again == result \in {"NACK", "SUPPRESSED_NACK"}
             q == [rd EXCEPT !.scheduled = again, !.heartbeat_since_ack = @ /\ ~sends,
                             !.ack_requested = @ /\ ~sends, !.last_nack_end = end]
  <1>1. /\ rd' = q /\ net' = net \cup (IF sends THEN {m} ELSE {})
        /\ UNCHANGED <<wr, first, delivered, replaced>>
    BY DEF SendAckNack
  <1>2. Reads(rd, delivered, Base, first, wr.seq) /\ rd \in Readers
    BY DEF StreamInv, Reads
  <1>3. map.base \in Numbers /\ map.numbits \in 0..MaxSamples
    BY <1>2, MapIs
  <1>4. MessageOK(m, first, wr.seq, rd.in_sync, rd.own, Gone)
    <2>1. nack \in BOOLEAN
      OBVIOUS
    <2> HIDE DEF nack
    <2>2. MessageOK(m, first, wr.seq, rd.in_sync, rd.own, Base \cup Elements(delivered))
      BY <1>2, <2>1, AnswerSent
    <2> QED
      BY <2>2 DEF Gone
  <1>5. end \in Nat
    <2>1. map.base + map.numbits \in Nat
      BY <1>3, StreamAssumption DEF Numbers
    <2>2. rd.last_nack_end \in Nat
      BY <1>2 DEF Readers
    <2> HIDE DEF map
    <2> QED
      BY <2>1, <2>2
  <1> HIDE DEF m, map, end, again, sends
  <1>6. /\ q \in Readers /\ q.in_sync = rd.in_sync /\ q.own = rd.own /\ q.reorder = rd.reorder
        /\ q.have_seen_heartbeat = rd.have_seen_heartbeat
    <2>1. again \in BOOLEAN /\ sends \in BOOLEAN
      BY DEF again, sends
    <2> QED
      BY <1>2, <1>5, <2>1 DEF Readers
  <1> HIDE DEF q
  <1>7. Reads(rd', delivered', Base', first', wr'.seq)
    BY <1>1, <1>2, <1>6 DEF Reads, Base
  <1>8. /\ Kept(wr', rd'.in_sync, Gone') /\ Gone' = Gone /\ wr' = wr /\ first' = first /\ replaced' = replaced
        /\ rd'.in_sync = rd.in_sync /\ rd'.own = rd.own
    <2>1. Gone' = Gone /\ wr' = wr /\ first' = first /\ replaced' = replaced
      BY <1>1 DEF Gone, Base
    <2>2. rd'.in_sync = rd.in_sync /\ rd'.own = rd.own
      BY <1>1, <1>6
    <2> QED
      BY <2>1, <2>2 DEF StreamInv
  <1>9. \A x \in net' : MessageOK(x, first', wr'.seq, rd'.in_sync, rd'.own, Gone')
    <2>1. \A x \in net' : x \in net \/ x = m
      BY <1>1
    <2>2. \A x \in net' : MessageOK(x, first, wr.seq, rd.in_sync, rd.own, Gone)
      BY <1>4, <2>1 DEF StreamInv
    <2> QED
      BY <1>8, <2>2
  <1> QED
    BY <1>7, <1>8, <1>9 DEF StreamInv

\* Lose preserves it,
LEMMA LoseInv ==
    ASSUME StreamInv, NEW m, Lose(m)
    PROVE  StreamInv'
  <1>1. net' = net \ {m} /\ UNCHANGED <<wr, rd, first, delivered, replaced>>
    BY DEF Lose
  <1> QED
    BY <1>1, SentInv

\* The writer takes an AckNack: it acknowledges what is gone, and its answers
\* are true.
LEMMA WriterHears ==
    ASSUME StreamInv, NEW m, NEW kept, Receive(m, kept), m.type = "ACKNACK"
    PROVE  /\ StreamInv' /\ UNCHANGED <<rd, first, delivered, replaced>> /\ wr'.seq = wr.seq
           /\ wr'.acked = wr.acked \/ (wr.acked < wr'.acked /\ wr'.acked <= m.base - 1)
           /\ AskTrue(m, rd.in_sync, rd.own, Gone) /\ AskType(m)
  <1> DEFINE rest == IF kept THEN net ELSE net \ {m}
  <1>1. /\ m \in net /\ UNCHANGED <<first, replaced>>
        /\ IF m.type = "ACKNACK"
           THEN /\ wr' = handle_AckNack(m).wr /\ net' = rest \cup handle_AckNack(m).replies
                /\ UNCHANGED <<rd, delivered>>
           ELSE /\ net' = rest /\ UNCHANGED wr
                /\ Deliver(CASE m.type = "DATA" -> handle_regular(rd, m.seq)
                             [] m.type = "GAP" -> handle_Gap(rd, m)
                             [] m.type = "HEARTBEAT" -> handle_Heartbeat(rd, m))
    BY DEF Receive
  <1>2. /\ m.type \in {"DATA", "GAP", "HEARTBEAT", "ACKNACK"}
        /\ m.type = "DATA" => m.seq \in first..wr.seq
        /\ m.type = "GAP" => GapType(m, wr.seq) /\ GapTrue(m, rd.in_sync, rd.own, Gone)
        /\ m.type = "HEARTBEAT" => BeatType(m, first, wr.seq) /\ BeatTrue(m, rd.in_sync, Gone)
        /\ m.type = "ACKNACK" => AskType(m) /\ AskTrue(m, rd.in_sync, rd.own, Gone)
    <2>1. MessageOK(m, first, wr.seq, rd.in_sync, rd.own, Gone)
      BY <1>1 DEF StreamInv
    <2> QED
      BY <2>1, Kinds
  <1>3. Owed(Base, first, wr.seq) /\ Reads(rd, delivered, Base, first, wr.seq) /\ rd.own.next_seq \in Nat
    BY InvOwed DEF StreamInv
  <1>4. \A x \in rest : x \in net
    OBVIOUS
  <1> HIDE DEF rest
  <1> DEFINE o == handle_AckNack(m)
  <1>5. wr' = o.wr /\ net' = rest \cup o.replies /\ UNCHANGED <<rd, delivered>>
    BY <1>1
  <1>6. /\ WriterOK(o.wr) /\ Kept(o.wr, rd.in_sync, Gone) /\ Matched(o.wr, first) /\ o.wr.seq = wr.seq
        /\ \A x \in o.replies : MessageOK(x, first, wr.seq, rd.in_sync, rd.own, Gone)
        /\ o.wr.acked = wr.acked \/ (wr.acked < o.wr.acked /\ o.wr.acked <= m.base - 1)
    <2>1. WriterOK(wr) /\ Kept(wr, rd.in_sync, Gone) /\ Matched(wr, first)
      BY DEF StreamInv
    <2>2. AskType(m) /\ AskTrue(m, rd.in_sync, rd.own, Gone)
      BY <1>2
    <2> QED
      BY <1>3, <2>1, <2>2, AckNackHandled
  <1> HIDE DEF o
  <1>7. Gone' = Gone /\ replaced' = replaced /\ wr'.seq = wr.seq
    BY <1>1, <1>5, <1>6 DEF Gone, Base
  <1>8. Given(wr', replaced', first) /\ wr.seq <= wr'.seq
    BY <1>7, InvOwed DEF StreamInv, Given
  <1>9. WriterOK(wr') /\ Matched(wr', first) /\ Kept(wr', rd.in_sync, Gone')
    BY <1>5, <1>6, <1>7
  <1>10. \A x \in net' : x \in net \/ MessageOK(x, first, wr'.seq, rd.in_sync, rd.own, Gone')
    BY <1>4, <1>5, <1>6, <1>7
  <1>11. StreamInv'
    BY <1>1, <1>5, <1>7, <1>8, <1>9, <1>10, WriterSteps
  <1> QED
    BY <1>1, <1>2, <1>5, <1>6, <1>11

\* The reader takes a sample, a gap or a heartbeat.
LEMMA ReaderHears ==
    ASSUME StreamInv, NEW m, NEW kept, Receive(m, kept), m.type # "ACKNACK"
    PROVE  \E o : /\ Handled(o, rd, delivered, Base, first, wr.seq)
                 /\ rd' = o.rd /\ delivered' = delivered \o o.sc /\ UNCHANGED <<wr, first, replaced>>
                 /\ \A x \in net' : x \in net
  <1> DEFINE rest == IF kept THEN net ELSE net \ {m}
  <1>1. /\ m \in net /\ UNCHANGED <<first, replaced>>
        /\ IF m.type = "ACKNACK"
           THEN /\ wr' = handle_AckNack(m).wr /\ net' = rest \cup handle_AckNack(m).replies
                /\ UNCHANGED <<rd, delivered>>
           ELSE /\ net' = rest /\ UNCHANGED wr
                /\ Deliver(CASE m.type = "DATA" -> handle_regular(rd, m.seq)
                             [] m.type = "GAP" -> handle_Gap(rd, m)
                             [] m.type = "HEARTBEAT" -> handle_Heartbeat(rd, m))
    BY DEF Receive
  <1>2. /\ m.type \in {"DATA", "GAP", "HEARTBEAT", "ACKNACK"}
        /\ m.type = "DATA" => m.seq \in first..wr.seq
        /\ m.type = "GAP" => GapType(m, wr.seq) /\ GapTrue(m, rd.in_sync, rd.own, Gone)
        /\ m.type = "HEARTBEAT" => BeatType(m, first, wr.seq) /\ BeatTrue(m, rd.in_sync, Gone)
        /\ m.type = "ACKNACK" => AskType(m) /\ AskTrue(m, rd.in_sync, rd.own, Gone)
    <2>1. MessageOK(m, first, wr.seq, rd.in_sync, rd.own, Gone)
      BY <1>1 DEF StreamInv
    <2> QED
      BY <2>1, Kinds
  <1>3. Owed(Base, first, wr.seq) /\ Reads(rd, delivered, Base, first, wr.seq) /\ rd.own.next_seq \in Nat
    BY InvOwed DEF StreamInv
  <1>4. \A x \in rest : x \in net
    OBVIOUS
  <1> HIDE DEF rest
  <1> DEFINE o == CASE m.type = "DATA" -> handle_regular(rd, m.seq)
                    [] m.type = "GAP" -> handle_Gap(rd, m)
                    [] m.type = "HEARTBEAT" -> handle_Heartbeat(rd, m)
  <1>5. net' = rest /\ wr' = wr /\ rd' = o.rd /\ delivered' = delivered \o o.sc
    BY <1>1 DEF Deliver
  <1>6. Handled(o, rd, delivered, Base, first, wr.seq)
    <2>1. CASE m.type = "DATA"
      <3>1. o = handle_regular(rd, m.seq)
        BY <2>1
      <3> HIDE DEF o
      <3>2. m.seq \in first..wr.seq
        BY <1>2, <2>1
      <3> DEFINE seq == m.seq
      <3> HIDE DEF seq
      <3>3. Handled(handle_regular(rd, seq), rd, delivered, Base, first, wr.seq)
        BY <1>3, <3>2, HandledRegular DEF seq
      <3> QED
        BY <3>1, <3>3 DEF seq
    <2>2. CASE m.type = "GAP"
      <3>1. o = handle_Gap(rd, m)
        BY <2>2
      <3> HIDE DEF o
      <3>2. GapType(m, wr.seq) /\ GapTrue(m, rd.in_sync, rd.own, Base \cup Elements(delivered))
        BY <1>2, <2>2 DEF Gone
      <3> QED
        BY <1>3, <3>1, <3>2, HandledGap
    <2>3. CASE m.type = "HEARTBEAT"
      <3>1. o = handle_Heartbeat(rd, m)
        BY <2>3
      <3> HIDE DEF o
      <3>2. BeatType(m, first, wr.seq) /\ BeatTrue(m, rd.in_sync, Base \cup Elements(delivered))
        BY <1>2, <2>3 DEF Gone
      <3> QED
        BY <1>3, <3>1, <3>2, HandledHeartbeat
    <2> QED
      BY <1>2, <2>1, <2>2, <2>3
  <1> HIDE DEF o
  <1>7. UNCHANGED <<wr, first, replaced>> /\ \A x \in net' : x \in net
    BY <1>1, <1>4, <1>5
  <1> QED
    BY <1>5, <1>6, <1>7

\* Receive preserves it,
LEMMA ReceiveInv ==
    ASSUME StreamInv, NEW m, NEW kept, Receive(m, kept)
    PROVE  StreamInv'
  <1>1. CASE m.type = "ACKNACK"
    BY <1>1, WriterHears
  <1>2. CASE m.type # "ACKNACK"
    <2>1. PICK o : /\ Handled(o, rd, delivered, Base, first, wr.seq)
                   /\ rd' = o.rd /\ delivered' = delivered \o o.sc /\ UNCHANGED <<wr, first, replaced>>
                   /\ \A x \in net' : x \in net
      BY <1>2, ReaderHears
    <2> QED
      BY <2>1, ReaderSteps
  <1> QED
    BY <1>1, <1>2

\* and so does every step.
LEMMA NextInv == StreamInv /\ [Next]_vars => StreamInv'
  <1> SUFFICES ASSUME StreamInv, [Next]_vars PROVE StreamInv'
    OBVIOUS
  <1>1. CASE Write
    BY <1>1, WriteInv
  <1>2. CASE Transmit
    BY <1>2, TransmitInv
  <1>3. CASE SendPreemptive
    BY <1>3, SendPreemptiveInv
  <1>4. CASE \E ans \in Answers : SendHeartbeat(ans)
    BY <1>4, SendHeartbeatInv
  <1>5. CASE \E result \in {"ACK", "SUPPRESSED_ACK", "NACK", "SUPPRESSED_NACK"} : SendAckNack(result)
    BY <1>5, SendAckNackInv
  <1>6. CASE \E m \in net : Lose(m) \/ \E kept \in BOOLEAN : Receive(m, kept)
    BY <1>6, LoseInv, ReceiveInv
  <1>7. CASE UNCHANGED vars
    <2>1. UNCHANGED <<wr, rd, first, delivered, replaced>> /\ net' = net
      BY <1>7 DEF vars
    <2> QED
      BY <2>1, SentInv
  <1> QED
    BY <1>1, <1>2, <1>3, <1>4, <1>5, <1>6, <1>7 DEF Next
----------------------------------------------------------------------------
(* What the invariant means.                                               *)

\* With a writer that keeps everything, and room for it, what has been
\* delivered is an interval, in order, without a hole and without a repeat.
LEMMA InOrder ==
    ASSUME NEW r, NEW dl, NEW base, NEW lo, NEW N, Owed(base, lo, N), Reads(r, dl, base, lo, N), Roomy
    PROVE  /\ Len(dl) \in Nat /\ lo \in Nat /\ lo >= 1 /\ dl \in Seq(Nat)
           /\ lo + Len(dl) - 1 <= N
           /\ \A i \in 1..Len(dl) : dl[i] = lo + i - 1
           /\ base \cup Elements(dl) \subseteq 1..(lo + Len(dl) - 1)
  <1> DEFINE cur == Current(r.in_sync, r.reorder, r.own)
             next == cur.next_seq
  <1>1. Served(dl, cur, base, lo, N)
    BY DEF Reads, ReaderOK, Trusted
  <1>2. next \in Nat
    <2>1. cur \in {r.reorder, r.own}
      BY DEF Current
    <2>2. Sound(r.reorder, lo, N) /\ Sound(r.own, lo, N)
      BY DEF Reads, ReaderOK
    <2> QED
      BY <2>1, <2>2, SoundNext
  <1>3. /\ dl \in Seq(lo..N) /\ Increasing(dl) /\ \A i \in 1..Len(dl) : dl[i] < next
        /\ \A n \in 1..(next - 1) : n \in base \cup Elements(dl)
    BY <1>1 DEF Served
  <1> HIDE DEF cur, next
  <1>4. lo \in Nat /\ lo >= 1 /\ N \in Nat /\ lo <= N + 1 /\ base \subseteq 1..(lo - 1)
    BY DEF Owed, Numbers
  <1>5. Len(dl) \in Nat /\ \A i \in 1..Len(dl) : dl[i] \in lo..N
    BY <1>3, LenProperties, ElementOfSeq
  <1>6. \A n \in lo..(next - 1) : \E j \in 1..Len(dl) : n = dl[j]
    <2> TAKE n \in lo..(next - 1)
    <2>1. n \in 1..(next - 1) /\ n \notin base
      BY <1>2, <1>4
    <2>2. n \in Elements(dl)
      BY <1>3, <2>1
    <2> QED
      BY <2>2 DEF Elements
  <1> DEFINE P == {i \in Int : dl[i] = lo + i - 1}
             k == Len(dl)
  <1>7. 1..k \subseteq P
    <2>1. 1 <= k => 1 \in P
      <3> SUFFICES ASSUME 1 <= k PROVE dl[1] = lo
        BY <1>4
      <3>1. dl[1] \in lo..N /\ dl[1] < next
        BY <1>3, <1>5
      <3>2. lo \in lo..(next - 1)
        BY <1>2, <1>4, <3>1
      <3>3. PICK j \in 1..k : lo = dl[j]
        BY <1>6, <3>2
      <3>4. CASE j = 1
        BY <3>3, <3>4
      <3>5. CASE j # 1
        <4>1. dl[1] < dl[j]
          BY <1>3, <1>5, <3>5 DEF Increasing
        <4> QED
          BY <1>4, <3>1, <3>3, <4>1
      <3> QED
        BY <3>4, <3>5
    <2>2. ASSUME NEW i \in 1..k, i \in P, i < k PROVE i + 1 \in P
      <3>1. i + 1 \in 1..k /\ i < i + 1
        BY <1>5, <2>2
      <3>2. dl[i] = lo + i - 1 /\ dl[i] < dl[i + 1] /\ dl[i + 1] \in lo..N /\ dl[i + 1] < next
        BY <1>3, <1>5, <2>2, <3>1 DEF Increasing
      <3>3. dl[i + 1] >= lo + i /\ lo + i \in lo..(next - 1)
        BY <1>2, <1>4, <1>5, <3>2
      <3>4. PICK j \in 1..k : lo + i = dl[j]
        BY <1>6, <3>3
      <3>5. CASE j = i + 1
        BY <1>4, <1>5, <3>1, <3>4, <3>5
      <3>6. CASE j < i + 1
        <4>1. j = i \/ dl[j] < dl[i]
          BY <1>3, <1>5, <3>6 DEF Increasing
        <4> QED
          BY <1>4, <1>5, <3>2, <3>4, <4>1
      <3>7. CASE i + 1 < j
        <4>1. dl[i + 1] < dl[j]
          BY <1>3, <3>1, <3>7 DEF Increasing
        <4> QED
          BY <1>4, <1>5, <3>2, <3>3, <3>4, <4>1
      <3> QED
        BY <1>5, <3>5, <3>6, <3>7
    <2> HIDE DEF P
    <2>3. \A i \in 1..k : i \in P /\ i < k => i + 1 \in P
      BY <2>2
    <2>4. k \in Int
      BY <1>5
    <2> HIDE DEF k
    <2> QED
      BY <2>1, <2>3, <2>4, IntervalInduction
  <1>8. \A i \in 1..k : dl[i] = lo + i - 1
    BY <1>7
  <1>9. lo + k - 1 <= N
    <2>1. CASE k = 0
      BY <1>4, <2>1
    <2>2. CASE k # 0
      BY <1>4, <1>5, <1>8, <2>2
    <2> QED
      BY <2>1, <2>2
  <1>10. \A n \in base \cup Elements(dl) : n \in 1..(lo + k - 1)
    BY <1>4, <1>5, <1>8 DEF Elements
  <1>11. dl \in Seq(Nat)
    BY <1>3, <1>4
  <1> QED
    BY <1>4, <1>5, <1>8, <1>9, <1>10, <1>11

\* Everything before what the reader would acknowledge is gone: delivered, given
\* up, or not owed.
LEMMA InvAcked == StreamInv /\ (Roomy \/ rd.in_sync = "OUT_OF_SYNC") => AckedMeansDelivered
  <1> SUFFICES ASSUME StreamInv, Roomy \/ rd.in_sync = "OUT_OF_SYNC" PROVE AckedMeansDelivered
    OBVIOUS
  <1> DEFINE base == add_AckNack_makebitmaps(rd).base
  <1>1. Reads(rd, delivered, Base, first, wr.seq) /\ Trusted(rd.in_sync)
    BY DEF StreamInv, Trusted
  <1>2. base \in Numbers /\ 1..(base - 1) \subseteq Base \cup Elements(delivered)
    BY <1>1, MapIs
  <1> HIDE DEF base
  <1>3. first \in Nat /\ first >= 1
    BY InvOwed DEF Numbers
  <1>4. Elements(delivered) \subseteq Range(delivered)
    <2>1. delivered \in Seq(first..wr.seq)
      BY <1>1 DEF Reads, ReaderOK
    <2> QED
      BY <2>1 DEF Elements, Range
  <1>5. ASSUME NEW n \in first..(base - 1) PROVE n \in Range(delivered) \cup replaced
    <2>1. n \in 1..(base - 1) /\ n \notin 1..(first - 1)
      BY <1>2, <1>3 DEF Numbers
    <2> QED
      BY <1>2, <1>4, <2>1 DEF Base
  <1> QED
    BY <1>5 DEF AckedMeansDelivered, base

\* Delivery in the order of writing, and nothing twice.
DeliveredInOrder == \A i, j \in 1..Len(delivered) : i < j => delivered[i] < delivered[j]

\* The order of delivery, as the invariant has it.
LEMMA InvInOrder == StreamInv /\ (Roomy \/ rd.in_sync = "OUT_OF_SYNC") => DeliveredInOrder
  BY DEF StreamInv, Trusted, Reads, ReaderOK, Served, Increasing, DeliveredInOrder

\* What the reader still waits for the writer still has.
NothingDropped ==
    first..wr.seq \subseteq DOMAIN wr.whc.node \cup Range(delivered) \cup replaced

\* From what the invariant says of the writer.
LEMMA InvNothingDropped == StreamInv /\ (Roomy \/ rd.in_sync = "OUT_OF_SYNC") => NothingDropped
  <1> SUFFICES ASSUME StreamInv, Roomy \/ rd.in_sync = "OUT_OF_SYNC" PROVE NothingDropped
    OBVIOUS
  <1>1. \A n \in 1..wr.seq : n \in DOMAIN wr.whc.node \/ n \in Gone
    BY DEF StreamInv, Kept, Trusted
  <1>2. first \in Nat /\ first >= 1 /\ wr.seq \in Nat
    BY InvOwed DEF Numbers
  <1>3. Elements(delivered) \subseteq Range(delivered)
    <2>1. delivered \in Seq(first..wr.seq)
      BY DEF StreamInv, Reads, ReaderOK
    <2> QED
      BY <2>1 DEF Elements, Range
  <1>4. ASSUME NEW n \in first..wr.seq PROVE n \in DOMAIN wr.whc.node \cup Range(delivered) \cup replaced
    <2>1. n \in 1..wr.seq /\ n \notin 1..(first - 1)
      BY <1>2
    <2> QED
      BY <1>1, <1>3, <2>1 DEF Gone, Base
  <1> QED
    BY <1>4 DEF NothingDropped

\* What holds of any stream, whatever the writer keeps: the numbers of the
\* writer stay in order, what is delivered was written and is owed, both
\* administrations are sound, and nothing on its way is about a number that was
\* not written.
StreamSound ==
    /\ wr.seq \in 0..MaxSeq /\ wr.seq_xmit \in 0..wr.seq /\ wr.acked \in 0..wr.seq
    /\ DOMAIN wr.whc.node \subseteq 1..wr.seq /\ replaced \subseteq 1..wr.seq
    /\ delivered \in Seq(first..wr.seq)
    /\ Sound(rd.reorder, first, wr.seq) /\ Sound(rd.own, first, wr.seq)
    /\ \A m \in net :
          /\ m.type = "DATA" => m.seq \in first..wr.seq
          /\ m.type = "GAP" => GapType(m, wr.seq)
          /\ m.type = "HEARTBEAT" => BeatType(m, first, wr.seq)
          /\ m.type = "ACKNACK" => AskType(m)

\* From the types in the invariant.
LEMMA InvSound == StreamInv => StreamSound
  <1> SUFFICES ASSUME StreamInv PROVE StreamSound
    OBVIOUS
  <1>1. wr.seq \in 0..MaxSeq /\ wr.seq_xmit \in 0..wr.seq /\ wr.acked \in 0..wr.seq /\ DOMAIN wr.whc.node \subseteq 1..wr.seq
    <2>1. WriterOK(wr)
      BY DEF StreamInv
    <2>2. wr.seq \in Nat /\ wr.seq <= MaxSeq /\ MaxSeq \in Nat
      BY <2>1, StreamAssumption DEF WriterOK
    <2> QED
      BY <2>1, <2>2 DEF WriterOK, CacheOK
  <1>2. replaced \subseteq 1..wr.seq
    BY DEF StreamInv, Given
  <1>3. delivered \in Seq(first..wr.seq) /\ Sound(rd.reorder, first, wr.seq) /\ Sound(rd.own, first, wr.seq)
    BY DEF StreamInv, Reads, ReaderOK
  <1>4. ASSUME NEW m \in net
        PROVE  /\ m.type = "DATA" => m.seq \in first..wr.seq
               /\ m.type = "GAP" => GapType(m, wr.seq)
               /\ m.type = "HEARTBEAT" => BeatType(m, first, wr.seq)
               /\ m.type = "ACKNACK" => AskType(m)
    <2>1. MessageOK(m, first, wr.seq, rd.in_sync, rd.own, Gone)
      BY DEF StreamInv
    <2> QED
      BY <2>1, Kinds
  <1> QED
    BY <1>1, <1>2, <1>3, <1>4 DEF StreamSound

\* The invariant of the reliable protocol: the writer has what the reader waits
\* for, nothing on its way lies, and what both administrations of the reader
\* are past is gone (Write, handle_AckNack, handle_regular, handle_Gap,
\* handle_Heartbeat and the AckNacks).
THEOREM StreamInvariant == Spec => []StreamInv
  BY InitInv, NextInv, PTL DEF Spec

\* For any history, buffer and network: the writer's numbers stay in order,
\* nothing is delivered that was not written or is not owed, both reorder
\* administrations are sound, and no message speaks of a number never written.
THEOREM StreamIsSound == Spec => []StreamSound
  BY StreamInvariant, InvSound, PTL

\* What the reader acknowledges (add_AckNack_makebitmaps) it has delivered, or
\* a later sample had taken its place: while it catches up with the history
\* (OUT_OF_SYNC) for any history and buffer, and for good with a writer that
\* keeps everything and room for the stream in the reorder administration.
THEOREM AckedWasDelivered ==
    Spec => []((Roomy \/ rd.in_sync = "OUT_OF_SYNC") => AckedMeansDelivered)
  BY StreamInvariant, InvAcked, PTL

\* The same writer and reader: what is delivered comes in the order of writing,
\* and never twice, although data come lost, twice, late and again.
THEOREM StreamInOrder ==
    Spec => []((Roomy \/ rd.in_sync = "OUT_OF_SYNC") => DeliveredInOrder)
  BY StreamInvariant, InvInOrder, PTL

\* And no sample leaves the writer's history (handle_AckNack, whc_insert) that
\* the reader still waits for, unless a later one took its place.
THEOREM StreamNothingDropped ==
    Spec => []((Roomy \/ rd.in_sync = "OUT_OF_SYNC") => NothingDropped)
  BY StreamInvariant, InvNothingDropped, PTL

----------------------------------------------------------------------------
(* The protocol does what InOrderDelivery promises.                         *)

\* What has been delivered, in the terms of InOrderDelivery.
LEMMA InvDelivered ==
    ASSUME StreamInv, Roomy
    PROVE  /\ Len(delivered) \in Nat /\ first \in Nat /\ first >= 1 /\ delivered \in Seq(Nat)
           /\ wr.seq \in Nat /\ wr.seq <= MaxSeq /\ MaxSeq \in Nat
           /\ Stream!has = first + Len(delivered) - 1 /\ Stream!has \in Nat /\ Stream!has <= wr.seq
           /\ \A i \in 1..Len(delivered) : delivered[i] = first + i - 1
           /\ Gone \subseteq 1..Stream!has
  <1>1. Owed(Base, first, wr.seq) /\ Reads(rd, delivered, Base, first, wr.seq)
    BY InvOwed DEF StreamInv
  <1>2. /\ Len(delivered) \in Nat /\ first \in Nat /\ first >= 1 /\ delivered \in Seq(Nat)
        /\ first + Len(delivered) - 1 <= wr.seq
        /\ \A i \in 1..Len(delivered) : delivered[i] = first + i - 1
        /\ Base \cup Elements(delivered) \subseteq 1..(first + Len(delivered) - 1)
    BY <1>1, InOrder
  <1>3. wr.seq \in Nat /\ wr.seq <= MaxSeq /\ MaxSeq \in Nat
    BY InvOwed, StreamAssumption
  <1>4. Stream!has = first + Len(delivered) - 1
    BY DEF Stream!has
  <1>5. first + Len(delivered) - 1 \in Nat
    BY <1>2
  <1> QED
    BY <1>2, <1>3, <1>4, <1>5 DEF Gone

\* The protocol starts where InOrderDelivery starts.
LEMMA RefinedInit == Init => Stream!Init
  <1> SUFFICES ASSUME Init PROVE Stream!Init
    OBVIOUS
  <1>1. PICK n \in Before, tlwr \in BOOLEAN, tlrd \in BOOLEAN, depth \in Depths :
          /\ wr = [whc |-> HistoryOf(whc_make_wrinfo(tlwr, depth, depth), n), seq |-> n,
                   seq_xmit |-> n, acked |-> n, has_replied_to_hb |-> FALSE, volatile |-> ~tlrd]
          /\ first = IF tlrd THEN 1 ELSE n + 1
    BY DEF Init
  <1>2. wr.seq = n /\ wr.acked = n /\ delivered = <<>>
    BY <1>1 DEF Init
  <1>3. n \in 0..MaxSeq /\ first \in {1, n + 1}
    BY <1>1, StreamAssumption
  <1> QED
    BY <1>2, <1>3 DEF Stream!Init

\* What a handler of the reader delivers continues what it has delivered.
LEMMA RefinedReader ==
    ASSUME StreamInv, StreamInv', Roomy, NEW sc \in Seq(first..wr.seq), delivered' = delivered \o sc,
           UNCHANGED <<wr, first>>
    PROVE  Stream!Next \/ UNCHANGED Stream!vars
  <1> DEFINE n == Len(sc)
             has == Stream!has
             more == [i \in 1..n |-> has + i]
  <1>1. /\ Len(delivered) \in Nat /\ first \in Nat /\ first >= 1 /\ delivered \in Seq(Nat)
        /\ wr.seq \in Nat /\ wr.seq <= MaxSeq /\ MaxSeq \in Nat
        /\ has = first + Len(delivered) - 1 /\ has \in Nat /\ has <= wr.seq
    BY InvDelivered
  <1>2. first + Len(delivered') - 1 <= wr.seq /\ \A i \in 1..Len(delivered') : delivered'[i] = first + i - 1
    <2>1. Owed(Base', first', wr'.seq) /\ Reads(rd', delivered', Base', first', wr'.seq)
      <3>1. WriterOK(wr') /\ Matched(wr', first') /\ Given(wr', replaced', first')
        BY DEF StreamInv
      <3>2. Owed(1..(first' - 1) \cup replaced', first', wr'.seq)
        BY <3>1, OwedIs
      <3> QED
        BY <3>2 DEF StreamInv, Base
    <2>2. first' = first /\ wr'.seq = wr.seq
      OBVIOUS
    <2> DEFINE r == rd'  dl == delivered'  base == Base'  lo == first'  N == wr'.seq
    <2>3. Owed(base, lo, N) /\ Reads(r, dl, base, lo, N)
      BY <2>1
    <2> HIDE DEF r, dl, base, lo, N
    <2>4. lo + Len(dl) - 1 <= N /\ \A i \in 1..Len(dl) : dl[i] = lo + i - 1
      BY <2>3, InOrder
    <2> QED
      BY <2>2, <2>4 DEF dl, lo, N
  <1>3. sc \in Seq(Nat) /\ n \in Nat
    BY <1>1
  <1>4. Len(delivered') = Len(delivered) + n /\ \A i \in 1..n : delivered'[Len(delivered) + i] = sc[i]
    BY <1>1, <1>3, Joined
  <1>5. \A i \in 1..n : sc[i] = has + i
    <2> TAKE i \in 1..n
    <2>1. Len(delivered) + i \in 1..Len(delivered')
      BY <1>1, <1>3, <1>4
    <2>2. sc[i] = first + (Len(delivered) + i) - 1
      BY <1>2, <1>4, <2>1
    <2> QED
      BY <1>1, <2>2
  <1>6. sc = more
    BY <1>3, <1>5
  <1>7. n <= wr.seq - has
    BY <1>1, <1>2, <1>3, <1>4
  <1>8. CASE n = 0
    <2>1. sc = <<>>
      BY <1>3, <1>8
    <2>2. delivered' = delivered
      BY <1>1, <2>1, NoSamples
    <2> QED
      BY <2>2 DEF Stream!vars
  <1>9. CASE n # 0
    <2>1. n \in 1..(wr.seq - has) /\ n \in 1..MaxSeq
      BY <1>1, <1>3, <1>7, <1>9
    <2>2. delivered' = delivered \o more
      BY <1>6
    <2>3. Stream!Deliver(n)
      BY <2>1, <2>2 DEF Stream!Deliver
    <2> QED
      BY <2>1, <2>3 DEF Stream!Next, Stream!DeliverSome
  <1> QED
    BY <1>8, <1>9

\* What the writer takes for acknowledged the reader has.
LEMMA RefinedAckNack ==
    ASSUME StreamInv, Roomy, NEW m, NEW kept, Receive(m, kept), m.type = "ACKNACK"
    PROVE  Stream!Next \/ UNCHANGED Stream!vars
  <1>1. /\ UNCHANGED <<rd, first, delivered, replaced>> /\ wr'.seq = wr.seq
        /\ wr'.acked = wr.acked \/ (wr.acked < wr'.acked /\ wr'.acked <= m.base - 1)
        /\ AskTrue(m, rd.in_sync, rd.own, Gone) /\ AskType(m) /\ StreamInv'
    BY WriterHears
  <1>2. CASE wr'.acked = wr.acked
    BY <1>1, <1>2 DEF Stream!vars
  <1>3. CASE wr'.acked # wr.acked
    <2>1. wr.acked < wr'.acked /\ wr'.acked <= m.base - 1 /\ m.base \in Nat
      BY <1>1, <1>3 DEF AskType, Numbers
    <2>2. wr.acked \in Nat /\ wr'.acked \in Nat
      BY <1>1 DEF StreamInv, WriterOK
    <2>3. wr'.acked \in Gone
      <3>1. 1..(m.base - 1) \subseteq Gone
        BY <1>1 DEF AskTrue, Trusted
      <3>2. wr'.acked \in 1..(m.base - 1)
        BY <2>1, <2>2
      <3> QED
        BY <3>1, <3>2
    <2>4. wr'.acked \in 1..Stream!has /\ Stream!has \in Nat /\ Stream!has <= MaxSeq /\ MaxSeq \in Nat
      BY <2>3, InvDelivered
    <2>5. Stream!Acknowledge(wr'.acked) /\ wr'.acked \in 1..MaxSeq
      BY <1>1, <2>1, <2>4 DEF Stream!Acknowledge
    <2> QED
      BY <2>5 DEF Stream!Next, Stream!AcknowledgeSome
  <1> QED
    BY <1>2, <1>3

\* Every step is a step of InOrderDelivery, or changes nothing it can see.
LEMMA RefinedNext == StreamInv /\ Roomy /\ [Next]_vars => [Stream!Next]_(Stream!vars)
  <1> SUFFICES ASSUME StreamInv, Roomy, [Next]_vars PROVE Stream!Next \/ UNCHANGED Stream!vars
    OBVIOUS
  <1>1. CASE Write
    <2>1. wr.seq < MaxSeq /\ UNCHANGED <<first, delivered>>
      BY <1>1 DEF Write
    <2>2. DOMAIN wr = WriterFields
      BY DEF StreamInv, WriterOK
    <2>3. wr'.seq = wr.seq + 1 /\ wr'.acked = wr.acked
      BY <1>1, <2>2 DEF Write, WriterFields
    <2> QED
      BY <2>1, <2>3 DEF Stream!Next, Stream!Write
  <1>2. CASE Transmit
    <2>1. DOMAIN wr = WriterFields
      BY DEF StreamInv, WriterOK
    <2>2. wr'.seq = wr.seq /\ wr'.acked = wr.acked /\ UNCHANGED <<first, delivered>>
      BY <1>2, <2>1 DEF Transmit, WriterFields
    <2> QED
      BY <2>2 DEF Stream!vars
  <1>3. CASE SendPreemptive
    BY <1>3 DEF SendPreemptive, Stream!vars
  <1>4. CASE \E ans \in Answers : SendHeartbeat(ans)
    BY <1>4 DEF SendHeartbeat, Stream!vars
  <1>5. CASE \E result \in {"ACK", "SUPPRESSED_ACK", "NACK", "SUPPRESSED_NACK"} : SendAckNack(result)
    BY <1>5 DEF SendAckNack, Stream!vars
  <1>6. CASE \E m \in net : Lose(m)
    BY <1>6 DEF Lose, Stream!vars
  <1>7. CASE \E m \in net : \E kept \in BOOLEAN : Receive(m, kept)
    <2>1. PICK m \in net : \E kept \in BOOLEAN : Receive(m, kept)
      BY <1>7
    <2>2. PICK kept \in BOOLEAN : Receive(m, kept)
      BY <2>1
    <2>3. CASE m.type = "ACKNACK"
      BY <2>2, <2>3, RefinedAckNack
    <2>4. CASE m.type # "ACKNACK"
      <3>1. PICK o : /\ Handled(o, rd, delivered, Base, first, wr.seq)
                     /\ rd' = o.rd /\ delivered' = delivered \o o.sc /\ UNCHANGED <<wr, first, replaced>>
                     /\ \A x \in net' : x \in net
        BY <2>2, <2>4, ReaderHears
      <3>2. o.sc \in Seq(first..wr.seq)
        BY <3>1 DEF Handled
      <3>3. StreamInv'
        BY NextInv
      <3> QED
        BY <3>1, <3>2, <3>3, RefinedReader
    <2> QED
      BY <2>3, <2>4
  <1>8. CASE UNCHANGED vars
    BY <1>8 DEF vars, Stream!vars
  <1> QED
    BY <1>1, <1>2, <1>3, <1>4, <1>5, <1>6, <1>7, <1>8 DEF Next

\* With a writer that keeps everything, and room for the stream in the reorder
\* administration, the protocol refines InOrderDelivery: every step delivers the
\* next samples owed, acknowledges what the reader has, writes one more, or is
\* invisible to both sides (handle_regular, handle_Gap, handle_Heartbeat,
\* handle_AckNack).
THEOREM StreamRefinesDelivery ==
    Roomy => (Spec => Stream!Init /\ [][Stream!Next]_(Stream!vars))
  <1> SUFFICES ASSUME Roomy PROVE Spec => Stream!Init /\ [][Stream!Next]_(Stream!vars)
    OBVIOUS
  <1>1. StreamInv /\ [Next]_vars => [Stream!Next]_(Stream!vars)
    BY RefinedNext
  <1> QED
    BY <1>1, RefinedInit, StreamInvariant, PTL DEF Spec
=============================================================================
