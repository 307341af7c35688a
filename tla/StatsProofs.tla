----------------------------- MODULE StatsProofs ----------------------------
(***************************************************************************)
(* Proofs about the statistics of one hop and what they are built from:    *)
(* induction over numbers and sequences, for sets in place of predicates;  *)
(* what a loop over a sequence computes; and mtr_hop_stats_record, which   *)
(* keeps the statistics of a hop consistent with one another and with all  *)
(* its results, whatever result comes.                                     *)
(***************************************************************************)
EXTENDS MtrReference, FiniteSetTheorems, TLAPS

(* A set of natural numbers that is not empty has a smallest element.  The   *)
(* sets 0..n of its elements n are finite, and one of them is included in    *)
(* all the others.                                                           *)
LEMMA SmallestExists ==
  ASSUME NEW S \in SUBSET Nat, S # {}
  PROVE  \E n \in S : \A m \in S : n <= m
<1> DEFINE segments == {0..n : n \in S}
           order == StrictSubsetOrdering(Nat)
<1>1. segments \subseteq FiniteSubsetsOf(Nat) /\ segments # {}
  <2>1. \A n \in Nat : 0..n \subseteq Nat /\ IsFiniteSet(0..n)
    BY FS_Interval
  <2> QED BY <2>1 DEF FiniteSubsetsOf
<1>2. ASSUME NEW m \in S, NEW n \in S, m < n
      PROVE  <<0..m, 0..n>> \in order
  <2>1. 0..m \subseteq 0..n /\ 0..m # 0..n /\ 0..m \subseteq Nat /\ 0..n \subseteq Nat
    BY <1>2
  <2> QED BY <2>1 DEF StrictSubsetOrdering
<1>3. IsWellFoundedOn(order, FiniteSubsetsOf(Nat))
  BY FS_StrictSubsetOrderingWellFounded
<1> HIDE DEF order, segments
<1>4. PICK x \in segments : \A y \in segments : ~(<<y, x>> \in order)
  BY <1>1, <1>3, WFMin
<1>5. PICK n \in S : x = 0..n
  BY DEF segments
<1>6. \A m \in S : 0..m \in segments
  BY DEF segments
<1>7. \A m \in S : ~(m < n)
  BY <1>2, <1>4, <1>5, <1>6
<1> QED BY <1>7

(* Induction: a set with 0 and every successor holds every natural number.   *)
LEMMA NaturalInduction ==
  ASSUME NEW S, 0 \in S, \A n \in Nat : n \in S => n + 1 \in S
  PROVE  Nat \subseteq S
<1> SUFFICES ASSUME Nat \ S # {} PROVE FALSE
  OBVIOUS
<1>1. PICK n \in Nat \ S : \A m \in Nat \ S : n <= m
  BY SmallestExists
<1>2. n # 0 /\ n - 1 \in Nat
  BY <1>1
<1>3. n - 1 \in S
  BY <1>1, <1>2
<1> QED BY <1>1, <1>2, <1>3

LEMMA Appended ==
  ASSUME NEW E, NEW s \in Seq(E), NEW x \in E
  PROVE  /\ Append(s, x) \in Seq(E) /\ Len(s) \in Nat
         /\ Len(Append(s, x)) = Len(s) + 1
         /\ Append(s, x)[Len(s) + 1] = x
         /\ \A i \in 1..Len(s) : Append(s, x)[i] = s[i]
  OBVIOUS

LEMMA SameSequence ==
  ASSUME NEW E, NEW s \in Seq(E), NEW t \in Seq(E), Len(s) = Len(t),
         \A i \in 1..Len(s) : s[i] = t[i]
  PROVE  s = t
  OBVIOUS

(* The same for sequences, which grow at their end. *)
LEMMA SequenceInduction ==
  ASSUME NEW E, NEW S, <<>> \in S,
         \A s \in Seq(E) : s \in S => \A x \in E : Append(s, x) \in S
  PROVE  Seq(E) \subseteq S
<1> DEFINE lengths == {n \in Nat : \A s \in Seq(E) : Len(s) = n => s \in S}
<1>1. 0 \in lengths
  <2>1. \A s \in Seq(E) : Len(s) = 0 => s = <<>>
    OBVIOUS
  <2> QED BY <2>1
<1>2. ASSUME NEW n \in Nat, n \in lengths PROVE n + 1 \in lengths
  <2> SUFFICES ASSUME NEW s \in Seq(E), Len(s) = n + 1 PROVE s \in S
    OBVIOUS
  <2> DEFINE front == SubSeq(s, 1, n)
  <2>1. front \in Seq(E) /\ Len(front) = n /\ s[n + 1] \in E
    OBVIOUS
  <2>2. s = Append(front, s[n + 1])
    <3>1. /\ Append(front, s[n + 1]) \in Seq(E) /\ Len(Append(front, s[n + 1])) = n + 1
          /\ \A i \in 1..(n + 1) : Append(front, s[n + 1])[i] = s[i]
      BY <2>1
    <3> QED BY <3>1
  <2> QED BY <1>2, <2>1, <2>2
<1> HIDE DEF lengths
<1>3. Nat \subseteq lengths
  BY <1>1, <1>2, NaturalInduction
<1> QED BY <1>3 DEF lengths

-----------------------------------------------------------------------------
(* What a loop computes. *)

(* The values of the accumulator over the first m elements of s. *)
IsLoop(f, step, base, s, m) ==
  f = [n \in 0..m |-> IF n = 0 THEN base ELSE step[<<f[n - 1], s[n]>>]]

LEMMA LoopExists ==
  ASSUME NEW step, NEW base, NEW s
  PROVE  \A m \in Nat : \E f : IsLoop(f, step, base, s, m)
<1> DEFINE S == {m \in Nat : \E f : IsLoop(f, step, base, s, m)}
<1>1. 0 \in S
  <2> DEFINE f == [n \in 0..0 |-> base]
  <2>1. IsLoop(f, step, base, s, 0)
    BY DEF IsLoop
  <2> QED BY <2>1
<1>2. ASSUME NEW m \in Nat, m \in S PROVE m + 1 \in S
  <2>1. PICK f : IsLoop(f, step, base, s, m)
    BY <1>2
  <2> DEFINE g == [n \in 0..(m + 1) |-> IF n = m + 1 THEN step[<<f[m], s[m + 1]>>] ELSE f[n]]
  <2>2. \A n \in 0..m : f[n] = IF n = 0 THEN base ELSE step[<<f[n - 1], s[n]>>]
    BY <2>1 DEF IsLoop
  <2>3. \A n \in 0..(m + 1) : g[n] = IF n = 0 THEN base ELSE step[<<g[n - 1], s[n]>>]
    <3> SUFFICES ASSUME NEW n \in 0..(m + 1)
                 PROVE  g[n] = IF n = 0 THEN base ELSE step[<<g[n - 1], s[n]>>]
      OBVIOUS
    <3>1. CASE n = m + 1
      <4>1. n # 0 /\ n - 1 = m /\ m \in 0..(m + 1) /\ m # m + 1
        BY <3>1
      <4> QED BY <3>1, <4>1
    <3>2. CASE n # m + 1
      <4>1. n \in 0..m /\ (n # 0 => n - 1 \in 0..m /\ n - 1 # m + 1 /\ n - 1 \in 0..(m + 1))
        BY <3>2
      <4> QED BY <2>2, <3>2, <4>1
    <3> QED BY <3>1, <3>2
  <2>4. IsLoop(g, step, base, s, m + 1)
    <3> DEFINE h == [n \in 0..(m + 1) |-> IF n = 0 THEN base ELSE step[<<g[n - 1], s[n]>>]]
    <3>1. g = h
      <4> HIDE DEF g
      <4>1. \A n \in 0..(m + 1) : g[n] = h[n]
        BY <2>3
      <4>2. g = [n \in 0..(m + 1) |-> g[n]]
        BY DEF g
      <4>3. h = [n \in 0..(m + 1) |-> h[n]]
        OBVIOUS
      <4> HIDE DEF h
      <4> QED BY <4>1, <4>2, <4>3
    <3> QED BY <3>1 DEF IsLoop
  <2> QED BY <2>4
<1> HIDE DEF S
<1>3. Nat \subseteq S
  BY <1>1, <1>2, NaturalInduction
<1> QED BY <1>3 DEF S

(* Two loops over sequences that begin alike go alike. *)
LEMMA LoopUnique ==
  ASSUME NEW step, NEW base, NEW s, NEW t, NEW m \in Nat, NEW k \in Nat,
         NEW f, IsLoop(f, step, base, s, m), NEW g, IsLoop(g, step, base, t, k),
         m <= k, \A n \in 1..m : s[n] = t[n]
  PROVE  \A n \in 0..m : f[n] = g[n]
<1> DEFINE S == {n \in Nat : n <= m => f[n] = g[n]}
<1>0. /\ \A n \in 0..m : f[n] = IF n = 0 THEN base ELSE step[<<f[n - 1], s[n]>>]
      /\ \A n \in 0..k : g[n] = IF n = 0 THEN base ELSE step[<<g[n - 1], t[n]>>]
  BY DEF IsLoop
<1>1. 0 \in S
  <2>1. 0 \in 0..m /\ 0 \in 0..k
    OBVIOUS
  <2>2. f[0] = base /\ g[0] = base
    BY <1>0, <2>1, Zenon
  <2> QED BY <2>2
<1>2. ASSUME NEW n \in Nat, n \in S PROVE n + 1 \in S
  <2> SUFFICES ASSUME n + 1 <= m PROVE f[n + 1] = g[n + 1]
    OBVIOUS
  <2>1. n + 1 \in 0..m /\ n + 1 \in 0..k /\ n + 1 \in 1..m /\ n + 1 # 0 /\ (n + 1) - 1 = n
    OBVIOUS
  <2>2. f[n] = g[n]
    BY <1>2
  <2> QED BY <1>0, <2>1, <2>2, ZenonT(60)
<1> HIDE DEF S
<1>3. Nat \subseteq S
  BY <1>1, <1>2, NaturalInduction
<1> QED BY <1>3 DEF S

LEMMA FoldIsLoop ==
  ASSUME NEW step, NEW base, NEW s, Len(s) \in Nat,
         NEW f, IsLoop(f, step, base, s, Len(s))
  PROVE  Fold(step, base, s) = f[Len(s)]
<1> DEFINE g == CHOOSE g : IsLoop(g, step, base, s, Len(s))
<1>1. IsLoop(g, step, base, s, Len(s))
  BY LoopExists
<1>2. Fold(step, base, s) = g[Len(s)]
  BY DEF Fold, IsLoop
<1> HIDE DEF g
<1>3. \A n \in 0..Len(s) : f[n] = g[n]
  BY <1>1, LoopUnique
<1> QED BY <1>2, <1>3

(* One step of a loop. *)
Stepped(step, d, x) == step[<<d, x>>]

(* The two rules of a loop: it starts with base, and one more element is one *)
(* more step.                                                                *)
THEOREM FoldEmpty ==
  ASSUME NEW step, NEW base
  PROVE  Fold(step, base, <<>>) = base
<1>1. Len(<<>>) = 0
  OBVIOUS
<1>2. PICK f : IsLoop(f, step, base, <<>>, 0)
  BY LoopExists
<1>3. f[0] = base
  BY <1>2 DEF IsLoop
<1>4. Fold(step, base, <<>>) = f[Len(<<>>)]
  BY <1>1, <1>2, FoldIsLoop
<1> QED BY <1>1, <1>3, <1>4

THEOREM FoldAppend ==
  ASSUME NEW step, NEW base, NEW E, NEW s \in Seq(E), NEW x \in E
  PROVE  Fold(step, base, Append(s, x)) = Stepped(step, Fold(step, base, s), x)
<1> DEFINE t == Append(s, x)
           n == Len(s)
           k == Len(t)
<1>1. t \in Seq(E) /\ n \in Nat /\ k = n + 1 /\ t[k] = x
  OBVIOUS
<1>2. n \in Nat /\ k \in Nat /\ n <= k
  OBVIOUS
<1>3. \A i \in 1..n : s[i] = t[i]
  OBVIOUS
<1> HIDE DEF t, n, k
<1>4. PICK f : IsLoop(f, step, base, s, n)
  BY <1>2, LoopExists
<1>5. PICK g : IsLoop(g, step, base, t, k)
  BY <1>2, LoopExists
<1>6. \A i \in 0..n : f[i] = g[i]
  BY <1>2, <1>3, <1>4, <1>5, LoopUnique
<1>7. g[k] = step[<<g[n], t[k]>>]
  <2>1. k \in 0..k /\ k # 0 /\ k - 1 = n
    BY <1>1
  <2> QED BY <1>5, <2>1 DEF IsLoop
<1>8. Fold(step, base, s) = f[n] /\ Fold(step, base, t) = g[k]
  BY <1>2, <1>4, <1>5, FoldIsLoop DEF n, k
<1>9. n \in 0..n
  BY <1>2
<1> QED BY <1>1, <1>6, <1>7, <1>8, <1>9 DEF t, Stepped

(* A loop whose step keeps to a set stays in it. *)
THEOREM FoldType ==
  ASSUME NEW D, NEW E, NEW base \in D, NEW step, 
         \A d \in D : \A x \in E : Stepped(step, d, x) \in D
  PROVE  \A s \in Seq(E) : Fold(step, base, s) \in D
<1> DEFINE S == {s \in Seq(E) : Fold(step, base, s) \in D}
<1>1. <<>> \in S
  BY FoldEmpty
<1>2. ASSUME NEW s \in Seq(E), s \in S PROVE \A x \in E : Append(s, x) \in S
  <2> SUFFICES ASSUME NEW x \in E PROVE Append(s, x) \in S
    OBVIOUS
  <2>0. Append(s, x) \in Seq(E)
    OBVIOUS
  <2>1. Fold(step, base, s) \in D
    BY <1>2
  <2>2. Fold(step, base, Append(s, x)) = Stepped(step, Fold(step, base, s), x)
    BY FoldAppend
  <2> QED BY <2>0, <2>1, <2>2
<1> HIDE DEF S
<1>3. Seq(E) \subseteq S
  BY <1>1, <1>2, SequenceInduction
<1> QED BY <1>3 DEF S

(* Sums and counts. *)
LEMMA SumType == \A s \in Seq(Nat) : SumOf(s) \in Nat
<1>1. \A d \in Nat : \A x \in Nat : Stepped(Plus, d, x) \in Nat
  BY DEF Stepped, Plus
<1>2. \A s \in Seq(Nat) : Fold(Plus, 0, s) \in Nat
  BY <1>1, FoldType
<1> QED BY <1>2 DEF SumOf

LEMMA SumEmpty == SumOf(<<>>) = 0
  BY FoldEmpty DEF SumOf

LEMMA SumAppend ==
  ASSUME NEW s \in Seq(Nat), NEW x \in Nat
  PROVE  SumOf(Append(s, x)) = SumOf(s) + x
<1>1. SumOf(Append(s, x)) = Stepped(Plus, SumOf(s), x)
  BY FoldAppend DEF SumOf
<1>2. SumOf(s) \in Nat
  BY SumType
<1> QED BY <1>1, <1>2 DEF Stepped, Plus

LEMMA CountType ==
  ASSUME NEW E, NEW s \in Seq(E), NEW S
  PROVE  /\ IsFiniteSet({i \in DOMAIN s : s[i] \in S})
         /\ CountIn(s, S) \in Nat
<1>1. DOMAIN s = 1..Len(s) /\ Len(s) \in Nat
  OBVIOUS
<1>2. IsFiniteSet(1..Len(s))
  BY <1>1, FS_Interval
<1>3. IsFiniteSet({i \in DOMAIN s : s[i] \in S})
  BY <1>1, <1>2, FS_Subset
<1> QED BY <1>3, FS_CardinalityType DEF CountIn

LEMMA CountEmpty == \A S : CountIn(<<>>, S) = 0
<1> SUFFICES ASSUME NEW S PROVE CountIn(<<>>, S) = 0
  OBVIOUS
<1>1. {i \in DOMAIN <<>> : <<>>[i] \in S} = {}
  OBVIOUS
<1> QED BY <1>1, FS_EmptySet DEF CountIn

LEMMA CountAppend ==
  ASSUME NEW E, NEW s \in Seq(E), NEW x \in E, NEW S
  PROVE  CountIn(Append(s, x), S) = CountIn(s, S) + (IF x \in S THEN 1 ELSE 0)
<1> DEFINE D == {i \in DOMAIN s : s[i] \in S}
           u == Append(s, x)
           G == {i \in DOMAIN u : u[i] \in S}
           n == Len(s) + 1
<1>1. /\ DOMAIN s = 1..Len(s) /\ DOMAIN u = 1..n /\ Len(s) \in Nat
      /\ \A i \in 1..Len(s) : u[i] = s[i]
      /\ u[n] = x
  OBVIOUS
<1>2. n \notin D
  BY <1>1
<1>3. IsFiniteSet(D) /\ Cardinality(D) \in Nat
  BY CountType, FS_CardinalityType
<1> HIDE DEF u
<1>4. CountIn(u, S) = Cardinality(G) /\ CountIn(s, S) = Cardinality(D)
  BY DEF CountIn
<1>5. CASE x \in S
  <2>1. G = D \cup {n}
    BY <1>1, <1>5
  <2>2. Cardinality(G) = Cardinality(D) + 1
    BY <1>2, <1>3, <2>1, FS_AddElement
  <2> QED BY <1>4, <1>5, <2>2 DEF u
<1>6. CASE x \notin S
  <2>1. G = D
    BY <1>1, <1>6
  <2> HIDE DEF D, G
  <2>2. CountIn(u, S) = CountIn(s, S) + 0
    BY <1>3, <1>4, <2>1
  <2> QED BY <1>6, <2>2 DEF u
<1> QED BY <1>5, <1>6

(* One sequence after another. *)
Joined(s, t) == s \o t

LEMMA CountJoined ==
  ASSUME NEW E, NEW s \in Seq(E), NEW S
  PROVE  \A t \in Seq(E) : CountIn(Joined(s, t), S) = CountIn(s, S) + CountIn(t, S)
<1> DEFINE G == {t \in Seq(E) : CountIn(Joined(s, t), S) = CountIn(s, S) + CountIn(t, S)}
<1>1. <<>> \in G
  <2>1. Joined(s, <<>>) = s /\ <<>> \in Seq(E)
    BY DEF Joined
  <2>2. CountIn(s, S) \in Nat /\ CountIn(<<>>, S) = 0
    BY CountType, CountEmpty
  <2> QED BY <2>1, <2>2
<1>2. ASSUME NEW t \in Seq(E), t \in G PROVE \A x \in E : Append(t, x) \in G
  <2> SUFFICES ASSUME NEW x \in E
               PROVE  CountIn(Joined(s, Append(t, x)), S) = CountIn(s, S) + CountIn(Append(t, x), S)
    BY Appended
  <2> DEFINE d == IF x \in S THEN 1 ELSE 0
             j == Joined(s, t)
  <2>1. Joined(s, Append(t, x)) = Append(j, x) /\ j \in Seq(E)
    BY DEF Joined
  <2> HIDE DEF j
  <2>2. CountIn(Append(j, x), S) = CountIn(j, S) + d
    BY <2>1, CountAppend
  <2>3. CountIn(Append(t, x), S) = CountIn(t, S) + d
    BY CountAppend
  <2>4. CountIn(s, S) \in Nat /\ CountIn(t, S) \in Nat /\ d \in Nat
    BY CountType
  <2> HIDE DEF d
  <2>5. CountIn(j, S) = CountIn(s, S) + CountIn(t, S)
    BY <1>2 DEF j
  <2> QED BY <2>1, <2>2, <2>3, <2>4, <2>5
<1> HIDE DEF G
<1>3. Seq(E) \subseteq G
  BY <1>1, <1>2, SequenceInduction
<1> QED BY <1>3 DEF G

LEMMA CountBound ==
  ASSUME NEW E, NEW s \in Seq(E), NEW S
  PROVE  CountIn(s, S) <= Len(s)
<1> DEFINE D == {i \in DOMAIN s : s[i] \in S}
<1>1. D \subseteq 1..Len(s) /\ Len(s) \in Nat
  OBVIOUS
<1>2. IsFiniteSet(1..Len(s)) /\ Cardinality(1..Len(s)) = Len(s)
  BY <1>1, FS_Interval
<1>3. Cardinality(D) <= Len(s)
  BY <1>1, <1>2, FS_Subset
<1> QED BY <1>3 DEF CountIn

(* In a sequence in order, the elements up to x are the first ones. *)
Ordered(u) == \A i, j \in 1..Len(u) : i <= j => u[i] <= u[j]

LEMMA CountOrdered ==
  ASSUME NEW u \in Seq(Nat), Ordered(u), NEW x \in Nat, NEW k \in 1..Len(u)
  PROVE  /\ u[k] <= x => k <= CountIn(u, 0..x)
         /\ x < u[k] => CountIn(u, 0..x) < k
<1> DEFINE D == {i \in DOMAIN u : u[i] \in 0..x}
<1>1. DOMAIN u = 1..Len(u) /\ k \in Nat /\ k > 0 /\ Len(u) \in Nat /\ k <= Len(u)
  OBVIOUS
<1>2. \A i \in 1..Len(u) : u[i] \in Nat
  OBVIOUS
<1>3. IsFiniteSet(D) /\ Cardinality(D) \in Nat /\ CountIn(u, 0..x) = Cardinality(D)
  BY CountType, FS_CardinalityType DEF CountIn
<1>4. ASSUME u[k] <= x PROVE k <= Cardinality(D)
  <2>1. 1..k \subseteq D
    <3> SUFFICES ASSUME NEW i \in 1..k PROVE i \in 1..Len(u) /\ u[i] \in 0..x
      BY <1>1
    <3>1. i \in 1..Len(u) /\ i <= k
      BY <1>1
    <3>2. u[i] <= u[k] /\ u[i] \in Nat /\ u[k] \in Nat
      BY <1>2, <3>1 DEF Ordered
    <3> QED BY <1>4, <3>1, <3>2
  <2>2. Cardinality(1..k) = k
    BY <1>1, FS_Interval
  <2> QED BY <1>3, <2>1, <2>2, FS_Subset
<1>5. ASSUME x < u[k] PROVE Cardinality(D) < k
  <2>1. D \subseteq 1..(k - 1)
    <3> SUFFICES ASSUME NEW i \in 1..Len(u), u[i] \in 0..x PROVE i \in 1..(k - 1)
      BY <1>1
    <3>1. ~(k <= i)
      <4>1. k <= i => u[k] <= u[i]
        BY DEF Ordered
      <4>2. u[i] <= x /\ u[i] \in Nat /\ u[k] \in Nat
        BY <1>2
      <4> QED BY <1>5, <4>1, <4>2
    <3> QED BY <1>1, <3>1
  <2>2. Cardinality(1..(k - 1)) = k - 1 /\ IsFiniteSet(1..(k - 1))
    <3>1. k - 1 \in Int /\ 1 \in Int
      BY <1>1
    <3>2. /\ IsFiniteSet(1..(k - 1))
          /\ Cardinality(1..(k - 1)) = IF 1 > k - 1 THEN 0 ELSE (k - 1) - 1 + 1
      BY <3>1, FS_Interval
    <3> QED BY <1>1, <3>2
  <2>3. Cardinality(D) <= k - 1
    BY <2>1, <2>2, FS_Subset
  <2> QED BY <1>1, <1>3, <2>3
<1> QED BY <1>3, <1>4, <1>5

(* No element of a sequence is above its sum. *)
LEMMA SumBound ==
  \A s \in Seq(Nat) : \A i \in 1..Len(s) : s[i] <= SumOf(s)
<1> DEFINE G == {s \in Seq(Nat) : \A i \in 1..Len(s) : s[i] <= SumOf(s)}
<1>1. <<>> \in G
  OBVIOUS
<1>2. ASSUME NEW s \in Seq(Nat), s \in G PROVE \A x \in Nat : Append(s, x) \in G
  <2> SUFFICES ASSUME NEW x \in Nat, NEW i \in 1..Len(Append(s, x))
               PROVE  Append(s, x)[i] <= SumOf(Append(s, x))
    BY Appended
  <2>1. SumOf(Append(s, x)) = SumOf(s) + x /\ SumOf(s) \in Nat
    BY SumAppend, SumType
  <2>2. CASE i \in 1..Len(s)
    <3>1. Append(s, x)[i] = s[i] /\ s[i] \in Nat /\ s[i] <= SumOf(s)
      BY <1>2, <2>2
    <3> QED BY <2>1, <3>1
  <2>3. CASE i = Len(s) + 1
    BY <2>1, <2>3
  <2> QED BY <2>2, <2>3
<1> HIDE DEF G
<1>3. Seq(Nat) \subseteq G
  BY <1>1, <1>2, SequenceInduction
<1> QED BY <1>3 DEF G

-----------------------------------------------------------------------------
(* Arithmetic the provers need to be told. *)
LEMMA TimesMonotonic ==
  ASSUME NEW a \in Nat, NEW b \in Nat, NEW n \in Nat, a <= b
  PROVE  a * n <= b * n
  BY SMT

LEMMA Distribute ==
  ASSUME NEW a \in Int, NEW n \in Int
  PROVE  a * (n + 1) = a * n + a /\ a * n = a * (n - 1) + a
  BY SMT

-----------------------------------------------------------------------------
(* mtr_hop_stats_record, field by field. *)

LEMMA ResultTypes ==
  ASSUME NEW r \in TraceResult
  PROVE  /\ r.status \in {"TIMEOUT", "ERROR", "HOP", "DESTINATION"}
         /\ trace_result_has_rtt(r) => r.rtt_ms \in Rtts /\ r.remote_ip \in Remotes
         /\ r.error \in {"", "TIMEOUT", "ERROR"}
<1>1. CASE r \in AnsweredResult
  BY <1>1 DEF AnsweredResult
<1>2. CASE r \in UnansweredResult
  <2>1. PICK s \in {"TIMEOUT", "ERROR"} :
          r = [status |-> s, rtt_ms |-> 0, remote_ip |-> "", error |-> s]
    BY <1>2 DEF UnansweredResult
  <2> QED BY <2>1 DEF trace_result_has_rtt
<1> QED BY <1>1, <1>2 DEF TraceResult

LEMMA RecordUnanswered ==
  ASSUME NEW s \in HopStats, NEW r \in TraceResult, ~trace_result_has_rtt(r)
  PROVE  mtr_hop_stats_record(s, r) =
           [s EXCEPT !.sent = s.sent + 1, !.error = r.error, !.remote_ip = s.remote_ip,
                     !.status = StatusAfter(s, r),
                     !.no_reply = <<s.sent + 1 - s.received, s.sent + 1>>]
  BY DEF mtr_hop_stats_record

(* The fields of a hop's statistics, and updates that keep their types.       *)
LEMMA Fields ==
  ASSUME NEW s \in HopStats
  PROVE  /\ s.hop \in Nat /\ s.sent \in Nat /\ s.received \in Nat
         /\ s.last_ms \in Nat /\ s.best_ms \in Nat /\ s.worst_ms \in Nat
         /\ s.total_ms \in Nat /\ s.previous_ms \in Nat /\ s.jitter_total_ms \in Nat
         /\ s.has_rtt \in BOOLEAN /\ s.has_previous_ms \in BOOLEAN
         /\ s.has_jitter \in BOOLEAN
  BY DEF HopStats

LEMMA PairType == \A m, n \in Nat : <<m, n>> \in Nat \X Nat
  OBVIOUS

LEMMA UpdateJitter ==
  ASSUME NEW s \in HopStats, NEW t \in Nat, NEW j \in Nat \X Nat
  PROVE  LET u == [s EXCEPT !.jitter_total_ms = t, !.has_jitter = TRUE, !.jitter_ms = j]
         IN  u \in HopStats /\ u.received = s.received
  BY DEF HopStats

(* The statistics with an answer counted, before the distances are updated. *)
Counted(s, rtt) ==
  [s EXCEPT !.received = s.received + 1, !.last_ms = rtt,
     !.total_ms = s.total_ms + rtt, !.avg_ms = <<s.total_ms + rtt, s.received + 1>>,
     !.best_ms = BestOf(s, rtt), !.worst_ms = WorstOf(s, rtt)]

LEMMA CountedType ==
  ASSUME NEW s \in HopStats, NEW rtt \in Nat
  PROVE  Counted(s, rtt) \in HopStats /\ Counted(s, rtt).received = s.received + 1
<1> DEFINE n == s.received + 1
           t == s.total_ms + rtt
           a == <<t, n>>
           b == BestOf(s, rtt)
           w == WorstOf(s, rtt)
<1>1. b \in Nat /\ w \in Nat
  BY Fields DEF BestOf, WorstOf
<1>2. n \in Nat /\ t \in Nat
  BY Fields
<1>3. a \in Nat \X Nat
  BY <1>2, PairType
<1>4. Counted(s, rtt) =
        [s EXCEPT !.received = n, !.last_ms = rtt, !.total_ms = t, !.avg_ms = a,
                  !.best_ms = b, !.worst_ms = w]
  BY DEF Counted
<1> HIDE DEF n, t, a, b, w
<1>5. /\ [s EXCEPT !.received = n, !.last_ms = rtt, !.total_ms = t, !.avg_ms = a,
                     !.best_ms = b, !.worst_ms = w] \in HopStats
      /\ [s EXCEPT !.received = n, !.last_ms = rtt, !.total_ms = t, !.avg_ms = a,
                   !.best_ms = b, !.worst_ms = w].received = n
  BY <1>1, <1>2, <1>3 DEF HopStats
<1>6. Counted(s, rtt) \in HopStats /\ Counted(s, rtt).received = n
  BY <1>4, <1>5
<1> QED BY <1>6 DEF n

LEMMA WithJitterType ==
  ASSUME NEW s \in HopStats, NEW rtt \in Nat, s.received > 0
  PROVE  WithJitter(s, rtt) \in HopStats /\ WithJitter(s, rtt).received = s.received
<1>1. AbsDiff(rtt, s.previous_ms) \in Nat
  BY Fields DEF AbsDiff
<1>2. s.jitter_total_ms + AbsDiff(rtt, s.previous_ms) \in Nat /\ s.received - 1 \in Nat
  BY <1>1, Fields
<1>3. <<s.jitter_total_ms + AbsDiff(rtt, s.previous_ms), s.received - 1>> \in Nat \X Nat
  BY <1>2, PairType
<1> QED BY <1>2, <1>3, UpdateJitter, ZenonT(60) DEF WithJitter

(* An answer, in two steps: it is counted, then the distances are updated.   *)
LEMMA RecordAnswered ==
  ASSUME NEW s \in HopStats, NEW r \in TraceResult, trace_result_has_rtt(r)
  PROVE  LET c == Counted(s, r.rtt_ms)
             w == WithJitter(c, r.rtt_ms) IN
         /\ w \in HopStats
         /\ w.received = s.received + 1
         /\ mtr_hop_stats_record(s, r) =
              [w EXCEPT !.previous_ms = r.rtt_ms, !.has_previous_ms = TRUE,
                        !.has_rtt = TRUE, !.sent = s.sent + 1, !.error = r.error,
                        !.remote_ip = r.remote_ip, !.status = StatusAfter(s, r),
                        !.no_reply = <<s.sent + 1 - w.received, s.sent + 1>>]
<1> DEFINE c == Counted(s, r.rtt_ms)
           w == WithJitter(c, r.rtt_ms)
<1>1. r.rtt_ms \in Nat
  BY ResultTypes, RttsAssumption
<1> HIDE DEF c
<1>0. c \in HopStats /\ c.received = s.received + 1
  BY <1>1, CountedType DEF c
<1>2. c \in HopStats /\ c.received = s.received + 1 /\ c.received > 0
  BY <1>0, Fields
<1>3. w \in HopStats
  BY <1>1, <1>2, WithJitterType
<1>4. w.received = s.received + 1
  BY <1>1, <1>2, WithJitterType
<1>5. record_success_rtt(s, r.rtt_ms) =
        [w EXCEPT !.previous_ms = r.rtt_ms, !.has_previous_ms = TRUE, !.has_rtt = TRUE]
  BY DEF record_success_rtt, Counted, c
<1>6. record_success_rtt(s, r.rtt_ms).received = w.received
  BY <1>3, <1>5 DEF HopStats
<1> HIDE DEF w
<1>7. mtr_hop_stats_record(s, r) =
        [record_success_rtt(s, r.rtt_ms) EXCEPT
           !.sent = s.sent + 1, !.error = r.error, !.remote_ip = r.remote_ip,
           !.status = StatusAfter(s, r),
           !.no_reply = <<s.sent + 1 - record_success_rtt(s, r.rtt_ms).received, s.sent + 1>>]
  BY DEF mtr_hop_stats_record
<1>8. mtr_hop_stats_record(s, r) =
        [w EXCEPT !.previous_ms = r.rtt_ms, !.has_previous_ms = TRUE,
                  !.has_rtt = TRUE, !.sent = s.sent + 1, !.error = r.error,
                  !.remote_ip = r.remote_ip, !.status = StatusAfter(s, r),
                  !.no_reply = <<s.sent + 1 - w.received, s.sent + 1>>]
  BY <1>3, <1>5, <1>6, <1>7 DEF HopStats
<1> QED BY <1>3, <1>4, <1>8 DEF c, w

(* The same, field by field.  Only the fields that other fields are related   *)
(* to are listed.                                                            *)
LEMMA CountedFields ==
  ASSUME NEW s \in HopStats, NEW rtt
  PROVE  LET c == Counted(s, rtt) IN
         /\ c.received = s.received + 1 /\ c.last_ms = rtt
         /\ c.best_ms = BestOf(s, rtt) /\ c.worst_ms = WorstOf(s, rtt)
         /\ c.total_ms = s.total_ms + rtt
         /\ c.avg_ms = <<s.total_ms + rtt, s.received + 1>>
         /\ c.previous_ms = s.previous_ms /\ c.has_previous_ms = s.has_previous_ms
         /\ c.has_jitter = s.has_jitter
         /\ c.jitter_total_ms = s.jitter_total_ms /\ c.jitter_ms = s.jitter_ms
         /\ c.hop = s.hop
  BY DEF Counted, HopStats

LEMMA WithJitterFields ==
  ASSUME NEW c \in HopStats, NEW rtt
  PROVE  LET w == WithJitter(c, rtt) IN
         /\ w.received = c.received /\ w.last_ms = c.last_ms
         /\ w.best_ms = c.best_ms /\ w.worst_ms = c.worst_ms
         /\ w.total_ms = c.total_ms /\ w.avg_ms = c.avg_ms /\ w.hop = c.hop
         /\ w.has_jitter = (c.has_previous_ms \/ c.has_jitter)
         /\ c.has_previous_ms =>
              /\ w.jitter_total_ms = c.jitter_total_ms + AbsDiff(rtt, c.previous_ms)
              /\ w.jitter_ms = <<w.jitter_total_ms, c.received - 1>>
         /\ ~c.has_previous_ms =>
              w.jitter_total_ms = c.jitter_total_ms /\ w.jitter_ms = c.jitter_ms
<1>1. CASE c.has_previous_ms
  BY <1>1 DEF WithJitter, HopStats
<1>2. CASE ~c.has_previous_ms
  BY <1>2 DEF WithJitter, HopStats
<1> QED BY <1>1, <1>2

Recorded(t, s, r) ==
  /\ t.sent = s.sent + 1 /\ t.received = s.received + 1
  /\ t.last_ms = r.rtt_ms /\ t.previous_ms = r.rtt_ms
  /\ t.best_ms = BestOf(s, r.rtt_ms) /\ t.worst_ms = WorstOf(s, r.rtt_ms)
  /\ t.total_ms = s.total_ms + r.rtt_ms
  /\ t.avg_ms = <<t.total_ms, t.received>>
  /\ t.has_rtt = TRUE /\ t.has_previous_ms = TRUE
  /\ t.has_jitter = (s.has_previous_ms \/ s.has_jitter)
  /\ s.has_previous_ms =>
       /\ t.jitter_total_ms = s.jitter_total_ms + AbsDiff(r.rtt_ms, s.previous_ms)
       /\ t.jitter_ms = <<t.jitter_total_ms, t.received - 1>>
  /\ ~s.has_previous_ms => t.jitter_total_ms = s.jitter_total_ms /\ t.jitter_ms = s.jitter_ms
  /\ t.status = StatusAfter(s, r)
  /\ t.hop = s.hop /\ t.error = r.error /\ t.remote_ip = r.remote_ip
  /\ t.no_reply = <<s.sent + 1 - t.received, s.sent + 1>>

LEMMA RecordedFields ==
  ASSUME NEW s \in HopStats, NEW r \in TraceResult, trace_result_has_rtt(r),
         s.received <= s.sent
  PROVE  /\ mtr_hop_stats_record(s, r) \in HopStats
         /\ Recorded(mtr_hop_stats_record(s, r), s, r)
<1> DEFINE c == Counted(s, r.rtt_ms)
           w == WithJitter(c, r.rtt_ms)
           p == <<s.sent + 1 - w.received, s.sent + 1>>
           n == s.sent + 1
           t == [w EXCEPT !.previous_ms = r.rtt_ms, !.has_previous_ms = TRUE,
                          !.has_rtt = TRUE, !.sent = n, !.error = r.error,
                          !.remote_ip = r.remote_ip, !.status = StatusAfter(s, r),
                          !.no_reply = p]
<1>1. w \in HopStats /\ w.received = s.received + 1 /\ mtr_hop_stats_record(s, r) = t
  BY RecordAnswered
<1>2. r.rtt_ms \in Nat /\ r.remote_ip \in Remotes \cup {""} /\ r.error \in {"", "TIMEOUT", "ERROR"}
  BY ResultTypes, RttsAssumption
<1>3. c \in HopStats
  BY <1>2, CountedType
<1>4. StatusAfter(s, r) \in {"HOP", "DESTINATION"}
  BY DEF StatusAfter, trace_result_has_rtt
<1>5. n \in Nat
  BY Fields
<1>6. p \in Nat \X Nat
  <2>1. s.sent + 1 - w.received \in Nat
    BY <1>1, Fields
  <2> QED BY <2>1, <1>5, PairType
<1>0. n = s.sent + 1 /\ p = <<s.sent + 1 - w.received, s.sent + 1>>
  OBVIOUS
<1> HIDE DEF w, p, n
<1>7. t \in HopStats
  BY <1>1, <1>2, <1>4, <1>5, <1>6, ZenonT(60) DEF HopStats
<1>8. /\ t.sent = n /\ t.previous_ms = r.rtt_ms /\ t.has_rtt = TRUE
      /\ t.has_previous_ms = TRUE /\ t.status = StatusAfter(s, r)
      /\ t.received = w.received /\ t.last_ms = w.last_ms /\ t.best_ms = w.best_ms
      /\ t.worst_ms = w.worst_ms /\ t.total_ms = w.total_ms /\ t.avg_ms = w.avg_ms
      /\ t.has_jitter = w.has_jitter /\ t.jitter_total_ms = w.jitter_total_ms
      /\ t.jitter_ms = w.jitter_ms /\ t.hop = w.hop /\ t.error = r.error
      /\ t.remote_ip = r.remote_ip /\ t.no_reply = p
  BY <1>1 DEF HopStats
<1> HIDE DEF t, c
<1>9. /\ c.received = s.received + 1 /\ c.last_ms = r.rtt_ms
      /\ c.best_ms = BestOf(s, r.rtt_ms) /\ c.worst_ms = WorstOf(s, r.rtt_ms)
      /\ c.total_ms = s.total_ms + r.rtt_ms
      /\ c.avg_ms = <<s.total_ms + r.rtt_ms, s.received + 1>>
      /\ c.previous_ms = s.previous_ms /\ c.has_previous_ms = s.has_previous_ms
      /\ c.has_jitter = s.has_jitter
      /\ c.jitter_total_ms = s.jitter_total_ms /\ c.jitter_ms = s.jitter_ms
      /\ c.hop = s.hop
  BY CountedFields DEF c
<1>10. /\ w.received = c.received /\ w.last_ms = c.last_ms
       /\ w.best_ms = c.best_ms /\ w.worst_ms = c.worst_ms
       /\ w.total_ms = c.total_ms /\ w.avg_ms = c.avg_ms /\ w.hop = c.hop
       /\ w.has_jitter = (c.has_previous_ms \/ c.has_jitter)
       /\ c.has_previous_ms =>
            /\ w.jitter_total_ms = c.jitter_total_ms + AbsDiff(r.rtt_ms, c.previous_ms)
            /\ w.jitter_ms = <<w.jitter_total_ms, c.received - 1>>
       /\ ~c.has_previous_ms =>
            w.jitter_total_ms = c.jitter_total_ms /\ w.jitter_ms = c.jitter_ms
  BY <1>3, WithJitterFields DEF w
<1>11. mtr_hop_stats_record(s, r) = t
  BY <1>1 DEF t
<1>12. /\ t.received = s.received + 1 /\ t.last_ms = r.rtt_ms
       /\ t.best_ms = BestOf(s, r.rtt_ms) /\ t.worst_ms = WorstOf(s, r.rtt_ms)
       /\ t.total_ms = s.total_ms + r.rtt_ms
       /\ t.avg_ms = <<t.total_ms, t.received>>
  BY <1>8, <1>9, <1>10
<1>13. t.has_jitter = (s.has_previous_ms \/ s.has_jitter)
  BY <1>8, <1>9, <1>10
<1>14. s.has_previous_ms =>
         /\ t.jitter_total_ms = s.jitter_total_ms + AbsDiff(r.rtt_ms, s.previous_ms)
         /\ t.jitter_ms = <<t.jitter_total_ms, t.received - 1>>
  <2> SUFFICES ASSUME s.has_previous_ms
               PROVE  /\ t.jitter_total_ms = s.jitter_total_ms + AbsDiff(r.rtt_ms, s.previous_ms)
                      /\ t.jitter_ms = <<t.jitter_total_ms, t.received - 1>>
    OBVIOUS
  <2>1. /\ w.jitter_total_ms = c.jitter_total_ms + AbsDiff(r.rtt_ms, c.previous_ms)
        /\ w.jitter_ms = <<w.jitter_total_ms, c.received - 1>>
    BY <1>9, <1>10
  <2>2. w.jitter_total_ms = s.jitter_total_ms + AbsDiff(r.rtt_ms, s.previous_ms)
    BY <2>1, <1>9
  <2>3. t.received = c.received /\ t.jitter_total_ms = w.jitter_total_ms
        /\ t.jitter_ms = w.jitter_ms
    BY <1>8, <1>10
  <2> QED BY <2>1, <2>2, <2>3
<1>15. ~s.has_previous_ms => t.jitter_total_ms = s.jitter_total_ms /\ t.jitter_ms = s.jitter_ms
  BY <1>8, <1>9, <1>10
<1>16. t.sent = s.sent + 1
  BY <1>8 DEF n
<1>17. t.no_reply = <<s.sent + 1 - t.received, s.sent + 1>>
  <2>1. t.no_reply = p /\ t.sent = n /\ t.received = w.received
    BY <1>8
  <2> QED BY <1>0, <2>1
<1>18. t.hop = s.hop /\ t.error = r.error /\ t.remote_ip = r.remote_ip
  BY <1>8, <1>9, <1>10
<1>19. Recorded(t, s, r)
  BY <1>8, <1>12, <1>13, <1>14, <1>15, <1>16, <1>17, <1>18 DEF Recorded
<1> QED BY <1>7, <1>11, <1>19

Unrecorded(t, s, r) ==
  /\ t.sent = s.sent + 1 /\ t.received = s.received
  /\ t.last_ms = s.last_ms /\ t.previous_ms = s.previous_ms
  /\ t.best_ms = s.best_ms /\ t.worst_ms = s.worst_ms
  /\ t.total_ms = s.total_ms /\ t.avg_ms = s.avg_ms
  /\ t.has_rtt = s.has_rtt /\ t.has_previous_ms = s.has_previous_ms
  /\ t.has_jitter = s.has_jitter
  /\ t.jitter_total_ms = s.jitter_total_ms /\ t.jitter_ms = s.jitter_ms
  /\ t.status = StatusAfter(s, r)
  /\ t.hop = s.hop /\ t.error = r.error /\ t.remote_ip = s.remote_ip
  /\ t.no_reply = <<s.sent + 1 - t.received, s.sent + 1>>

LEMMA UnrecordedFields ==
  ASSUME NEW s \in HopStats, NEW r \in TraceResult, ~trace_result_has_rtt(r),
         s.received <= s.sent
  PROVE  /\ mtr_hop_stats_record(s, r) \in HopStats
         /\ Unrecorded(mtr_hop_stats_record(s, r), s, r)
<1> DEFINE p == <<s.sent + 1 - s.received, s.sent + 1>>
           n == s.sent + 1
           t == [s EXCEPT !.sent = n, !.error = r.error, !.remote_ip = s.remote_ip,
                          !.status = StatusAfter(s, r), !.no_reply = p]
<1>1. mtr_hop_stats_record(s, r) = t
  BY RecordUnanswered
<1>2. n \in Nat
  BY Fields
<1>3. p \in Nat \X Nat
  <2>1. s.sent + 1 - s.received \in Nat
    BY Fields
  <2> QED BY <2>1, <1>2, PairType
<1>4. /\ r.error \in {"", "TIMEOUT", "ERROR"}
      /\ StatusAfter(s, r) \in {"UNKNOWN", "TIMEOUT", "ERROR", "HOP", "DESTINATION"}
  BY ResultTypes DEF StatusAfter, HopStats
<1>0. n = s.sent + 1 /\ p = <<s.sent + 1 - s.received, s.sent + 1>>
  OBVIOUS
<1> HIDE DEF p, n
<1>5. t \in HopStats
  BY <1>2, <1>3, <1>4, ZenonT(60) DEF HopStats
<1>6. /\ t.sent = n /\ t.received = s.received
      /\ t.last_ms = s.last_ms /\ t.previous_ms = s.previous_ms
      /\ t.best_ms = s.best_ms /\ t.worst_ms = s.worst_ms
      /\ t.total_ms = s.total_ms /\ t.avg_ms = s.avg_ms
      /\ t.has_rtt = s.has_rtt /\ t.has_previous_ms = s.has_previous_ms
      /\ t.has_jitter = s.has_jitter
      /\ t.jitter_total_ms = s.jitter_total_ms /\ t.jitter_ms = s.jitter_ms
      /\ t.status = StatusAfter(s, r)
      /\ t.hop = s.hop /\ t.error = r.error /\ t.remote_ip = s.remote_ip /\ t.no_reply = p
  BY DEF HopStats
<1> HIDE DEF t
<1>7. t.no_reply = <<s.sent + 1 - t.received, s.sent + 1>>
  <2>1. t.no_reply = p /\ t.sent = n /\ t.received = s.received
    BY <1>6
  <2> QED BY <1>0, <2>1
<1>8. Unrecorded(t, s, r)
  BY <1>6, <1>7, <1>0 DEF Unrecorded
<1> QED BY <1>1, <1>5, <1>8 DEF t

-----------------------------------------------------------------------------
(* A result, of whatever kind, leaves the statistics of a hop consistent.    *)

LEMMA FlagsStep ==
  ASSUME NEW s \in HopStats, NEW r \in TraceResult, FlagsAgree(s)
  PROVE  FlagsAgree(mtr_hop_stats_record(s, r)) /\ mtr_hop_stats_record(s, r) \in HopStats
<1> DEFINE t == mtr_hop_stats_record(s, r)
<1>1. s.received \in Nat /\ s.sent \in Nat /\ s.received <= s.sent
  BY Fields DEF FlagsAgree
<1>2. CASE trace_result_has_rtt(r)
  <2>1. t \in HopStats /\ Recorded(t, s, r)
    BY <1>1, <1>2, RecordedFields
  <2> HIDE DEF t
  <2>2. t.status \in {"HOP", "DESTINATION"}
    BY <1>2, <2>1 DEF trace_result_has_rtt, StatusAfter, Recorded
  <2>3. t.has_jitter <=> s.received > 0
    <3>1. /\ s.has_previous_ms <=> s.received > 0
          /\ s.has_jitter <=> s.received > 1
      BY DEF FlagsAgree
    <3>2. s.received > 1 => s.received > 0
      BY <1>1
    <3>3. t.has_jitter <=> s.has_previous_ms \/ s.has_jitter
      BY <2>1 DEF Recorded
    <3> QED BY <3>1, <3>2, <3>3
  <2>4. /\ t.sent = s.sent + 1 /\ t.received = s.received + 1
        /\ t.has_rtt = TRUE /\ t.has_previous_ms = TRUE
    BY <2>1 DEF Recorded
  <2>5. FlagsAgree(t)
    BY <1>1, <2>2, <2>3, <2>4 DEF FlagsAgree
  <2> QED BY <2>1, <2>5 DEF t
<1>3. CASE ~trace_result_has_rtt(r)
  <2>1. t \in HopStats /\ Unrecorded(t, s, r)
    BY <1>1, <1>3, UnrecordedFields
  <2> HIDE DEF t
  <2>2. r.status \in {"TIMEOUT", "ERROR"}
    BY <1>3, ResultTypes DEF trace_result_has_rtt
  <2>3. t.status = IF s.has_rtt THEN s.status ELSE r.status
    BY <2>1, <2>2 DEF StatusAfter, FlagsAgree, Unrecorded
  <2>4. /\ t.sent = s.sent + 1 /\ t.received = s.received
        /\ t.has_rtt = s.has_rtt /\ t.has_previous_ms = s.has_previous_ms
        /\ t.has_jitter = s.has_jitter
    BY <2>1 DEF Unrecorded
  <2>5. FlagsAgree(t)
    BY <1>1, <2>2, <2>3, <2>4 DEF FlagsAgree
  <2> QED BY <2>1, <2>5 DEF t
<1> QED BY <1>2, <1>3

(* The mean stays between the extremes, and the total of the distances within *)
(* as many spreads as there are gaps: a new answer adds at most one spread.   *)
LEMMA BoundsArithmetic ==
  ASSUME NEW n \in Nat \ {0}, NEW best \in Nat, NEW worst \in Nat, NEW total \in Nat,
         NEW jitter \in Nat, NEW prev \in Nat, NEW rtt \in Nat, NEW b \in Nat, NEW w \in Nat,
         best <= prev, prev <= worst, best * n <= total, total <= worst * n,
         jitter <= (worst - best) * (n - 1),
         b <= best, b <= rtt, worst <= w, rtt <= w
  PROVE  /\ b * (n + 1) <= total + rtt /\ total + rtt <= w * (n + 1)
         /\ jitter + AbsDiff(rtt, prev) <= (w - b) * n
<1>1. b * n <= best * n /\ worst * n <= w * n
  BY TimesMonotonic
<1>2. b * (n + 1) = b * n + b /\ w * (n + 1) = w * n + w
  BY Distribute
<1>3. (worst - best) * (n - 1) <= (w - b) * (n - 1)
  BY TimesMonotonic
<1>4. (w - b) * n = (w - b) * (n - 1) + (w - b)
  BY Distribute
<1>5. AbsDiff(rtt, prev) <= w - b
  BY DEF AbsDiff
<1>6. b * n \in Nat /\ best * n \in Nat /\ worst * n \in Nat /\ w * n \in Nat
  BY SMT
<1>7. (worst - best) * (n - 1) \in Int /\ (w - b) * (n - 1) \in Int /\ AbsDiff(rtt, prev) \in Int
  BY SMT DEF AbsDiff
<1> QED BY <1>1, <1>2, <1>3, <1>4, <1>5, <1>6, <1>7

(* Strengthening: before the first answer there is nothing in the totals.    *)
Fresh(s) == ~s.has_rtt => s.total_ms = 0 /\ s.jitter_total_ms = 0

LEMMA BoundedStep ==
  ASSUME NEW s \in HopStats, NEW r \in TraceResult, FlagsAgree(s), Fresh(s), Bounded(s)
  PROVE  Bounded(mtr_hop_stats_record(s, r)) /\ Fresh(mtr_hop_stats_record(s, r))
<1> DEFINE t == mtr_hop_stats_record(s, r)
           rtt == r.rtt_ms
<1>1. s.received <= s.sent
  BY DEF FlagsAgree
<1>2. CASE trace_result_has_rtt(r)
  <2>1. Recorded(t, s, r)
    BY <1>1, <1>2, RecordedFields
  <2>2. rtt \in Nat
    BY <1>2, ResultTypes, RttsAssumption
  <2> HIDE DEF t
  <2>3. /\ t.received = s.received + 1 /\ t.last_ms = rtt /\ t.previous_ms = rtt
        /\ t.best_ms = BestOf(s, rtt) /\ t.worst_ms = WorstOf(s, rtt)
        /\ t.total_ms = s.total_ms + rtt
        /\ t.avg_ms = <<t.total_ms, t.received>>
        /\ t.has_rtt = TRUE
    BY <2>1 DEF Recorded
  <2> HIDE DEF rtt
  <2>4. CASE s.has_rtt
    <3>1. /\ t.jitter_total_ms = s.jitter_total_ms + AbsDiff(rtt, s.previous_ms)
          /\ t.jitter_ms = <<t.jitter_total_ms, t.received - 1>>
      <4>1. s.has_previous_ms
        BY <2>4 DEF FlagsAgree
      <4> QED BY <2>1, <4>1 DEF Recorded, rtt
    <3>2. /\ s.received \in Nat \ {0} /\ s.best_ms \in Nat /\ s.worst_ms \in Nat
          /\ s.total_ms \in Nat /\ s.jitter_total_ms \in Nat /\ s.previous_ms \in Nat
      BY <2>4, Fields DEF FlagsAgree
    <3>3. /\ BestOf(s, rtt) \in Nat /\ WorstOf(s, rtt) \in Nat
          /\ BestOf(s, rtt) <= s.best_ms /\ BestOf(s, rtt) <= rtt
          /\ s.worst_ms <= WorstOf(s, rtt) /\ rtt <= WorstOf(s, rtt)
      BY <2>2, <2>4, <3>2 DEF BestOf, WorstOf
    <3>4. /\ s.best_ms <= s.previous_ms /\ s.previous_ms <= s.worst_ms
          /\ s.best_ms * s.received <= s.total_ms
          /\ s.total_ms <= s.worst_ms * s.received
          /\ s.jitter_total_ms <= (s.worst_ms - s.best_ms) * (s.received - 1)
      BY <2>4 DEF Bounded
    <3>5. /\ BestOf(s, rtt) * (s.received + 1) <= s.total_ms + rtt
          /\ s.total_ms + rtt <= WorstOf(s, rtt) * (s.received + 1)
          /\ s.jitter_total_ms + AbsDiff(rtt, s.previous_ms)
               <= (WorstOf(s, rtt) - BestOf(s, rtt)) * s.received
      BY <2>2, <3>2, <3>3, <3>4, BoundsArithmetic, ZenonT(60)
    <3>6. t.received - 1 = s.received
      BY <2>3, <3>2
    <3>7. /\ t.best_ms <= t.last_ms /\ t.last_ms <= t.worst_ms
          /\ t.best_ms * t.received <= t.total_ms
          /\ t.total_ms <= t.worst_ms * t.received
          /\ t.jitter_total_ms <= (t.worst_ms - t.best_ms) * (t.received - 1)
      BY <2>3, <3>1, <3>3, <3>5, <3>6
    <3>8. Bounded(t) /\ Fresh(t)
      BY <2>3, <3>1, <3>7 DEF Bounded, Fresh
    <3> QED BY <3>8 DEF t
  <2>5. CASE ~s.has_rtt
    <3>1. /\ s.received = 0 /\ ~s.has_previous_ms /\ ~s.has_jitter
          /\ s.total_ms = 0 /\ s.jitter_total_ms = 0
      BY <2>5, Fields DEF FlagsAgree, Fresh
    <3>2. t.jitter_total_ms = 0 /\ ~t.has_jitter
      BY <2>1, <3>1 DEF Recorded
    <3>3. t.best_ms = rtt /\ t.worst_ms = rtt
      BY <2>3, <2>5 DEF BestOf, WorstOf
    <3>4. t.received = 1 /\ t.total_ms = rtt
      BY <2>2, <2>3, <3>1
    <3>5. Bounded(t) /\ Fresh(t)
      BY <2>2, <2>3, <3>2, <3>3, <3>4 DEF Bounded, Fresh
    <3> QED BY <3>5 DEF t
  <2> QED BY <2>4, <2>5
<1>3. CASE ~trace_result_has_rtt(r)
  <2>1. Unrecorded(t, s, r)
    BY <1>1, <1>3, UnrecordedFields
  <2> HIDE DEF t
  <2>2. Bounded(t) /\ Fresh(t)
    BY <2>1 DEF Bounded, Fresh, Unrecorded
  <2> QED BY <2>2 DEF t
<1> QED BY <1>2, <1>3

LEMMA EmptyStats ==
  ASSUME NEW h \in Nat
  PROVE  LET s == mtr_hop_stats_init(h) IN
         s \in HopStats /\ FlagsAgree(s) /\ Bounded(s) /\ Fresh(s)
<1>1. mtr_hop_stats_init(h) \in HopStats
  BY DEF mtr_hop_stats_init, HopStats
<1>2. FlagsAgree(mtr_hop_stats_init(h))
  BY DEF mtr_hop_stats_init, FlagsAgree
<1>3. Bounded(mtr_hop_stats_init(h)) /\ Fresh(mtr_hop_stats_init(h))
  BY DEF mtr_hop_stats_init, Bounded, Fresh
<1> QED BY <1>1, <1>2, <1>3

LEMMA SentStep ==
  ASSUME NEW s \in HopStats, NEW r \in TraceResult, FlagsAgree(s)
  PROVE  mtr_hop_stats_record(s, r).sent = s.sent + 1
<1>1. s.received <= s.sent
  BY DEF FlagsAgree
<1>2. CASE trace_result_has_rtt(r)
  BY <1>1, <1>2, RecordedFields DEF Recorded
<1>3. CASE ~trace_result_has_rtt(r)
  BY <1>1, <1>3, UnrecordedFields DEF Unrecorded
<1> QED BY <1>2, <1>3

-----------------------------------------------------------------------------
(* The statistics of a hop and all its results. *)

LEMMA TakeOne ==
  ASSUME NEW t \in Seq(Nat), NEW r \in TraceResult
  PROVE  Stepped(TakeTime, t, r) = IF trace_result_has_rtt(r) THEN Append(t, r.rtt_ms) ELSE t
  BY DEF Stepped, TakeTime

LEMMA TimesType == \A s \in Seq(TraceResult) : Times(s) \in Seq(Nat)
<1>1. ASSUME NEW t \in Seq(Nat), NEW r \in TraceResult
      PROVE  Stepped(TakeTime, t, r) \in Seq(Nat)
  <2>1. trace_result_has_rtt(r) => r.rtt_ms \in Nat
    BY ResultTypes, RttsAssumption
  <2> QED BY <2>1, TakeOne
<1>2. <<>> \in Seq(Nat)
  OBVIOUS
<1>3. \A s \in Seq(TraceResult) : Fold(TakeTime, <<>>, s) \in Seq(Nat)
  BY <1>1, <1>2, FoldType
<1> QED BY <1>3 DEF Times

LEMMA TimesEmpty == Times(<<>>) = <<>>
  BY FoldEmpty DEF Times

LEMMA TimesAppend ==
  ASSUME NEW s \in Seq(TraceResult), NEW r \in TraceResult
  PROVE  Times(Append(s, r)) =
           IF trace_result_has_rtt(r) THEN Append(Times(s), r.rtt_ms) ELSE Times(s)
<1>1. Times(Append(s, r)) = Stepped(TakeTime, Times(s), r)
  BY FoldAppend DEF Times
<1>2. Times(s) \in Seq(Nat)
  BY TimesType
<1> QED BY <1>1, <1>2, TakeOne

LEMMA GapsType == \A t \in Seq(Nat) : Gaps(t) \in Seq(Nat)
<1> TAKE t \in Seq(Nat)
<1>1. Len(t) \in Nat /\ \A i \in 1..(Len(t) - 1) : t[i] \in Nat /\ t[i + 1] \in Nat
  OBVIOUS
<1>2. \A i \in 1..(Len(t) - 1) : AbsDiff(t[i], t[i + 1]) \in Nat
  BY <1>1 DEF AbsDiff
<1>3. CASE Len(t) = 0
  <2>1. Gaps(t) = [i \in 1..0 |-> AbsDiff(t[i], t[i + 1])]
    BY <1>3 DEF Gaps
  <2> QED BY <2>1
<1>4. CASE Len(t) # 0
  <2>1. Len(t) - 1 \in Nat
    BY <1>1, <1>4
  <2> QED BY <1>2, <2>1 DEF Gaps
<1> QED BY <1>3, <1>4

LEMMA GapsAppend ==
  ASSUME NEW t \in Seq(Nat), NEW x \in Nat
  PROVE  /\ Len(t) = 0 => Gaps(Append(t, x)) = <<>>
         /\ Len(t) > 0 => Gaps(Append(t, x)) = Append(Gaps(t), AbsDiff(x, t[Len(t)]))
<1> DEFINE u == Append(t, x)
           n == Len(t)
<1>1. /\ u \in Seq(Nat) /\ Len(u) = n + 1 /\ n \in Nat /\ u[n + 1] = x
      /\ \A i \in 1..n : u[i] = t[i]
  OBVIOUS
<1> HIDE DEF u
<1>2. CASE n = 0
  <2>1. 1..(Len(u) - 1) = {}
    BY <1>1, <1>2
  <2>2. Gaps(u) \in Seq(Nat) /\ DOMAIN Gaps(u) = {}
    BY <1>1, <2>1, GapsType DEF Gaps
  <2>3. Gaps(u) = <<>>
    BY <2>2
  <2> QED BY <1>2, <2>3 DEF u
<1>3. CASE n > 0
  <2> DEFINE g == Append(Gaps(t), AbsDiff(x, t[n]))
             f == Gaps(u)
  <2>1. f \in Seq(Nat) /\ Gaps(t) \in Seq(Nat)
    BY <1>1, GapsType
  <2>2. t[n] \in Nat
    BY <1>1, <1>3
  <2>3. AbsDiff(x, t[n]) = AbsDiff(t[n], x) /\ AbsDiff(x, t[n]) \in Nat
    BY <2>2 DEF AbsDiff
  <2>4. Len(Gaps(t)) = n - 1 /\ Len(f) = n
    <3>1. DOMAIN Gaps(t) = 1..(n - 1) /\ DOMAIN f = 1..n
      BY <1>1 DEF Gaps
    <3> QED BY <1>1, <1>3, <2>1, <3>1
  <2>5. g \in Seq(Nat) /\ Len(g) = n /\ g[n] = AbsDiff(x, t[n])
        /\ \A i \in 1..(n - 1) : g[i] = Gaps(t)[i]
    <3>1. /\ g \in Seq(Nat) /\ Len(g) = Len(Gaps(t)) + 1
          /\ g[Len(Gaps(t)) + 1] = AbsDiff(x, t[n])
          /\ \A i \in 1..Len(Gaps(t)) : g[i] = Gaps(t)[i]
      BY <2>1, <2>3, Appended
    <3>2. Len(Gaps(t)) + 1 = n
      BY <1>1, <2>4
    <3> QED BY <2>4, <3>1, <3>2
  <2>6. \A i \in 1..n : f[i] = AbsDiff(u[i], u[i + 1])
    BY <1>1 DEF Gaps
  <2>7. \A i \in 1..(n - 1) : Gaps(t)[i] = AbsDiff(t[i], t[i + 1])
    BY DEF Gaps
  <2>8. \A i \in 1..(n - 1) : u[i] = t[i] /\ u[i + 1] = t[i + 1] /\ i \in 1..n
    BY <1>1
  <2> HIDE DEF f, g
  <2>9. \A i \in 1..(n - 1) : f[i] = g[i]
    BY <2>5, <2>6, <2>7, <2>8
  <2>10. f[n] = g[n]
    <3>1. n \in 1..n /\ u[n] = t[n] /\ u[n + 1] = x
      BY <1>1, <1>3
    <3> QED BY <2>3, <2>5, <2>6, <3>1
  <2>11. \A i \in 1..n : i \in 1..(n - 1) \/ i = n
    BY <1>1
  <2>12. f = g
    <3>1. \A i \in 1..Len(f) : f[i] = g[i]
      BY <2>4, <2>9, <2>10, <2>11
    <3> QED BY <2>1, <2>4, <2>5, <3>1, SameSequence
  <2> QED BY <1>3, <2>12 DEF f, g, u
<1> QED BY <1>1, <1>2, <1>3 DEF u

(* Strengthening: what the next update starts from is that of the results so *)
(* far as well.                                                              *)
Totals(s, results) ==
  LET t == Times(results) IN
  /\ s.total_ms = SumOf(t)
  /\ s.jitter_total_ms = SumOf(Gaps(t))
  /\ Len(t) > 0 => s.previous_ms = t[Len(t)]
  /\ CountIn(results, UnansweredResult) = Len(results) - Len(t)

LEMMA NoResults ==
  ASSUME NEW h \in Nat
  PROVE  LET s == mtr_hop_stats_init(h) IN MatchesHistory(s, <<>>) /\ Totals(s, <<>>)
<1>1. Times(<<>>) = <<>> /\ Gaps(<<>>) = <<>> /\ SumOf(<<>>) = 0 /\ Len(<<>>) = 0
  <2>1. Gaps(<<>>) \in Seq(Nat) /\ DOMAIN Gaps(<<>>) = {}
    BY GapsType DEF Gaps
  <2>2. Gaps(<<>>) = <<>>
    BY <2>1
  <2> QED BY <2>2, TimesEmpty, SumEmpty
<1>2. CountIn(<<>>, UnansweredResult) = 0
  BY CountEmpty
<1>3. LET s == mtr_hop_stats_init(h) IN
      /\ s.sent = 0 /\ s.received = 0 /\ s.total_ms = 0 /\ s.jitter_total_ms = 0
  BY DEF mtr_hop_stats_init
<1> QED BY <1>1, <1>2, <1>3 DEF MatchesHistory, Totals

(* Which results are no answers, and which of them is the latest answer. *)
LEMMA AnsweredOrNot ==
  ASSUME NEW r \in TraceResult
  PROVE  r \in UnansweredResult <=> ~trace_result_has_rtt(r)
<1>0. ASSUME r \in UnansweredResult PROVE r.status \in {"TIMEOUT", "ERROR"}
  <2>1. PICK u \in {"TIMEOUT", "ERROR"} :
          r = [status |-> u, rtt_ms |-> 0, remote_ip |-> "", error |-> u]
    BY <1>0 DEF UnansweredResult
  <2> QED BY <2>1
<1>1. CASE r \in AnsweredResult
  <2>1. r.status \in {"HOP", "DESTINATION"}
    BY <1>1 DEF AnsweredResult
  <2> QED BY <1>0, <2>1 DEF trace_result_has_rtt
<1>2. CASE r \in UnansweredResult
  BY <1>0, <1>2 DEF trace_result_has_rtt
<1> QED BY <1>1, <1>2 DEF TraceResult

LEMMA LatestAnswer ==
  ASSUME NEW s \in Seq(TraceResult), NEW r \in TraceResult
  PROVE  LET u == Append(s, r)  m == Len(s) IN
         /\ trace_result_has_rtt(r) => IsLatestAnswer(m + 1, u)
         /\ ~trace_result_has_rtt(r) =>
              \A i \in 1..m : IsLatestAnswer(i, s) => IsLatestAnswer(i, u)
<1> DEFINE u == Append(s, r)
           m == Len(s)
<1>1. /\ m \in Nat /\ u[m + 1] = r /\ DOMAIN u = 1..(m + 1) /\ DOMAIN s = 1..m
      /\ \A i \in 1..m : u[i] = s[i]
  OBVIOUS
<1> HIDE DEF u
<1>2. \A j \in 1..(m + 1) : ~(j > m + 1) /\ (j \in 1..m \/ j = m + 1)
  BY <1>1
<1>3. trace_result_has_rtt(r) => IsLatestAnswer(m + 1, u)
  BY <1>1, <1>2 DEF IsLatestAnswer
<1>4. ASSUME ~trace_result_has_rtt(r), NEW i \in 1..m, IsLatestAnswer(i, s)
      PROVE  IsLatestAnswer(i, u)
  BY <1>1, <1>2, <1>4 DEF IsLatestAnswer
<1> QED BY <1>3, <1>4 DEF u

(* One more result, with or without an answer. *)
LEMMA HistoryAnswered ==
  ASSUME NEW s \in HopStats, NEW results \in Seq(TraceResult), NEW r \in TraceResult,
         FlagsAgree(s), MatchesHistory(s, results), Totals(s, results),
         trace_result_has_rtt(r)
  PROVE  LET u == mtr_hop_stats_record(s, r)  more == Append(results, r) IN
         MatchesHistory(u, more) /\ Totals(u, more)
<1> DEFINE u == mtr_hop_stats_record(s, r)
           more == Append(results, r)
           t == Times(results)
           n == Len(t)
           m == Len(results)
           x == r.rtt_ms
           v == Append(t, x)
<1>1. u \in HopStats /\ Recorded(u, s, r)
  BY RecordedFields DEF FlagsAgree
<1>2. Times(more) = v /\ t \in Seq(Nat) /\ x \in Nat /\ n \in Nat /\ m \in Nat
  <2>1. Times(more) = v
    BY TimesAppend
  <2>2. t \in Seq(Nat)
    BY TimesType
  <2>3. x \in Nat
    BY ResultTypes, RttsAssumption
  <2> HIDE DEF t, v, x
  <2> QED BY <2>1, <2>2, <2>3 DEF n, m
<1>3. /\ Len(more) = m + 1 /\ more[m + 1] = r /\ \A i \in 1..m : more[i] = results[i]
  BY Appended
<1>4. /\ Len(v) = n + 1 /\ v[n + 1] = x /\ \A i \in 1..n : v[i] = t[i]
  BY <1>2, Appended
<1>5. SumOf(v) = SumOf(t) + x
  BY <1>2, SumAppend
<1>6. IsLatestAnswer(m + 1, more)
  BY LatestAnswer
<1>7. CountIn(more, UnansweredResult) = CountIn(results, UnansweredResult)
  <2>1. r \notin UnansweredResult
    BY AnsweredOrNot
  <2>2. CountIn(results, UnansweredResult) \in Nat
    BY CountType
  <2> QED BY <2>1, <2>2, CountAppend
<1>8. /\ s.sent = m /\ s.received = n
      /\ s.total_ms = SumOf(t) /\ s.jitter_total_ms = SumOf(Gaps(t))
      /\ n > 0 => s.previous_ms = t[n]
      /\ CountIn(results, UnansweredResult) = m - n
  BY DEF MatchesHistory, Totals
<1>9. /\ n > 0 => /\ \A i \in 1..n : s.best_ms <= t[i] /\ t[i] <= s.worst_ms
                  /\ \E i \in 1..n : s.best_ms = t[i]
                  /\ \E i \in 1..n : s.worst_ms = t[i]
  BY DEF MatchesHistory
<1>10. /\ \A i \in 1..n : t[i] \in Nat
       /\ s.best_ms \in Nat /\ s.worst_ms \in Nat /\ SumOf(t) \in Nat /\ SumOf(Gaps(t)) \in Nat
  BY <1>2, Fields, SumType, GapsType
<1>11. s.has_rtt <=> n > 0
  BY <1>8 DEF FlagsAgree
<1>12. s.has_previous_ms <=> n > 0
  BY <1>11 DEF FlagsAgree
<1>13. n = 0 => SumOf(Gaps(t)) = 0
  <2>1. n = 0 => t = <<>> /\ Gaps(t) \in Seq(Nat) /\ DOMAIN Gaps(t) = {}
    BY <1>2, GapsType DEF Gaps
  <2>2. n = 0 => Gaps(t) = <<>>
    BY <2>1
  <2> QED BY <2>2, SumEmpty
<1>14. SumOf(Gaps(v)) = IF n > 0 THEN SumOf(Gaps(t)) + AbsDiff(x, t[n]) ELSE 0
  <2>1. CASE n > 0
    <3>1. Gaps(v) = Append(Gaps(t), AbsDiff(x, t[n]))
      BY <1>2, <2>1, GapsAppend
    <3>2. AbsDiff(x, t[n]) \in Nat /\ Gaps(t) \in Seq(Nat)
      BY <1>2, <1>10, <2>1, GapsType, SMTT(30) DEF AbsDiff
    <3> QED BY <2>1, <3>1, <3>2, SumAppend
  <2>2. CASE n = 0
    <3>1. Gaps(v) = <<>>
      BY <1>2, <2>2, GapsAppend
    <3> QED BY <2>2, <3>1, SumEmpty
  <2> QED BY <1>2, <2>1, <2>2
<1> HIDE DEF u, more, t, n, m, x, v
<1>15. /\ u.sent = m + 1 /\ u.received = n + 1 /\ u.last_ms = x /\ u.previous_ms = x
       /\ u.error = r.error /\ u.remote_ip = r.remote_ip
       /\ u.total_ms = SumOf(v) /\ u.avg_ms = <<SumOf(v), n + 1>>
  BY <1>1, <1>5, <1>8 DEF Recorded, x
<1>16. u.status = r.status
  BY <1>1 DEF Recorded, StatusAfter, trace_result_has_rtt
<1>17. u.jitter_total_ms = SumOf(Gaps(v)) /\ (n > 0 => u.jitter_ms = <<SumOf(Gaps(v)), n>>)
  <2>1. CASE n > 0
    <3>1. /\ u.jitter_total_ms = s.jitter_total_ms + AbsDiff(x, s.previous_ms)
          /\ u.jitter_ms = <<u.jitter_total_ms, u.received - 1>>
      BY <1>1, <1>12, <2>1 DEF Recorded, x
    <3>2. u.received - 1 = n
      BY <1>2, <1>15
    <3>3. u.jitter_total_ms = SumOf(Gaps(v))
      BY <1>8, <1>14, <2>1, <3>1
    <3> QED BY <3>1, <3>2, <3>3
  <2>2. CASE n = 0
    BY <1>1, <1>2, <1>8, <1>12, <1>13, <1>14, <2>2 DEF Recorded
  <2> QED BY <1>2, <2>1, <2>2
<1>18. u.no_reply = <<CountIn(more, UnansweredResult), m + 1>>
  <2>1. u.no_reply = <<s.sent + 1 - u.received, s.sent + 1>>
    BY <1>1 DEF Recorded
  <2>2. s.sent + 1 - u.received = m - n /\ s.sent + 1 = m + 1
    BY <1>2, <1>8, <1>15
  <2> QED BY <1>7, <1>8, <2>1, <2>2
<1>19. /\ u.best_ms = BestOf(s, x) /\ u.worst_ms = WorstOf(s, x)
  BY <1>1 DEF Recorded, x
<1>20. /\ \A i \in 1..(n + 1) : u.best_ms <= v[i] /\ v[i] <= u.worst_ms
       /\ \E i \in 1..(n + 1) : u.best_ms = v[i]
       /\ \E i \in 1..(n + 1) : u.worst_ms = v[i]
  <2>1. \A i \in 1..(n + 1) : i \in 1..n \/ i = n + 1
    BY <1>2
  <2>2. (\A i \in 1..n : i \in 1..(n + 1)) /\ n + 1 \in 1..(n + 1)
    BY <1>2
  <2>3. CASE n > 0
    <3>1. /\ u.best_ms <= x /\ u.best_ms <= s.best_ms /\ u.best_ms \in {x, s.best_ms}
          /\ x <= u.worst_ms /\ s.worst_ms <= u.worst_ms /\ u.worst_ms \in {x, s.worst_ms}
          /\ u.best_ms \in Nat /\ u.worst_ms \in Nat
      BY <1>2, <1>10, <1>11, <1>19, <2>3 DEF BestOf, WorstOf
    <3>2. \A i \in 1..n : u.best_ms <= v[i] /\ v[i] <= u.worst_ms
      <4> TAKE i \in 1..n
      <4>1. v[i] = t[i] /\ t[i] \in Nat /\ s.best_ms <= t[i] /\ t[i] <= s.worst_ms
        BY <1>4, <1>9, <1>10, <2>3
      <4> QED BY <1>10, <3>1, <4>1
    <3>3. u.best_ms <= v[n + 1] /\ v[n + 1] <= u.worst_ms
      BY <1>4, <3>1
    <3>4. \E i \in 1..(n + 1) : u.best_ms = v[i]
      BY <1>4, <1>9, <2>2, <2>3, <3>1
    <3>5. \E i \in 1..(n + 1) : u.worst_ms = v[i]
      BY <1>4, <1>9, <2>2, <2>3, <3>1
    <3> QED BY <2>1, <3>2, <3>3, <3>4, <3>5
  <2>4. CASE n = 0
    <3>1. u.best_ms = x /\ u.worst_ms = x
      BY <1>2, <1>11, <1>19, <2>4 DEF BestOf, WorstOf
    <3>2. \A i \in 1..(n + 1) : i = n + 1
      BY <1>2, <2>4
    <3> QED BY <1>2, <1>4, <2>2, <3>1, <3>2
  <2> QED BY <1>2, <2>3, <2>4
<1>21. MatchesHistory(u, more)
  <2>1. \E i \in 1..(m + 1) :
          /\ IsLatestAnswer(i, more)
          /\ u.status = more[i].status /\ u.remote_ip = more[i].remote_ip
    <3>1. m + 1 \in 1..(m + 1)
      BY <1>2
    <3> QED BY <1>3, <1>6, <1>15, <1>16, <3>1
  <2>2. n + 1 > 1 => u.jitter_ms = <<SumOf(Gaps(v)), n + 1 - 1>>
    BY <1>2, <1>17
  <2>3. n + 1 # 0 /\ n + 1 > 0
    BY <1>2
  <2> QED BY <1>2, <1>3, <1>4, <1>15, <1>18, <1>20, <2>1, <2>2, <2>3 DEF MatchesHistory
<1>22. Totals(u, more)
  <2>1. CountIn(more, UnansweredResult) = m + 1 - (n + 1)
    BY <1>2, <1>7, <1>8
  <2> QED BY <1>2, <1>3, <1>4, <1>15, <1>17, <2>1 DEF Totals
<1> QED BY <1>21, <1>22 DEF u, more

LEMMA HistoryUnanswered ==
  ASSUME NEW s \in HopStats, NEW results \in Seq(TraceResult), NEW r \in TraceResult,
         FlagsAgree(s), MatchesHistory(s, results), Totals(s, results),
         ~trace_result_has_rtt(r)
  PROVE  LET u == mtr_hop_stats_record(s, r)  more == Append(results, r) IN
         MatchesHistory(u, more) /\ Totals(u, more)
<1> DEFINE u == mtr_hop_stats_record(s, r)
           more == Append(results, r)
           t == Times(results)
           n == Len(t)
           m == Len(results)
<1>1. u \in HopStats /\ Unrecorded(u, s, r)
  BY UnrecordedFields DEF FlagsAgree
<1>2. Times(more) = t /\ n \in Nat /\ m \in Nat
  <2>1. Times(more) = t
    BY TimesAppend
  <2>2. t \in Seq(Nat)
    BY TimesType
  <2> HIDE DEF t
  <2> QED BY <2>1, <2>2 DEF n, m
<1>3. /\ Len(more) = m + 1 /\ more[m + 1] = r /\ \A i \in 1..m : more[i] = results[i]
  BY Appended
<1>4. \A i \in 1..m : IsLatestAnswer(i, results) => IsLatestAnswer(i, more)
  BY LatestAnswer
<1>5. CountIn(more, UnansweredResult) = CountIn(results, UnansweredResult) + 1
  BY AnsweredOrNot, CountAppend
<1>6. /\ s.sent = m /\ s.received = n
      /\ s.total_ms = SumOf(t) /\ s.jitter_total_ms = SumOf(Gaps(t))
      /\ n > 0 => s.previous_ms = t[n]
      /\ CountIn(results, UnansweredResult) = m - n
  BY DEF MatchesHistory, Totals
<1>7. n > 0 =>
        /\ s.avg_ms = <<SumOf(t), n>>
        /\ s.last_ms = t[n]
        /\ \A i \in 1..n : s.best_ms <= t[i] /\ t[i] <= s.worst_ms
        /\ \E i \in 1..n : s.best_ms = t[i]
        /\ \E i \in 1..n : s.worst_ms = t[i]
        /\ \E i \in 1..m :
             /\ IsLatestAnswer(i, results)
             /\ s.status = results[i].status /\ s.remote_ip = results[i].remote_ip
  BY DEF MatchesHistory
<1>8. n > 1 => s.jitter_ms = <<SumOf(Gaps(t)), n - 1>>
  BY DEF MatchesHistory
<1>9. /\ s.has_rtt <=> n > 0
      /\ s.has_rtt <=> s.status \in {"HOP", "DESTINATION"}
  BY <1>6 DEF FlagsAgree
<1> HIDE DEF u, more, t, n, m
<1>10. /\ u.sent = m + 1 /\ u.received = n /\ u.error = r.error
       /\ u.total_ms = SumOf(t) /\ u.jitter_total_ms = SumOf(Gaps(t))
       /\ u.last_ms = s.last_ms /\ u.previous_ms = s.previous_ms
       /\ u.best_ms = s.best_ms /\ u.worst_ms = s.worst_ms
       /\ u.avg_ms = s.avg_ms /\ u.jitter_ms = s.jitter_ms /\ u.remote_ip = s.remote_ip
  BY <1>1, <1>6 DEF Unrecorded
<1>11. u.status = IF n > 0 THEN s.status ELSE r.status
  <2>1. r.status \notin {"HOP", "DESTINATION"}
    BY DEF trace_result_has_rtt
  <2> QED BY <1>1, <1>9, <2>1 DEF Unrecorded, StatusAfter
<1>12. u.no_reply = <<CountIn(more, UnansweredResult), m + 1>>
  <2>1. u.no_reply = <<s.sent + 1 - u.received, s.sent + 1>>
    BY <1>1 DEF Unrecorded
  <2>2. s.sent + 1 - u.received = m - n + 1 /\ s.sent + 1 = m + 1
    BY <1>2, <1>6, <1>10
  <2> QED BY <1>5, <1>6, <2>1, <2>2
<1>13. n > 0 =>
         \E i \in 1..(m + 1) :
           /\ IsLatestAnswer(i, more)
           /\ u.status = more[i].status /\ u.remote_ip = more[i].remote_ip
  <2>1. \A i \in 1..m : i \in 1..(m + 1)
    BY <1>2
  <2> QED BY <1>3, <1>4, <1>7, <1>10, <1>11, <2>1
<1>14. MatchesHistory(u, more)
  <2>1. /\ n > 0 =>
             /\ u.avg_ms = <<SumOf(t), n>>
             /\ u.last_ms = t[n]
             /\ \A i \in 1..n : u.best_ms <= t[i] /\ t[i] <= u.worst_ms
             /\ \E i \in 1..n : u.best_ms = t[i]
             /\ \E i \in 1..n : u.worst_ms = t[i]
        /\ n > 1 => u.jitter_ms = <<SumOf(Gaps(t)), n - 1>>
        /\ n = 0 => u.status = more[m + 1].status
    BY <1>3, <1>7, <1>8, <1>10, <1>11
  <2> QED BY <1>2, <1>3, <1>10, <1>12, <1>13, <2>1 DEF MatchesHistory, n
<1>15. Totals(u, more)
  <2>1. CountIn(more, UnansweredResult) = m + 1 - n
    BY <1>2, <1>5, <1>6
  <2> QED BY <1>2, <1>3, <1>6, <1>10, <2>1 DEF Totals, n
<1> QED BY <1>14, <1>15 DEF u, more

LEMMA HistoryStep ==
  ASSUME NEW s \in HopStats, NEW results \in Seq(TraceResult), NEW r \in TraceResult,
         FlagsAgree(s), MatchesHistory(s, results), Totals(s, results)
  PROVE  LET u == mtr_hop_stats_record(s, r)  more == Append(results, r) IN
         MatchesHistory(u, more) /\ Totals(u, more) /\ u.hop = s.hop
<1>1. CASE trace_result_has_rtt(r)
  <2>1. mtr_hop_stats_record(s, r).hop = s.hop
    <3>1. Recorded(mtr_hop_stats_record(s, r), s, r)
      BY <1>1, RecordedFields DEF FlagsAgree
    <3> QED BY <3>1, Zenon DEF Recorded
  <2> QED BY <1>1, <2>1, HistoryAnswered
<1>2. CASE ~trace_result_has_rtt(r)
  BY <1>2, HistoryUnanswered, UnrecordedFields DEF FlagsAgree, Unrecorded
<1> QED BY <1>1, <1>2

=============================================================================
