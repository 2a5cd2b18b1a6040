------------------------ MODULE RuleSemanticsProofs ------------------------
(***************************************************************************)
(* What the evaluation of one rule computes.  The recursive definitions of *)
(* RuleSemantics are shown to have the value their equations describe:     *)
(* over groups, because nested groups come later, over operands, because   *)
(* operands are trees, and over the partial sums of FlattenSeq.  From them *)
(* follow the agreement of the two evaluators and what a trace says of     *)
(* assigned values.                                                        *)
(***************************************************************************)
EXTENDS RowOutcome, TLAPS, SequenceTheorems, FiniteSetTheorems, WellFoundedInduction

(* Every set of naturals that has a member has a least one.                *)
LEMMA Least ==
  ASSUME NEW T \in SUBSET Nat, T # {}
  PROVE  \E m \in T : \A k \in T : m <= k
<1>1. PICK m \in T : \A k \in T : ~(<<k, m>> \in OpToRel(<, Nat))
  BY WFMin, NatLessThanWellFounded
<1>2. \A k \in T : ~(k < m)
  BY <1>1 DEF OpToRel
<1>. QED BY <1>2

(* Every bounded set of positive naturals that has a member has a greatest *)
(* one.                                                                    *)
LEMMA Greatest ==
  ASSUME NEW n \in Nat, NEW T \in SUBSET (1 .. n), T # {}
  PROVE  \E m \in T : \A k \in T : k <= m
<1> DEFINE distances == {n - k : k \in T}
<1>1. distances \subseteq Nat /\ distances # {}
  <2>1. \A k \in T : n - k \in Nat
    OBVIOUS
  <2>. QED BY <2>1
<1> HIDE DEF distances
<1>2. PICK d \in distances : \A k \in distances : d <= k
  BY <1>1, Least
<1>3. PICK m \in T : d = n - m
  BY DEF distances
<1>4. \A k \in T : n - m <= n - k
  BY <1>2, <1>3 DEF distances
<1>5. \A k \in T : k <= m
  BY <1>4
<1>. QED BY <1>5

(* Induction, for a set of numbers instead of a predicate.                 *)
LEMMA Inductive ==
  ASSUME NEW T, 0 \in T, \A n \in Nat : n \in T => n + 1 \in T
  PROVE  Nat \subseteq T
<1> DEFINE missing == Nat \ T
<1>1. SUFFICES ASSUME missing # {} PROVE FALSE
  OBVIOUS
<1>2. PICK m \in missing : \A k \in missing : m <= k
  <2> HIDE DEF missing
  <2>1. missing \subseteq Nat
    BY DEF missing
  <2>. QED BY <1>1, <2>1, Least
<1>3. m # 0
  OBVIOUS
<1>4. m - 1 \in Nat /\ m - 1 \in T
  BY <1>2, <1>3
<1>5. m - 1 + 1 = m
  OBVIOUS
<1>. QED BY <1>4, <1>5

(* A function defined from its first value on, one value after the other.  *)
Recurrence(f, n, first, step) ==
  f[0] = first /\ \A i \in 1 .. n : f[i] = step[i][f[i - 1]]

(* A function defined from each value to the next exists on any initial    *)
(* interval.                                                               *)
LEMMA ForwardRecursion ==
  ASSUME NEW V, NEW n \in Nat, NEW first \in V, NEW step \in [1 .. n -> [V -> V]]
  PROVE  \E f \in [0 .. n -> V] : Recurrence(f, n, first, step)
<1> DEFINE Fits(f, k) == f[0] = first /\ \A i \in 1 .. k : f[i] = step[i][f[i - 1]]
           T == {k \in Nat : k <= n => \E f \in [0 .. n -> V] : Fits(f, k)}
<1>1. 0 \in T
  <2>1. Fits([i \in 0 .. n |-> first], 0)
    OBVIOUS
  <2>. QED BY <2>1
<1>2. ASSUME NEW k \in Nat, k \in T PROVE k + 1 \in T
  <2>1. SUFFICES ASSUME k + 1 <= n PROVE \E f \in [0 .. n -> V] : Fits(f, k + 1)
    OBVIOUS
  <2>2. PICK f \in [0 .. n -> V] : Fits(f, k)
    BY <1>2, <2>1
  <2> DEFINE g == [f EXCEPT ![k + 1] = step[k + 1][f[k]]]
  <2>3. /\ k \in 0 .. n /\ k + 1 \in 1 .. n /\ k + 1 \in 0 .. n /\ f[k] \in V
        /\ step[k + 1][f[k]] \in V
    BY <2>1
  <2>4. g \in [0 .. n -> V] /\ g[k + 1] = step[k + 1][f[k]]
    BY <2>3
  <2>5. \A i \in 0 .. n : i # k + 1 => g[i] = f[i]
    OBVIOUS
  <2>6. \A i \in 1 .. k : i \in 0 .. n /\ i - 1 \in 0 .. n /\ i # k + 1 /\ i - 1 # k + 1
    BY <2>1
  <2>7. 0 \in 0 .. n /\ 0 # k + 1 /\ k # k + 1 /\ k + 1 - 1 = k
    BY <2>1
  <2> HIDE DEF g
  <2>8. \A i \in 1 .. k + 1 : i \in 1 .. k \/ i = k + 1
    OBVIOUS
  <2>9. Fits(g, k + 1)
    BY <2>2, <2>3, <2>4, <2>5, <2>6, <2>7, <2>8
  <2>. QED BY <2>4, <2>9
<1>3. n \in T
  <2> HIDE DEF T
  <2>. QED BY <1>1, <1>2, Inductive
<1>. QED BY <1>3 DEF Recurrence

(* A function of the groups of a tree, each from the values of its nested   *)
(* groups, which come later.                                               *)
GroupRecurrence(f, n, nested, step) ==
  \A g \in 1 .. n : f[g] = step[g][{f[h] : h \in nested[g]}]

(* A function whose value at a group depends on the groups nested in it    *)
(* exists, because nested groups have later positions.                     *)
LEMMA GroupRecursion ==
  ASSUME NEW V, V # {}, NEW n \in Nat, NEW nested,
         \A g \in 1 .. n : nested[g] \subseteq g + 1 .. n,
         NEW step \in [1 .. n -> [SUBSET V -> V]]
  PROVE  \E f \in [1 .. n -> V] : GroupRecurrence(f, n, nested, step)
<1> DEFINE at(f, g) == step[g][{f[h] : h \in nested[g]}]
           Fits(f, k) == \A g \in 1 .. n : n - k < g => f[g] = at(f, g)
           T == {k \in Nat : k <= n => \E f \in [1 .. n -> V] : Fits(f, k)}
<1>a. ASSUME NEW f \in [1 .. n -> V], NEW g \in 1 .. n PROVE at(f, g) \in V
  <2>1. \A h \in nested[g] : h \in 1 .. n
    OBVIOUS
  <2>2. {f[h] : h \in nested[g]} \in SUBSET V
    BY <2>1
  <2>. QED BY <2>2
<1>1. 0 \in T
  <2>1. PICK v \in V : TRUE
    OBVIOUS
  <2>2. Fits([i \in 1 .. n |-> v], 0)
    OBVIOUS
  <2>3. [i \in 1 .. n |-> v] \in [1 .. n -> V]
    OBVIOUS
  <2>. QED BY <2>2, <2>3
<1>2. ASSUME NEW k \in Nat, k \in T PROVE k + 1 \in T
  <2>1. SUFFICES ASSUME k + 1 <= n PROVE \E f \in [1 .. n -> V] : Fits(f, k + 1)
    <3> HIDE DEF Fits
    <3>. QED OBVIOUS
  <2>2. PICK f \in [1 .. n -> V] : Fits(f, k)
    <3> HIDE DEF Fits
    <3>. QED BY <1>2, <2>1
  <2> DEFINE p == n - k
             h == [f EXCEPT ![p] = at(f, p)]
  <2>3. p \in 1 .. n /\ at(f, p) \in V
    BY <1>a, <2>1
  <2>4. h \in [1 .. n -> V] /\ h[p] = at(f, p) /\ \A i \in 1 .. n : i # p => h[i] = f[i]
    <3> HIDE DEF at, p
    <3>. QED BY <2>3
  <2>5. ASSUME NEW g \in 1 .. n, p <= g PROVE at(h, g) = at(f, g)
    <3>1. \A i \in nested[g] : i \in 1 .. n /\ i # p
      BY <2>3, <2>5
    <3> HIDE DEF h, p
    <3>2. \A i \in nested[g] : h[i] = f[i]
      BY <2>4, <3>1
    <3>3. {h[i] : i \in nested[g]} = {f[i] : i \in nested[g]}
      BY <3>2
    <3>. QED BY <3>3
  <2>6. \A g \in 1 .. n : n - (k + 1) < g => p <= g /\ (g = p \/ (n - k < g /\ g # p))
    BY <2>3
  <2>7. Fits(h, k + 1)
    <3> HIDE DEF h, p, at
    <3>. QED BY <2>2, <2>4, <2>5, <2>6
  <2>. QED BY <2>4, <2>7
<1>3. n \in T
  <2> HIDE DEF T
  <2>. QED BY <1>1, <1>2, Inductive
<1>4. PICK f \in [1 .. n -> V] : Fits(f, n)
  <2> HIDE DEF Fits
  <2>. QED BY <1>3
<1>5. \A g \in 1 .. n : n - n < g
  OBVIOUS
<1>. QED BY <1>4, <1>5 DEF GroupRecurrence

(***************************************************************************)
(* Flattening a sequence of sequences.                                     *)
(***************************************************************************)
Flattening(f, seqs) ==
  f = [i \in 1 .. Len(seqs) |-> IF i = 1 THEN seqs[i] ELSE f[i - 1] \o seqs[i]]

(* What FlattenSeq accumulates, one sequence at a time.                    *)
LEMMA FlatteningSteps ==
  ASSUME NEW seqs, NEW f, Flattening(f, seqs), Len(seqs) \in Nat
  PROVE  /\ DOMAIN f = 1 .. Len(seqs)
         /\ f = [i \in 1 .. Len(seqs) |-> f[i]]
         /\ 1 \in 1 .. Len(seqs) => f[1] = seqs[1]
         /\ \A i, j \in 1 .. Len(seqs) : j = i + 1 => f[j] = f[i] \o seqs[j]
<1> DEFINE part(i) == IF i = 1 THEN seqs[i] ELSE f[i - 1] \o seqs[i]
<1>1. f = [i \in 1 .. Len(seqs) |-> part(i)]
  BY DEF Flattening
<1>2. \A i \in 1 .. Len(seqs) : f[i] = part(i)
  <2> HIDE DEF part
  <2>. QED BY <1>1, Zenon
<1>3. DOMAIN f = 1 .. Len(seqs) /\ f = [i \in 1 .. Len(seqs) |-> f[i]]
  <2> HIDE DEF part
  <2>. QED BY <1>1, Zenon
<1>4. ASSUME NEW i \in 1 .. Len(seqs), NEW j \in 1 .. Len(seqs), j = i + 1
      PROVE  f[j] = f[i] \o seqs[j]
  <2>1. f[j] = part(j)
    BY <1>2
  <2>2. j # 1 /\ j - 1 = i
    BY <1>4
  <2>3. f[j] = f[j - 1] \o seqs[j]
    BY <2>1, <2>2, Zenon
  <2>. QED BY <2>2, <2>3, Zenon
<1>. QED BY <1>2, <1>3, <1>4

(* Every partial concatenation is a sequence of the same elements.         *)
LEMMA FlatteningType ==
  ASSUME NEW S, NEW seqs \in Seq(Seq(S)), NEW f, Flattening(f, seqs)
  PROVE  f \in [1 .. Len(seqs) -> Seq(S)]
<1> DEFINE n == Len(seqs)
           T == {i \in Nat : i \in 1 .. n => f[i] \in Seq(S)}
<1>1. n \in Nat /\ \A i \in 1 .. n : seqs[i] \in Seq(S)
  BY LenProperties, ElementOfSeq
<1>2. /\ f = [i \in 1 .. n |-> f[i]]
      /\ 1 \in 1 .. n => f[1] = seqs[1]
      /\ \A i, j \in 1 .. n : j = i + 1 => f[j] = f[i] \o seqs[j]
  BY <1>1, FlatteningSteps, ZenonT(40)
<1> HIDE DEF n
<1>3. ASSUME NEW i \in Nat, i \in T PROVE i + 1 \in T
  <2>1. SUFFICES ASSUME i + 1 \in 1 .. n PROVE f[i + 1] \in Seq(S)
    OBVIOUS
  <2>2. CASE i = 0
    <3>1. i + 1 = 1
      BY <2>2
    <3>. QED BY <1>1, <1>2, <2>1, <3>1
  <2>3. CASE i # 0
    <3>1. i \in 1 .. n
      BY <1>1, <2>1, <2>3
    <3>2. f[i] \in Seq(S)
      BY <1>3, <3>1
    <3>3. f[i + 1] = f[i] \o seqs[i + 1]
      BY <1>2, <2>1, <3>1
    <3>. QED BY <1>1, <2>1, <3>2, <3>3, ConcatProperties
  <2>. QED BY <2>2, <2>3
<1>4. Nat \subseteq T
  <2>1. 0 \in T
    OBVIOUS
  <2> HIDE DEF T
  <2>. QED BY <1>3, <2>1, Inductive
<1>5. \A i \in 1 .. n : f[i] \in Seq(S)
  BY <1>1, <1>4
<1>. QED BY <1>2, <1>5, Zenon DEF n

(* FlattenSeq is the last of its partial concatenations.                   *)
LEMMA FlattenUnfold ==
  ASSUME NEW S, NEW seqs \in Seq(Seq(S)), seqs # <<>>
  PROVE  \E f \in [1 .. Len(seqs) -> Seq(S)] :
           Flattening(f, seqs) /\ FlattenSeq(seqs) = f[Len(seqs)]
<1> DEFINE n == Len(seqs)
           V == Seq(S)
           none == <<>>
           step == [i \in 1 .. n |-> [x \in V |-> x \o seqs[i]]]
<1>1. n \in Nat \ {0} /\ \A i \in 1 .. n : seqs[i] \in V
  BY LenProperties, ElementOfSeq, EmptySeq
<1>2. step \in [1 .. n -> [V -> V]]
  <2>1. \A i \in 1 .. n : \A x \in V : x \o seqs[i] \in V
    BY <1>1, ConcatProperties
  <2> HIDE DEF V, n
  <2>. QED BY <2>1
<1>3. none \in V
  OBVIOUS
<1>4. \A i \in 1 .. n : \A x \in V : step[i][x] = x \o seqs[i]
  <2> HIDE DEF V, n
  <2>. QED OBVIOUS
<1>5. n \in Nat
  BY <1>1
<1> HIDE DEF step, V, n, none
<1>6. PICK g \in [0 .. n -> V] : g[0] = none /\ \A i \in 1 .. n : g[i] = step[i][g[i - 1]]
  <2>1. \E g \in [0 .. n -> V] : Recurrence(g, n, none, step)
    BY <1>2, <1>3, <1>5, ForwardRecursion
  <2>. QED BY <2>1 DEF Recurrence
<1>7. ASSUME NEW i \in 1 .. n PROVE i - 1 \in 0 .. n /\ g[i] = g[i - 1] \o seqs[i]
  <2>1. i - 1 \in 0 .. n
    BY <1>5
  <2>2. g[i - 1] \in V
    BY <2>1
  <2>. QED BY <1>4, <1>6, <2>1, <2>2
<1>8. Flattening([i \in 1 .. n |-> g[i]], seqs)
  <2> DEFINE f == [i \in 1 .. n |-> g[i]]
  <2>1. g[1] = seqs[1]
    <3>1. 1 \in 1 .. n /\ 1 - 1 = 0 /\ seqs[1] \in Seq(S)
      BY <1>1 DEF V
    <3>2. g[1] = <<>> \o seqs[1]
      BY <1>6, <1>7, <3>1 DEF none
    <3>. QED BY <3>1, <3>2, ConcatEmptySeq
  <2>2. ASSUME NEW i \in 1 .. n PROVE g[i] = IF i = 1 THEN seqs[i] ELSE f[i - 1] \o seqs[i]
    <3>1. CASE i = 1
      BY <2>1, <3>1
    <3>2. CASE i # 1
      <4>1. i - 1 \in 1 .. n
        BY <1>5, <3>2
      <4>2. f[i - 1] = g[i - 1]
        BY <4>1
      <4> HIDE DEF f
      <4>. QED BY <1>7, <3>2, <4>2
    <3>. QED BY <3>1, <3>2
  <2>. QED BY <2>2, Zenon DEF Flattening, n
<1>9. FlattenSeq(seqs) = (CHOOSE f : Flattening(f, seqs))[n]
  BY <1>1 DEF FlattenSeq, Flattening, n
<1>10. PICK f : f = CHOOSE h : Flattening(h, seqs)
  OBVIOUS
<1>11. Flattening(f, seqs)
  BY <1>8, <1>10
<1>12. f \in [1 .. n -> V]
  BY <1>11, FlatteningType DEF n, V
<1>. QED BY <1>9, <1>10, <1>11, <1>12 DEF n, V

(* Nothing flattens to nothing.                                            *)
LEMMA FlattenEmpty == FlattenSeq(<<>>) = <<>>
BY EmptySeq DEF FlattenSeq

(* Flattening a longer sequence adds the new part at the end.              *)
LEMMA FlattenAppend ==
  ASSUME NEW S, NEW seqs \in Seq(Seq(S)), NEW part \in Seq(S)
  PROVE  /\ FlattenSeq(seqs) \in Seq(S)
         /\ FlattenSeq(Append(seqs, part)) = FlattenSeq(seqs) \o part
<1> DEFINE n == Len(seqs)
           longer == Append(seqs, part)
<1>1. /\ n \in Nat /\ longer \in Seq(Seq(S)) /\ Len(longer) = n + 1 /\ longer # <<>>
      /\ \A i \in 1 .. n : longer[i] = seqs[i]
      /\ longer[n + 1] = part
  BY AppendProperties, LenProperties
<1> HIDE DEF longer
<1>2. PICK h \in [1 .. n + 1 -> Seq(S)] :
        Flattening(h, longer) /\ FlattenSeq(longer) = h[n + 1]
  BY <1>1, FlattenUnfold
<1>h. /\ h[1] = longer[1]
      /\ \A i, j \in 1 .. n + 1 : j = i + 1 => h[j] = h[i] \o longer[j]
  <2>1. Len(longer) \in Nat /\ 1 \in 1 .. Len(longer) /\ Len(longer) = n + 1
    BY <1>1
  <2>2. /\ h[1] = longer[1]
        /\ \A i, j \in 1 .. Len(longer) : j = i + 1 => h[j] = h[i] \o longer[j]
    BY <1>2, <2>1, FlatteningSteps, ZenonT(40)
  <2>. QED BY <2>1, <2>2, Zenon
<1>3. CASE seqs = <<>>
  <2>1. n = 0
    BY <1>3, EmptySeq
  <2>2. n + 1 = 1
    BY <2>1
  <2>3. FlattenSeq(longer) = part
    BY <1>1, <1>2, <1>h, <2>2
  <2>4. FlattenSeq(seqs) = <<>>
    BY <1>3, FlattenEmpty
  <2>. QED BY <2>3, <2>4, ConcatEmptySeq DEF longer
<1>4. CASE seqs # <<>>
  <2>1. PICK f \in [1 .. n -> Seq(S)] : Flattening(f, seqs) /\ FlattenSeq(seqs) = f[n]
    BY <1>4, FlattenUnfold
  <2>f. /\ 1 \in 1 .. n => f[1] = seqs[1]
        /\ \A i, j \in 1 .. n : j = i + 1 => f[j] = f[i] \o seqs[j]
    <3>1. Flattening(f, seqs) /\ Len(seqs) \in Nat
      BY <1>1, <2>1
    <3>. QED BY <3>1, FlatteningSteps, ZenonT(40)
  <2> DEFINE T == {i \in Nat : i \in 1 .. n => h[i] = f[i]}
  <2>n. n \in Nat /\ n # 0
    BY <1>1, <1>4, EmptySeq
  <2> HIDE DEF n
  <2>2. ASSUME NEW i \in Nat, i \in T PROVE i + 1 \in T
    <3>1. SUFFICES ASSUME i + 1 \in 1 .. n PROVE h[i + 1] = f[i + 1]
      OBVIOUS
    <3>3. CASE i = 0
      <4>1. 1 \in 1 .. n /\ i + 1 = 1
        BY <3>1, <3>3
      <4>. QED BY <1>1, <1>h, <2>f, <4>1 DEF n
    <3>4. CASE i # 0
      <4>1. i \in 1 .. n /\ i \in 1 .. n + 1 /\ i + 1 \in 1 .. n + 1
        BY <2>n, <3>1, <3>4
      <4>2. h[i + 1] = h[i] \o longer[i + 1]
        BY <1>h, <4>1 DEF n
      <4>3. f[i + 1] = f[i] \o seqs[i + 1]
        BY <2>f, <3>1, <4>1
      <4>4. longer[i + 1] = seqs[i + 1]
        BY <1>1, <3>1 DEF n
      <4>. QED BY <2>2, <4>1, <4>2, <4>3, <4>4
    <3>. QED BY <3>3, <3>4
  <2>3. Nat \subseteq T
    <3>1. 0 \in T
      OBVIOUS
    <3> HIDE DEF T
    <3>. QED BY <2>2, <3>1, Inductive
  <2>4. n \in 1 .. n /\ n \in 1 .. n + 1 /\ n + 1 \in 1 .. n + 1
    BY <2>n
  <2>5. h[n] = f[n]
    BY <2>3, <2>n, <2>4
  <2>6. h[n + 1] = h[n] \o longer[n + 1]
    BY <1>h, <2>4 DEF n
  <2>. QED BY <1>1, <1>2, <2>1, <2>4, <2>5, <2>6 DEF longer, n
<1>. QED BY <1>3, <1>4

(* A concatenation has the elements of its two parts.                      *)
LEMMA ConcatRange ==
  ASSUME NEW S, NEW a \in Seq(S), NEW b \in Seq(S)
  PROVE  ToSet(a \o b) = ToSet(a) \cup ToSet(b)
<1>1. PICK c \in Seq(S) : c = a \o b
  BY ConcatProperties
<1>2. /\ Len(a) \in Nat /\ Len(b) \in Nat /\ DOMAIN a = 1 .. Len(a)
      /\ DOMAIN b = 1 .. Len(b) /\ DOMAIN c = 1 .. Len(a) + Len(b)
      /\ \A k \in 1 .. Len(a) + Len(b) : c[k] = IF k <= Len(a) THEN a[k] ELSE b[k - Len(a)]
  BY <1>1, ConcatProperties, LenProperties
<1>3. \A k \in DOMAIN a : k \in DOMAIN c /\ c[k] = a[k]
  BY <1>2
<1>4. ASSUME NEW k \in DOMAIN b PROVE \E l \in DOMAIN c : c[l] = b[k]
  <2>1. k + Len(a) \in 1 .. Len(a) + Len(b) /\ ~(k + Len(a) <= Len(a))
        /\ k + Len(a) - Len(a) = k
    BY <1>2
  <2>. QED BY <1>2, <2>1
<1>5. ASSUME NEW k \in DOMAIN c
      PROVE  (\E l \in DOMAIN a : c[k] = a[l]) \/ (\E l \in DOMAIN b : c[k] = b[l])
  <2>1. CASE k <= Len(a)
    BY <1>2, <2>1
  <2>2. CASE ~(k <= Len(a))
    <3>1. k - Len(a) \in 1 .. Len(b)
      BY <1>2, <2>2
    <3>. QED BY <1>2, <2>2, <3>1
  <2>. QED BY <2>1, <2>2
<1>6. ToSet(c) = ToSet(a) \cup ToSet(b)
  <2>1. ToSet(c) \subseteq ToSet(a) \cup ToSet(b)
    BY <1>5 DEF ToSet
  <2>2. ToSet(a) \subseteq ToSet(c)
    BY <1>3 DEF ToSet
  <2>3. ToSet(b) \subseteq ToSet(c)
    BY <1>4 DEF ToSet
  <2>. QED BY <2>1, <2>2, <2>3
<1>. QED BY <1>1, <1>6

(* Flattening keeps every element and adds none.                           *)
LEMMA FlattenRange ==
  ASSUME NEW S, NEW seqs \in Seq(Seq(S))
  PROVE  ToSet(FlattenSeq(seqs)) = UNION {ToSet(seqs[i]) : i \in DOMAIN seqs}
<1> DEFINE n == Len(seqs)
<1>1. n \in Nat /\ DOMAIN seqs = 1 .. n /\ \A i \in 1 .. n : seqs[i] \in Seq(S)
  BY LenProperties, ElementOfSeq
<1>2. CASE seqs = <<>>
  BY <1>2, FlattenEmpty DEF ToSet
<1>3. CASE seqs # <<>>
  <2>1. PICK f \in [1 .. n -> Seq(S)] : Flattening(f, seqs) /\ FlattenSeq(seqs) = f[n]
    BY <1>3, FlattenUnfold
  <2>f. /\ 1 \in 1 .. n => f[1] = seqs[1]
        /\ \A i, j \in 1 .. n : j = i + 1 => f[j] = f[i] \o seqs[j]
    <3>1. Flattening(f, seqs) /\ Len(seqs) \in Nat
      BY <1>1, <2>1
    <3>. QED BY <3>1, FlatteningSteps, ZenonT(40)
  <2>n. n \in 1 .. n
    BY <1>1, <1>3, EmptySeq
  <2> DEFINE T == {i \in Nat : i \in 1 .. n =>
                     ToSet(f[i]) = UNION {ToSet(seqs[j]) : j \in 1 .. i}}
  <2> HIDE DEF n
  <2>2. ASSUME NEW i \in Nat, i \in T PROVE i + 1 \in T
    <3>1. SUFFICES ASSUME i + 1 \in 1 .. n
                   PROVE  ToSet(f[i + 1]) = UNION {ToSet(seqs[j]) : j \in 1 .. i + 1}
      OBVIOUS
    <3>2. CASE i = 0
      <4>1. i + 1 = 1 /\ 1 .. i + 1 = {1} /\ 1 \in 1 .. n
        BY <3>1, <3>2
      <4>2. f[i + 1] = seqs[1]
        BY <2>f, <4>1
      <4>. QED BY <4>1, <4>2
    <3>3. CASE i # 0
      <4>1. i \in 1 .. n
        BY <1>1, <3>1, <3>3
      <4>2. f[i + 1] = f[i] \o seqs[i + 1]
        BY <2>f, <3>1, <4>1
      <4>3. f[i] \in Seq(S) /\ seqs[i + 1] \in Seq(S)
        BY <1>1, <3>1, <4>1
      <4>4. ToSet(f[i + 1]) = ToSet(f[i]) \cup ToSet(seqs[i + 1])
        <5>1. \A a, b \in Seq(S) : ToSet(a \o b) = ToSet(a) \cup ToSet(b)
          BY ConcatRange, Zenon
        <5>2. ToSet(f[i] \o seqs[i + 1]) = ToSet(f[i]) \cup ToSet(seqs[i + 1])
          BY <4>3, <5>1, Zenon
        <5>. QED BY <4>2, <5>2, Zenon
      <4>5. 1 .. i + 1 = (1 .. i) \cup {i + 1}
        OBVIOUS
      <4>6. ToSet(f[i]) = UNION {ToSet(seqs[j]) : j \in 1 .. i}
        BY <2>2, <4>1
      <4>. QED BY <4>4, <4>5, <4>6
    <3>. QED BY <3>2, <3>3
  <2>3. Nat \subseteq T
    <3>1. 0 \in T
      OBVIOUS
    <3> HIDE DEF T
    <3>. QED BY <2>2, <3>1, Inductive
  <2>. QED BY <1>1, <2>1, <2>3, <2>n
<1>. QED BY <1>2, <1>3
(***************************************************************************)
(* The two evaluators of a rule.                                           *)
(***************************************************************************)
Matched == {"true", "false", "raised"}

SilentGroup(groups, row, committed, matches, g) ==
  matches[g] =
    Combined(groups[g].operator,
      {ConditionMatches(c, row, committed) : c \in ToSet(groups[g].conditions)}
        \cup {matches[h] : h \in groups[g].nested})

(* The silent evaluator combines, at each group, its conditions with its   *)
(* nested groups.                                                          *)
LEMMA GroupsUnfold ==
  ASSUME NEW groups, WellFormedGroups(groups), NEW row, NEW committed,
         NEW matches, matches = GroupMatches(groups, row, committed),
         NEW g \in 1 .. Len(groups)
  PROVE  SilentGroup(groups, row, committed, matches, g)
<1> DEFINE n == Len(groups)
           nested == [i \in 1 .. n |-> groups[i].nested]
           value(i, s) == Combined(groups[i].operator,
              {ConditionMatches(c, row, committed) : c \in ToSet(groups[i].conditions)} \cup s)
           step == [i \in 1 .. n |-> [s \in SUBSET Matched |-> value(i, s)]]
           Fits(f) == f = [i \in 1 .. n |-> value(i, {f[h] : h \in groups[i].nested})]
<1>1. n \in Nat /\ DOMAIN groups = 1 .. n
  BY LenProperties DEF WellFormedGroups
<1>2. \A i \in 1 .. n : groups[i].nested \subseteq i + 1 .. n
  BY <1>1 DEF WellFormedGroups
<1>3. \A i \in 1 .. n : \A s : value(i, s) \in Matched
  BY DEF Combined, Matched, Verdict
<1>4. step \in [1 .. n -> [SUBSET Matched -> Matched]]
  <2> HIDE DEF value, n
  <2>. QED BY <1>3
<1>5. Matched # {} /\ \A i \in 1 .. n : nested[i] \subseteq i + 1 .. n
  BY <1>2 DEF Matched
<1>6. PICK f \in [1 .. n -> Matched] : GroupRecurrence(f, n, nested, step)
  <2> HIDE DEF n, nested, step
  <2>. QED BY <1>1, <1>4, <1>5, GroupRecursion
<1>7. ASSUME NEW i \in 1 .. n PROVE f[i] = value(i, {f[h] : h \in groups[i].nested})
  <2> DEFINE s == {f[h] : h \in groups[i].nested}
  <2>1. \A h \in groups[i].nested : h \in 1 .. n
    BY <1>1, <1>2
  <2>2. s \in SUBSET Matched
    BY <2>1
  <2>3. f[i] = step[i][s]
    BY <1>6 DEF GroupRecurrence
  <2> HIDE DEF s, value, n
  <2>. QED BY <2>2, <2>3 DEF s
<1>8. Fits(f)
  <2> HIDE DEF value, n
  <2>. QED BY <1>7
<1>9. matches = CHOOSE h : Fits(h)
  BY DEF GroupMatches
<1>10. Fits(matches)
  <2> HIDE DEF Fits
  <2>. QED BY <1>8, <1>9
<1>11. matches[g] = value(g, {matches[h] : h \in groups[g].nested})
  <2> HIDE DEF value, n
  <2>. QED BY <1>10, Zenon DEF n
<1>. QED BY <1>11 DEF SilentGroup

TracedFrom(groups, traces, matched, g) ==
  LET results == {Passed(t) : t \in {u \in ToSet(traces) : u.group = g}}
                   \cup {matched[h] : h \in groups[g].nested}
  IN  matched[g] = IF groups[g].operator = "all" THEN FALSE \notin results
                   ELSE TRUE \in results

(* The tracing evaluator does so with the traces of the group.             *)
LEMMA TracedUnfold ==
  ASSUME NEW groups, WellFormedGroups(groups), NEW traces,
         NEW matched, matched = TracedGroup(groups, traces), NEW g \in 1 .. Len(groups)
  PROVE  matched[g] \in BOOLEAN /\ TracedFrom(groups, traces, matched, g)
<1> DEFINE n == Len(groups)
           nested == [i \in 1 .. n |-> groups[i].nested]
           all(i, s) ==
             LET results == {Passed(t) : t \in {u \in ToSet(traces) : u.group = i}} \cup s
             IN  IF groups[i].operator = "all" THEN FALSE \notin results ELSE TRUE \in results
           step == [i \in 1 .. n |-> [s \in SUBSET BOOLEAN |-> all(i, s)]]
           Fits(f) == f = [i \in 1 .. n |-> all(i, {f[h] : h \in groups[i].nested})]
<1>1. n \in Nat /\ DOMAIN groups = 1 .. n
  BY LenProperties DEF WellFormedGroups
<1>2. \A i \in 1 .. n : groups[i].nested \subseteq i + 1 .. n
  BY <1>1 DEF WellFormedGroups
<1>3. ASSUME NEW i \in 1 .. n, NEW s PROVE all(i, s) \in BOOLEAN
  <2> DEFINE results == {Passed(t) : t \in {u \in ToSet(traces) : u.group = i}} \cup s
  <2> HIDE DEF results
  <2>1. (FALSE \notin results) \in BOOLEAN /\ (TRUE \in results) \in BOOLEAN
    OBVIOUS
  <2>2. CASE groups[i].operator = "all"
    <3>1. all(i, s) = (FALSE \notin results)
      BY <2>2, Zenon DEF results
    <3>. QED BY <2>1, <3>1, Zenon
  <2>3. CASE groups[i].operator # "all"
    <3>1. all(i, s) = (TRUE \in results)
      BY <2>3, Zenon DEF results
    <3>. QED BY <2>1, <3>1, Zenon
  <2>. QED BY <2>2, <2>3, Zenon
<1>4. step \in [1 .. n -> [SUBSET BOOLEAN -> BOOLEAN]]
  <2> HIDE DEF all, n
  <2>. QED BY <1>3
<1>5. BOOLEAN # {} /\ \A i \in 1 .. n : nested[i] \subseteq i + 1 .. n
  BY <1>2
<1>6. PICK f \in [1 .. n -> BOOLEAN] : GroupRecurrence(f, n, nested, step)
  <2> HIDE DEF n, nested, step
  <2>. QED BY <1>1, <1>4, <1>5, GroupRecursion
<1>7. ASSUME NEW i \in 1 .. n PROVE f[i] = all(i, {f[h] : h \in groups[i].nested})
  <2> DEFINE s == {f[h] : h \in groups[i].nested}
  <2>1. \A h \in groups[i].nested : h \in 1 .. n
    BY <1>1, <1>2
  <2>2. s \in SUBSET BOOLEAN
    BY <2>1
  <2>3. f[i] = step[i][s]
    BY <1>6 DEF GroupRecurrence
  <2> HIDE DEF s, all, n
  <2>. QED BY <2>2, <2>3 DEF s
<1>8. Fits(f)
  <2> HIDE DEF all, n
  <2>. QED BY <1>7
<1>9. matched = CHOOSE h : Fits(h)
  BY DEF TracedGroup
<1>10. Fits(matched)
  <2> HIDE DEF Fits
  <2>. QED BY <1>8, <1>9
<1>11. matched[g] = all(g, {matched[h] : h \in groups[g].nested})
  <2> HIDE DEF all, n
  <2>. QED BY <1>10, Zenon DEF n
<1>12. matched[g] \in BOOLEAN
  <2> HIDE DEF all
  <2>. QED BY <1>3, <1>11, Zenon
<1>. QED BY <1>11, <1>12 DEF TracedFrom

(* What the trace of a condition says of it.                               *)
LEMMA TraceFields ==
  ASSUME NEW condition, NEW group, NEW row, NEW committed,
         NEW trace, trace = ConditionTrace(condition, group, row, committed)
  PROVE  /\ trace.group = group
         /\ Passed(trace) <=> ConditionMatches(condition, row, committed) = "true"
         /\ trace.comparison_result = "raised" <=>
              ConditionMatches(condition, row, committed) = "raised"
<1>1. trace.group = group
  BY DEF ConditionTrace
<1>2. CASE condition.active_flag
  <2>1. trace.comparison_result =
          CompareResolved(condition, Resolve(condition.left, row, committed),
                          Resolve(condition.right, row, committed))
    BY <1>2 DEF ConditionTrace, OperandTrace
  <2>. QED BY <1>1, <1>2, <2>1 DEF Passed, ConditionMatches
<1>3. CASE ~condition.active_flag
  <2>1. trace.comparison_result = "none"
    BY <1>3 DEF ConditionTrace
  <2>. QED BY <1>1, <1>3, <2>1 DEF Passed, ConditionMatches
<1>. QED BY <1>2, <1>3

(* The traces of a rule are those of its conditions.                       *)
LEMMA TracesOfConditions ==
  ASSUME NEW rule, WellFormedGroups(rule.groups), NEW row, NEW committed, NEW trace
  PROVE  trace \in ToSet(ConditionTraces(rule, row, committed)) <=>
           \E g \in 1 .. Len(rule.groups) : \E c \in ToSet(rule.groups[g].conditions) :
             trace = ConditionTrace(c, g, row, committed)
<1> DEFINE n == Len(rule.groups)
           of(g) == [i \in DOMAIN rule.groups[g].conditions |->
                      ConditionTrace(rule.groups[g].conditions[i], g, row, committed)]
           S == UNION {ToSet(of(g)) : g \in 1 .. n}
           seqs == [g \in 1 .. n |-> of(g)]
<1>1. n \in Nat /\ DOMAIN rule.groups = 1 .. n
  BY LenProperties DEF WellFormedGroups
<1>2. ASSUME NEW g \in 1 .. n PROVE of(g) \in Seq(S)
  <2>1. PICK k \in Nat : DOMAIN rule.groups[g].conditions = 1 .. k
    BY <1>1, LenProperties DEF WellFormedGroups
  <2>2. DOMAIN of(g) = 1 .. k
    BY <2>1
  <2>3. \A i \in 1 .. k : of(g)[i] \in S
    BY <2>2 DEF ToSet
  <2>4. of(g) = [i \in 1 .. k |-> of(g)[i]]
    BY <2>1
  <2>. QED BY <2>3, <2>4
<1>3. seqs \in Seq(Seq(S)) /\ DOMAIN seqs = 1 .. n /\ \A g \in 1 .. n : seqs[g] = of(g)
  <2> HIDE DEF of, S, n
  <2>. QED BY <1>1, <1>2
<1>4. ConditionTraces(rule, row, committed) = FlattenSeq(seqs)
  BY DEF ConditionTraces
<1>5. ToSet(ConditionTraces(rule, row, committed)) = UNION {ToSet(seqs[g]) : g \in DOMAIN seqs}
  <2> HIDE DEF seqs, S
  <2>. QED BY <1>3, <1>4, FlattenRange
<1>6. trace \in ToSet(ConditionTraces(rule, row, committed)) <=>
        \E g \in 1 .. n : trace \in ToSet(of(g))
  <2> HIDE DEF seqs, S, of
  <2>. QED BY <1>3, <1>5
<1>7. ASSUME NEW g \in 1 .. n
      PROVE  trace \in ToSet(of(g)) <=>
               \E c \in ToSet(rule.groups[g].conditions) :
                 trace = ConditionTrace(c, g, row, committed)
  BY DEF ToSet
<1>. QED BY <1>6, <1>7

(* The evaluator that traces every operand and the silent one come to the  *)
(* same outcome of a rule, errors included, for any tree of groups and     *)
(* whatever its conditions compare (runtime.py:254-373).                   *)
THEOREM EvaluatorsAgree ==
  ASSUME NEW rule, WellFormedGroups(rule.groups), NEW row, NEW committed
  PROVE  EvaluateRule(rule, row, committed).outcome = RuleMatches(rule, row, committed)
<1>a. PICK groups : groups = rule.groups
  OBVIOUS
<1>b. PICK traces : traces = ConditionTraces(rule, row, committed)
  OBVIOUS
<1>c. WellFormedGroups(groups)
  BY <1>a
<1> DEFINE n == Len(groups)
           conditions(g) == ToSet(groups[g].conditions)
           Decides(c) == ConditionMatches(c, row, committed)
           Raises == \E g \in 1 .. n : \E c \in conditions(g) : Decides(c) = "raised"
<1>1. /\ n \in Nat /\ 1 \in 1 .. n
      /\ \A g \in 1 .. n : groups[g].nested \subseteq g + 1 .. n
      /\ \A g \in 1 .. n : g > 1 => \E h \in 1 .. g - 1 : g \in groups[h].nested
  <2>1. groups \in Seq(ToSet(groups)) /\ groups # <<>>
    BY <1>c DEF WellFormedGroups
  <2>2. n \in Nat /\ DOMAIN groups = 1 .. n /\ n # 0
    BY <2>1, LenProperties, EmptySeq
  <2>3. \A g \in DOMAIN groups : /\ groups[g].nested \subseteq g + 1 .. Len(groups)
                                 /\ g > 1 => \E h \in 1 .. g - 1 : g \in groups[h].nested
    BY <1>c, Zenon DEF WellFormedGroups
  <2>. QED BY <2>2, <2>3
<1>2. PICK silent : silent = GroupMatches(groups, row, committed)
  OBVIOUS
<1>3. PICK traced : traced = TracedGroup(groups, traces)
  OBVIOUS
<1>4. /\ RuleMatches(rule, row, committed) = silent[1]
      /\ EvaluateRule(rule, row, committed).outcome =
           IF \E t \in ToSet(traces) : t.comparison_result = "raised" THEN "raised"
           ELSE Verdict(traced[1])
  BY <1>2, <1>3, <1>a, <1>b DEF RuleMatches, EvaluateRule
<1>5. ASSUME NEW g \in 1 .. n
      PROVE  silent[g] = Combined(groups[g].operator,
               {Decides(c) : c \in conditions(g)} \cup {silent[h] : h \in groups[g].nested})
  <2>1. SilentGroup(groups, row, committed, silent, g)
    BY <1>2, <1>c, GroupsUnfold
  <2>. QED BY <2>1 DEF SilentGroup
<1>6. (\E t \in ToSet(traces) : t.comparison_result = "raised") <=> Raises
  <2>1. ASSUME NEW t \in ToSet(traces), t.comparison_result = "raised" PROVE Raises
    <3>1. PICK g \in 1 .. n : \E c \in conditions(g) :
            t = ConditionTrace(c, g, row, committed)
      BY <1>a, <1>b, <2>1, TracesOfConditions
    <3>2. PICK c \in conditions(g) : t = ConditionTrace(c, g, row, committed)
      BY <3>1
    <3>3. Decides(c) = "raised"
      BY <2>1, <3>2, TraceFields
    <3>. QED BY <3>3
  <2>2. ASSUME NEW g \in 1 .. n, NEW c \in conditions(g), Decides(c) = "raised"
        PROVE  \E t \in ToSet(traces) : t.comparison_result = "raised"
    <3>1. PICK t : t = ConditionTrace(c, g, row, committed)
      OBVIOUS
    <3>2. t \in ToSet(traces)
      BY <1>a, <1>b, <3>1, TracesOfConditions
    <3>3. t.comparison_result = "raised"
      BY <2>2, <3>1, TraceFields
    <3>. QED BY <3>2, <3>3
  <2>. QED BY <2>1, <2>2
<1>7. CASE Raises
  <2> DEFINE T == {g \in 1 .. n : silent[g] = "raised"}
  <2>1. PICK g \in 1 .. n : \E c \in conditions(g) : Decides(c) = "raised"
    BY <1>7
  <2>2. silent[g] = "raised"
    BY <1>5, <2>1 DEF Combined
  <2>3. T \subseteq Nat /\ T # {}
    BY <2>2
  <2>4. PICK k \in T : \A i \in T : k <= i
    <3> HIDE DEF T
    <3>. QED BY <2>3, Least
  <2>5. ASSUME k > 1 PROVE FALSE
    <3>1. PICK h \in 1 .. k - 1 : k \in groups[h].nested
      BY <1>1, <2>5
    <3>2. h \in 1 .. n /\ h < k
      BY <1>1
    <3>3. silent[h] = "raised"
      <4>1. "raised" \in {silent[i] : i \in groups[h].nested}
        BY <3>1
      <4>. QED BY <1>5, <3>2, <4>1 DEF Combined
    <3>. QED BY <2>4, <3>2, <3>3
  <2>6. silent[1] = "raised"
    BY <2>5
  <2>. QED BY <1>4, <1>6, <1>7, <2>6
<1>8. CASE ~Raises
  <2> DEFINE Differ == {g \in 1 .. n : silent[g] # Verdict(traced[g])}
  <2>1. SUFFICES ASSUME Differ # {} PROVE FALSE
    BY <1>1, <1>4, <1>6, <1>8
  <2>2. PICK g \in Differ : \A i \in Differ : i <= g
    <3> HIDE DEF Differ
    <3>1. Differ \in SUBSET (1 .. n)
      BY DEF Differ
    <3>. QED BY <1>1, <2>1, <3>1, Greatest
  <2>3. \A h \in groups[g].nested : h \in 1 .. n /\ silent[h] = Verdict(traced[h])
    <3>1. ASSUME NEW h \in groups[g].nested PROVE h \in 1 .. n /\ h > g
      BY <1>1
    <3>. QED BY <2>2, <3>1
  <2>4. ASSUME NEW h \in 1 .. n
        PROVE  traced[h] \in BOOLEAN
    BY <1>3, <1>c, TracedUnfold
  <2> DEFINE outcomes == {Decides(c) : c \in conditions(g)}
                           \cup {silent[h] : h \in groups[g].nested}
             results == {Passed(t) : t \in {u \in ToSet(traces) : u.group = g}}
                          \cup {traced[h] : h \in groups[g].nested}
             AllTrue == /\ \A c \in conditions(g) : Decides(c) = "true"
                        /\ \A h \in groups[g].nested : traced[h] = TRUE
             SomeTrue == \/ \E c \in conditions(g) : Decides(c) = "true"
                         \/ \E h \in groups[g].nested : traced[h] = TRUE
  <2>5. "raised" \notin outcomes
    BY <1>8, <2>3 DEF Verdict
  <2>6. silent[g] = IF groups[g].operator = "all" THEN Verdict(outcomes \subseteq {"true"})
                    ELSE Verdict("true" \in outcomes)
    BY <1>5, <2>5 DEF Combined
  <2>7. \A h \in groups[g].nested : silent[h] = "true" <=> traced[h] = TRUE
    BY <2>3, <2>4 DEF Verdict
  <2>8. outcomes \subseteq {"true"} <=> AllTrue
    BY <2>7
  <2>9. "true" \in outcomes <=> SomeTrue
    BY <2>7
  <2>10. traced[g] = IF groups[g].operator = "all" THEN FALSE \notin results
                     ELSE TRUE \in results
    <3>1. TracedFrom(groups, traces, traced, g)
      BY <1>3, <1>c, TracedUnfold
    <3>. QED BY <3>1, Zenon DEF TracedFrom
  <2>11. /\ \A c \in conditions(g) : \E t \in ToSet(traces) :
              t.group = g /\ (Passed(t) <=> Decides(c) = "true")
         /\ \A t \in ToSet(traces) : t.group = g =>
              \E c \in conditions(g) : Passed(t) <=> Decides(c) = "true"
    <3>1. ASSUME NEW c \in conditions(g)
          PROVE  \E t \in ToSet(traces) : t.group = g /\ (Passed(t) <=> Decides(c) = "true")
      <4>1. PICK t : t = ConditionTrace(c, g, row, committed)
        OBVIOUS
      <4>2. t \in ToSet(traces)
        BY <1>a, <1>b, <4>1, TracesOfConditions
      <4>. QED BY <4>1, <4>2, TraceFields
    <3>2. ASSUME NEW t \in ToSet(traces), t.group = g
          PROVE  \E c \in conditions(g) : Passed(t) <=> Decides(c) = "true"
      <4>1. PICK i \in 1 .. n : \E c \in conditions(i) :
              t = ConditionTrace(c, i, row, committed)
        BY <1>a, <1>b, <3>2, TracesOfConditions
      <4>2. PICK c \in conditions(i) : t = ConditionTrace(c, i, row, committed)
        BY <4>1
      <4>. QED BY <3>2, <4>2, TraceFields
    <3>. QED BY <3>1, <3>2
  <2>12. \A t : Passed(t) \in BOOLEAN
    BY DEF Passed
  <2>13. FALSE \notin results <=> AllTrue
    <3> HIDE DEF conditions, Decides
    <3>1. ASSUME FALSE \in results PROVE ~AllTrue
      BY <2>11, <3>1, Zenon
    <3>2. ASSUME ~AllTrue PROVE FALSE \in results
      <4>1. ASSUME NEW c \in conditions(g), Decides(c) # "true" PROVE FALSE \in results
        <5>1. PICK t \in ToSet(traces) : t.group = g /\ (Passed(t) <=> Decides(c) = "true")
          BY <2>11, Zenon
        <5>2. Passed(t) = FALSE
          BY <2>12, <4>1, <5>1, Zenon
        <5>. QED BY <5>1, <5>2, Zenon
      <4>2. ASSUME NEW h \in groups[g].nested, traced[h] # TRUE PROVE FALSE \in results
        <5>1. traced[h] = FALSE
          BY <2>3, <2>4, <4>2, Zenon
        <5>. QED BY <5>1, Zenon
      <4>. QED BY <3>2, <4>1, <4>2, Zenon
    <3>. QED BY <3>1, <3>2, Zenon
  <2>14. TRUE \in results <=> SomeTrue
    <3> HIDE DEF conditions, Decides
    <3>1. ASSUME TRUE \in results PROVE SomeTrue
      BY <2>11, <2>12, <3>1, Zenon
    <3>2. ASSUME SomeTrue PROVE TRUE \in results
      <4>1. ASSUME NEW c \in conditions(g), Decides(c) = "true" PROVE TRUE \in results
        BY <2>11, <2>12, <4>1, Zenon
      <4>2. ASSUME NEW h \in groups[g].nested, traced[h] = TRUE PROVE TRUE \in results
        BY <4>2, Zenon
      <4>. QED BY <3>2, <4>1, <4>2, Zenon
    <3>. QED BY <3>1, <3>2, Zenon
  <2>15. silent[g] = Verdict(traced[g])
    <3> HIDE DEF outcomes, results, AllTrue, SomeTrue
    <3>1. CASE groups[g].operator = "all"
      BY <2>6, <2>8, <2>10, <2>13, <3>1, Zenon DEF Verdict
    <3>2. CASE groups[g].operator # "all"
      BY <2>6, <2>9, <2>10, <2>14, <3>2, Zenon DEF Verdict
    <3>. QED BY <3>1, <3>2, Zenon
  <2>. QED BY <2>15
<1>. QED BY <1>7, <1>8

(***************************************************************************)
(* The active rules in ascending order.                                    *)
(***************************************************************************)
Numbered(rules) == IsFiniteSet(rules) /\ \A r \in rules : r.rule_order \in Int
Ascending(order) == \A i, j \in DOMAIN order : i < j => order[i].rule_order <= order[j].rule_order

(* Rules stay numbered when one of them is left out.                       *)
LEMMA WithoutOne ==
  ASSUME NEW S, Numbered(S), NEW x \in S, NEW n \in Nat, Cardinality(S) = n + 1
  PROVE  Numbered(S \ {x}) /\ Cardinality(S \ {x}) = n
<1>1. IsFiniteSet(S \ {x}) /\ Cardinality(S \ {x}) = Cardinality(S) - 1
  BY FS_RemoveElement, Zenon DEF Numbered
<1>2. Cardinality(S \ {x}) = n
  BY <1>1
<1>. QED BY <1>1, <1>2 DEF Numbered

(* Finitely many rules with different orders have a last one.              *)
LEMMA LastOfFinite ==
  ASSUME NEW rules, Numbered(rules), rules # {}
  PROVE  \E m \in rules : \A r \in rules : r.rule_order <= m.rule_order
<1> DEFINE HasLast(S) == \E m \in S : \A r \in S : r.rule_order <= m.rule_order
           T == {n \in Nat : \A S \in SUBSET rules :
                   Numbered(S) /\ Cardinality(S) = n /\ n # 0 => HasLast(S)}
<1>1. 0 \in T
  OBVIOUS
<1>2. ASSUME NEW n \in Nat, n \in T PROVE n + 1 \in T
  <2>1. SUFFICES ASSUME NEW S \in SUBSET rules, Numbered(S), Cardinality(S) = n + 1
                 PROVE  HasLast(S)
    OBVIOUS
  <2>2. S # {}
    BY <2>1, FS_EmptySet
  <2>3. PICK x \in S : TRUE
    BY <2>2
  <2>4. /\ S \ {x} \in SUBSET rules /\ Numbered(S \ {x}) /\ Cardinality(S \ {x}) = n
        /\ \A r \in S : r.rule_order \in Int
    BY <2>1, <2>3, WithoutOne DEF Numbered
  <2>5. CASE n = 0
    <3>1. S \ {x} = {}
      BY <2>4, <2>5, FS_EmptySet DEF Numbered
    <3>2. \A r \in S : r = x
      BY <3>1
    <3>. QED BY <2>3, <2>4, <3>2
  <2>6. CASE n # 0
    <3>1. HasLast(S \ {x})
      <4> HIDE DEF HasLast
      <4>. QED BY <1>2, <2>4, <2>6
    <3>2. PICK m \in S \ {x} : \A r \in S \ {x} : r.rule_order <= m.rule_order
      BY <3>1
    <3>3. CASE x.rule_order <= m.rule_order
      BY <3>2, <3>3
    <3>4. CASE m.rule_order <= x.rule_order
      <4>1. ASSUME NEW r \in S PROVE r.rule_order <= x.rule_order
        <5>1. r.rule_order \in Int /\ m.rule_order \in Int /\ x.rule_order \in Int
          BY <2>3, <2>4
        <5>2. r = x \/ r.rule_order <= m.rule_order
          BY <3>2
        <5>. QED BY <3>4, <5>1, <5>2
      <4>. QED BY <2>3, <4>1
    <3>5. x.rule_order <= m.rule_order \/ m.rule_order <= x.rule_order
      BY <2>3, <2>4
    <3>. QED BY <3>3, <3>4, <3>5
  <2>. QED BY <2>5, <2>6
<1>3. PICK n \in Nat : n = Cardinality(rules)
  BY FS_CardinalityType DEF Numbered
<1>4. n \in T /\ n # 0
  <2> HIDE DEF T
  <2>1. n \in T
    BY <1>1, <1>2, Inductive
  <2>. QED BY <1>3, <2>1, FS_EmptySet DEF Numbered
<1>. QED BY <1>3, <1>4

(* Such rules can be put in ascending order.                               *)
LEMMA OrderExists ==
  ASSUME NEW rules, Numbered(rules)
  PROVE  \E order \in SetToSeqs(rules) : Ascending(order)
<1> DEFINE Sorted(S) == \E order \in SetToSeqs(S) : Ascending(order)
           T == {n \in Nat : \A S \in SUBSET rules :
                   Numbered(S) /\ Cardinality(S) = n => Sorted(S)}
<1>1. 0 \in T
  <2>1. ASSUME NEW S, Numbered(S), Cardinality(S) = 0 PROVE Sorted(S)
    <3>1. <<>> \in SetToSeqs(S)
      BY <2>1 DEF SetToSeqs
    <3>2. Ascending(<<>>)
      BY DEF Ascending
    <3>. QED BY <3>1, <3>2
  <2>. QED BY <2>1
<1>2. ASSUME NEW n \in Nat, n \in T PROVE n + 1 \in T
  <2>1. SUFFICES ASSUME NEW S \in SUBSET rules, Numbered(S), Cardinality(S) = n + 1
                 PROVE  Sorted(S)
    <3> HIDE DEF Sorted
    <3>. QED OBVIOUS
  <2>2. PICK m \in S : \A r \in S : r.rule_order <= m.rule_order
    <3>1. S # {}
      BY <2>1, FS_EmptySet
    <3>. QED BY <2>1, <3>1, LastOfFinite
  <2>3. /\ S \ {m} \in SUBSET rules /\ Numbered(S \ {m}) /\ Cardinality(S \ {m}) = n
        /\ \A r \in S : r.rule_order \in Int
    BY <2>1, WithoutOne DEF Numbered
  <2>4. PICK front \in SetToSeqs(S \ {m}) : Ascending(front)
    <3> HIDE DEF Sorted
    <3>1. Sorted(S \ {m})
      BY <1>2, <2>3
    <3>. QED BY <3>1 DEF Sorted
  <2>5. /\ front \in [1 .. n -> S \ {m}]
        /\ \A i, j \in 1 .. n : i # j => front[i] # front[j]
    BY <2>3, <2>4 DEF SetToSeqs
  <2> DEFINE order == [i \in 1 .. n + 1 |-> IF i = n + 1 THEN m ELSE front[i]]
  <2>6. /\ order \in [1 .. n + 1 -> S]
        /\ order[n + 1] = m
        /\ \A i \in 1 .. n + 1 : i # n + 1 => i \in 1 .. n /\ order[i] = front[i]
    BY <2>5
  <2> HIDE DEF order
  <2>7. order \in SetToSeqs(S)
    <3>1. ASSUME NEW i \in 1 .. n + 1, NEW j \in 1 .. n + 1, i # j PROVE order[i] # order[j]
      BY <2>5, <2>6, <3>1
    <3>. QED BY <2>1, <2>6, <3>1 DEF SetToSeqs
  <2>8. Ascending(order)
    <3>1. ASSUME NEW i \in 1 .. n + 1, NEW j \in 1 .. n + 1, i < j
          PROVE  order[i].rule_order <= order[j].rule_order
      <4>1. i \in 1 .. n /\ order[i] = front[i] /\ order[i] \in S
        BY <2>6, <3>1
      <4>2. CASE j = n + 1
        BY <2>2, <2>6, <4>1, <4>2
      <4>3. CASE j # n + 1
        <5>1. j \in 1 .. n /\ order[j] = front[j] /\ DOMAIN front = 1 .. n
          BY <2>5, <2>6, <4>3
        <5>. QED BY <2>4, <3>1, <4>1, <5>1 DEF Ascending
      <4>. QED BY <4>2, <4>3
    <3>2. DOMAIN order = 1 .. n + 1
      BY <2>6
    <3>. QED BY <3>1, <3>2 DEF Ascending
  <2>. QED BY <2>7, <2>8
<1>3. PICK n \in Nat : n = Cardinality(rules)
  BY FS_CardinalityType DEF Numbered
<1>4. n \in T
  <2> HIDE DEF T
  <2>. QED BY <1>1, <1>2, Inductive
<1>. QED BY <1>3, <1>4

(* The active rules of a validated ruleset, each of them once, in strictly *)
(* ascending order.                                                        *)
LEMMA ActiveRulesAscend ==
  ASSUME NEW ruleset, WellFormedRuleset(ruleset), NEW order, order = ActiveRules(ruleset)
  PROVE  /\ order \in Seq(ruleset)
         /\ ToSet(order) = {r \in ruleset : r.active_flag}
         /\ \A i, j \in DOMAIN order : i < j =>
              order[i] # order[j] /\ order[i].rule_order < order[j].rule_order
<1> DEFINE active == {r \in ruleset : r.active_flag}
<1>1. Numbered(active) /\ active \subseteq ruleset
  BY FS_Subset DEF Numbered, WellFormedRuleset, WellFormedRule
<1>2. order \in SetToSeqs(active) /\ Ascending(order)
  <2>1. order = CHOOSE o \in SetToSeqs(active) : Ascending(o)
    BY DEF ActiveRules, Ascending
  <2>2. \E o \in SetToSeqs(active) : Ascending(o)
    BY <1>1, OrderExists
  <2> HIDE DEF active
  <2>. QED BY <2>1, <2>2
<1>3. PICK n \in Nat : n = Cardinality(active)
  BY <1>1, FS_CardinalityType DEF Numbered
<1>4. /\ order \in [1 .. n -> active]
      /\ \A i, j \in 1 .. n : i # j => order[i] # order[j]
  BY <1>2, <1>3 DEF SetToSeqs
<1>5. ASSUME NEW i \in 1 .. n, NEW j \in 1 .. n, i < j
      PROVE  order[i] # order[j] /\ order[i].rule_order < order[j].rule_order
  <2>1. order[i] # order[j] /\ order[i] \in ruleset /\ order[j] \in ruleset
    BY <1>4, <1>5
  <2>2. /\ order[i].rule_order # order[j].rule_order
        /\ order[i].rule_order \in Int /\ order[j].rule_order \in Int
    BY <2>1 DEF WellFormedRuleset, WellFormedRule
  <2>3. order[i].rule_order <= order[j].rule_order
    BY <1>2, <1>4, <1>5 DEF Ascending
  <2>. QED BY <2>1, <2>2, <2>3
<1>6. ToSet(order) = active
  <2> HIDE DEF active
  <2>1. order \in Injection(1 .. n, active)
    BY <1>4 DEF Injection, IsInjective
  <2>2. IsFiniteSet(1 .. n) /\ Cardinality(1 .. n) = n
    BY FS_Interval
  <2>3. order \in Surjection(1 .. n, active)
    BY <1>1, <1>3, <2>1, <2>2, FS_Injection DEF Numbered
  <2>4. \A r \in active : \E i \in 1 .. n : order[i] = r
    BY <2>3 DEF Surjection
  <2>. QED BY <1>4, <2>4 DEF ToSet
<1>. QED BY <1>1, <1>4, <1>5, <1>6

(***************************************************************************)
(* Resolving an operand, which is a finite tree.                           *)
(***************************************************************************)
ResolvedFrom(operand, row, committed, value) ==
  LET args == NestedOperands(operand)
  IN  WithDefault(operand,
        Plain(operand, row, committed, [i \in DOMAIN args |-> value[args[i]]]))

(* The value of an operand depends only on the values of the operands      *)
(* nested in it.                                                           *)
LEMMA ResolvedAlike ==
  ASSUME NEW operand, NEW row, NEW committed, NEW f, NEW g,
         \A i \in DOMAIN NestedOperands(operand) :
           f[NestedOperands(operand)[i]] = g[NestedOperands(operand)[i]]
  PROVE  ResolvedFrom(operand, row, committed, f) = ResolvedFrom(operand, row, committed, g)
<1>1. PICK args : args = NestedOperands(operand)
  OBVIOUS
<1>2. [i \in DOMAIN args |-> f[args[i]]] = [i \in DOMAIN args |-> g[args[i]]]
  BY <1>1
<1>. QED BY <1>1, <1>2 DEF ResolvedFrom

(* Operands being trees, Resolution is the function its recursive          *)
(* definition describes.                                                   *)
LEMMA OperandsUnfold ==
  ASSUME OperandTrees, NEW row, NEW committed,
         NEW value, value = Resolution(row, committed), NEW operand \in Operands
  PROVE  value[operand] = ResolvedFrom(operand, row, committed, value)
<1> DEFINE step(o, f) == ResolvedFrom(o, row, committed, f)
           Below(k) == {o \in Operands : OperandDepth[o] < k}
           Fits(f, S) == f = [o \in S |-> step(o, f)]
           T == {k \in Nat : \E f : Fits(f, Below(k))}
<1>1. Cardinality(Operands) \in Nat
  BY FS_CardinalityType DEF OperandTrees
<1>2. \A o \in Operands : OperandDepth[o] \in Nat /\ OperandDepth[o] < Cardinality(Operands) + 1
  BY <1>1 DEF OperandTrees
<1>3. ASSUME NEW o \in Operands, NEW i \in DOMAIN NestedOperands(o)
      PROVE  /\ NestedOperands(o)[i] \in Operands
             /\ OperandDepth[NestedOperands(o)[i]] < OperandDepth[o]
  BY DEF OperandTrees
<1>4. 0 \in T
  <2>1. Below(0) = {}
    BY <1>2
  <2>2. PICK f : f = [o \in {} |-> {}]
    OBVIOUS
  <2>3. Fits(f, {})
    <3> HIDE DEF step
    <3>. QED BY <2>2
  <2>. QED BY <2>1, <2>3
<1>5. ASSUME NEW k \in Nat, k \in T PROVE k + 1 \in T
  <2>1. PICK f : f = [o \in Below(k) |-> step(o, f)]
    BY <1>5
  <2>2. PICK g : g = [o \in Below(k + 1) |-> step(o, f)]
    OBVIOUS
  <2>3. ASSUME NEW o \in Below(k) PROVE g[o] = f[o]
    <3>1. o \in Below(k + 1)
      BY <1>2
    <3> HIDE DEF step, Below
    <3>2. g[o] = step(o, f)
      BY <2>2, <3>1
    <3>3. f[o] = step(o, f)
      BY <2>1
    <3>. QED BY <3>2, <3>3
  <2>4. ASSUME NEW o \in Below(k + 1) PROVE step(o, f) = step(o, g)
    <3>1. ASSUME NEW i \in DOMAIN NestedOperands(o)
          PROVE  f[NestedOperands(o)[i]] = g[NestedOperands(o)[i]]
      <4>1. PICK arg : arg = NestedOperands(o)[i]
        OBVIOUS
      <4>2. arg \in Operands /\ OperandDepth[arg] < OperandDepth[o]
        BY <1>3, <4>1
      <4>3. arg \in Below(k)
        BY <1>2, <4>2
      <4>. QED BY <2>3, <4>1, <4>3
    <3>. QED BY <3>1, ResolvedAlike
  <2>5. g = [o \in Below(k + 1) |-> step(o, g)]
    <3> HIDE DEF step, Below
    <3>. QED BY <2>2, <2>4
  <2> HIDE DEF step, Below
  <2>. QED BY <2>5
<1>6. Nat \subseteq T
  <2> HIDE DEF T
  <2>. QED BY <1>4, <1>5, Inductive
<1>7. \E f : Fits(f, Operands)
  <2>1. Below(Cardinality(Operands) + 1) = Operands
    BY <1>2
  <2>2. Cardinality(Operands) + 1 \in T
    <3> HIDE DEF T
    <3>. QED BY <1>1, <1>6
  <2> HIDE DEF step, Below
  <2>. QED BY <2>1, <2>2
<1>8. value = CHOOSE f : Fits(f, Operands)
  BY DEF Resolution, ResolvedFrom
<1>9. Fits(value, Operands)
  <2> HIDE DEF Fits
  <2>. QED BY <1>7, <1>8
<1> HIDE DEF step
<1>10. value[operand] = step(operand, value)
  BY <1>9
<1>. QED BY <1>10 DEF step

(* What an operand that reads an assigned value resolves to.               *)
LEMMA AssignedResolves ==
  ASSUME OperandTrees, NEW row, NEW committed, NEW operand \in Operands,
         operand.kind = "assigned"
  PROVE  Resolve(operand, row, committed) = WithDefault(operand, committed[operand.name].value)
<1>1. PICK value : value = Resolution(row, committed)
  OBVIOUS
<1>2. value[operand] = ResolvedFrom(operand, row, committed, value)
  BY <1>1, OperandsUnfold
<1>3. \A resolved : Plain(operand, row, committed, resolved) = committed[operand.name].value
  BY DEF Plain
<1>. QED BY <1>1, <1>2, <1>3 DEF Resolve, ResolvedFrom

(* What a trace says of an evaluated operand that reads an assigned value. *)
NamesProducer(read, committed) ==
  LET held == committed[read.operand.name]
  IN  /\ read.operand.name \in Targets
      /\ read.produced_by_rule_id = held.rule_id
      /\ read.produced_by_assignment_id = held.assignment_id
      /\ read.value = WithDefault(read.operand, held.value)

(* A traced operand that reads an assigned value shows the value held and  *)
(* names its producer (_trace_operand in runtime.py).                      *)
LEMMA ReadsNameProducers ==
  ASSUME OperandTrees, NEW rule, WellFormedRule(rule), rule.active_flag,
         NEW row, NEW committed, NEW trace \in ToSet(ConditionTraces(rule, row, committed)),
         NEW read, read \in {trace.left, trace.right},
         read.evaluated, read.operand.kind = "assigned"
  PROVE  NamesProducer(read, committed)
<1>1. WellFormedGroups(rule.groups)
  BY DEF WellFormedRule
<1>2. PICK g \in 1 .. Len(rule.groups) : \E condition \in ToSet(rule.groups[g].conditions) :
        trace = ConditionTrace(condition, g, row, committed)
  BY <1>1, TracesOfConditions
<1>2a. PICK c \in ToSet(rule.groups[g].conditions) : trace = ConditionTrace(c, g, row, committed)
  BY <1>2
<1>3. PICK operand : /\ operand \in {c.left, c.right}
                     /\ read = IF c.active_flag THEN OperandTrace(operand, row, committed)
                               ELSE OperandMetadata(operand)
  BY <1>2a DEF ConditionTrace
<1>4. c.active_flag
  BY <1>3 DEF OperandMetadata
<1>5. g \in DOMAIN rule.groups
  BY <1>1, LenProperties DEF WellFormedGroups
<1>6. KnownOperand(operand)
  BY <1>3, <1>4, <1>5 DEF WellFormedRule
<1>7. read = OperandTrace(operand, row, committed)
  BY <1>3, <1>4
<1>8. read.operand = operand /\ read.value = Resolve(operand, row, committed)
  BY <1>7 DEF OperandTrace
<1>9. operand.kind = "assigned"
  BY <1>8
<1>10. /\ read.produced_by_rule_id = committed[operand.name].rule_id
       /\ read.produced_by_assignment_id = committed[operand.name].assignment_id
  BY <1>7, <1>9 DEF OperandTrace
<1>11. Resolve(operand, row, committed) = WithDefault(operand, committed[operand.name].value)
  BY <1>6, <1>9, AssignedResolves DEF KnownOperand
<1>. QED BY <1>6, <1>8, <1>9, <1>10, <1>11 DEF KnownOperand, NamesProducer

(***************************************************************************)
(* The outcome of a row: the states of the loop over the rules.            *)
(***************************************************************************)
IsLoop(after, rules, row) ==
  /\ after[0] = Start
  /\ \A k \in 1 .. Len(rules) : after[k] = AfterRule(after[k - 1], rules[k], row)

OutcomeOf(ruleset, end) ==
  LET values == IF end.error THEN Start.assigned_values ELSE end.assigned_values
  IN  [error |-> end.error,
       matched_rule_ids |-> IF end.error THEN <<>> ELSE end.matched_rule_ids,
       assign |-> [t \in AssignmentTargets(ruleset) |->
                     [applied |-> IsAssigned(values, t), value |-> values[t].value]]]

(* RowOutcome is what the loop ends with.                                  *)
LEMMA OutcomeUnfold ==
  ASSUME NEW ruleset, NEW row, NEW rules, rules = ActiveRules(ruleset),
         NEW n \in Nat, n = Len(rules)
  PROVE  \E after : /\ IsLoop(after, rules, row)
                    /\ RowOutcome(ruleset, row) = OutcomeOf(ruleset, after[n])
<1> DEFINE Next1(f, k) == AfterRule(f[k - 1], rules[k], row)
           Fits(f) == f = [k \in 0 .. n |-> IF k = 0 THEN Start ELSE Next1(f, k)]
           Upto(f, m) == /\ f = [k \in 0 .. n |-> f[k]]
                         /\ f[0] = Start /\ \A k \in 1 .. m : f[k] = Next1(f, k)
           T == {m \in Nat : m <= n => \E f : Upto(f, m)}
           after == CHOOSE f : Fits(f)
<1>1. 0 \in T
  <2>1. Upto([k \in 0 .. n |-> Start], 0)
    OBVIOUS
  <2>. QED BY <2>1
<1>2. ASSUME NEW m \in Nat, m \in T PROVE m + 1 \in T
  <2>1. SUFFICES ASSUME m + 1 <= n PROVE \E f : Upto(f, m + 1)
    OBVIOUS
  <2>2. PICK f : Upto(f, m)
    BY <1>2, <2>1
  <2> DEFINE g == [k \in 0 .. n |-> IF k = m + 1 THEN Next1(f, k) ELSE f[k]]
  <2>3. g = [k \in 0 .. n |-> g[k]] /\ g[0] = f[0]
    OBVIOUS
  <2>4. ASSUME NEW k \in 1 .. m + 1
        PROVE  g[k - 1] = f[k - 1] /\ g[k] = Next1(f, k)
    <3>1. k \in 0 .. n /\ k - 1 \in 0 .. n /\ k - 1 # m + 1
      BY <2>1
    <3>2. k # m + 1 => k \in 1 .. m
      OBVIOUS
    <3>. QED BY <2>2, <3>1, <3>2
  <2> HIDE DEF g
  <2>5. Upto(g, m + 1)
    BY <2>2, <2>3, <2>4
  <2>. QED BY <2>5
<1>3. PICK f : Upto(f, n)
  <2> HIDE DEF T
  <2>1. n \in T
    BY <1>1, <1>2, Inductive
  <2>. QED BY <2>1 DEF T
<1>4. Fits(f)
  <2>1. \A k \in 0 .. n : f[k] = IF k = 0 THEN Start ELSE Next1(f, k)
    <3>1. \A k \in 0 .. n : k # 0 => k \in 1 .. n
      OBVIOUS
    <3>. QED BY <1>3, <3>1
  <2> HIDE DEF Next1
  <2>. QED BY <1>3, <2>1
<1>5. Fits(after)
  <2> HIDE DEF Fits
  <2>. QED BY <1>4
<1>6. RowOutcome(ruleset, row) = OutcomeOf(ruleset, after[n])
  BY DEF RowOutcome, OutcomeOf
<1> HIDE DEF after
<1>7. after[0] = Start /\ \A k \in 1 .. n : after[k] = Next1(after, k)
  <2>1. 0 \in 0 .. n /\ \A k \in 1 .. n : k \in 0 .. n /\ k # 0
    OBVIOUS
  <2> HIDE DEF Next1
  <2>. QED BY <1>5, <2>1
<1>. QED BY <1>6, <1>7 DEF IsLoop

(* A rule that cannot be decided, or whose assignments cannot, fails the   *)
(* row; one that matches is recorded and its values are committed.         *)
LEMMA OneRule ==
  ASSUME NEW s, NEW rule, NEW row,
         NEW matches, matches = RuleMatches(rule, row, s.assigned_values), matches \in Matched,
         NEW proposed, proposed = ProposedValues(rule, row, s.assigned_values),
         NEW next, next = AfterRule(s, rule, row)
  PROVE  /\ s.stopped \/ s.error => next = s
         /\ ~s.stopped /\ ~s.error /\ matches = "false" => next = s
         /\ ~s.stopped /\ ~s.error /\ matches = "raised" => next = [s EXCEPT !.error = TRUE]
         /\ ~s.stopped /\ ~s.error /\ matches = "true" /\ Raised \in ToSet(proposed)
              => next = [s EXCEPT !.error = TRUE]
         /\ ~s.stopped /\ ~s.error /\ matches = "true" /\ Raised \notin ToSet(proposed)
              => next = [matched_rule_ids |-> Append(s.matched_rule_ids, rule.rule_id),
                         assigned_values |-> Commit(rule, proposed, s.assigned_values),
                         stopped |-> rule.stop_on_match, error |-> FALSE]
<1>1. PICK decided : decided = IF s.stopped \/ s.error THEN "false" ELSE matches
  OBVIOUS
<1>2. PICK values : values = Commit(rule, proposed, s.assigned_values)
  OBVIOUS
<1>3. PICK failed : failed = [s EXCEPT !.error = TRUE]
  OBVIOUS
<1>4. PICK made : made = [matched_rule_ids |-> Append(s.matched_rule_ids, rule.rule_id),
                          assigned_values |-> values,
                          stopped |-> rule.stop_on_match, error |-> FALSE]
  OBVIOUS
<1>5. next = CASE decided = "false" -> s
               [] decided = "raised" -> failed
               [] OTHER -> IF Raised \in ToSet(proposed) THEN failed ELSE made
  BY <1>1, <1>2, <1>3, <1>4 DEF AfterRule
<1>6. /\ decided = "false" => next = s
      /\ decided = "raised" => next = failed
      /\ decided = "true" => next = IF Raised \in ToSet(proposed) THEN failed ELSE made
  BY <1>5
<1>. QED BY <1>1, <1>2, <1>3, <1>4, <1>6 DEF Matched

(* Once the loop has stopped or failed nothing changes.                    *)
LEMMA LoopFrozen ==
  ASSUME NEW rules, Len(rules) \in Nat, NEW row, NEW after, IsLoop(after, rules, row),
         NEW i \in 0 .. Len(rules), after[i].stopped \/ after[i].error
  PROVE  after[Len(rules)] = after[i]
<1> DEFINE T == {k \in Nat : i + k <= Len(rules) => after[i + k] = after[i]}
<1>1. 0 \in T
  OBVIOUS
<1>2. ASSUME NEW k \in Nat, k \in T PROVE k + 1 \in T
  <2>1. SUFFICES ASSUME i + k + 1 <= Len(rules) PROVE after[i + k + 1] = after[i]
    OBVIOUS
  <2>2. after[i + k] = after[i] /\ i + k + 1 \in 1 .. Len(rules) /\ i + k + 1 - 1 = i + k
    BY <1>2, <2>1
  <2>3. after[i + k + 1] = AfterRule(after[i + k], rules[i + k + 1], row)
    BY <2>2 DEF IsLoop
  <2>. QED BY <2>2, <2>3 DEF AfterRule
<1>3. Len(rules) - i \in T
  <2> HIDE DEF T
  <2>1. Len(rules) - i \in Nat
    OBVIOUS
  <2>. QED BY <1>1, <1>2, <2>1, Inductive
<1>. QED BY <1>3

============================================================================
