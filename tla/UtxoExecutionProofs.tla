------------------------ MODULE UtxoExecutionProofs ------------------------
(***************************************************************************)
(* Proofs about the eUTXO execution layer: for any transactions, batches,  *)
(* genesis lists, blocks and length of the history.                        *)
(*                                                                         *)
(* NoDoubleSpend says nothing of the UTXO set, and is not inductive: it    *)
(* rests on where every UTXO came from.  Each set the node holds, and each *)
(* one a rollback can bring back, has a story, the UTXOs that were spent   *)
(* to make it.  Spent ids never return while the story goes on, so inputs  *)
(* of one receipt are new to the ones before.  Transactions that spend     *)
(* nothing are outside of that, but they make nothing of value either:     *)
(* nothing of value is ever written over, and total_value is the value of  *)
(* the set but for what a transaction listed again.  That is also why the  *)
(* layer implements CoinLedger.                                            *)
(***************************************************************************)
EXTENDS UtxoExecution, FiniteSetTheorems, TLAPS

-----------------------------------------------------------------------------
(***************************************************************************)
(* Folds.  The community modules define a fold by choosing a function on   *)
(* the sets of positions; counting up from the empty prefix shows what it  *)
(* is.                                                                     *)
(***************************************************************************)
\* Counting from 0 to n, a property of numbers being given as a set.
LEMMA CountUp ==
  ASSUME NEW n \in Nat, NEW S, 0 \in S, \A k \in 0 .. n - 1 : k \in S => k + 1 \in S
  PROVE  \A k \in 0 .. n : k \in S
<1> DEFINE bad == {k \in 0 .. n : k \notin S}
<1> SUFFICES ASSUME bad # {} PROVE FALSE
  OBVIOUS
<1>1. bad \subseteq Nat
  OBVIOUS
<1>2. \A x, y \in Nat : <<y, x>> \in OpToRel(<, Nat) <=> y < x
  BY DEF OpToRel
<1> HIDE DEF bad
<1>3. PICK x \in bad : \A y \in bad : ~(<<y, x>> \in OpToRel(<, Nat))
  BY <1>1, WFMin, NatLessThanWellFounded
<1>4. x \in Nat /\ \A y \in bad : ~(y < x)
  BY <1>1, <1>2, <1>3
<1>5. x \in 0 .. n /\ x \notin S
  BY <1>3 DEF bad
<1>6. x # 0
  BY <1>5
<1>7. x - 1 \in 0 .. n - 1 /\ x - 1 \notin bad
  BY <1>4, <1>5, <1>6
<1>8. x - 1 \in S
  BY <1>7 DEF bad
<1> QED BY <1>5, <1>7, <1>8

\* The Max of the community modules, on positions of a list.
LEMMA MaxOfPositions ==
  ASSUME NEW n \in Nat, NEW s \in SUBSET (1 .. n), s # {}
  PROVE  Max(s) \in s /\ \A i \in s : i <= Max(s)
<1> DEFINE S == {k \in 0 .. n : \A t \in SUBSET (1 .. k) :
                    t # {} => \E x \in t : \A i \in t : i <= x}
<1>1. 0 \in S
  <2>1. \A t \in SUBSET (1 .. 0) : t = {}
    OBVIOUS
  <2>2. \A t \in SUBSET (1 .. 0) : t # {} => \E x \in t : \A i \in t : i <= x
    BY <2>1
  <2>3. 0 \in 0 .. n
    OBVIOUS
  <2> QED BY <2>2, <2>3
<1>2. ASSUME NEW k \in 0 .. n - 1, k \in S PROVE k + 1 \in S
  <2> SUFFICES ASSUME NEW t \in SUBSET (1 .. k + 1), t # {}
               PROVE  \E x \in t : \A i \in t : i <= x
    BY <1>2
  <2>1. CASE k + 1 \in t
    BY <2>1
  <2>2. CASE k + 1 \notin t
    <3>1. t \in SUBSET (1 .. k)
      BY <2>2
    <3> QED BY <1>2, <3>1
  <2> QED BY <2>1, <2>2
<1> HIDE DEF S
<1>3. n \in S
  BY <1>1, <1>2, CountUp
<1>4. \E x \in s : \A i \in s : i <= x
  BY <1>3 DEF S
<1> QED BY <1>4 DEF Max

\* What a fold from the left is made of: a value for each set of positions.
FoldSteps(n, V, base, F, g) ==
  /\ g \in [SUBSET (1 .. n) -> V]
  /\ \A s \in SUBSET (1 .. n) :
       g[s] = IF s = {} THEN base ELSE F[<<g[s \ {Max(s)}], Max(s)>>]

\* There is such a table of values, one set of positions after the other.
LEMMA StepsExist ==
  ASSUME NEW n \in Nat, NEW V, NEW base \in V, NEW F \in [V \X (1 .. n) -> V]
  PROVE  \E g : FoldSteps(n, V, base, F, g)
<1> DEFINE Steps(k, g) == FoldSteps(k, V, base, F, g)
           S == {k \in 0 .. n : \E g : Steps(k, g)}
<1>1. 0 \in S
  <2> DEFINE g == [s \in SUBSET (1 .. 0) |-> base]
  <2>1. \A s \in SUBSET (1 .. 0) : s = {}
    OBVIOUS
  <2>2. Steps(0, g)
    BY <2>1 DEF FoldSteps
  <2> HIDE DEF g, Steps
  <2> QED BY <2>2
<1>2. ASSUME NEW k \in 0 .. n - 1, k \in S PROVE k + 1 \in S
  <2>1. PICK g : Steps(k, g)
    BY <1>2
  <2> DEFINE h == [s \in SUBSET (1 .. k + 1) |->
                     IF k + 1 \in s THEN F[<<g[s \ {k + 1}], k + 1>>] ELSE g[s]]
  <2>2. \A s \in SUBSET (1 .. k + 1) : k + 1 \in s => s \ {k + 1} \in SUBSET (1 .. k)
    OBVIOUS
  <2>3. \A s \in SUBSET (1 .. k + 1) : k + 1 \notin s => s \in SUBSET (1 .. k)
    OBVIOUS
  <2>4. h \in [SUBSET (1 .. k + 1) -> V]
    BY <2>1, <2>2, <2>3 DEF FoldSteps
  <2>5. ASSUME NEW s \in SUBSET (1 .. k + 1)
        PROVE  h[s] = IF s = {} THEN base ELSE F[<<h[s \ {Max(s)}], Max(s)>>]
    <3> USE <2>1 DEF FoldSteps
    <3>1. CASE k + 1 \in s
      <4>1. Max(s) = k + 1
        <5>1. k + 1 \in Nat /\ s # {}
          BY <3>1
        <5>2. Max(s) \in s /\ \A i \in s : i <= Max(s)
          BY <5>1, MaxOfPositions
        <5>3. Max(s) \in 1 .. k + 1 /\ k + 1 <= Max(s)
          BY <3>1, <5>2
        <5> QED BY <5>3
      <4>2. h[s \ {k + 1}] = g[s \ {k + 1}]
        BY <2>2, <3>1
      <4> QED BY <3>1, <4>1, <4>2
    <3>2. CASE k + 1 \notin s
      <4>1. s \in SUBSET (1 .. k) /\ h[s] = g[s]
        BY <2>3, <3>2
      <4>2. CASE s = {}
        BY <2>1, <4>1, <4>2
      <4>3. CASE s # {}
        <5>1. s \ {Max(s)} \in SUBSET (1 .. k)
          BY <4>1
        <5>2. h[s \ {Max(s)}] = g[s \ {Max(s)}]
          BY <5>1
        <5>3. g[s] = F[<<g[s \ {Max(s)}], Max(s)>>]
          BY <2>1, <4>1, <4>3
        <5> QED BY <4>1, <4>3, <5>2, <5>3, Zenon
      <4> QED BY <4>2, <4>3
    <3> QED BY <3>1, <3>2
  <2> HIDE DEF h
  <2>6. Steps(k + 1, h)
    BY <2>4, <2>5 DEF FoldSteps
  <2> HIDE DEF Steps
  <2> QED BY <2>6
<1> HIDE DEF S
<1>3. n \in S
  BY <1>1, <1>2, CountUp
<1> QED BY <1>3 DEF S

\* The last position of a prefix, and the prefix before it.
LEMMA PrefixSteps ==
  ASSUME NEW n \in Nat, NEW k \in 1 .. n
  PROVE  /\ 1 .. k \in SUBSET (1 .. n) /\ 1 .. k # {} /\ Max(1 .. k) = k
         /\ (1 .. k) \ {k} = 1 .. k - 1
<1>1. 1 .. k \in SUBSET (1 .. n) /\ 1 .. k # {} /\ k \in 1 .. k
  OBVIOUS
<1>2. Max(1 .. k) = k
  <2>1. Max(1 .. k) \in 1 .. k /\ \A i \in 1 .. k : i <= Max(1 .. k)
    BY <1>1, MaxOfPositions
  <2>2. k <= Max(1 .. k)
    BY <1>1, <2>1
  <2> QED BY <2>1, <2>2
<1>3. (1 .. k) \ {k} = 1 .. k - 1
  OBVIOUS
<1> QED BY <1>1, <1>2, <1>3

\* SumOf adds the values up from the left.
LEMMA SumOfRuns ==
  ASSUME NEW n \in Nat, NEW f \in [1 .. n -> Nat]
  PROVE  \E acc \in [0 .. n -> Nat] :
           /\ acc[0] = 0 /\ acc[n] = SumOf(f)
           /\ \A k \in 1 .. n : acc[k] = acc[k - 1] + f[k]
<1> DEFINE R(g) == g = [s \in SUBSET (DOMAIN f) |->
                          IF s = {} THEN 0 ELSE LET x == Max(s) IN g[s \ {x}] + f[x]]
           F == [p \in Nat \X (1 .. n) |-> p[1] + f[p[2]]]
<1>1. SumOf(f) = (CHOOSE g : R(g))[DOMAIN f]
  BY DEF SumOf, FoldLeft, MapThenFoldSet
<1>2. F \in [Nat \X (1 .. n) -> Nat]
  OBVIOUS
<1>3. PICK g : FoldSteps(n, Nat, 0, F, g)
  <2>1. 0 \in Nat
    OBVIOUS
  <2> HIDE DEF F
  <2> QED BY <1>2, <2>1, StepsExist
<1>4. R(g)
  <2>1. ASSUME NEW s \in SUBSET (1 .. n), s # {}
        PROVE  g[s] = g[s \ {Max(s)}] + f[Max(s)]
    <3>1. Max(s) \in 1 .. n /\ g[s \ {Max(s)}] \in Nat
      BY <1>3, <2>1, MaxOfPositions DEF FoldSteps
    <3> QED BY <1>3, <2>1, <3>1 DEF FoldSteps
  <2>2. g = [s \in SUBSET (1 .. n) |-> g[s]]
    BY <1>3 DEF FoldSteps
  <2>3. \A s \in SUBSET (1 .. n) : g[s] = IF s = {} THEN 0 ELSE LET x == Max(s) IN g[s \ {x}] + f[x]
    BY <1>3, <2>1 DEF FoldSteps
  <2> QED BY <2>2, <2>3
<1>5. PICK h : h = (CHOOSE k : R(k)) /\ R(h)
  BY <1>4
<1>6. h[1 .. 0] = 0
  <2>1. 1 .. 0 = {}
    OBVIOUS
  <2> QED BY <1>5, <2>1
<1>7. ASSUME NEW k \in 1 .. n PROVE h[1 .. k] = h[1 .. k - 1] + f[k]
  <2>1. /\ 1 .. k \in SUBSET (1 .. n) /\ 1 .. k # {} /\ Max(1 .. k) = k
        /\ (1 .. k) \ {k} = 1 .. k - 1
    BY PrefixSteps
  <2>2. h[1 .. k] = h[(1 .. k) \ {k}] + f[k]
    BY <1>5, <2>1
  <2> QED BY <2>1, <2>2, Zenon
<1> DEFINE S == {k \in 0 .. n : h[1 .. k] \in Nat}
<1>8. 0 \in S
  BY <1>6
<1>9. ASSUME NEW k \in 0 .. n - 1, k \in S PROVE k + 1 \in S
  <2>1. k + 1 \in 1 .. n /\ (k + 1) - 1 = k
    OBVIOUS
  <2> QED BY <1>7, <1>9, <2>1
<1> HIDE DEF S
<1>10. \A k \in 0 .. n : k \in S
  BY <1>8, <1>9, CountUp
<1> DEFINE acc == [k \in 0 .. n |-> h[1 .. k]]
<1>11. acc \in [0 .. n -> Nat]
  BY <1>10 DEF S
<1>12. acc[0] = 0 /\ acc[n] = SumOf(f)
  BY <1>1, <1>5, <1>6
<1>13. \A k \in 1 .. n : acc[k] = acc[k - 1] + f[k]
  BY <1>7
<1> HIDE DEF acc
<1> QED BY <1>11, <1>12, <1>13

\* A sum is positive exactly when something in it is.
LEMMA SumPositive ==
  ASSUME NEW n \in Nat, NEW f \in [1 .. n -> Nat]
  PROVE  SumOf(f) > 0 <=> \E i \in 1 .. n : f[i] > 0
<1>1. PICK acc \in [0 .. n -> Nat] :
        acc[0] = 0 /\ acc[n] = SumOf(f) /\ \A k \in 1 .. n : acc[k] = acc[k - 1] + f[k]
  BY SumOfRuns
<1> DEFINE S == {k \in 0 .. n : acc[k] > 0 <=> \E i \in 1 .. k : f[i] > 0}
<1>2. 0 \in S
  BY <1>1
<1>3. ASSUME NEW k \in 0 .. n - 1, k \in S PROVE k + 1 \in S
  <2>1. /\ k \in 0 .. n /\ k + 1 \in 0 .. n /\ k + 1 \in 1 .. n /\ (k + 1) - 1 = k
        /\ \A i \in 1 .. k + 1 : i \in 1 .. k \/ i = k + 1
    OBVIOUS
  <2>2. acc[k + 1] = acc[k] + f[k + 1] /\ acc[k] \in Nat /\ f[k + 1] \in Nat
    BY <1>1, <2>1
  <2>3. acc[k + 1] > 0 <=> acc[k] > 0 \/ f[k + 1] > 0
    BY <2>2
  <2>4. (\E i \in 1 .. k + 1 : f[i] > 0) <=> (\E i \in 1 .. k : f[i] > 0) \/ f[k + 1] > 0
    BY <2>1
  <2> QED BY <1>3, <2>1, <2>3, <2>4
<1> HIDE DEF S
<1>4. n \in S
  <2>1. \A k \in 0 .. n : k \in S
    BY <1>2, <1>3, CountUp
  <2> QED BY <2>1
<1> QED BY <1>1, <1>4 DEF S

-----------------------------------------------------------------------------
(***************************************************************************)
(* The worth of a part of a UTXO map, which is what total_value has to be. *)
(* The fold picks the UTXOs in an order nobody knows: the order makes no   *)
(* difference.                                                             *)
(***************************************************************************)
\* What the UTXOs T of the map u are worth, as TotalIsSumIn adds it up.
Worth(u, T) == FoldFunctionOnSet(LAMBDA utxo, acc : utxo.value + acc, 0, u, T)

\* The UTXO that the fold takes first, and the table it chooses.
Pick(s) == CHOOSE y \in s : TRUE

WorthSteps(u, T, g) ==
  g = [s \in SUBSET T |-> IF s = {} THEN 0
                          ELSE LET x == Pick(s) IN u[x].value + g[s \ {x}]]

\* Worth is the entry of the table for the whole set.
LEMMA WorthIsChosen ==
  ASSUME NEW u, NEW T
  PROVE  Worth(u, T) = (CHOOSE g : WorthSteps(u, T, g))[T]
BY DEF Worth, FoldFunctionOnSet, MapThenFoldSet, WorthSteps, Pick

\* One element less.
LEMMA SmallerWithout ==
  ASSUME NEW T, IsFiniteSet(T), NEW s \in SUBSET T, NEW x \in s
  PROVE  /\ IsFiniteSet(s) /\ Cardinality(s) \in Nat
         /\ s \ {x} \in SUBSET T
         /\ Cardinality(s \ {x}) = Cardinality(s) - 1
<1>1. IsFiniteSet(s)
  BY FS_Subset
<1> QED BY <1>1, FS_CardinalityType, FS_RemoveElement

\* There is such a table.
LEMMA WorthExists ==
  ASSUME NEW u, NEW T, IsFiniteSet(T), \A x \in T : u[x].value \in Nat
  PROVE  \E g : WorthSteps(u, T, g)
<1> DEFINE n == Cardinality(T)
           Upto(k) == {s \in SUBSET T : Cardinality(s) <= k}
           Steps(k, g) ==
             /\ g \in [Upto(k) -> Nat]
             /\ \A s \in Upto(k) : g[s] = IF s = {} THEN 0
                                          ELSE u[Pick(s)].value + g[s \ {Pick(s)}]
           S == {k \in 0 .. n : \E g : Steps(k, g)}
<1>0. n \in Nat
  BY FS_CardinalityType
<1>a. ASSUME NEW s \in SUBSET T, s # {}
      PROVE  /\ Pick(s) \in s /\ u[Pick(s)].value \in Nat
             /\ s \ {Pick(s)} \in SUBSET T
             /\ Cardinality(s) \in Nat
             /\ Cardinality(s \ {Pick(s)}) = Cardinality(s) - 1
  <2>1. Pick(s) \in s
    BY <1>a DEF Pick
  <2> QED BY <2>1, SmallerWithout
<1>b. \A s \in SUBSET T : Cardinality(s) \in Nat /\ (Cardinality(s) = 0 <=> s = {})
  <2> TAKE s \in SUBSET T
  <2>1. IsFiniteSet(s)
    BY FS_Subset
  <2> QED BY <2>1, FS_CardinalityType, FS_EmptySet
<1>1. 0 \in S
  <2> DEFINE g == [s \in Upto(0) |-> 0]
  <2>1. \A s \in Upto(0) : s = {}
    BY <1>b
  <2>2. Steps(0, g)
    BY <2>1
  <2> HIDE DEF g, Steps
  <2> QED BY <1>0, <2>2
<1>2. ASSUME NEW k \in 0 .. n - 1, k \in S PROVE k + 1 \in S
  <2>1. PICK g : Steps(k, g)
    BY <1>2
  <2> DEFINE h == [s \in Upto(k + 1) |-> IF s = {} THEN 0
                                         ELSE u[Pick(s)].value + g[s \ {Pick(s)}]]
  <2>2. ASSUME NEW s \in Upto(k + 1), s # {}
        PROVE  s \ {Pick(s)} \in Upto(k) /\ s \ {Pick(s)} \in Upto(k + 1)
    BY <1>a, <2>2
  <2>3. h \in [Upto(k + 1) -> Nat]
    <3> SUFFICES ASSUME NEW s \in Upto(k + 1), s # {}
                 PROVE  u[Pick(s)].value + g[s \ {Pick(s)}] \in Nat
      OBVIOUS
    <3>1. g[s \ {Pick(s)}] \in Nat
      BY <2>1, <2>2
    <3> QED BY <1>a, <3>1
  <2>4. \A s \in Upto(k) : s \in Upto(k + 1) /\ h[s] = g[s]
    <3> TAKE s \in Upto(k)
    <3>1. s \in Upto(k + 1)
      BY <1>b
    <3>2. h[s] = IF s = {} THEN 0 ELSE u[Pick(s)].value + g[s \ {Pick(s)}]
      BY <3>1
    <3>3. g[s] = IF s = {} THEN 0 ELSE u[Pick(s)].value + g[s \ {Pick(s)}]
      BY <2>1
    <3> QED BY <3>1, <3>2, <3>3
  <2>5. ASSUME NEW s \in Upto(k + 1)
        PROVE  h[s] = IF s = {} THEN 0 ELSE u[Pick(s)].value + h[s \ {Pick(s)}]
    <3>1. h[s] = IF s = {} THEN 0 ELSE u[Pick(s)].value + g[s \ {Pick(s)}]
      OBVIOUS
    <3>2. s # {} => h[s \ {Pick(s)}] = g[s \ {Pick(s)}]
      BY <2>2, <2>4
    <3> HIDE DEF h
    <3> QED BY <3>1, <3>2, Zenon
  <2> HIDE DEF h
  <2>6. Steps(k + 1, h)
    BY <2>3, <2>5
  <2> HIDE DEF Steps
  <2> QED BY <1>0, <2>6
<1> HIDE DEF S
<1>3. n \in S
  BY <1>0, <1>1, <1>2, CountUp
<1>4. PICK g : Steps(n, g)
  BY <1>3 DEF S
<1>5. Upto(n) = SUBSET T
  <2>1. \A s \in SUBSET T : Cardinality(s) <= n
    BY FS_Subset
  <2> QED BY <2>1
<1>6. g = [s \in SUBSET T |-> g[s]]
  BY <1>4, <1>5
<1>7. \A s \in SUBSET T : g[s] = IF s = {} THEN 0 ELSE LET x == Pick(s) IN u[x].value + g[s \ {x}]
  BY <1>4, <1>5
<1>8. WorthSteps(u, T, g)
  BY <1>6, <1>7 DEF WorthSteps
<1> QED BY <1>8

\* The order in which the elements are picked makes no difference.
AnyOrder(u, T, g) ==
  \A s \in SUBSET T : g[s] \in Nat /\ \A x \in s : g[s] = u[x].value + g[s \ {x}]

LEMMA WorthOrder ==
  ASSUME NEW u, NEW T, IsFiniteSet(T), \A x \in T : u[x].value \in Nat,
         NEW g, WorthSteps(u, T, g)
  PROVE  AnyOrder(u, T, g)
<1> DEFINE n == Cardinality(T)
           Fits(s) == g[s] \in Nat /\ \A x \in s : g[s] = u[x].value + g[s \ {x}]
           S == {k \in 0 .. n : \A s \in SUBSET T : Cardinality(s) <= k => Fits(s)}
<1>0. n \in Nat
  BY FS_CardinalityType
<1>a. g[{}] = 0
  BY DEF WorthSteps
<1>b. \A s \in SUBSET T : Cardinality(s) \in Nat /\ (Cardinality(s) = 0 <=> s = {})
  <2> TAKE s \in SUBSET T
  <2>1. IsFiniteSet(s)
    BY FS_Subset
  <2> QED BY <2>1, FS_CardinalityType, FS_EmptySet
<1>1. 0 \in S
  BY <1>0, <1>a, <1>b
<1>2. ASSUME NEW k \in 0 .. n - 1, k \in S PROVE k + 1 \in S
  <2> SUFFICES ASSUME NEW s \in SUBSET T, Cardinality(s) <= k + 1, s # {} PROVE Fits(s)
    BY <1>0, <1>a
  <2> DEFINE c == Pick(s)
  <2>1. c \in s
    BY DEF Pick
  <2>2. g[s] = u[c].value + g[s \ {c}]
    BY DEF WorthSteps
  <2> HIDE DEF c
  <2>3. ASSUME NEW x \in s PROVE s \ {x} \in SUBSET T /\ Fits(s \ {x})
    <3>1. s \ {x} \in SUBSET T /\ Cardinality(s \ {x}) <= k
      BY <1>b, SmallerWithout
    <3> HIDE DEF Fits
    <3> QED BY <1>2, <3>1
  <2>4. g[s] \in Nat
    BY <2>1, <2>2, <2>3
  <2>5. ASSUME NEW x \in s PROVE g[s] = u[x].value + g[s \ {x}]
    <3>1. CASE x = c
      BY <2>2, <3>1
    <3>2. CASE x # c
      <4>1. g[s \ {c}] = u[x].value + g[(s \ {c}) \ {x}]
        BY <2>1, <2>3, <3>2
      <4>2. g[s \ {x}] = u[c].value + g[(s \ {x}) \ {c}]
        BY <2>1, <2>3, <3>2
      <4>3. (s \ {c}) \ {x} = (s \ {x}) \ {c}
        OBVIOUS
      <4>4. u[x].value \in Nat /\ u[c].value \in Nat /\ g[(s \ {x}) \ {c}] \in Nat
        <5>1. c \in s \ {x}
          BY <2>1, <3>2
        <5>2. g[s \ {x}] \in Nat /\ s \ {x} \in SUBSET T
          BY <2>3
        <5>3. (s \ {x}) \ {c} \in SUBSET T /\ Cardinality((s \ {x}) \ {c}) <= k
          <6>1. /\ Cardinality(s \ {x}) = Cardinality(s) - 1
                /\ Cardinality(s) \in Nat
            BY SmallerWithout
          <6>2. Cardinality((s \ {x}) \ {c}) = Cardinality(s \ {x}) - 1
            BY <5>1, <5>2, SmallerWithout
          <6> QED BY <5>2, <6>1, <6>2
        <5> QED BY <1>2, <2>1, <5>3
      <4>5. g[s \ {c}] = u[x].value + g[(s \ {x}) \ {c}]
        BY <4>1, <4>3, Zenon
      <4>6. PICK r, a, b \in Nat : /\ r = g[(s \ {x}) \ {c}]
                                  /\ a = u[x].value /\ b = u[c].value
        BY <4>4
      <4>7. g[s] = b + (a + r)
        BY <2>2, <4>5, <4>6, Zenon
      <4>8. u[x].value + g[s \ {x}] = a + (b + r)
        BY <4>2, <4>6, Zenon
      <4> QED BY <4>6, <4>7, <4>8
    <3> QED BY <3>1, <3>2
  <2> QED BY <2>4, <2>5
<1> HIDE DEF S
<1>3. n \in S
  BY <1>0, <1>1, <1>2, CountUp
<1>4. \A s \in SUBSET T : Cardinality(s) <= n
  BY FS_Subset
<1> QED BY <1>3, <1>4 DEF S, AnyOrder

\* Two maps that agree on some UTXOs give them the same worth.
LEMMA WorthAgree ==
  ASSUME NEW W, IsFiniteSet(W), NEW u, NEW v, NEW T, NEW U, NEW g, NEW h,
         WorthSteps(u, T, g), WorthSteps(v, U, h),
         W \subseteq T, W \subseteq U, \A x \in W : u[x].value = v[x].value
  PROVE  g[W] = h[W]
<1> DEFINE n == Cardinality(W)
           S == {k \in 0 .. n : \A s \in SUBSET W : Cardinality(s) <= k => g[s] = h[s]}
<1>0. n \in Nat
  BY FS_CardinalityType
<1>a. g[{}] = 0 /\ h[{}] = 0
  BY DEF WorthSteps
<1>b. \A s \in SUBSET W : Cardinality(s) \in Nat /\ (Cardinality(s) = 0 <=> s = {})
  <2> TAKE s \in SUBSET W
  <2>1. IsFiniteSet(s)
    BY FS_Subset
  <2> QED BY <2>1, FS_CardinalityType, FS_EmptySet
<1>1. 0 \in S
  BY <1>0, <1>a, <1>b
<1>2. ASSUME NEW k \in 0 .. n - 1, k \in S PROVE k + 1 \in S
  <2>0. k + 1 \in 0 .. n
    BY <1>0
  <2> SUFFICES ASSUME NEW s \in SUBSET W, Cardinality(s) <= k + 1 PROVE g[s] = h[s]
    BY <2>0
  <2> SUFFICES ASSUME s # {} PROVE g[s] = h[s]
    BY <1>a
  <2>1. PICK c \in s : c = Pick(s)
    BY DEF Pick
  <2>2. g[s] = u[c].value + g[s \ {c}]
    BY <2>1 DEF WorthSteps
  <2>3. h[s] = v[c].value + h[s \ {c}]
    BY <2>1 DEF WorthSteps
  <2>4. s \ {c} \in SUBSET W /\ Cardinality(s \ {c}) <= k
    BY <1>b, SmallerWithout
  <2>5. g[s \ {c}] = h[s \ {c}] /\ u[c].value = v[c].value
    BY <1>2, <2>4
  <2> QED BY <2>2, <2>3, <2>5, Zenon
<1> HIDE DEF S
<1>3. n \in S
  BY <1>0, <1>1, <1>2, CountUp
<1> QED BY <1>0, <1>3 DEF S

\* Worth, read from a table that exists.
LEMMA WorthOf ==
  ASSUME NEW u, NEW T, IsFiniteSet(T), \A x \in T : u[x].value \in Nat
  PROVE  \E g : WorthSteps(u, T, g) /\ Worth(u, T) = g[T]
<1>1. \E g : WorthSteps(u, T, g)
  BY WorthExists
<1> QED BY <1>1, WorthIsChosen, Zenon

\* Nothing is worth nothing.
LEMMA WorthEmpty == \A u : Worth(u, {}) = 0
<1> TAKE u
<1>1. \A x \in {} : u[x].value \in Nat
  OBVIOUS
<1>2. PICK g : WorthSteps(u, {}, g) /\ Worth(u, {}) = g[{}]
  BY <1>1, WorthOf, FS_EmptySet
<1> QED BY <1>2 DEF WorthSteps

\* Worth is an amount.
LEMMA WorthNat ==
  ASSUME NEW u, NEW T, IsFiniteSet(T), \A x \in T : u[x].value \in Nat
  PROVE  Worth(u, T) \in Nat
<1>1. PICK g : WorthSteps(u, T, g) /\ Worth(u, T) = g[T]
  BY WorthOf
<1> QED BY <1>1, WorthOrder DEF AnyOrder

\* UTXOs that keep their values keep their worth.
LEMMA WorthSame ==
  ASSUME NEW u, NEW v, NEW T, IsFiniteSet(T),
         \A y \in T : u[y].value \in Nat /\ v[y].value = u[y].value
  PROVE  Worth(v, T) = Worth(u, T)
<1>1. PICK g : WorthSteps(u, T, g) /\ Worth(u, T) = g[T]
  BY WorthOf
<1>2. PICK h : WorthSteps(v, T, h) /\ Worth(v, T) = h[T]
  BY WorthOf
<1> QED BY <1>1, <1>2, WorthAgree
\* One more UTXO counts for what it is worth.
LEMMA WorthAdd ==
  ASSUME NEW u, NEW U, NEW x \in U, NEW T, T = U \ {x}, IsFiniteSet(U),
         \A y \in U : u[y].value \in Nat
  PROVE  Worth(u, U) = Worth(u, T) + u[x].value
<1>1. IsFiniteSet(T) /\ \A y \in T : u[y].value \in Nat
  BY FS_RemoveElement
<1>2. PICK g : WorthSteps(u, T, g) /\ Worth(u, T) = g[T]
  BY <1>1, WorthOf
<1>3. PICK h : WorthSteps(u, U, h) /\ Worth(u, U) = h[U]
  BY WorthOf
<1>4. U \ {x} = T /\ x \in U /\ T \subseteq U /\ U \in SUBSET U
  OBVIOUS
<1>5. h[U] = u[x].value + h[U \ {x}]
  <2>1. AnyOrder(u, U, h)
    BY <1>3, WorthOrder
  <2> QED BY <1>4, <2>1 DEF AnyOrder
<1>6. \A y \in T : u[y].value = u[y].value
  OBVIOUS
<1>7. g[T] = h[T]
  BY <1>1, <1>2, <1>3, <1>4, <1>6, WorthAgree
<1>8. g[T] \in Nat /\ u[x].value \in Nat
  BY <1>1, <1>2, <1>4, WorthOrder DEF AnyOrder
<1>9. h[U] = u[x].value + g[T]
  BY <1>4, <1>5, <1>7, Zenon
<1> QED BY <1>2, <1>3, <1>8, <1>9

-----------------------------------------------------------------------------
(***************************************************************************)
(* The folds of the model over lists, one accumulated value per position.  *)
(***************************************************************************)
\* h follows the table F wherever its values are in V; acc are the values that
\* a fold which does so goes through.
Follows(n, V, base, F, h) ==
  /\ h[{}] = base
  /\ \A s \in SUBSET (1 .. n) : s # {} /\ h[s \ {Max(s)}] \in V
       => h[s] = F[<<h[s \ {Max(s)}], Max(s)>>]

FoldRun(n, V, base, F, h, acc) ==
  /\ acc \in [0 .. n -> V] /\ acc[0] = base /\ acc[n] = h[1 .. n]
  /\ \A k \in 1 .. n : acc[k] = F[<<acc[k - 1], k>>]

\* Such a fold goes through a value of V at every position.
LEMMA FoldRuns ==
  ASSUME NEW n \in Nat, NEW V, NEW base \in V, NEW F \in [V \X (1 .. n) -> V],
         NEW h, Follows(n, V, base, F, h)
  PROVE  \E acc : FoldRun(n, V, base, F, h, acc)
<1> DEFINE S == {k \in 0 .. n : h[1 .. k] \in V}
           acc == [k \in 0 .. n |-> h[1 .. k]]
<1>1. h[1 .. 0] = base
  <2>1. 1 .. 0 = {}
    OBVIOUS
  <2> QED BY <2>1 DEF Follows
<1>2. ASSUME NEW k \in 1 .. n, h[1 .. k - 1] \in V
      PROVE  h[1 .. k] = F[<<h[1 .. k - 1], k>>] /\ h[1 .. k] \in V
  <2>1. /\ 1 .. k \in SUBSET (1 .. n) /\ 1 .. k # {} /\ Max(1 .. k) = k
        /\ (1 .. k) \ {k} = 1 .. k - 1
    BY PrefixSteps
  <2>2. h[1 .. k] = F[<<h[1 .. k - 1], k>>]
    BY <1>2, <2>1 DEF Follows
  <2> QED BY <1>2, <2>2
<1>3. 0 \in S
  BY <1>1
<1>4. ASSUME NEW k \in 0 .. n - 1, k \in S PROVE k + 1 \in S
  <2>1. k + 1 \in 1 .. n /\ (k + 1) - 1 = k
    OBVIOUS
  <2>2. h[1 .. (k + 1) - 1] \in V
    BY <1>4, <2>1
  <2>3. h[1 .. k + 1] \in V
    BY <1>2, <2>1, <2>2
  <2> QED BY <2>1, <2>3
<1> HIDE DEF S
<1>5. \A k \in 0 .. n : k \in S
  BY <1>3, <1>4, CountUp
<1>6. acc \in [0 .. n -> V] /\ acc[0] = base /\ acc[n] = h[1 .. n]
  BY <1>1, <1>5 DEF S
<1>7. ASSUME NEW k \in 1 .. n PROVE acc[k] = F[<<acc[k - 1], k>>]
  <2>1. k - 1 \in 0 .. n /\ acc[k - 1] = h[1 .. k - 1] /\ acc[k] = h[1 .. k]
    OBVIOUS
  <2>2. h[1 .. k - 1] \in V
    BY <1>5, <2>1 DEF S
  <2> QED BY <1>2, <2>1, <2>2
<1> HIDE DEF acc
<1>8. FoldRun(n, V, base, F, h, acc)
  BY <1>6, <1>7 DEF FoldRun
<1> QED BY <1>8

\* The types of the data.
Utxo     == [value : Nat, locked : BOOLEAN]
UtxoMaps == UNION {[D -> Utxo] : D \in SUBSET UtxoIds}
UtxoSets == [utxos : UtxoMaps, total : Int, forged : Nat]
Receipts == [tx : Txs, success : BOOLEAN, consumed : Seq(UtxoIds), created : SUBSET UtxoIds]
Entries  == [key : {GenesisCall} \X Nat, id : UtxoIds, value : Nat, locked : BOOLEAN]

\* One step of each fold: a receipt is replayed, its fee is charged, an entry
\* of the genesis is inserted.
Replayed(ids, r) == IF r.success THEN (ids \ ToSet(r.consumed)) \cup r.created ELSE ids

Charged(sum, r) == IF r.success THEN sum + Body[r.tx].fee ELSE sum

Inserted(utxos, e) == Insert(utxos, e.key, [value |-> e.value, locked |-> e.locked])

\* Each step stays within its type.
LEMMA ReplayedClosed == \A ids \in SUBSET UtxoIds, r \in Receipts : Replayed(ids, r) \in SUBSET UtxoIds
BY DEF Replayed, Receipts

LEMMA ChargedClosed == \A sum \in Nat, r \in Receipts : Charged(sum, r) \in Nat
BY TxAssumption DEF Charged, Receipts

LEMMA InsertedClosed == \A utxos \in UtxoMaps, e \in Entries : Inserted(utxos, e) \in UtxoMaps
<1> TAKE utxos \in UtxoMaps, e \in Entries
<1>1. PICK D \in SUBSET UtxoIds : utxos \in [D -> Utxo]
  BY DEF UtxoMaps
<1>2. e.key \in UtxoIds /\ e.value \in Nat /\ e.locked \in BOOLEAN
  BY DEF Entries, UtxoIds, MintedIds
<1>3. Inserted(utxos, e) \in [D \cup {e.key} -> Utxo]
  BY <1>1, <1>2 DEF Inserted, Insert, Utxo
<1> QED BY <1>2, <1>3 DEF UtxoMaps

\* Replay, FeesOf and InsertAll, position by position.
ReplayRun(ids, seq, acc) ==
  /\ acc \in [0 .. Len(seq) -> (SUBSET UtxoIds)] /\ acc[0] = ids /\ acc[Len(seq)] = Replay(ids, seq)
  /\ \A k \in 1 .. Len(seq) : acc[k] = Replayed(acc[k - 1], seq[k])

LEMMA ReplayRuns ==
  ASSUME NEW ids \in SUBSET UtxoIds, NEW seq \in Seq(Receipts)
  PROVE  \E acc : ReplayRun(ids, seq, acc)
<1> DEFINE n == Len(seq)
           V == (SUBSET UtxoIds)
           R(g) == g = [s \in SUBSET (DOMAIN seq) |->
                          IF s = {} THEN ids
                          ELSE LET x == Max(s) IN Replayed(g[s \ {x}], seq[x])]
           F == [p \in V \X (1 .. n) |-> Replayed(p[1], seq[p[2]])]
<1>1. Replay(ids, seq) = (CHOOSE g : R(g))[DOMAIN seq]
  BY DEF Replay, FoldLeft, MapThenFoldSet, Replayed
<1>2. n \in Nat /\ DOMAIN seq = 1 .. n /\ \A i \in 1 .. n : seq[i] \in Receipts
  OBVIOUS
<1>3. ASSUME NEW a \in V, NEW i \in 1 .. n PROVE Replayed(a, seq[i]) \in V
  BY <1>2, ReplayedClosed
<1>4. ids \in V
  OBVIOUS
<1> HIDE DEF n, V
<1>5. F \in [V \X (1 .. n) -> V] /\ \A a \in V, i \in 1 .. n : F[<<a, i>>] = Replayed(a, seq[i])
  BY <1>3
<1> HIDE DEF F
<1>6. PICK g : FoldSteps(n, V, ids, F, g)
  BY <1>2, <1>4, <1>5, StepsExist
<1>7. R(g)
  <2>1. ASSUME NEW s \in SUBSET (1 .. n), s # {}
        PROVE  g[s] = Replayed(g[s \ {Max(s)}], seq[Max(s)])
    <3>1. Max(s) \in 1 .. n /\ g[s \ {Max(s)}] \in V
      BY <1>2, <1>6, <2>1, MaxOfPositions DEF FoldSteps
    <3>2. g[s] = F[<<g[s \ {Max(s)}], Max(s)>>]
      BY <1>6, <2>1 DEF FoldSteps
    <3> QED BY <1>5, <3>1, <3>2
  <2>2. g = [s \in SUBSET (1 .. n) |-> g[s]] /\ g[{}] = ids
    BY <1>6 DEF FoldSteps
  <2>3. \A s \in SUBSET (1 .. n) :
          g[s] = IF s = {} THEN ids ELSE LET x == Max(s) IN Replayed(g[s \ {x}], seq[x])
    BY <2>1, <2>2
  <2> QED BY <1>2, <2>2, <2>3
<1>8. PICK h : h = (CHOOSE k : R(k)) /\ R(h)
  BY <1>7
<1>9. Follows(n, V, ids, F, h)
  <2>1. h[{}] = ids
    BY <1>8
  <2>2. ASSUME NEW s \in SUBSET (1 .. n), s # {}, h[s \ {Max(s)}] \in V
        PROVE  h[s] = F[<<h[s \ {Max(s)}], Max(s)>>]
    <3>1. h[s] = Replayed(h[s \ {Max(s)}], seq[Max(s)])
      BY <1>2, <1>8, <2>2
    <3>2. Max(s) \in 1 .. n
      BY <1>2, <2>2, MaxOfPositions
    <3> QED BY <1>5, <2>2, <3>1, <3>2
  <2> QED BY <2>1, <2>2 DEF Follows
<1>10. PICK acc : FoldRun(n, V, ids, F, h, acc)
  <2> HIDE DEF R
  <2> QED BY <1>2, <1>4, <1>5, <1>9, FoldRuns
<1>11. acc[n] = Replay(ids, seq)
  BY <1>1, <1>2, <1>8, <1>10 DEF FoldRun
<1>12. ASSUME NEW k \in 1 .. n PROVE acc[k] = Replayed(acc[k - 1], seq[k])
  <2>1. acc[k - 1] \in V
    BY <1>2, <1>10 DEF FoldRun
  <2> QED BY <1>5, <1>10, <2>1 DEF FoldRun
<1>13. ReplayRun(ids, seq, acc)
  BY <1>10, <1>11, <1>12 DEF n, V, FoldRun, ReplayRun
<1> QED BY <1>13

FeesOfRun(seq, acc) ==
  /\ acc \in [0 .. Len(seq) -> Nat] /\ acc[0] = 0 /\ acc[Len(seq)] = FeesOf(seq)
  /\ \A k \in 1 .. Len(seq) : acc[k] = Charged(acc[k - 1], seq[k])

LEMMA FeesOfRuns ==
  ASSUME NEW seq \in Seq(Receipts)
  PROVE  \E acc : FeesOfRun(seq, acc)
<1> DEFINE n == Len(seq)
           V == Nat
           R(g) == g = [s \in SUBSET (DOMAIN seq) |->
                          IF s = {} THEN 0
                          ELSE LET x == Max(s) IN Charged(g[s \ {x}], seq[x])]
           F == [p \in V \X (1 .. n) |-> Charged(p[1], seq[p[2]])]
<1>1. FeesOf(seq) = (CHOOSE g : R(g))[DOMAIN seq]
  BY DEF FeesOf, FoldLeft, MapThenFoldSet, Charged
<1>2. n \in Nat /\ DOMAIN seq = 1 .. n /\ \A i \in 1 .. n : seq[i] \in Receipts
  OBVIOUS
<1>3. ASSUME NEW a \in V, NEW i \in 1 .. n PROVE Charged(a, seq[i]) \in V
  BY <1>2, ChargedClosed
<1>4. 0 \in V
  OBVIOUS
<1> HIDE DEF n, V
<1>5. F \in [V \X (1 .. n) -> V] /\ \A a \in V, i \in 1 .. n : F[<<a, i>>] = Charged(a, seq[i])
  BY <1>3
<1> HIDE DEF F
<1>6. PICK g : FoldSteps(n, V, 0, F, g)
  BY <1>2, <1>4, <1>5, StepsExist
<1>7. R(g)
  <2>1. ASSUME NEW s \in SUBSET (1 .. n), s # {}
        PROVE  g[s] = Charged(g[s \ {Max(s)}], seq[Max(s)])
    <3>1. Max(s) \in 1 .. n /\ g[s \ {Max(s)}] \in V
      BY <1>2, <1>6, <2>1, MaxOfPositions DEF FoldSteps
    <3>2. g[s] = F[<<g[s \ {Max(s)}], Max(s)>>]
      BY <1>6, <2>1 DEF FoldSteps
    <3> QED BY <1>5, <3>1, <3>2
  <2>2. g = [s \in SUBSET (1 .. n) |-> g[s]] /\ g[{}] = 0
    BY <1>6 DEF FoldSteps
  <2>3. \A s \in SUBSET (1 .. n) :
          g[s] = IF s = {} THEN 0 ELSE LET x == Max(s) IN Charged(g[s \ {x}], seq[x])
    BY <2>1, <2>2
  <2> QED BY <1>2, <2>2, <2>3
<1>8. PICK h : h = (CHOOSE k : R(k)) /\ R(h)
  BY <1>7
<1>9. Follows(n, V, 0, F, h)
  <2>1. h[{}] = 0
    BY <1>8
  <2>2. ASSUME NEW s \in SUBSET (1 .. n), s # {}, h[s \ {Max(s)}] \in V
        PROVE  h[s] = F[<<h[s \ {Max(s)}], Max(s)>>]
    <3>1. h[s] = Charged(h[s \ {Max(s)}], seq[Max(s)])
      BY <1>2, <1>8, <2>2
    <3>2. Max(s) \in 1 .. n
      BY <1>2, <2>2, MaxOfPositions
    <3> QED BY <1>5, <2>2, <3>1, <3>2
  <2> QED BY <2>1, <2>2 DEF Follows
<1>10. PICK acc : FoldRun(n, V, 0, F, h, acc)
  <2> HIDE DEF R
  <2> QED BY <1>2, <1>4, <1>5, <1>9, FoldRuns
<1>11. acc[n] = FeesOf(seq)
  BY <1>1, <1>2, <1>8, <1>10 DEF FoldRun
<1>12. ASSUME NEW k \in 1 .. n PROVE acc[k] = Charged(acc[k - 1], seq[k])
  <2>1. acc[k - 1] \in V
    BY <1>2, <1>10 DEF FoldRun
  <2> QED BY <1>5, <1>10, <2>1 DEF FoldRun
<1>13. FeesOfRun(seq, acc)
  BY <1>10, <1>11, <1>12 DEF n, V, FoldRun, FeesOfRun
<1> QED BY <1>13

InsertAllRun(utxos, seq, acc) ==
  /\ acc \in [0 .. Len(seq) -> UtxoMaps] /\ acc[0] = utxos /\ acc[Len(seq)] = InsertAll(utxos, seq)
  /\ \A k \in 1 .. Len(seq) : acc[k] = Inserted(acc[k - 1], seq[k])

LEMMA InsertAllRuns ==
  ASSUME NEW utxos \in UtxoMaps, NEW seq \in Seq(Entries)
  PROVE  \E acc : InsertAllRun(utxos, seq, acc)
<1> DEFINE n == Len(seq)
           V == UtxoMaps
           R(g) == g = [s \in SUBSET (DOMAIN seq) |->
                          IF s = {} THEN utxos
                          ELSE LET x == Max(s) IN Inserted(g[s \ {x}], seq[x])]
           F == [p \in V \X (1 .. n) |-> Inserted(p[1], seq[p[2]])]
<1>1. InsertAll(utxos, seq) = (CHOOSE g : R(g))[DOMAIN seq]
  BY DEF InsertAll, FoldLeft, MapThenFoldSet, Inserted
<1>2. n \in Nat /\ DOMAIN seq = 1 .. n /\ \A i \in 1 .. n : seq[i] \in Entries
  OBVIOUS
<1>3. ASSUME NEW a \in V, NEW i \in 1 .. n PROVE Inserted(a, seq[i]) \in V
  BY <1>2, InsertedClosed
<1>4. utxos \in V
  OBVIOUS
<1> HIDE DEF n, V
<1>5. F \in [V \X (1 .. n) -> V] /\ \A a \in V, i \in 1 .. n : F[<<a, i>>] = Inserted(a, seq[i])
  BY <1>3
<1> HIDE DEF F
<1>6. PICK g : FoldSteps(n, V, utxos, F, g)
  BY <1>2, <1>4, <1>5, StepsExist
<1>7. R(g)
  <2>1. ASSUME NEW s \in SUBSET (1 .. n), s # {}
        PROVE  g[s] = Inserted(g[s \ {Max(s)}], seq[Max(s)])
    <3>1. Max(s) \in 1 .. n /\ g[s \ {Max(s)}] \in V
      BY <1>2, <1>6, <2>1, MaxOfPositions DEF FoldSteps
    <3>2. g[s] = F[<<g[s \ {Max(s)}], Max(s)>>]
      BY <1>6, <2>1 DEF FoldSteps
    <3> QED BY <1>5, <3>1, <3>2
  <2>2. g = [s \in SUBSET (1 .. n) |-> g[s]] /\ g[{}] = utxos
    BY <1>6 DEF FoldSteps
  <2>3. \A s \in SUBSET (1 .. n) :
          g[s] = IF s = {} THEN utxos ELSE LET x == Max(s) IN Inserted(g[s \ {x}], seq[x])
    BY <2>1, <2>2
  <2> QED BY <1>2, <2>2, <2>3
<1>8. PICK h : h = (CHOOSE k : R(k)) /\ R(h)
  BY <1>7
<1>9. Follows(n, V, utxos, F, h)
  <2>1. h[{}] = utxos
    BY <1>8
  <2>2. ASSUME NEW s \in SUBSET (1 .. n), s # {}, h[s \ {Max(s)}] \in V
        PROVE  h[s] = F[<<h[s \ {Max(s)}], Max(s)>>]
    <3>1. h[s] = Inserted(h[s \ {Max(s)}], seq[Max(s)])
      BY <1>2, <1>8, <2>2
    <3>2. Max(s) \in 1 .. n
      BY <1>2, <2>2, MaxOfPositions
    <3> QED BY <1>5, <2>2, <3>1, <3>2
  <2> QED BY <2>1, <2>2 DEF Follows
<1>10. PICK acc : FoldRun(n, V, utxos, F, h, acc)
  <2> HIDE DEF R
  <2> QED BY <1>2, <1>4, <1>5, <1>9, FoldRuns
<1>11. acc[n] = InsertAll(utxos, seq)
  BY <1>1, <1>2, <1>8, <1>10 DEF FoldRun
<1>12. ASSUME NEW k \in 1 .. n PROVE acc[k] = Inserted(acc[k - 1], seq[k])
  <2>1. acc[k - 1] \in V
    BY <1>2, <1>10 DEF FoldRun
  <2> QED BY <1>5, <1>10, <2>1 DEF FoldRun
<1>13. InsertAllRun(utxos, seq, acc)
  BY <1>10, <1>11, <1>12 DEF n, V, FoldRun, InsertAllRun
<1> QED BY <1>13

-----------------------------------------------------------------------------
(***************************************************************************)
(* One transaction: what it leaves, and that total_value follows the set.  *)
(***************************************************************************)
\* What is in a UTXO map, in a UTXO set and in a transaction.
LEMMA MapFacts ==
  ASSUME NEW u \in UtxoMaps
  PROVE  /\ DOMAIN u \subseteq UtxoIds /\ u \in [DOMAIN u -> Utxo]
         /\ \A id \in DOMAIN u : u[id] \in Utxo /\ u[id].value \in Nat
BY DEF UtxoMaps, Utxo

LEMMA SetFacts ==
  ASSUME NEW set \in UtxoSets
  PROVE  /\ set.utxos \in UtxoMaps /\ set.total \in Int /\ set.forged \in Nat
         /\ Ids(set) = DOMAIN set.utxos
         /\ Ids(set) \subseteq UtxoIds
         /\ \A id \in Ids(set) : set.utxos[id] \in Utxo /\ set.utxos[id].value \in Nat
BY MapFacts DEF UtxoSets, Ids

LEMMA BodyFacts ==
  ASSUME NEW h \in Txs
  PROVE  /\ Len(Body[h].inputs) \in Nat /\ DOMAIN Body[h].inputs = 1 .. Len(Body[h].inputs)
         /\ Len(Outputs(h)) \in Nat /\ DOMAIN Outputs(h) = 1 .. Len(Outputs(h))
         /\ Inputs(h) = {Body[h].inputs[i] : i \in 1 .. Len(Body[h].inputs)}
         /\ Inputs(h) \subseteq UtxoIds /\ Body[h].inputs \in Seq(UtxoIds)
         /\ Created(h) = {<<h, i - 1>> : i \in 1 .. Len(Outputs(h))}
         /\ Created(h) \subseteq UtxoIds
         /\ \A i \in 1 .. Len(Outputs(h)) :
              /\ Outputs(h)[i] \in Utxo /\ Outputs(h)[i].value \in Nat
              /\ <<h, i - 1>>[2] + 1 = i
         /\ Body[h].fee \in Nat
<1>1. PICK ins \in Seq(UtxoIds) : ins = Body[h].inputs
  BY ExecutionAssumption
<1>2. PICK outs \in Seq(Utxo) : outs = Body[h].outputs
  BY ExecutionAssumption DEF Utxo
<1>3. /\ Len(ins) \in Nat /\ DOMAIN ins = 1 .. Len(ins) /\ ToSet(ins) \subseteq UtxoIds
      /\ ToSet(ins) = {ins[i] : i \in 1 .. Len(ins)}
  BY DEF ToSet
<1>4. Len(outs) \in Nat /\ DOMAIN outs = 1 .. Len(outs)
  OBVIOUS
<1>5. \A i \in 1 .. Len(outs) : outs[i] \in Utxo /\ outs[i].value \in Nat
  <2>1. \A i \in 1 .. Len(outs) : outs[i] \in Utxo
    OBVIOUS
  <2>2. \A x \in Utxo : x.value \in Nat
    BY DEF Utxo
  <2> QED BY <2>1, <2>2
<1>6. \A i \in 1 .. Len(outs) : <<h, i - 1>> \in UtxoIds /\ <<h, i - 1>>[2] + 1 = i
  BY DEF UtxoIds
<1>7. Created(h) = {<<h, i - 1>> : i \in 1 .. Len(outs)}
  BY <1>2, <1>4 DEF Created, Outputs
<1>8. Created(h) \subseteq UtxoIds
  BY <1>6, <1>7
<1> QED BY <1>1, <1>2, <1>3, <1>4, <1>5, <1>6, <1>7, <1>8, TxAssumption DEF Inputs, Outputs

\* The amounts that InputValue, RepeatValue and OutputValue add up.
InputAmounts(set, h) == [i \in DOMAIN Body[h].inputs |-> Found(set, Body[h].inputs[i])]

RepeatAmounts(set, h) ==
  [i \in DOMAIN Body[h].inputs |->
     IF ListedAgain(h, i) THEN Found(set, Body[h].inputs[i]) ELSE 0]

OutputAmounts(h) == [i \in DOMAIN Outputs(h) |-> Outputs(h)[i].value]

\* They are amounts, and so are their sums.
LEMMA AmountFacts ==
  ASSUME NEW set \in UtxoSets, NEW h \in Txs
  PROVE  /\ InputAmounts(set, h) \in [1 .. Len(Body[h].inputs) -> Nat]
         /\ RepeatAmounts(set, h) \in [1 .. Len(Body[h].inputs) -> Nat]
         /\ OutputAmounts(h) \in [1 .. Len(Outputs(h)) -> Nat]
         /\ InputValue(set, h) = SumOf(InputAmounts(set, h)) /\ InputValue(set, h) \in Nat
         /\ RepeatValue(set, h) = SumOf(RepeatAmounts(set, h)) /\ RepeatValue(set, h) \in Nat
         /\ OutputValue(h) = SumOf(OutputAmounts(h)) /\ OutputValue(h) \in Nat
<1>0. \A i \in 1 .. Len(Body[h].inputs) : Found(set, Body[h].inputs[i]) \in Nat
  BY SetFacts DEF Found
<1>1. /\ InputAmounts(set, h) \in [1 .. Len(Body[h].inputs) -> Nat]
      /\ RepeatAmounts(set, h) \in [1 .. Len(Body[h].inputs) -> Nat]
  BY <1>0, BodyFacts DEF InputAmounts, RepeatAmounts
<1>2. OutputAmounts(h) \in [1 .. Len(Outputs(h)) -> Nat]
  BY BodyFacts DEF OutputAmounts
<1>3. ASSUME NEW n \in Nat, NEW f \in [1 .. n -> Nat] PROVE SumOf(f) \in Nat
  <2>1. PICK acc \in [0 .. n -> Nat] : acc[n] = SumOf(f)
    BY SumOfRuns
  <2> QED BY <2>1
<1>4. /\ SumOf(InputAmounts(set, h)) \in Nat /\ SumOf(RepeatAmounts(set, h)) \in Nat
      /\ SumOf(OutputAmounts(h)) \in Nat
  BY <1>1, <1>2, <1>3, BodyFacts
<1>5. /\ InputValue(set, h) = SumOf(InputAmounts(set, h))
      /\ RepeatValue(set, h) = SumOf(RepeatAmounts(set, h))
      /\ OutputValue(h) = SumOf(OutputAmounts(h))
  BY DEF InputValue, RepeatValue, OutputValue, InputAmounts, RepeatAmounts, OutputAmounts
<1> QED BY <1>1, <1>2, <1>4, <1>5

\* Apply removes the inputs, adds the outputs and touches nothing else.
LEMMA ApplyFacts ==
  ASSUME NEW set \in UtxoSets, NEW h \in Txs
  PROVE  /\ Apply(set, h) \in UtxoSets
         /\ Ids(Apply(set, h)) = (Ids(set) \ Inputs(h)) \cup Created(h)
         /\ Apply(set, h).total = set.total - InputValue(set, h) + OutputValue(h)
         /\ Apply(set, h).forged = set.forged + RepeatValue(set, h)
         /\ \A id \in Ids(Apply(set, h)) \ Created(h) : Apply(set, h).utxos[id] = set.utxos[id]
         /\ \A i \in 1 .. Len(Outputs(h)) : Apply(set, h).utxos[<<h, i - 1>>] = Outputs(h)[i]
<1> DEFINE new == (Ids(set) \ Inputs(h)) \cup Created(h)
           u == [id \in new |-> IF id \in Created(h) THEN Outputs(h)[id[2] + 1] ELSE set.utxos[id]]
<1>1. /\ Apply(set, h) = [utxos |-> u, total |-> set.total - InputValue(set, h) + OutputValue(h),
                         forged |-> set.forged + RepeatValue(set, h)]
      /\ Ids(Apply(set, h)) = new
  BY DEF Apply, Ids
<1>2. \A i \in 1 .. Len(Outputs(h)) : <<h, i - 1>> \in new /\ u[<<h, i - 1>>] = Outputs(h)[i]
  <2> TAKE i \in 1 .. Len(Outputs(h))
  <2>1. <<h, i - 1>> \in Created(h) /\ <<h, i - 1>>[2] + 1 = i
    BY BodyFacts
  <2> QED BY <2>1
<1>3. \A id \in new \ Created(h) : u[id] = set.utxos[id]
  OBVIOUS
<1>4. \A id \in new : u[id] \in Utxo
  <2> TAKE id \in new
  <2>1. CASE id \in Created(h)
    <3>1. PICK i \in 1 .. Len(Outputs(h)) : id = <<h, i - 1>>
      BY <2>1, BodyFacts
    <3> QED BY <1>2, <3>1, BodyFacts
  <2>2. CASE id \notin Created(h)
    BY <1>3, <2>2, SetFacts
  <2> QED BY <2>1, <2>2
<1>5. DOMAIN u = new /\ u = [id \in new |-> u[id]]
  OBVIOUS
<1>6. new \in SUBSET UtxoIds
  BY SetFacts, BodyFacts
<1>7. /\ set.total - InputValue(set, h) + OutputValue(h) \in Int
      /\ set.forged + RepeatValue(set, h) \in Nat
  BY SetFacts, AmountFacts
<1> HIDE DEF u, new
<1>8. u \in [new -> Utxo]
  BY <1>4, <1>5
<1>9. u \in UtxoMaps
  BY <1>6, <1>8 DEF UtxoMaps
<1>10. Apply(set, h) \in UtxoSets
  BY <1>1, <1>7, <1>9 DEF UtxoSets
<1> QED BY <1>1, <1>2, <1>3, <1>10 DEF new

\* The set and the receipt of one transaction tell the same story.
LEMMA ProcessFacts ==
  ASSUME NEW set \in UtxoSets, NEW slot, NEW h \in Txs,
         NEW done, done = Process(set, slot, h)
  PROVE  /\ done.set \in UtxoSets /\ done.receipt \in Receipts
         /\ done.receipt.tx = h /\ ToSet(done.receipt.consumed) = Inputs(h)
         /\ done.receipt.success <=> Valid(set, slot, h)
         /\ Valid(set, slot, h) => done.set = Apply(set, h) /\ done.receipt.created = Created(h)
         /\ ~Valid(set, slot, h) => done.set = set
         /\ Ids(done.set) = Replayed(Ids(set), done.receipt)
<1> DEFINE good == Valid(set, slot, h)
<1>1. good \in BOOLEAN
  BY DEF Valid
<1>2. done = [set |-> IF good THEN Apply(set, h) ELSE set,
              receipt |-> [tx |-> h, success |-> good, consumed |-> Body[h].inputs,
                           created |-> IF good THEN Created(h) ELSE {}]]
  BY DEF Process
<1> HIDE DEF good
<1>3. /\ done.set = IF good THEN Apply(set, h) ELSE set
      /\ done.receipt.tx = h /\ done.receipt.consumed = Body[h].inputs
      /\ done.receipt.success = good
      /\ done.receipt.created = IF good THEN Created(h) ELSE {}
  BY <1>2
<1>4. done.receipt \in Receipts
  BY <1>1, <1>2, BodyFacts DEF Receipts
<1>6. ToSet(done.receipt.consumed) = Inputs(h)
  BY <1>3 DEF Inputs
<1>5. Ids(done.set) = Replayed(Ids(set), done.receipt)
  <2>1. CASE good
    <3>1. done.set = Apply(set, h) /\ done.receipt.created = Created(h) /\ done.receipt.success
      BY <1>3, <2>1
    <3>2. Replayed(Ids(set), done.receipt) = (Ids(set) \ Inputs(h)) \cup Created(h)
      BY <1>6, <3>1, Zenon DEF Replayed
    <3> QED BY <3>1, <3>2, ApplyFacts
  <2>2. CASE ~good
    BY <1>3, <2>2 DEF Replayed
  <2> QED BY <2>1, <2>2
<1> QED BY <1>1, <1>3, <1>4, <1>5, <1>6, ApplyFacts DEF good

\* What Held and TotalIsSumIn say, in terms of Worth.
LEMMA HeldIsWorth == \A set : Held(set) = Worth(set.utxos, Ids(set))
BY DEF Held, Worth

LEMMA TotalIsWorth ==
  ASSUME NEW set
  PROVE  TotalIsSumIn(set) <=> set.total + set.forged = Worth(set.utxos, Ids(set))
BY HeldIsWorth, Zenon DEF TotalIsSumIn

\* What is left when the inputs go, one after the other: an input listed again is
\* gone already.
LEMMA InputsWorth ==
  ASSUME NEW set \in UtxoSets, NEW h \in Txs, IsFiniteSet(Ids(set)), Inputs(h) \subseteq Ids(set)
  PROVE  /\ IsFiniteSet(Ids(set) \ Inputs(h))
         /\ Worth(set.utxos, Ids(set) \ Inputs(h)) + InputValue(set, h)
              = Worth(set.utxos, Ids(set)) + RepeatValue(set, h)
<1> DEFINE n == Len(Body[h].inputs)
           in(i) == Body[h].inputs[i]
           u == set.utxos
           ids == Ids(set)
           f == InputAmounts(set, h)
           r == RepeatAmounts(set, h)
           Rest(k) == ids \ {in(i) : i \in 1 .. k}
<1>1. /\ n \in Nat /\ f \in [1 .. n -> Nat] /\ SumOf(f) = InputValue(set, h)
      /\ r \in [1 .. n -> Nat] /\ SumOf(r) = RepeatValue(set, h)
      /\ Inputs(h) = {in(i) : i \in 1 .. n}
  BY AmountFacts, BodyFacts
<1>2. \A i \in 1 .. n : in(i) \in ids /\ f[i] = u[in(i)].value
  BY <1>1, BodyFacts DEF InputAmounts, Found
<1>3. \A i \in 1 .. n : r[i] = IF \E j \in 1 .. i - 1 : in(j) = in(i) THEN f[i] ELSE 0
  BY BodyFacts DEF InputAmounts, RepeatAmounts, ListedAgain
<1>4. \A id \in ids : u[id].value \in Nat
  BY SetFacts
<1>5. IsFiniteSet(ids)
  OBVIOUS
<1> HIDE DEF n, in, u, ids, f, r
<1>6. PICK acc \in [0 .. n -> Nat] :
        acc[0] = 0 /\ acc[n] = SumOf(f) /\ \A k \in 1 .. n : acc[k] = acc[k - 1] + f[k]
  BY <1>1, SumOfRuns
<1>16. PICK rep \in [0 .. n -> Nat] :
         rep[0] = 0 /\ rep[n] = SumOf(r) /\ \A k \in 1 .. n : rep[k] = rep[k - 1] + r[k]
  BY <1>1, SumOfRuns
<1>7. \A k \in 0 .. n : IsFiniteSet(Rest(k)) /\ Rest(k) \subseteq ids
  BY <1>5, FS_Subset
<1> DEFINE S == {k \in 0 .. n : Worth(u, Rest(k)) + acc[k] = Worth(u, ids) + rep[k]}
<1>13. Worth(u, ids) \in Nat
  BY <1>4, <1>5, WorthNat
<1>8. 0 \in S
  <2>1. Rest(0) = ids
    OBVIOUS
  <2> HIDE DEF Rest
  <2> QED BY <1>1, <1>6, <1>16, <1>13, <2>1
<1>9. ASSUME NEW k \in 0 .. n - 1, k \in S PROVE k + 1 \in S
  <2>1. k + 1 \in 1 .. n /\ (k + 1) - 1 = k /\ k \in 0 .. n /\ k + 1 \in 0 .. n
    BY <1>1
  <2> DEFINE x == in(k + 1)
             before == {in(i) : i \in 1 .. k}
  <2>2. {in(i) : i \in 1 .. k + 1} = before \cup {x}
    BY <2>1
  <2>3. /\ \A y \in Rest(k) : u[y].value \in Nat
        /\ u[x].value = f[k + 1] /\ x \in ids
        /\ IsFiniteSet(Rest(k + 1)) /\ \A y \in Rest(k + 1) : u[y].value \in Nat
    BY <1>2, <1>4, <1>7, <2>1
  <2>5. /\ acc[k + 1] = acc[k] + f[k + 1] /\ acc[k] \in Nat /\ f[k + 1] \in Nat
        /\ rep[k + 1] = rep[k] + r[k + 1] /\ rep[k] \in Nat
    BY <1>1, <1>6, <1>16, <2>1
  <2>6. Worth(u, Rest(k + 1)) \in Nat
    BY <2>3, WorthNat
  <2>7. Worth(u, Rest(k)) + acc[k] = Worth(u, ids) + rep[k]
    BY <1>9
  <2>8. CASE x \in before
    <3>1. Rest(k + 1) = Rest(k)
      BY <2>2, <2>8
    <3>2. r[k + 1] = f[k + 1]
      <4>1. \E j \in 1 .. (k + 1) - 1 : in(j) = in(k + 1)
        BY <2>1, <2>8
      <4> QED BY <1>3, <2>1, <4>1
    <3>3. Worth(u, Rest(k + 1)) + acc[k] = Worth(u, ids) + rep[k]
      BY <2>7, <3>1
    <3> HIDE DEF x, before, Rest
    <3>4. Worth(u, Rest(k + 1)) + acc[k + 1] = Worth(u, ids) + rep[k + 1]
      BY <1>13, <2>5, <2>6, <3>2, <3>3
    <3> QED BY <2>1, <3>4
  <2>9. CASE x \notin before
    <3>1. x \notin Rest(k + 1) /\ Rest(k) = Rest(k + 1) \cup {x}
      BY <2>2, <2>3, <2>9
    <3>2. r[k + 1] = 0
      <4>1. ~ \E j \in 1 .. (k + 1) - 1 : in(j) = in(k + 1)
        BY <2>1, <2>9
      <4> QED BY <1>3, <2>1, <4>1
    <3> HIDE DEF x, before, Rest
    <3>3. Worth(u, Rest(k)) = Worth(u, Rest(k + 1)) + f[k + 1]
      <4>1. PICK A, B : A = Rest(k) /\ B = Rest(k + 1)
        OBVIOUS
      <4>2. B = A \ {x} /\ IsFiniteSet(A) /\ x \in A /\ \A y \in A : u[y].value \in Nat
        BY <2>3, <3>1, <4>1, FS_AddElement
      <4>3. Worth(u, A) = Worth(u, B) + u[x].value
        BY <4>2, WorthAdd
      <4> QED BY <2>3, <4>1, <4>3
    <3> QED BY <1>13, <2>1, <2>5, <2>6, <2>7, <3>2, <3>3
  <2> QED BY <2>8, <2>9
<1> HIDE DEF S
<1>10. n \in S
  <2>1. n \in Nat
    BY <1>1
  <2>2. \A k \in 0 .. n : k \in S
    BY <1>8, <1>9, <2>1, CountUp
  <2> QED BY <2>1, <2>2
<1>11. Rest(n) = ids \ Inputs(h)
  BY <1>1
<1> HIDE DEF Rest
<1>12. Worth(u, Rest(n)) + acc[n] = Worth(u, ids) + rep[n] /\ IsFiniteSet(Rest(n))
  BY <1>1, <1>7, <1>10 DEF S
<1> QED BY <1>1, <1>6, <1>16, <1>11, <1>12 DEF u, ids

\* The UTXOs that a transaction would write over are worth nothing, before and
\* after.
OverwritesNothing(set, h) ==
  \A i \in 1 .. Len(Outputs(h)) :
    <<h, i - 1>> \in Ids(set) =>
      set.utxos[<<h, i - 1>>].value = 0 /\ Outputs(h)[i].value = 0

\* What is there when the outputs have come, one after the other.
LEMMA OutputsWorth ==
  ASSUME NEW set \in UtxoSets, NEW h \in Txs, NEW rest,
         IsFiniteSet(rest), rest \subseteq Ids(set) \ Inputs(h), OverwritesNothing(set, h)
  PROVE  /\ IsFiniteSet(rest \cup Created(h))
         /\ Worth(Apply(set, h).utxos, rest \cup Created(h)) = Worth(set.utxos, rest) + OutputValue(h)
<1> DEFINE n == Len(Outputs(h))
           out(i) == <<h, i - 1>>
           u == set.utxos
           v == Apply(set, h).utxos
           f == OutputAmounts(h)
           Now(k) == rest \cup {out(i) : i \in 1 .. k}
<1>1. /\ n \in Nat /\ f \in [1 .. n -> Nat] /\ SumOf(f) = OutputValue(h)
      /\ Created(h) = {out(i) : i \in 1 .. n}
  BY AmountFacts, BodyFacts
<1>2. \A i \in 1 .. n : v[out(i)].value = f[i]
  BY BodyFacts, ApplyFacts DEF OutputAmounts
<1>3. \A i, j \in 1 .. n : i # j => out(i) # out(j)
  OBVIOUS
<1>4. ASSUME NEW id \in rest PROVE u[id].value \in Nat /\ v[id].value = u[id].value
  <2>1. CASE id \in Created(h)
    <3>1. PICK i \in 1 .. n : id = out(i)
      BY <1>1, <2>1
    <3>2. set.utxos[<<h, i - 1>>].value = 0 /\ Outputs(h)[i].value = 0
      BY <3>1 DEF OverwritesNothing
    <3>3. v[out(i)].value = 0
      BY <3>1, <3>2, ApplyFacts
    <3> QED BY <3>1, <3>2, <3>3
  <2>2. CASE id \notin Created(h)
    BY <2>2, SetFacts, ApplyFacts
  <2> QED BY <2>1, <2>2
<1>5. \A i \in 1 .. n : out(i) \in rest => f[i] = 0
  BY BodyFacts DEF OverwritesNothing, OutputAmounts
<1> HIDE DEF n, out, u, v, f
<1>6. PICK acc \in [0 .. n -> Nat] :
        acc[0] = 0 /\ acc[n] = SumOf(f) /\ \A k \in 1 .. n : acc[k] = acc[k - 1] + f[k]
  BY <1>1, SumOfRuns
<1> DEFINE S == {k \in 0 .. n : IsFiniteSet(Now(k)) /\ Worth(v, Now(k)) = Worth(u, rest) + acc[k]}
<1>7. Worth(u, rest) \in Nat
  BY <1>4, WorthNat
<1>8. 0 \in S
  <2>1. Now(0) = rest
    OBVIOUS
  <2>2. Worth(v, rest) = Worth(u, rest)
    BY <1>4, WorthSame
  <2> HIDE DEF Now
  <2> QED BY <1>1, <1>6, <1>7, <2>1, <2>2
<1>9. ASSUME NEW k \in 0 .. n - 1, k \in S PROVE k + 1 \in S
  <2>1. k + 1 \in 1 .. n /\ (k + 1) - 1 = k /\ k \in 0 .. n /\ k + 1 \in 0 .. n
    BY <1>1
  <2> DEFINE x == out(k + 1)
  <2>2. Now(k + 1) = Now(k) \cup {x} /\ (x \in Now(k) => f[k + 1] = 0)
    <3>1. \A i \in 1 .. k : x # out(i)
      BY <1>1, <1>3, <2>1
    <3>2. {out(i) : i \in 1 .. k + 1} = {out(i) : i \in 1 .. k} \cup {x}
      BY <2>1
    <3>3. x \in Now(k) => x \in rest
      BY <3>1
    <3>4. x \in rest => f[k + 1] = 0
      BY <1>5, <2>1
    <3> QED BY <3>2, <3>3, <3>4
  <2>3. ASSUME NEW y \in Now(k) PROVE v[y].value \in Nat
    <3>1. CASE y \in rest
      BY <1>4, <3>1
    <3>2. CASE y \notin rest
      <4>1. PICK i \in 1 .. k : y = out(i)
        BY <2>3, <3>2
      <4>2. i \in 1 .. n
        BY <1>1, <2>1
      <4> QED BY <1>1, <1>2, <4>1, <4>2
    <3> QED BY <3>1, <3>2
  <2>4. v[x].value \in Nat /\ v[x].value = f[k + 1]
    BY <1>1, <1>2, <2>1
  <2>5. IsFiniteSet(Now(k)) /\ Worth(v, Now(k)) = Worth(u, rest) + acc[k]
    BY <1>9
  <2> HIDE DEF x, Now
  <2>6. Worth(v, Now(k + 1)) = Worth(v, Now(k)) + f[k + 1]
    <3>1. \A y \in Now(k + 1) : v[y].value \in Nat
      BY <2>2, <2>3, <2>4
    <3>2. PICK A, B : A = Now(k + 1) /\ B = Now(k)
      OBVIOUS
    <3>3. IsFiniteSet(A) /\ x \in A /\ A = B \cup {x} /\ \A y \in A : v[y].value \in Nat
      BY <2>2, <2>5, <3>1, <3>2, FS_AddElement
    <3>4. CASE x \notin B
      <4>1. B = A \ {x}
        BY <3>3, <3>4
      <4>2. Worth(v, A) = Worth(v, B) + v[x].value
        BY <3>3, <4>1, WorthAdd
      <4> QED BY <2>4, <3>2, <4>2
    <3>5. CASE x \in B
      <4>1. A = B /\ f[k + 1] = 0
        BY <2>2, <3>2, <3>3, <3>5
      <4>2. Worth(v, B) \in Nat
        BY <3>3, <4>1, WorthNat
      <4> QED BY <3>2, <4>1, <4>2
    <3> QED BY <3>4, <3>5
  <2>7. acc[k + 1] = acc[k] + f[k + 1] /\ acc[k] \in Nat /\ f[k + 1] \in Nat
    BY <1>1, <1>6, <2>1
  <2>8. IsFiniteSet(Now(k + 1))
    BY <2>2, <2>5, FS_AddElement
  <2> QED BY <1>7, <2>1, <2>5, <2>6, <2>7, <2>8
<1> HIDE DEF S
<1>10. n \in S
  <2>1. n \in Nat
    BY <1>1
  <2>2. \A k \in 0 .. n : k \in S
    BY <1>8, <1>9, <2>1, CountUp
  <2> QED BY <2>1, <2>2
<1>11. Now(n) = rest \cup Created(h)
  BY <1>1
<1> HIDE DEF Now
<1>12. IsFiniteSet(Now(n)) /\ Worth(v, Now(n)) = Worth(u, rest) + acc[n]
  BY <1>10 DEF S
<1> QED BY <1>1, <1>6, <1>11, <1>12 DEF u, v

\* Apply keeps total_value at the sum, when it writes over nothing of value.
LEMMA ApplyCounts ==
  ASSUME NEW set \in UtxoSets, NEW h \in Txs, IsFiniteSet(Ids(set)), Inputs(h) \subseteq Ids(set),
         OverwritesNothing(set, h), TotalIsSumIn(set)
  PROVE  TotalIsSumIn(Apply(set, h))
<1> DEFINE rest == Ids(set) \ Inputs(h)
           new == Apply(set, h)
<1>1. /\ IsFiniteSet(rest)
      /\ Worth(set.utxos, rest) + InputValue(set, h)
           = Worth(set.utxos, Ids(set)) + RepeatValue(set, h)
  BY InputsWorth
<1>2. rest \subseteq Ids(set) \ Inputs(h)
  OBVIOUS
<1>3. /\ Ids(new) = rest \cup Created(h)
      /\ new.total = set.total - InputValue(set, h) + OutputValue(h)
      /\ new.forged = set.forged + RepeatValue(set, h)
  BY ApplyFacts
<1>4. \A id \in rest : set.utxos[id].value \in Nat
  BY SetFacts
<1> HIDE DEF rest
<1>5. Worth(Apply(set, h).utxos, rest \cup Created(h)) = Worth(set.utxos, rest) + OutputValue(h)
  BY <1>1, <1>2, OutputsWorth
<1>6. /\ Worth(set.utxos, rest) \in Nat /\ InputValue(set, h) \in Nat /\ OutputValue(h) \in Nat
      /\ RepeatValue(set, h) \in Nat /\ set.total \in Int /\ set.forged \in Nat
  BY <1>1, <1>4, WorthNat, AmountFacts, SetFacts
<1>7. set.total + set.forged = Worth(set.utxos, Ids(set))
  BY TotalIsWorth
<1>8. new.total + new.forged = Worth(new.utxos, Ids(new))
  <2>1. Worth(new.utxos, Ids(new)) = Worth(set.utxos, rest) + OutputValue(h)
    BY <1>3, <1>5
  <2> HIDE DEF new
  <2> QED BY <1>1, <1>3, <1>6, <1>7, <2>1
<1> QED BY <1>8, TotalIsWorth

\* Apply leaves finitely many UTXOs.
LEMMA ApplyIsFinite ==
  ASSUME NEW set \in UtxoSets, NEW h \in Txs, IsFiniteSet(Ids(set))
  PROVE  IsFiniteSet(Ids(Apply(set, h)))
<1>1. IsFiniteSet(Ids(set) \ Inputs(h))
  BY FS_Subset
<1>2. PICK n \in Nat : n = Len(Outputs(h)) /\ Created(h) = {<<h, i - 1>> : i \in 1 .. n}
  BY BodyFacts
<1> DEFINE out == [i \in 1 .. n |-> <<h, i - 1>>]
<1>3. IsFiniteSet(1 .. n)
  <2>1. PICK lo \in Int, hi \in Int : lo = 1 /\ hi = n
    OBVIOUS
  <2> QED BY <2>1, FS_Interval
<1>4. out \in Surjection(1 .. n, Created(h))
  BY <1>2 DEF Surjection
<1>5. IsFiniteSet(Created(h))
  BY <1>3, <1>4, FS_Surjection
<1>6. IsFiniteSet((Ids(set) \ Inputs(h)) \cup Created(h))
  BY <1>1, <1>5, FS_Union
<1> QED BY <1>6, ApplyFacts

-----------------------------------------------------------------------------
(***************************************************************************)
(* Lists that grow by one receipt, and batches.                            *)
(***************************************************************************)
\* A fold over a list that has grown by one: one more step.
LEMMA ReplayAppend ==
  ASSUME NEW ids \in SUBSET UtxoIds, NEW rs \in Seq(Receipts), NEW r \in Receipts
  PROVE  Replay(ids, Append(rs, r)) = Replayed(Replay(ids, rs), r)
<1> DEFINE n == Len(rs)
           rs2 == Append(rs, r)
<1>1. n \in Nat /\ rs2 \in Seq(Receipts) /\ Len(rs2) = n + 1 /\ rs2[n + 1] = r
  OBVIOUS
<1>2. \A k \in 1 .. n : rs2[k] = rs[k]
  OBVIOUS
<1> HIDE DEF rs2
<1>3. PICK a : ReplayRun(ids, rs, a)
  BY ReplayRuns
<1>4. PICK b : ReplayRun(ids, rs2, b)
  BY <1>1, ReplayRuns
<1>10. /\ a[0] = ids /\ a[n] = Replay(ids, rs)
       /\ \A k \in 1 .. n : a[k] = Replayed(a[k - 1], rs[k])
  BY <1>3 DEF ReplayRun
<1>11. /\ b[0] = ids /\ b[n + 1] = Replay(ids, rs2)
       /\ \A k \in 1 .. n + 1 : b[k] = Replayed(b[k - 1], rs2[k])
  BY <1>1, <1>4 DEF ReplayRun
<1> HIDE DEF n
<1> DEFINE S == {k \in 0 .. n : a[k] = b[k]}
<1>5. 0 \in S
  BY <1>1, <1>10, <1>11
<1>6. ASSUME NEW k \in 0 .. n - 1, k \in S PROVE k + 1 \in S
  <2>1. k + 1 \in 1 .. n /\ k + 1 \in 1 .. n + 1 /\ (k + 1) - 1 = k /\ k + 1 \in 0 .. n
    BY <1>1
  <2>2. a[k + 1] = Replayed(a[k], rs[k + 1]) /\ b[k + 1] = Replayed(b[k], rs2[k + 1])
    BY <1>1, <1>10, <1>11, <2>1
  <2> QED BY <1>2, <1>6, <2>1, <2>2
<1> HIDE DEF S
<1>7. n \in S
  <2>1. n \in Nat
    BY <1>1
  <2>2. \A k \in 0 .. n : k \in S
    BY <1>5, <1>6, <2>1, CountUp
  <2> QED BY <2>1, <2>2
<1>8. a[n] = b[n]
  BY <1>7 DEF S
<1>9. b[n + 1] = Replayed(b[n], r)
  <2>1. n + 1 \in 1 .. n + 1 /\ (n + 1) - 1 = n
    BY <1>1
  <2> QED BY <1>1, <1>11, <2>1
<1> QED BY <1>1, <1>8, <1>9, <1>10, <1>11 DEF rs2

\* No receipts lead nowhere.
LEMMA ReplayEmpty == \A ids \in SUBSET UtxoIds : Replay(ids, <<>>) = ids
<1> TAKE ids \in SUBSET UtxoIds
<1>1. <<>> \in Seq(Receipts) /\ Len(<<>>) = 0
  OBVIOUS
<1>2. PICK a : ReplayRun(ids, <<>>, a)
  BY <1>1, ReplayRuns
<1> QED BY <1>1, <1>2 DEF ReplayRun

\* The same for the fees.
LEMMA FeesAppend ==
  ASSUME NEW rs \in Seq(Receipts), NEW r \in Receipts
  PROVE  FeesOf(Append(rs, r)) = Charged(FeesOf(rs), r)
<1> DEFINE n == Len(rs)
           rs2 == Append(rs, r)
<1>1. n \in Nat /\ rs2 \in Seq(Receipts) /\ Len(rs2) = n + 1 /\ rs2[n + 1] = r
  OBVIOUS
<1>2. \A k \in 1 .. n : rs2[k] = rs[k]
  OBVIOUS
<1> HIDE DEF rs2
<1>3. PICK a : FeesOfRun(rs, a)
  BY FeesOfRuns
<1>4. PICK b : FeesOfRun(rs2, b)
  BY <1>1, FeesOfRuns
<1>10. /\ a[0] = 0 /\ a[n] = FeesOf(rs)
       /\ \A k \in 1 .. n : a[k] = Charged(a[k - 1], rs[k])
  BY <1>3 DEF FeesOfRun
<1>11. /\ b[0] = 0 /\ b[n + 1] = FeesOf(rs2)
       /\ \A k \in 1 .. n + 1 : b[k] = Charged(b[k - 1], rs2[k])
  BY <1>1, <1>4 DEF FeesOfRun
<1> HIDE DEF n
<1> DEFINE S == {k \in 0 .. n : a[k] = b[k]}
<1>5. 0 \in S
  BY <1>1, <1>10, <1>11
<1>6. ASSUME NEW k \in 0 .. n - 1, k \in S PROVE k + 1 \in S
  <2>1. k + 1 \in 1 .. n /\ k + 1 \in 1 .. n + 1 /\ (k + 1) - 1 = k /\ k + 1 \in 0 .. n
    BY <1>1
  <2>2. a[k + 1] = Charged(a[k], rs[k + 1]) /\ b[k + 1] = Charged(b[k], rs2[k + 1])
    BY <1>1, <1>10, <1>11, <2>1
  <2> QED BY <1>2, <1>6, <2>1, <2>2
<1> HIDE DEF S
<1>7. n \in S
  <2>1. n \in Nat
    BY <1>1
  <2>2. \A k \in 0 .. n : k \in S
    BY <1>5, <1>6, <2>1, CountUp
  <2> QED BY <2>1, <2>2
<1>8. a[n] = b[n]
  BY <1>7 DEF S
<1>9. b[n + 1] = Charged(b[n], r)
  <2>1. n + 1 \in 1 .. n + 1 /\ (n + 1) - 1 = n
    BY <1>1
  <2> QED BY <1>1, <1>11, <2>1
<1> QED BY <1>1, <1>8, <1>9, <1>10, <1>11 DEF rs2

\* No receipts, no fees.
LEMMA FeesEmpty == FeesOf(<<>>) = 0
<1>1. <<>> \in Seq(Receipts) /\ Len(<<>>) = 0 /\ 0 \in Nat
  OBVIOUS
<1>2. PICK a : FeesOfRun(<<>>, a)
  BY <1>1, FeesOfRuns
<1> QED BY <1>1, <1>2 DEF FeesOfRun

\* The folds have their types.
LEMMA ReplayType ==
  ASSUME NEW ids \in SUBSET UtxoIds, NEW rs \in Seq(Receipts)
  PROVE  Replay(ids, rs) \in SUBSET UtxoIds
<1>1. PICK a : ReplayRun(ids, rs, a)
  BY ReplayRuns
<1>2. Len(rs) \in 0 .. Len(rs)
  OBVIOUS
<1> QED BY <1>1, <1>2 DEF ReplayRun

LEMMA FeesType == \A rs \in Seq(Receipts) : FeesOf(rs) \in Nat
<1> TAKE rs \in Seq(Receipts)
<1>1. 0 \in Nat /\ Len(rs) \in 0 .. Len(rs)
  OBVIOUS
<1>2. PICK a : FeesOfRun(rs, a)
  BY <1>1, FeesOfRuns
<1> QED BY <1>1, <1>2 DEF FeesOfRun

\* A batch on its way: the set so far and the receipts so far.
Batches == [set : UtxoSets, receipts : Seq(Receipts)]

BatchStep(acc, h) ==
  LET done == Process(acc.set, current_slot, h)
  IN  [set |-> done.set, receipts |-> Append(acc.receipts, done.receipt)]

\* A batch stays within its type.
LEMMA BatchStepClosed == \A acc \in Batches, h \in Txs : BatchStep(acc, h) \in Batches
<1> TAKE acc \in Batches, h \in Txs
<1>1. PICK done : done = Process(acc.set, current_slot, h)
  OBVIOUS
<1>2. acc.set \in UtxoSets /\ acc.receipts \in Seq(Receipts)
  BY DEF Batches
<1>3. done.set \in UtxoSets /\ done.receipt \in Receipts
  BY <1>1, <1>2, ProcessFacts
<1>4. BatchStep(acc, h) = [set |-> done.set, receipts |-> Append(acc.receipts, done.receipt)]
  BY <1>1 DEF BatchStep
<1> QED BY <1>2, <1>3, <1>4 DEF Batches

\* RunBatch, transaction by transaction.
RunBatchRun(set, seq, acc) ==
  /\ acc \in [0 .. Len(seq) -> Batches] /\ acc[0] = [set |-> set, receipts |-> <<>>] /\ acc[Len(seq)] = RunBatch(set, seq)
  /\ \A k \in 1 .. Len(seq) : acc[k] = BatchStep(acc[k - 1], seq[k])

LEMMA RunBatchRuns ==
  ASSUME NEW set \in UtxoSets, NEW seq \in Seq(Txs)
  PROVE  \E acc : RunBatchRun(set, seq, acc)
<1> DEFINE n == Len(seq)
           V == Batches
           R(g) == g = [s \in SUBSET (DOMAIN seq) |->
                          IF s = {} THEN [set |-> set, receipts |-> <<>>]
                          ELSE LET x == Max(s) IN BatchStep(g[s \ {x}], seq[x])]
           F == [p \in V \X (1 .. n) |-> BatchStep(p[1], seq[p[2]])]
<1>1. RunBatch(set, seq) = (CHOOSE g : R(g))[DOMAIN seq]
  BY DEF RunBatch, FoldLeft, MapThenFoldSet, BatchStep
<1>2. n \in Nat /\ DOMAIN seq = 1 .. n /\ \A i \in 1 .. n : seq[i] \in Txs
  OBVIOUS
<1>3. ASSUME NEW a \in V, NEW i \in 1 .. n PROVE BatchStep(a, seq[i]) \in V
  BY <1>2, BatchStepClosed
<1>4. [set |-> set, receipts |-> <<>>] \in V
  BY DEF Batches
<1> HIDE DEF n, V
<1>5. F \in [V \X (1 .. n) -> V] /\ \A a \in V, i \in 1 .. n : F[<<a, i>>] = BatchStep(a, seq[i])
  BY <1>3
<1> HIDE DEF F
<1>6. PICK g : FoldSteps(n, V, [set |-> set, receipts |-> <<>>], F, g)
  BY <1>2, <1>4, <1>5, StepsExist
<1>7. R(g)
  <2>1. ASSUME NEW s \in SUBSET (1 .. n), s # {}
        PROVE  g[s] = BatchStep(g[s \ {Max(s)}], seq[Max(s)])
    <3>1. Max(s) \in 1 .. n /\ g[s \ {Max(s)}] \in V
      BY <1>2, <1>6, <2>1, MaxOfPositions DEF FoldSteps
    <3>2. g[s] = F[<<g[s \ {Max(s)}], Max(s)>>]
      BY <1>6, <2>1 DEF FoldSteps
    <3> QED BY <1>5, <3>1, <3>2
  <2>2. g = [s \in SUBSET (1 .. n) |-> g[s]] /\ g[{}] = [set |-> set, receipts |-> <<>>]
    BY <1>6 DEF FoldSteps
  <2>3. \A s \in SUBSET (1 .. n) :
          g[s] = IF s = {} THEN [set |-> set, receipts |-> <<>>] ELSE LET x == Max(s) IN BatchStep(g[s \ {x}], seq[x])
    BY <2>1, <2>2
  <2> QED BY <1>2, <2>2, <2>3
<1>8. PICK h : h = (CHOOSE k : R(k)) /\ R(h)
  BY <1>7
<1>9. Follows(n, V, [set |-> set, receipts |-> <<>>], F, h)
  <2>1. h[{}] = [set |-> set, receipts |-> <<>>]
    BY <1>8
  <2>2. ASSUME NEW s \in SUBSET (1 .. n), s # {}, h[s \ {Max(s)}] \in V
        PROVE  h[s] = F[<<h[s \ {Max(s)}], Max(s)>>]
    <3>1. h[s] = BatchStep(h[s \ {Max(s)}], seq[Max(s)])
      BY <1>2, <1>8, <2>2
    <3>2. Max(s) \in 1 .. n
      BY <1>2, <2>2, MaxOfPositions
    <3> QED BY <1>5, <2>2, <3>1, <3>2
  <2> QED BY <2>1, <2>2 DEF Follows
<1>10. PICK acc : FoldRun(n, V, [set |-> set, receipts |-> <<>>], F, h, acc)
  <2> HIDE DEF R
  <2> QED BY <1>2, <1>4, <1>5, <1>9, FoldRuns
<1>11. acc[n] = RunBatch(set, seq)
  BY <1>1, <1>2, <1>8, <1>10 DEF FoldRun
<1>12. ASSUME NEW k \in 1 .. n PROVE acc[k] = BatchStep(acc[k - 1], seq[k])
  <2>1. acc[k - 1] \in V
    BY <1>2, <1>10 DEF FoldRun
  <2> QED BY <1>5, <1>10, <2>1 DEF FoldRun
<1>13. RunBatchRun(set, seq, acc)
  BY <1>10, <1>11, <1>12 DEF n, V, FoldRun, RunBatchRun
<1> QED BY <1>13

-----------------------------------------------------------------------------
(***************************************************************************)
(* The inductive invariant of one UTXO set and of one list of receipts.    *)
(***************************************************************************)
\* Every transaction names an input.  One without inputs may be executed again
\* and again, each time bringing back its outputs, of value 0: a transaction
\* that spends one of them is executed again too.
EveryTxSpends == \A h \in Txs : Body[h].inputs # <<>>

\* No two entries of a genesis list have the same key.
Distinct(entries) ==
  \A i, j \in DOMAIN entries : i # j => entries[i].key # entries[j].key

\* A genesis list is taken as a whole or refused at its first entry.  A list
\* refused later leaves UTXOs that total_value does not count
\* (execution_engine.rs:425).
GenesisCounted ==
  \A entries \in GenesisLists :
    Distinct(entries) /\ (GoodPrefix(entries) = entries \/ GoodPrefix(entries) = <<>>)

\* None is no context.
LEMMA NoContextIsNone == \A u, rs : NoContext # [initial |-> u, executed |-> rs]
<1>1. ASSUME NEW u, NEW rs, NoContext = [initial |-> u, executed |-> rs] PROVE FALSE
  <2>1. DOMAIN NoContext = {"none"} /\ DOMAIN [initial |-> u, executed |-> rs] = {"initial", "executed"}
    BY DEF NoContext
  <2> QED BY <1>1, <2>1
<1> QED BY <1>1

\* `dead` are UTXOs that were spent to make the set what it is.  Those that are
\* `followed` are not in the set, and each that is or was in the set comes from a
\* transaction with a dead one among its inputs, or from a genesis or coinbase
\* call that was made.  So such a transaction cannot succeed twice, and such an id
\* cannot come back.
Lineage(followed, ids, dead, called) ==
  /\ ids \cap dead \cap followed = {}
  /\ \A id \in (ids \cup dead) \cap followed :
       \/ id[1] \in Txs /\ Inputs(id[1]) \cap dead \cap followed # {}
       \/ id[1] \in called

\* The ids worth following in any case: those of UTXOs of value, and what
\* genesis and coinbase calls made.
Worthy == {id \in UtxoIds : id[1] \in Txs => Outputs(id[1])[id[2] + 1].value > 0}

\* What a transaction created is as it created it.
AsCreated(set) ==
  \A id \in Ids(set) : id[1] \in Txs =>
    id \in Created(id[1]) /\ set.utxos[id] = Outputs(id[1])[id[2] + 1]

\* What is known of a UTXO set, the present one or one of the history.  When
\* every transaction spends something, all ids are followed.
Fine(set, dead, called) ==
  /\ set \in UtxoSets /\ IsFiniteSet(Ids(set)) /\ AsCreated(set)
  /\ Lineage(Worthy, Ids(set), dead, called)
  /\ EveryTxSpends => Lineage(UtxoIds, Ids(set), dead, called)
  /\ GenesisCounted => TotalIsSumIn(set)

\* Receipts that succeed spend dead UTXOs, each receipt others.
SpentOnce(receipts, dead) ==
  /\ \A i \in DOMAIN receipts : receipts[i].success => ToSet(receipts[i].consumed) \subseteq dead
  /\ \A i, j \in DOMAIN receipts :
       i # j /\ receipts[i].success /\ receipts[j].success
         => ToSet(receipts[i].consumed) \cap ToSet(receipts[j].consumed) = {}

\* The receipts tell how the ids `from` became the set, minted ids aside.
Told(set, dead, from, receipts) ==
  /\ from \in SUBSET UtxoIds /\ receipts \in Seq(Receipts)
  /\ Ids(set) \ MintedIds = Replay(from, receipts) \ MintedIds
  /\ EveryTxSpends => SpentOnce(receipts, dead)

\* The UTXOs that are dead once the receipt r is there.
Buried(dead, r) == IF r.success THEN dead \cup ToSet(r.consumed) ELSE dead

\* A transaction whose outputs are followed has an input that is: then its outputs
\* are new, and the lineage goes on.
LEMMA LineageGoesOn ==
  ASSUME NEW followed, NEW ids, NEW dead, NEW called, Lineage(followed, ids, dead, called),
         called \subseteq {GenesisCall} \cup Blocks,
         NEW h \in Txs, Inputs(h) \subseteq ids,
         Created(h) \cap followed # {} => Inputs(h) \cap followed # {}
  PROVE  /\ Created(h) \cap ids \cap followed = {}
         /\ Lineage(followed, (ids \ Inputs(h)) \cup Created(h), dead \cup Inputs(h), called)
<1>1. \A id \in Created(h) : id[1] = h
  BY DEF Created
<1>2. h \notin called
  BY ExecutionAssumption
<1>3. Inputs(h) \cap dead \cap followed = {}
  BY DEF Lineage
<1>4. Created(h) \cap (ids \cup dead) \cap followed = {}
  BY <1>1, <1>2, <1>3 DEF Lineage
<1> DEFINE new == (ids \ Inputs(h)) \cup Created(h)
           gone == dead \cup Inputs(h)
<1>5. new \cap gone \cap followed = {}
  BY <1>4 DEF Lineage
<1>6. ASSUME NEW id \in (new \cup gone) \cap followed
      PROVE  \/ id[1] \in Txs /\ Inputs(id[1]) \cap gone \cap followed # {}
             \/ id[1] \in called
  <2>1. CASE id \in Created(h)
    BY <1>1, <1>6, <2>1
  <2>2. CASE id \in ids \cup dead
    BY <1>6, <2>2 DEF Lineage
  <2> QED BY <1>6, <2>1, <2>2
<1> QED BY <1>4, <1>5, <1>6 DEF Lineage

\* Where every transaction spends, it spends an id.
LEMMA EverySpend ==
  ASSUME EveryTxSpends, NEW h \in Txs PROVE Inputs(h) \cap UtxoIds # {}
<1>1. Body[h].inputs # <<>> /\ Body[h].inputs \in Seq(UtxoIds)
  BY ExecutionAssumption DEF EveryTxSpends
<1>2. Len(Body[h].inputs) >= 1
  BY <1>1
<1>3. 1 \in 1 .. Len(Body[h].inputs)
  BY <1>2, BodyFacts
<1>4. Body[h].inputs[1] \in Inputs(h)
  BY <1>3, BodyFacts
<1> QED BY <1>4, BodyFacts

\* Value comes from value: who creates some spends some.
LEMMA WorthySpend ==
  ASSUME NEW set \in UtxoSets, AsCreated(set), NEW slot, NEW h \in Txs, Valid(set, slot, h),
         Created(h) \cap Worthy # {}
  PROVE  Inputs(h) \cap Worthy # {}
<1>1. Inputs(h) \subseteq Ids(set) /\ InputValue(set, h) >= OutputValue(h) + Body[h].fee
  BY DEF Valid
<1>2. PICK i \in 1 .. Len(Outputs(h)) : Outputs(h)[i].value > 0
  <2>1. PICK id \in Created(h) : id \in Worthy
    OBVIOUS
  <2>2. PICK i \in 1 .. Len(Outputs(h)) : id = <<h, i - 1>>
    BY <2>1, BodyFacts
  <2>3. Outputs(h)[i].value > 0
    BY <2>1, <2>2, BodyFacts DEF Worthy
  <2> QED BY <2>3
<1>3. OutputValue(h) > 0
  <2>1. PICK n \in Nat : n = Len(Outputs(h))
    BY BodyFacts
  <2>2. PICK f \in [1 .. n -> Nat] : f = OutputAmounts(h)
    BY <2>1, AmountFacts
  <2>3. f[i] > 0
    BY <1>2, <2>1, <2>2, BodyFacts DEF OutputAmounts
  <2>4. SumOf(f) > 0
    BY <1>2, <2>1, <2>3, SumPositive
  <2> QED BY <2>2, <2>4, AmountFacts
<1>4. InputValue(set, h) > 0
  BY <1>1, <1>3, AmountFacts, BodyFacts
<1>5. PICK j \in 1 .. Len(Body[h].inputs) : InputAmounts(set, h)[j] > 0
  <2>1. PICK n \in Nat : n = Len(Body[h].inputs)
    BY BodyFacts
  <2>2. PICK f \in [1 .. n -> Nat] : f = InputAmounts(set, h)
    BY <2>1, AmountFacts
  <2>3. SumOf(f) > 0
    BY <1>4, <2>2, AmountFacts
  <2>4. \E j \in 1 .. n : f[j] > 0
    BY <2>3, SumPositive
  <2> QED BY <2>1, <2>2, <2>4
<1>6. PICK x \in Inputs(h) : x = Body[h].inputs[j]
  BY <1>5, BodyFacts
<1>7. x \in Ids(set) /\ x \in UtxoIds /\ set.utxos[x].value > 0
  <2>1. InputAmounts(set, h)[j] = Found(set, x) /\ x \in Ids(set)
    BY <1>1, <1>6, BodyFacts DEF InputAmounts
  <2>2. Found(set, x) = set.utxos[x].value
    BY <2>1 DEF Found
  <2> QED BY <1>5, <2>1, <2>2, SetFacts
<1>8. x \in Worthy
  BY <1>7 DEF Worthy, AsCreated
<1> QED BY <1>8

\* So nothing of value is written over.
LEMMA NothingOverwritten ==
  ASSUME NEW set \in UtxoSets, AsCreated(set), NEW h \in Txs,
         Created(h) \cap Ids(set) \cap Worthy = {}
  PROVE  OverwritesNothing(set, h)
<1> SUFFICES ASSUME NEW i \in 1 .. Len(Outputs(h)), <<h, i - 1>> \in Ids(set)
             PROVE  set.utxos[<<h, i - 1>>].value = 0 /\ Outputs(h)[i].value = 0
  BY DEF OverwritesNothing
<1>1. /\ <<h, i - 1>> \in Created(h) /\ <<h, i - 1>> \in UtxoIds
      /\ <<h, i - 1>>[1] = h /\ <<h, i - 1>>[2] + 1 = i /\ Outputs(h)[i].value \in Nat
  BY BodyFacts
<1>2. set.utxos[<<h, i - 1>>] = Outputs(h)[i]
  BY <1>1 DEF AsCreated
<1>3. <<h, i - 1>> \notin Worthy
  BY <1>1
<1>4. ~(Outputs(h)[i].value > 0)
  BY <1>1, <1>3 DEF Worthy
<1> QED BY <1>1, <1>2, <1>4

\* Apply makes what it says.
LEMMA ApplyAsCreated ==
  ASSUME NEW set \in UtxoSets, AsCreated(set), NEW h \in Txs
  PROVE  AsCreated(Apply(set, h))
<1> SUFFICES ASSUME NEW id \in Ids(Apply(set, h)), id[1] \in Txs
             PROVE  /\ id \in Created(id[1])
                    /\ Apply(set, h).utxos[id] = Outputs(id[1])[id[2] + 1]
  BY DEF AsCreated
<1>1. CASE id \in Created(h)
  <2>1. PICK i \in 1 .. Len(Outputs(h)) : id = <<h, i - 1>>
    BY <1>1, BodyFacts
  <2>2. id[1] = h /\ id[2] + 1 = i
    BY <2>1, BodyFacts
  <2> QED BY <1>1, <2>1, <2>2, ApplyFacts
<1>2. CASE id \notin Created(h)
  <2>1. id \in Ids(set) /\ Apply(set, h).utxos[id] = set.utxos[id]
    BY <1>2, ApplyFacts
  <2> QED BY <2>1 DEF AsCreated
<1> QED BY <1>1, <1>2

\* One transaction keeps a set fine.
LEMMA OneMore ==
  ASSUME NEW set, NEW dead, NEW called, Fine(set, dead, called),
         called \subseteq {GenesisCall} \cup Blocks,
         NEW slot, NEW h \in Txs, NEW done, done = Process(set, slot, h)
  PROVE  /\ Fine(done.set, Buried(dead, done.receipt), called)
         /\ done.receipt \in Receipts
         /\ Ids(done.set) = Replayed(Ids(set), done.receipt)
         /\ done.receipt.success => ToSet(done.receipt.consumed) \subseteq Ids(set)
<1>1. set \in UtxoSets /\ IsFiniteSet(Ids(set))
  BY DEF Fine
<1>2. /\ done.set \in UtxoSets /\ done.receipt \in Receipts
      /\ ToSet(done.receipt.consumed) = Inputs(h)
      /\ done.receipt.success <=> Valid(set, slot, h)
      /\ Valid(set, slot, h) => done.set = Apply(set, h) /\ done.receipt.created = Created(h)
      /\ ~Valid(set, slot, h) => done.set = set
      /\ Ids(done.set) = Replayed(Ids(set), done.receipt)
  BY <1>1, ProcessFacts
<1>3. CASE ~Valid(set, slot, h)
  BY <1>2, <1>3 DEF Buried
<1>4. CASE Valid(set, slot, h)
  <2>1. Inputs(h) \subseteq Ids(set)
    BY <1>4 DEF Valid
  <2>2. done.set = Apply(set, h) /\ Buried(dead, done.receipt) = dead \cup Inputs(h)
    BY <1>2, <1>4 DEF Buried
  <2>3. IsFiniteSet(Ids(done.set))
    BY <1>1, <2>2, ApplyIsFinite
  <2>4. Ids(done.set) = (Ids(set) \ Inputs(h)) \cup Created(h)
    BY <1>1, <2>2, ApplyFacts
  <2>5. /\ Created(h) \cap Ids(set) \cap Worthy = {}
        /\ Lineage(Worthy, Ids(done.set), dead \cup Inputs(h), called)
    <3>1. Lineage(Worthy, Ids(set), dead, called) /\ AsCreated(set)
      BY DEF Fine
    <3>2. Created(h) \cap Worthy # {} => Inputs(h) \cap Worthy # {}
      BY <1>1, <1>4, <3>1, WorthySpend
    <3> QED BY <2>1, <2>4, <3>1, <3>2, LineageGoesOn
  <2>6. ASSUME EveryTxSpends PROVE Lineage(UtxoIds, Ids(done.set), dead \cup Inputs(h), called)
    <3>1. Lineage(UtxoIds, Ids(set), dead, called) /\ Inputs(h) \cap UtxoIds # {}
      BY <2>6, EverySpend DEF Fine
    <3> QED BY <2>1, <2>4, <3>1, LineageGoesOn
  <2>7. ASSUME GenesisCounted PROVE TotalIsSumIn(done.set)
    <3>1. TotalIsSumIn(set) /\ AsCreated(set)
      BY <2>7 DEF Fine
    <3>2. OverwritesNothing(set, h)
      BY <1>1, <2>5, <3>1, NothingOverwritten
    <3> QED BY <1>1, <2>1, <2>2, <3>1, <3>2, ApplyCounts
  <2>8. AsCreated(done.set)
    BY <1>1, <2>2, ApplyAsCreated DEF Fine
  <2>9. Fine(done.set, Buried(dead, done.receipt), called)
    BY <1>2, <2>2, <2>3, <2>5, <2>6, <2>7, <2>8 DEF Fine
  <2> QED BY <1>2, <2>1, <2>9
<1> QED BY <1>3, <1>4

\* One receipt more, and the story is still told.
LEMMA OneMoreTold ==
  ASSUME NEW set, NEW dead, NEW called, Fine(set, dead, called),
         NEW new, NEW r \in Receipts, Ids(new) = Replayed(Ids(set), r),
         r.success => ToSet(r.consumed) \subseteq Ids(set),
         NEW from, NEW receipts, Told(set, dead, from, receipts)
  PROVE  Told(new, Buried(dead, r), from, Append(receipts, r))
<1> DEFINE more == Append(receipts, r)
           n == Len(receipts)
<1>1. /\ from \in SUBSET UtxoIds /\ receipts \in Seq(Receipts)
      /\ Ids(set) \ MintedIds = Replay(from, receipts) \ MintedIds
  BY DEF Told
<1>2. Replay(from, more) = Replayed(Replay(from, receipts), r)
  BY <1>1, ReplayAppend
<1>3. Ids(new) \ MintedIds = Replay(from, more) \ MintedIds
  BY <1>1, <1>2 DEF Replayed
<1>4. more \in Seq(Receipts)
  BY <1>1
<1>5. ASSUME EveryTxSpends PROVE SpentOnce(more, Buried(dead, r))
  <2>1. SpentOnce(receipts, dead) /\ Ids(set) \cap dead = {}
    <3>1. set \in UtxoSets /\ Lineage(UtxoIds, Ids(set), dead, called)
      BY <1>5 DEF Fine
    <3>2. Ids(set) \subseteq UtxoIds
      BY <3>1, SetFacts
    <3> QED BY <1>5, <3>1, <3>2 DEF Told, Lineage
  <2>2. /\ n \in Nat /\ DOMAIN more = 1 .. n + 1 /\ DOMAIN receipts = 1 .. n
        /\ more[n + 1] = r /\ \A i \in 1 .. n : more[i] = receipts[i]
    BY <1>1
  <2> HIDE DEF more, n
  <2>3. ASSUME NEW i \in 1 .. n, receipts[i].success
        PROVE  /\ ToSet(receipts[i].consumed) \subseteq dead
               /\ r.success => ToSet(receipts[i].consumed) \cap ToSet(r.consumed) = {}
    BY <2>1, <2>2, <2>3 DEF SpentOnce
  <2>4. \A i \in 1 .. n + 1 : i \in 1 .. n \/ i = n + 1
    BY <2>2
  <2>5. ASSUME NEW i \in DOMAIN more, more[i].success
        PROVE  ToSet(more[i].consumed) \subseteq Buried(dead, r)
    BY <2>2, <2>3, <2>4, <2>5 DEF Buried
  <2>6. ASSUME NEW i \in DOMAIN more, NEW j \in DOMAIN more, i # j, more[i].success, more[j].success
        PROVE  ToSet(more[i].consumed) \cap ToSet(more[j].consumed) = {}
    <3>1. CASE i \in 1 .. n /\ j \in 1 .. n
      BY <2>1, <2>2, <2>6, <3>1 DEF SpentOnce
    <3>2. CASE i \in 1 .. n /\ j = n + 1
      BY <2>2, <2>3, <2>6, <3>2
    <3>3. CASE i = n + 1 /\ j \in 1 .. n
      BY <2>2, <2>3, <2>6, <3>3
    <3> QED BY <2>2, <2>4, <2>6, <3>1, <3>2, <3>3
  <2> QED BY <2>5, <2>6 DEF SpentOnce
<1> HIDE DEF more
<1>6. Told(new, Buried(dead, r), from, more)
  BY <1>1, <1>3, <1>4, <1>5 DEF Told
<1> QED BY <1>6 DEF more

\* The story begins with the set of the moment.
LEMMA ToldAtStart ==
  ASSUME NEW set \in UtxoSets, NEW dead PROVE Told(set, dead, Ids(set), <<>>)
<1>1. Ids(set) \in SUBSET UtxoIds
  BY SetFacts
<1>2. <<>> \in Seq(Receipts) /\ DOMAIN <<>> = {}
  OBVIOUS
<1>3. SpentOnce(<<>>, dead)
  BY <1>2 DEF SpentOnce
<1>4. Replay(Ids(set), <<>>) = Ids(set)
  BY <1>1, ReplayEmpty
<1> QED BY <1>1, <1>2, <1>3, <1>4 DEF Told

\* Appending to the second of two lists.
LEMMA AppendRight ==
  \A a, b \in Seq(Receipts), e \in Receipts : Append(a \o b, e) = a \o Append(b, e)
<1> TAKE a, b \in Seq(Receipts), e \in Receipts
<1> DEFINE l == Append(a \o b, e)
           r == a \o Append(b, e)
<1>1. l \in Seq(Receipts) /\ r \in Seq(Receipts)
  OBVIOUS
<1>2. Len(l) = Len(a) + Len(b) + 1 /\ Len(r) = Len(a) + Len(b) + 1
  OBVIOUS
<1>3. ASSUME NEW i \in 1 .. Len(a) + Len(b) + 1 PROVE l[i] = r[i]
  <2>1. CASE i <= Len(a)
    BY <2>1
  <2>2. CASE i > Len(a) /\ i <= Len(a) + Len(b)
    BY <2>2
  <2>3. CASE i = Len(a) + Len(b) + 1
    BY <2>3
  <2> QED BY <2>1, <2>2, <2>3
<1> HIDE DEF l, r
<1>4. DOMAIN l = 1 .. Len(l) /\ DOMAIN r = 1 .. Len(r)
  BY <1>1
<1>5. l = [i \in 1 .. Len(a) + Len(b) + 1 |-> l[i]] /\ r = [i \in 1 .. Len(a) + Len(b) + 1 |-> r[i]]
  BY <1>1, <1>2
<1>6. l = r
  BY <1>3, <1>5
<1> QED BY <1>6 DEF l, r

\* A batch is its transactions one after the other, so what holds of one
\* transaction holds of the batch.
LEMMA BatchFacts ==
  ASSUME NEW set, NEW dead, NEW called, Fine(set, dead, called),
         called \subseteq {GenesisCall} \cup Blocks,
         NEW txs \in Seq(Txs), NEW done, done = RunBatch(set, txs),
         NEW from, NEW receipts, Told(set, dead, from, receipts)
  PROVE  /\ \E d : /\ Fine(done.set, d, called)
                  /\ Told(done.set, d, from, receipts \o done.receipts)
         /\ done.receipts \in Seq(Receipts)
         /\ Ids(done.set) = Replay(Ids(set), done.receipts)
<1> DEFINE n == Len(txs)
           Reached(b) ==
             /\ b \in Batches
             /\ \E d : Fine(b.set, d, called) /\ Told(b.set, d, from, receipts \o b.receipts)
             /\ Ids(b.set) = Replay(Ids(set), b.receipts)
<1>1. n \in Nat /\ \A k \in 1 .. n : txs[k] \in Txs
  OBVIOUS
<1>2. set \in UtxoSets
  BY DEF Fine
<1>3. PICK acc : RunBatchRun(set, txs, acc)
  BY <1>2, RunBatchRuns
<1>4. /\ acc \in [0 .. n -> Batches] /\ acc[0] = [set |-> set, receipts |-> <<>>]
      /\ acc[n] = done /\ \A k \in 1 .. n : acc[k] = BatchStep(acc[k - 1], txs[k])
  BY <1>3 DEF RunBatchRun
<1>5. receipts \in Seq(Receipts) /\ Ids(set) \in SUBSET UtxoIds
  BY <1>2, SetFacts DEF Told
<1>6. Reached([set |-> set, receipts |-> <<>>])
  <2>1. receipts \o <<>> = receipts
    BY <1>5
  <2>2. Fine(set, dead, called) /\ Told(set, dead, from, receipts \o <<>>)
    BY <2>1
  <2>3. Ids(set) = Replay(Ids(set), <<>>)
    BY <1>5, ReplayEmpty
  <2>4. [set |-> set, receipts |-> <<>>] \in Batches
    BY <1>2 DEF Batches
  <2> QED BY <1>5, <2>2, <2>3, <2>4
<1>7. ASSUME NEW b, Reached(b), NEW h \in Txs PROVE Reached(BatchStep(b, h))
  <2>1. PICK d : Fine(b.set, d, called) /\ Told(b.set, d, from, receipts \o b.receipts)
    BY <1>7
  <2>2. b.set \in UtxoSets /\ b.receipts \in Seq(Receipts)
    BY <1>7 DEF Batches
  <2>3. PICK p : p = Process(b.set, current_slot, h)
    OBVIOUS
  <2>4. PICK c : c = BatchStep(b, h)
    OBVIOUS
  <2>5. c.set = p.set /\ c.receipts = Append(b.receipts, p.receipt) /\ c \in Batches
    BY <1>7, <2>3, <2>4, BatchStepClosed DEF BatchStep
  <2>6. /\ Fine(p.set, Buried(d, p.receipt), called) /\ p.receipt \in Receipts
        /\ Ids(p.set) = Replayed(Ids(b.set), p.receipt)
        /\ p.receipt.success => ToSet(p.receipt.consumed) \subseteq Ids(b.set)
    BY <2>1, <2>3, OneMore
  <2>7. Told(p.set, Buried(d, p.receipt), from, Append(receipts \o b.receipts, p.receipt))
    BY <2>1, <2>6, OneMoreTold
  <2>8. Append(receipts \o b.receipts, p.receipt) = receipts \o c.receipts
    <3>1. PICK x \in Seq(Receipts) : x = b.receipts
      BY <2>2
    <3>2. PICK e \in Receipts : e = p.receipt
      BY <2>6
    <3>3. Append(receipts \o x, e) = receipts \o Append(x, e)
      BY <1>5, AppendRight
    <3> QED BY <2>5, <3>1, <3>2, <3>3
  <2>9. Ids(c.set) = Replay(Ids(set), c.receipts)
    <3>1. Ids(b.set) = Replay(Ids(set), b.receipts)
      BY <1>7
    <3> QED BY <1>5, <2>2, <2>5, <2>6, <3>1, ReplayAppend
  <2>11. Fine(c.set, Buried(d, p.receipt), called)
         /\ Told(c.set, Buried(d, p.receipt), from, receipts \o c.receipts)
    BY <2>5, <2>6, <2>7, <2>8
  <2> QED BY <2>4, <2>5, <2>9, <2>11
<1> HIDE DEF Reached, n
<1> DEFINE S == {k \in 0 .. n : Reached(acc[k])}
<1>8. 0 \in S
  BY <1>1, <1>4, <1>6
<1>9. ASSUME NEW k \in 0 .. n - 1, k \in S PROVE k + 1 \in S
  <2>1. k + 1 \in 1 .. n /\ (k + 1) - 1 = k /\ k + 1 \in 0 .. n
    BY <1>1
  <2>2. acc[k + 1] = BatchStep(acc[k], txs[k + 1]) /\ txs[k + 1] \in Txs
    BY <1>1, <1>4, <2>1
  <2>3. Reached(acc[k])
    BY <1>9
  <2>4. Reached(acc[k + 1])
    BY <1>7, <2>2, <2>3
  <2> QED BY <2>1, <2>4
<1> HIDE DEF S
<1>10. n \in S
  <2>1. \A k \in 0 .. n : k \in S
    BY <1>1, <1>8, <1>9, CountUp
  <2> QED BY <1>1, <2>1
<1>11. Reached(done)
  BY <1>4, <1>10 DEF S
<1> QED BY <1>11 DEF Reached, Batches

-----------------------------------------------------------------------------
(***************************************************************************)
(* The genesis.                                                            *)
(***************************************************************************)
\* A set of numbers that is not empty has a least one.
LEMMA LeastPosition ==
  ASSUME NEW S \in SUBSET Nat, S # {}
  PROVE  \E x \in S : \A y \in S : x <= y
<1>1. \A x, y \in Nat : <<y, x>> \in OpToRel(<, Nat) <=> y < x
  BY DEF OpToRel
<1>2. PICK x \in S : \A y \in S : ~(<<y, x>> \in OpToRel(<, Nat))
  BY WFMin, NatLessThanWellFounded
<1>3. x \in Nat /\ \A y \in S : y \in Nat /\ ~(y < x)
  BY <1>1, <1>2
<1>4. \A y \in S : x <= y
  BY <1>3
<1> QED BY <1>4

\* The entries before the first bad one.
LEMMA GoodPrefixType ==
  ASSUME NEW entries \in Seq(Entries) PROVE GoodPrefix(entries) \in Seq(Entries)
<1> DEFINE bad == {i \in DOMAIN entries : ~GoodEntry(entries[i])}
           least == CHOOSE i \in bad : \A j \in bad : i <= j
<1>1. GoodPrefix(entries) = IF bad = {} THEN entries ELSE SubSeq(entries, 1, least - 1)
  BY DEF GoodPrefix
<1>2. bad \subseteq 1 .. Len(entries) /\ Len(entries) \in Nat
  OBVIOUS
<1> HIDE DEF bad
<1>3. bad # {} => least \in 1 .. Len(entries)
  <2> SUFFICES ASSUME bad # {} PROVE least \in 1 .. Len(entries)
    OBVIOUS
  <2>1. bad \in SUBSET Nat
    BY <1>2
  <2>2. \E i \in bad : \A j \in bad : i <= j
    BY <2>1, LeastPosition
  <2>3. least \in bad
    BY <2>2
  <2> QED BY <1>2, <2>3
<1> HIDE DEF least
<1> QED BY <1>1, <1>2, <1>3

\* The empty map is a UTXO map.
LEMMA EmptyMap == <<>> \in UtxoMaps /\ DOMAIN <<>> = {}
<1>1. <<>> \in [{} -> Utxo]
  OBVIOUS
<1> QED BY <1>1 DEF UtxoMaps

\* What inserting one UTXO does to the map and to its worth.
AddsOne(u, id, v, new) ==
  /\ new \in UtxoMaps /\ DOMAIN new = DOMAIN u \cup {id} /\ IsFiniteSet(DOMAIN new)
  /\ id \notin DOMAIN u => Worth(new, DOMAIN new) = Worth(u, DOMAIN u) + v

LEMMA InsertFacts ==
  ASSUME NEW u \in UtxoMaps, IsFiniteSet(DOMAIN u), NEW id \in UtxoIds, NEW v \in Nat,
         NEW l \in BOOLEAN, NEW new, new = Insert(u, id, [value |-> v, locked |-> l])
  PROVE  AddsOne(u, id, v, new)
<1> DEFINE utxo == [value |-> v, locked |-> l]
<1>1. utxo \in Utxo /\ utxo.value = v
  BY DEF Utxo
<1> HIDE DEF utxo
<1>2. new = [x \in DOMAIN u \cup {id} |-> IF x = id THEN utxo ELSE u[x]]
  BY DEF Insert, utxo
<1>3. /\ DOMAIN u \subseteq UtxoIds /\ u \in [DOMAIN u -> Utxo]
      /\ \A x \in DOMAIN u : u[x] \in Utxo /\ u[x].value \in Nat
  BY MapFacts
<1>4. new \in [DOMAIN u \cup {id} -> Utxo]
  BY <1>1, <1>2, <1>3
<1>5. new \in UtxoMaps /\ DOMAIN new = DOMAIN u \cup {id}
  BY <1>3, <1>4 DEF UtxoMaps
<1>6. IsFiniteSet(DOMAIN new)
  BY <1>5, FS_AddElement
<1>7. ASSUME id \notin DOMAIN u PROVE Worth(new, DOMAIN new) = Worth(u, DOMAIN u) + v
  <2>1. \A x \in DOMAIN u : u[x].value \in Nat /\ new[x].value = u[x].value
    BY <1>2, <1>3, <1>7
  <2>2. new[id].value = v
    BY <1>1, <1>2
  <2>3. Worth(new, DOMAIN u) = Worth(u, DOMAIN u)
    BY <2>1, WorthSame
  <2>4. PICK A, B : A = DOMAIN new /\ B = DOMAIN u
    OBVIOUS
  <2>5. B = A \ {id} /\ IsFiniteSet(A) /\ id \in A
    BY <1>5, <1>6, <1>7, <2>4
  <2>6. \A x \in A : new[x].value \in Nat
    BY <1>5, <2>1, <2>2, <2>4
  <2>7. Worth(new, A) = Worth(new, B) + new[id].value
    BY <2>5, <2>6, WorthAdd
  <2> QED BY <2>2, <2>3, <2>4, <2>7
<1> QED BY <1>5, <1>6, <1>7 DEF AddsOne

\* What the insertions of the genesis leave.
LEMMA GenesisFacts ==
  ASSUME NEW list \in Seq(Entries), NEW filled, filled = InsertAll(<<>>, list)
  PROVE  /\ filled \in UtxoMaps /\ IsFiniteSet(DOMAIN filled)
         /\ \A id \in DOMAIN filled : id[1] = GenesisCall /\ id \in MintedIds
         /\ list = <<>> => filled = <<>>
         /\ Distinct(list) =>
              Worth(filled, DOMAIN filled) = SumOf([i \in DOMAIN list |-> list[i].value])
<1> DEFINE n == Len(list)
           f == [i \in DOMAIN list |-> list[i].value]
<1>1. /\ n \in Nat /\ DOMAIN list = 1 .. n
      /\ \A i \in 1 .. n : list[i] \in Entries
  OBVIOUS
<1>2. \A e \in Entries : /\ e.key \in UtxoIds /\ e.key \in MintedIds /\ e.key[1] = GenesisCall
                         /\ e.value \in Nat /\ e.locked \in BOOLEAN
  BY DEF Entries, UtxoIds, MintedIds
<1>3. f \in [1 .. n -> Nat] /\ \A i \in 1 .. n : f[i] = list[i].value
  BY <1>1, <1>2
<1>4. PICK m : InsertAllRun(<<>>, list, m)
  BY EmptyMap, InsertAllRuns
<1>5. /\ m[0] = <<>> /\ m[n] = filled
      /\ \A k \in 1 .. n : m[k] = Inserted(m[k - 1], list[k])
  BY <1>4 DEF InsertAllRun
<1> HIDE DEF n, f
<1>6. PICK acc \in [0 .. n -> Nat] :
        acc[0] = 0 /\ acc[n] = SumOf(f) /\ \A k \in 1 .. n : acc[k] = acc[k - 1] + f[k]
  BY <1>1, <1>3, SumOfRuns
<1> DEFINE Good(k) ==
             /\ m[k] \in UtxoMaps /\ IsFiniteSet(DOMAIN m[k])
             /\ DOMAIN m[k] = {list[i].key : i \in 1 .. k}
             /\ Distinct(list) => Worth(m[k], DOMAIN m[k]) = acc[k]
           S == {k \in 0 .. n : Good(k)}
<1>7. Good(0)
  <2>1. DOMAIN <<>> = {} /\ {list[i].key : i \in 1 .. 0} = {}
    OBVIOUS
  <2> QED BY <1>5, <1>6, <2>1, EmptyMap, WorthEmpty, FS_EmptySet
<1>8. ASSUME NEW k \in 0 .. n - 1, Good(k) PROVE Good(k + 1)
  <2>1. k + 1 \in 1 .. n /\ (k + 1) - 1 = k /\ k + 1 \in 0 .. n /\ k \in 0 .. n
    BY <1>1
  <2>2. PICK e \in Entries : e = list[k + 1]
    BY <1>1, <2>1
  <2>3. m[k + 1] = Insert(m[k], e.key, [value |-> e.value, locked |-> e.locked])
    BY <1>5, <2>1, <2>2 DEF Inserted
  <2>4. /\ m[k + 1] \in UtxoMaps /\ DOMAIN m[k + 1] = DOMAIN m[k] \cup {e.key}
        /\ IsFiniteSet(DOMAIN m[k + 1])
        /\ e.key \notin DOMAIN m[k] =>
             Worth(m[k + 1], DOMAIN m[k + 1]) = Worth(m[k], DOMAIN m[k]) + e.value
    <3>1. PICK u, w : u = m[k] /\ w = m[k + 1]
      OBVIOUS
    <3>2. /\ u \in UtxoMaps /\ IsFiniteSet(DOMAIN u) /\ e.key \in UtxoIds /\ e.value \in Nat
          /\ e.locked \in BOOLEAN
          /\ w = Insert(u, e.key, [value |-> e.value, locked |-> e.locked])
      BY <1>2, <1>8, <2>3, <3>1
    <3>3. AddsOne(u, e.key, e.value, w)
      BY <3>2, InsertFacts
    <3> QED BY <3>1, <3>3 DEF AddsOne
  <2>5. DOMAIN m[k + 1] = {list[i].key : i \in 1 .. k + 1}
    <3>1. {list[i].key : i \in 1 .. k + 1} = {list[i].key : i \in 1 .. k} \cup {list[k + 1].key}
      BY <2>1
    <3> QED BY <1>8, <2>2, <2>4, <3>1
  <2>6. ASSUME Distinct(list) PROVE Worth(m[k + 1], DOMAIN m[k + 1]) = acc[k + 1]
    <3>1. e.key \notin DOMAIN m[k]
      <4>1. ASSUME NEW i \in 1 .. k PROVE list[i].key # e.key
        <5>1. i \in 1 .. n /\ i # k + 1
          BY <1>1, <2>1
        <5> QED BY <1>1, <2>1, <2>2, <2>6, <5>1 DEF Distinct
      <4> QED BY <1>8, <4>1
    <3>2. Worth(m[k], DOMAIN m[k]) = acc[k] /\ f[k + 1] = e.value
      BY <1>3, <1>8, <2>1, <2>2, <2>6
    <3>3. acc[k + 1] = acc[k] + f[k + 1]
      BY <1>6, <2>1
    <3> QED BY <2>4, <3>1, <3>2, <3>3
  <2> QED BY <2>4, <2>5, <2>6
<1> HIDE DEF Good
<1>9. 0 \in S
  BY <1>1, <1>7
<1>10. ASSUME NEW k \in 0 .. n - 1, k \in S PROVE k + 1 \in S
  <2>1. k + 1 \in 0 .. n
    BY <1>1
  <2> QED BY <1>8, <1>10, <2>1
<1> HIDE DEF S
<1>11. n \in S
  <2>1. \A k \in 0 .. n : k \in S
    BY <1>1, <1>9, <1>10, CountUp
  <2> QED BY <1>1, <2>1
<1>12. Good(n)
  BY <1>11 DEF S
<1>13. /\ filled \in UtxoMaps /\ IsFiniteSet(DOMAIN filled)
       /\ DOMAIN filled = {list[i].key : i \in 1 .. n}
       /\ Distinct(list) => Worth(filled, DOMAIN filled) = SumOf(f)
  BY <1>5, <1>6, <1>12 DEF Good
<1>14. \A id \in DOMAIN filled : id[1] = GenesisCall /\ id \in MintedIds
  BY <1>1, <1>2, <1>13
<1>15. list = <<>> => filled = <<>>
  BY <1>5 DEF n
<1> QED BY <1>13, <1>14, <1>15 DEF f

-----------------------------------------------------------------------------
(***************************************************************************)
(* The inductive invariant.                                                *)
(***************************************************************************)
\* Of every set of the node it is known which UTXOs led to it and are gone for
\* good; the receipts of an open context tell how the present set came about.
SetsFine ==
  /\ asked \subseteq {GenesisCall} \cup Blocks /\ current_slot \in 0 .. MaxSlot
  /\ history \in Seq(UtxoSets)
  /\ \A i \in DOMAIN history : \E d : Fine(history[i], d, asked)

ContextFine ==
  /\ Active => context \in [initial : UtxoMaps, executed : Seq(Receipts)]
  /\ \E d : /\ Fine(utxo_set, d, asked)
            /\ Active => Told(utxo_set, d, DOMAIN context.initial, context.executed)

\* The receipts of the last batch lead from the one set to the other.
BatchFine == batch # NoBatch => DOMAIN batch.new = Replay(DOMAIN batch.prev, batch.receipts)

\* The invariant: two stories, one of every set and one of the open context.
IInv == SetsFine /\ ContextFine /\ BatchFine

\* More genesis and coinbase calls do no harm.
LEMMA FineMore ==
  ASSUME NEW set, NEW d, NEW called, NEW more, called \subseteq more, Fine(set, d, called)
  PROVE  Fine(set, d, more)
BY DEF Fine, Lineage

\* Neither do ids that genesis and coinbase calls mint.
LEMMA ToldSame ==
  ASSUME NEW set, NEW new, NEW d, NEW from, NEW receipts, Told(set, d, from, receipts),
         Ids(new) \ MintedIds = Ids(set) \ MintedIds
  PROVE  Told(new, d, from, receipts)
BY DEF Told

\* The empty set needs no story.
LEMMA EmptySetFine == \A called : Fine(EmptySet, {}, called)
<1> TAKE called
<1>1. EmptySet.utxos = <<>> /\ EmptySet.total = 0 /\ EmptySet.forged = 0 /\ EmptySet \in UtxoSets /\ Ids(EmptySet) = {}
  BY EmptyMap DEF EmptySet, UtxoSets, Ids
<1>2. /\ IsFiniteSet(Ids(EmptySet)) /\ AsCreated(EmptySet)
      /\ \A followed : Lineage(followed, Ids(EmptySet), {}, called)
  BY <1>1, FS_EmptySet DEF Lineage, AsCreated
<1>3. TotalIsSumIn(EmptySet)
  <2>1. Worth(EmptySet.utxos, Ids(EmptySet)) = 0
    BY <1>1, WorthEmpty
  <2>2. EmptySet.total + EmptySet.forged = 0
    BY <1>1
  <2> QED BY <2>1, <2>2, TotalIsWorth
<1> QED BY <1>1, <1>2, <1>3 DEF Fine

\* The initial state.
LEMMA InitFine == Init => IInv
<1> SUFFICES ASSUME Init PROVE IInv
  OBVIOUS
<1>1. /\ asked = {} /\ current_slot = 0 /\ history = <<>> /\ utxo_set = EmptySet
      /\ context = NoContext /\ batch = NoBatch
  BY DEF Init
<1>2. SetsFine
  BY <1>1, ExecutionAssumption DEF SetsFine
<1>3. Fine(utxo_set, {}, asked)
  BY <1>1, EmptySetFine
<1> QED BY <1>1, <1>2, <1>3 DEF IInv, ContextFine, BatchFine, Active

\* The genesis and a coinbase come under names that are new, and touch no other
\* UTXO.
MintsUnder(name, ids, set, new) ==
  /\ ids \subseteq MintedIds /\ \A id \in ids : id[1] = name
  /\ Ids(new) = Ids(set) \cup ids
  /\ \A id \in Ids(set) \ ids : new.utxos[id] = set.utxos[id]

\* So their ids were never there before, and the lineage goes on.
LEMMA Minted ==
  ASSUME NEW d, NEW called, NEW name \in {GenesisCall} \cup Blocks, name \notin called,
         NEW set, Fine(set, d, called), NEW ids, NEW new, MintsUnder(name, ids, set, new)
  PROVE  /\ ids \cap Ids(set) = {}
         /\ AsCreated(new)
         /\ Lineage(Worthy, Ids(new), d, called \cup {name})
         /\ EveryTxSpends => Lineage(UtxoIds, Ids(new), d, called \cup {name})
<1> USE DEF MintsUnder
<1>1. name \notin Txs
  BY ExecutionAssumption
<1>2. ids \subseteq UtxoIds /\ ids \subseteq Worthy
  BY <1>1 DEF UtxoIds, Worthy
<1>3. ASSUME NEW followed, ids \subseteq followed, Lineage(followed, Ids(set), d, called)
      PROVE  /\ ids \cap (Ids(set) \cup d) = {}
             /\ Lineage(followed, Ids(new), d, called \cup {name})
  <2>1. ids \cap (Ids(set) \cup d) = {}
    BY <1>1, <1>3 DEF Lineage
  <2> QED BY <1>3, <2>1 DEF Lineage
<1>4. Lineage(Worthy, Ids(set), d, called) /\ AsCreated(set)
      /\ (EveryTxSpends => Lineage(UtxoIds, Ids(set), d, called))
  BY DEF Fine
<1>5. AsCreated(new)
  BY <1>1, <1>4 DEF AsCreated
<1> QED BY <1>2, <1>3, <1>4, <1>5

\* create_coinbase_utxo.
LEMMA CoinbaseFine ==
  ASSUME IInv, NEW b \in Blocks, NEW reward \in Rewards, NEW locked \in BOOLEAN,
         CreateCoinbase(b, reward, locked)
  PROVE  IInv'
<1>1. /\ b \notin asked /\ asked' = asked \cup {b}
      /\ utxo_set' = [utxo_set EXCEPT
                        !.utxos = Insert(@, <<b, 0>>, [value |-> reward, locked |-> locked]),
                        !.total = @ + reward]
      /\ UNCHANGED <<history, context, current_slot, batch>>
  BY DEF CreateCoinbase
<1>2. PICK d : /\ Fine(utxo_set, d, asked)
               /\ Active => Told(utxo_set, d, DOMAIN context.initial, context.executed)
  BY DEF IInv, ContextFine
<1>3. PICK u \in UtxoMaps : u = utxo_set.utxos /\ IsFiniteSet(DOMAIN u) /\ Ids(utxo_set) = DOMAIN u
  BY <1>2, SetFacts DEF Fine
<1>4. /\ utxo_set \in UtxoSets /\ utxo_set.total \in Int /\ utxo_set.forged \in Nat
      /\ <<b, 0>> \in UtxoIds /\ <<b, 0>> \in MintedIds /\ <<b, 0>>[1] = b
      /\ reward \in Nat
  BY <1>2, SetFacts, ExecutionAssumption DEF Fine, UtxoIds, MintedIds
<1>5. PICK w : w = Insert(u, <<b, 0>>, [value |-> reward, locked |-> locked])
  OBVIOUS
<1>6. AddsOne(u, <<b, 0>>, reward, w)
  BY <1>3, <1>4, <1>5, InsertFacts
<1>7. /\ utxo_set' = [utxos |-> w, total |-> utxo_set.total + reward, forged |-> utxo_set.forged]
      /\ utxo_set'.utxos = w /\ utxo_set'.total = utxo_set.total + reward
      /\ utxo_set'.forged = utxo_set.forged
  <2>1. utxo_set' = [utxo_set EXCEPT !.utxos = w, !.total = utxo_set.total + reward]
    BY <1>1, <1>3, <1>5
  <2>2. utxo_set = [utxos |-> u, total |-> utxo_set.total, forged |-> utxo_set.forged]
    BY <1>3, <1>4 DEF UtxoSets
  <2>3. utxo_set' = [utxos |-> w, total |-> utxo_set.total + reward, forged |-> utxo_set.forged]
    BY <2>1, <2>2
  <2> QED BY <2>3
<1>8. Ids(utxo_set') = Ids(utxo_set) \cup {<<b, 0>>} /\ utxo_set' \in UtxoSets
  BY <1>3, <1>4, <1>6, <1>7 DEF AddsOne, Ids, UtxoSets
<1>9. /\ <<b, 0>> \notin Ids(utxo_set)
      /\ AsCreated(utxo_set')
      /\ Lineage(Worthy, Ids(utxo_set'), d, asked')
      /\ EveryTxSpends => Lineage(UtxoIds, Ids(utxo_set'), d, asked')
  <2>1. asked \subseteq {GenesisCall} \cup Blocks /\ b \in {GenesisCall} \cup Blocks
    BY DEF IInv, SetsFine
  <2>2. PICK ids : ids = {<<b, 0>>}
    OBVIOUS
  <2>3. PICK new : new = utxo_set'
    OBVIOUS
  <2>4. Ids(new) = Ids(utxo_set) \cup ids /\ ids \subseteq MintedIds /\ \A id \in ids : id[1] = b
    BY <1>4, <1>8, <2>2, <2>3
  <2>5. \A id \in Ids(utxo_set) \ ids : new.utxos[id] = utxo_set.utxos[id]
    BY <1>3, <1>5, <1>7, <2>2, <2>3 DEF Insert
  <2>6. MintsUnder(b, ids, utxo_set, new)
    BY <2>4, <2>5 DEF MintsUnder
  <2>7. /\ ids \cap Ids(utxo_set) = {} /\ AsCreated(new)
        /\ Lineage(Worthy, Ids(new), d, asked \cup {b})
        /\ EveryTxSpends => Lineage(UtxoIds, Ids(new), d, asked \cup {b})
    BY <1>1, <1>2, <2>1, <2>6, Minted
  <2> QED BY <1>1, <2>2, <2>3, <2>7
<1>10. ASSUME GenesisCounted PROVE TotalIsSumIn(utxo_set')
  <2>1. utxo_set.total + utxo_set.forged = Worth(u, DOMAIN u)
    BY <1>2, <1>3, <1>10, TotalIsWorth DEF Fine
  <2>2. Worth(w, DOMAIN w) = Worth(u, DOMAIN u) + reward
    BY <1>3, <1>6, <1>9 DEF AddsOne
  <2>3. utxo_set'.total + utxo_set'.forged = Worth(w, DOMAIN w)
    BY <1>4, <1>7, <2>1, <2>2
  <2>4. utxo_set'.total + utxo_set'.forged = Worth(utxo_set'.utxos, Ids(utxo_set'))
    BY <1>7, <2>3 DEF Ids
  <2> QED BY <2>4, TotalIsWorth
<1>11. Fine(utxo_set', d, asked')
  BY <1>3, <1>6, <1>7, <1>8, <1>9, <1>10 DEF Fine, AddsOne, Ids
<1>12. SetsFine'
  <2>1. asked \subseteq asked' /\ asked' \subseteq {GenesisCall} \cup Blocks
    BY <1>1 DEF IInv, SetsFine
  <2>2. \A i \in DOMAIN history : \E e : Fine(history[i], e, asked')
    BY <2>1, FineMore DEF IInv, SetsFine
  <2> QED BY <1>1, <2>1, <2>2 DEF IInv, SetsFine
<1>13. Active' => Told(utxo_set', d, DOMAIN context'.initial, context'.executed)
  <2> SUFFICES ASSUME Active' PROVE Told(utxo_set', d, DOMAIN context'.initial, context'.executed)
    OBVIOUS
  <2>1. Told(utxo_set, d, DOMAIN context.initial, context.executed)
    BY <1>1, <1>2 DEF Active
  <2>2. Ids(utxo_set') \ MintedIds = Ids(utxo_set) \ MintedIds
    BY <1>4, <1>8
  <2>3. Told(utxo_set', d, DOMAIN context.initial, context.executed)
    BY <2>1, <2>2, ToldSame
  <2> QED BY <1>1, <2>3
<1>14. ContextFine'
  BY <1>1, <1>11, <1>13 DEF IInv, ContextFine, Active
<1>15. BatchFine'
  BY <1>1 DEF IInv, BatchFine
<1> QED BY <1>12, <1>14, <1>15 DEF IInv

-----------------------------------------------------------------------------
(***************************************************************************)
(* Each operation keeps the invariant, and what follows from it.           *)
(***************************************************************************)
\* initialize_genesis_utxo_set, accepted, refused at once or refused on the
\* way.
LEMMA GenesisFine ==
  ASSUME IInv, NEW entries \in GenesisLists, InitializeGenesis(entries)
  PROVE  IInv'
<1> DEFINE list == GoodPrefix(entries)
           filled == InsertAll(<<>>, list)
           full == [utxos |-> filled, total |-> SumOf([i \in DOMAIN entries |-> entries[i].value]),
                    forged |-> 0]
<1>1. /\ GenesisCall \notin asked /\ asked' = asked \cup {GenesisCall}
      /\ UNCHANGED <<context, current_slot, batch>>
      /\ \/ UNCHANGED <<utxo_set, history>>
         \/ /\ Ids(utxo_set) = {} /\ list = entries
            /\ utxo_set' = full /\ history' = Append(history, full)
         \/ /\ Ids(utxo_set) = {} /\ list # entries
            /\ utxo_set' = [utxo_set EXCEPT !.utxos = filled] /\ UNCHANGED history
  BY DEF InitializeGenesis
<1>2. PICK d : /\ Fine(utxo_set, d, asked)
               /\ Active => Told(utxo_set, d, DOMAIN context.initial, context.executed)
  BY DEF IInv, ContextFine
<1>3. entries \in Seq(Entries)
  BY ExecutionAssumption DEF Entries
<1>4. list \in Seq(Entries)
  BY <1>3, GoodPrefixType
<1> HIDE DEF list
<1>5. /\ filled \in UtxoMaps /\ IsFiniteSet(DOMAIN filled)
      /\ \A id \in DOMAIN filled : id[1] = GenesisCall /\ id \in MintedIds
      /\ list = <<>> => filled = <<>>
      /\ Distinct(list) => Worth(filled, DOMAIN filled) = SumOf([i \in DOMAIN list |-> list[i].value])
  BY <1>4, GenesisFacts
<1>6. full \in UtxoSets
  <2>1. PICK n \in Nat : DOMAIN entries = 1 .. n /\ \A i \in 1 .. n : entries[i].value \in Nat
    <3>1. \A e \in Entries : e.value \in Nat
      BY DEF Entries
    <3>2. Len(entries) \in Nat /\ DOMAIN entries = 1 .. Len(entries)
          /\ \A i \in 1 .. Len(entries) : entries[i] \in Entries
      BY <1>3
    <3> QED BY <3>1, <3>2
  <2>2. [i \in DOMAIN entries |-> entries[i].value] \in [1 .. n -> Nat]
    BY <2>1
  <2>3. SumOf([i \in DOMAIN entries |-> entries[i].value]) \in Nat
    <3>1. PICK f \in [1 .. n -> Nat] : f = [i \in DOMAIN entries |-> entries[i].value]
      BY <2>2
    <3>2. PICK acc \in [0 .. n -> Nat] : acc[n] = SumOf(f)
      BY SumOfRuns
    <3> QED BY <3>1, <3>2
  <2> QED BY <1>5, <2>3 DEF UtxoSets
<1> HIDE DEF filled
<1>7. asked \subseteq asked' /\ asked' \subseteq {GenesisCall} \cup Blocks
  BY <1>1 DEF IInv, SetsFine
<1>8. \A i \in DOMAIN history : \E e : Fine(history[i], e, asked')
  BY <1>7, FineMore DEF IInv, SetsFine
<1>9. CASE UNCHANGED <<utxo_set, history>>
  <2>1. Fine(utxo_set, d, asked')
    BY <1>2, <1>7, FineMore
  <2> QED BY <1>1, <1>2, <1>7, <1>8, <1>9, <2>1 DEF IInv, SetsFine, ContextFine, BatchFine, Active
<1>10. ASSUME Ids(utxo_set) = {}, NEW new \in UtxoSets, new.utxos = filled,
              GenesisCounted => TotalIsSumIn(new)
       PROVE  /\ Fine(new, d, asked')
              /\ Active => Told(new, d, DOMAIN context.initial, context.executed)
  <2>1. Ids(new) = DOMAIN filled /\ IsFiniteSet(Ids(new))
    BY <1>5, <1>10 DEF Ids
  <2>2. /\ AsCreated(new)
        /\ Lineage(Worthy, Ids(new), d, asked')
        /\ EveryTxSpends => Lineage(UtxoIds, Ids(new), d, asked')
    <3>1. asked \subseteq {GenesisCall} \cup Blocks /\ GenesisCall \in {GenesisCall} \cup Blocks
      BY DEF IInv, SetsFine
    <3>2. PICK ids : ids = DOMAIN filled
      OBVIOUS
    <3>3. /\ ids \subseteq MintedIds /\ \A id \in ids : id[1] = GenesisCall
          /\ Ids(new) = Ids(utxo_set) \cup ids
          /\ Ids(utxo_set) \ ids = {}
      BY <1>5, <1>10, <2>1, <3>2
    <3>4. MintsUnder(GenesisCall, ids, utxo_set, new)
      BY <3>3 DEF MintsUnder
    <3>5. /\ AsCreated(new)
          /\ Lineage(Worthy, Ids(new), d, asked \cup {GenesisCall})
          /\ EveryTxSpends => Lineage(UtxoIds, Ids(new), d, asked \cup {GenesisCall})
      BY <1>1, <1>2, <3>1, <3>4, Minted
    <3> QED BY <1>1, <3>5
  <2>3. Fine(new, d, asked')
    BY <1>10, <2>1, <2>2 DEF Fine
  <2>4. Ids(new) \ MintedIds = Ids(utxo_set) \ MintedIds
    BY <1>5, <1>10, <2>1
  <2> QED BY <1>2, <2>3, <2>4, ToldSame
<1>11. CASE /\ Ids(utxo_set) = {} /\ list = entries
            /\ utxo_set' = full /\ history' = Append(history, full)
  <2>1. full.utxos = filled /\ full.total = SumOf([i \in DOMAIN entries |-> entries[i].value])
        /\ full.forged = 0 /\ Ids(full) = DOMAIN filled
    BY DEF Ids
  <2> HIDE DEF full
  <2>2. ASSUME GenesisCounted PROVE TotalIsSumIn(full)
    <3>1. Distinct(entries)
      BY <2>2 DEF GenesisCounted
    <3>2. full.total = Worth(full.utxos, Ids(full)) /\ full.total \in Int
      BY <1>5, <1>6, <1>11, <2>1, <3>1, SetFacts
    <3>3. full.total + full.forged = Worth(full.utxos, Ids(full))
      BY <2>1, <3>2
    <3> QED BY <3>3, TotalIsWorth
  <2>3. /\ Fine(full, d, asked')
        /\ Active => Told(full, d, DOMAIN context.initial, context.executed)
    BY <1>6, <1>10, <1>11, <2>1, <2>2
  <2>4. SetsFine'
    <3>1. history \in Seq(UtxoSets) /\ current_slot \in 0 .. MaxSlot
      BY DEF IInv, SetsFine
    <3>2. history' \in Seq(UtxoSets)
      BY <1>6, <1>11, <3>1
    <3>3. \A i \in DOMAIN history' :
            (i \in DOMAIN history /\ history'[i] = history[i]) \/ history'[i] = full
      BY <1>11, <3>1
    <3>4. \A i \in DOMAIN history' : \E e : Fine(history'[i], e, asked')
      BY <1>8, <2>3, <3>3
    <3> QED BY <1>1, <1>7, <3>1, <3>2, <3>4 DEF SetsFine
  <2> QED BY <1>1, <1>11, <2>3, <2>4 DEF IInv, ContextFine, BatchFine, Active
<1>12. CASE /\ Ids(utxo_set) = {} /\ list # entries
            /\ utxo_set' = [utxo_set EXCEPT !.utxos = filled] /\ UNCHANGED history
  <2>1. utxo_set \in UtxoSets
    BY <1>2 DEF Fine
  <2>2. /\ utxo_set' \in UtxoSets /\ utxo_set'.utxos = filled /\ utxo_set'.total = utxo_set.total
        /\ utxo_set'.forged = utxo_set.forged /\ Ids(utxo_set') = DOMAIN filled
    BY <1>5, <1>12, <2>1 DEF UtxoSets, Ids
  <2>3. ASSUME GenesisCounted PROVE TotalIsSumIn(utxo_set')
    <3>1. list = <<>>
      BY <1>12, <2>3 DEF GenesisCounted, list
    <3>2. filled = <<>> /\ DOMAIN filled = {}
      BY <1>5, <3>1, EmptyMap
    <3>3. utxo_set.total + utxo_set.forged = Worth(utxo_set.utxos, {})
      BY <1>2, <1>12, <2>3, TotalIsWorth DEF Fine
    <3>4. utxo_set'.total + utxo_set'.forged = Worth(utxo_set'.utxos, Ids(utxo_set'))
      BY <2>2, <3>2, <3>3, WorthEmpty
    <3> QED BY <3>4, TotalIsWorth
  <2>4. PICK new \in UtxoSets : new = utxo_set'
    BY <2>2
  <2>5. /\ Fine(new, d, asked')
        /\ Active => Told(new, d, DOMAIN context.initial, context.executed)
    BY <1>10, <1>12, <2>2, <2>3, <2>4
  <2>6. SetsFine'
    BY <1>1, <1>7, <1>8, <1>12 DEF IInv, SetsFine
  <2> QED BY <1>1, <2>4, <2>5, <2>6 DEF IInv, ContextFine, BatchFine, Active
<1> QED BY <1>1, <1>9, <1>11, <1>12

\* What a list of receipts does to the context.
LEMMA Recorded ==
  ASSUME NEW receipts \in Seq(Receipts),
         Active => context \in [initial : UtxoMaps, executed : Seq(Receipts)],
         context' = Record(context, receipts)
  PROVE  /\ Active' <=> Active
         /\ Active => /\ context' \in [initial : UtxoMaps, executed : Seq(Receipts)]
                      /\ context'.initial = context.initial
                      /\ context'.executed = context.executed \o receipts
<1>1. CASE context = NoContext
  <2>1. context' = NoContext
    BY <1>1 DEF Record
  <2>2. ~Active /\ ~Active'
    BY <1>1, <2>1 DEF Active
  <2> QED BY <2>2
<1>2. CASE context # NoContext
  <2>1. PICK u \in UtxoMaps, rs \in Seq(Receipts) : context = [initial |-> u, executed |-> rs]
    <3>1. context \in [initial : UtxoMaps, executed : Seq(Receipts)]
      BY <1>2 DEF Active
    <3>2. context.initial \in UtxoMaps /\ context.executed \in Seq(Receipts)
          /\ context = [initial |-> context.initial, executed |-> context.executed]
      BY <3>1
    <3> QED BY <3>2
  <2>2. context' = [initial |-> u, executed |-> rs \o receipts]
    BY <1>2, <2>1 DEF Record
  <2>3. rs \o receipts \in Seq(Receipts)
    OBVIOUS
  <2>4. Active /\ Active'
    BY <1>2, <2>2, NoContextIsNone DEF Active
  <2>5. PICK both \in Seq(Receipts) : both = rs \o receipts
    BY <2>3
  <2>6. context' = [initial |-> u, executed |-> both]
    BY <2>2, <2>5
  <2>7. /\ context' \in [initial : UtxoMaps, executed : Seq(Receipts)]
        /\ context'.initial = u
        /\ context'.executed = both
    BY <2>6
  <2>8. context.initial = u /\ context.executed = rs
    BY <2>1
  <2> QED BY <2>4, <2>5, <2>7, <2>8
<1> QED BY <1>1, <1>2

\* One transaction is a batch of one, as far as the invariant is concerned.
LEMMA Executed ==
  ASSUME IInv, NEW receipts \in Seq(Receipts),
         context' = Record(context, receipts), UNCHANGED <<history, current_slot, asked>>,
         NEW d, Fine(utxo_set', d, asked),
         Active => Told(utxo_set', d, DOMAIN context.initial, context.executed \o receipts)
  PROVE  SetsFine' /\ ContextFine'
<1>1. Active => context \in [initial : UtxoMaps, executed : Seq(Receipts)]
  BY DEF IInv, ContextFine
<1>2. /\ Active' <=> Active
      /\ Active => /\ context' \in [initial : UtxoMaps, executed : Seq(Receipts)]
                   /\ context'.initial = context.initial
                   /\ context'.executed = context.executed \o receipts
  BY <1>1, Recorded
<1>3. SetsFine'
  BY DEF IInv, SetsFine
<1>4. Active' => Told(utxo_set', d, DOMAIN context'.initial, context'.executed)
  BY <1>2
<1> QED BY <1>2, <1>3, <1>4 DEF ContextFine

\* execute_utxo_transaction.
LEMMA ExecuteFine ==
  ASSUME IInv, NEW h \in Txs, ExecuteTransaction(h)
  PROVE  IInv'
<1>1. PICK done : done = Process(utxo_set, current_slot, h)
  OBVIOUS
<1>2. /\ utxo_set' = done.set /\ context' = Record(context, <<done.receipt>>)
      /\ UNCHANGED <<history, current_slot, batch, asked>>
  BY <1>1 DEF ExecuteTransaction
<1>3. PICK d : /\ Fine(utxo_set, d, asked)
               /\ Active => Told(utxo_set, d, DOMAIN context.initial, context.executed)
  BY DEF IInv, ContextFine
<1>4. asked \subseteq {GenesisCall} \cup Blocks
  BY DEF IInv, SetsFine
<1>5. /\ Fine(done.set, Buried(d, done.receipt), asked) /\ done.receipt \in Receipts
      /\ Ids(done.set) = Replayed(Ids(utxo_set), done.receipt)
      /\ done.receipt.success => ToSet(done.receipt.consumed) \subseteq Ids(utxo_set)
  BY <1>1, <1>3, <1>4, OneMore
<1>6. Active => Told(done.set, Buried(d, done.receipt), DOMAIN context.initial,
                     context.executed \o <<done.receipt>>)
  <2> SUFFICES ASSUME Active
               PROVE  Told(done.set, Buried(d, done.receipt), DOMAIN context.initial,
                           context.executed \o <<done.receipt>>)
    OBVIOUS
  <2>1. context.executed \in Seq(Receipts)
    BY <1>3 DEF Told
  <2>2. Append(context.executed, done.receipt) = context.executed \o <<done.receipt>>
    BY <1>5, <2>1
  <2>3. Told(done.set, Buried(d, done.receipt), DOMAIN context.initial,
             Append(context.executed, done.receipt))
    BY <1>3, <1>5, OneMoreTold
  <2> QED BY <2>2, <2>3
<1>7. <<done.receipt>> \in Seq(Receipts)
  BY <1>5
<1>8. SetsFine' /\ ContextFine'
  BY <1>2, <1>5, <1>6, <1>7, Executed
<1>9. BatchFine'
  BY <1>2 DEF IInv, BatchFine
<1> QED BY <1>8, <1>9 DEF IInv

\* execute_utxo_batch.
LEMMA BatchIsFine ==
  ASSUME IInv, NEW txs \in BatchLists, ExecuteBatch(txs)
  PROVE  IInv'
<1>1. PICK done : done = RunBatch(utxo_set, txs)
  OBVIOUS
<1>2. /\ utxo_set' = done.set /\ context' = Record(context, done.receipts)
      /\ batch' = [prev |-> utxo_set.utxos, new |-> done.set.utxos, receipts |-> done.receipts]
      /\ UNCHANGED <<history, current_slot, asked>>
  BY <1>1 DEF ExecuteBatch
<1>3. PICK d : /\ Fine(utxo_set, d, asked)
               /\ Active => Told(utxo_set, d, DOMAIN context.initial, context.executed)
  BY DEF IInv, ContextFine
<1>4. asked \subseteq {GenesisCall} \cup Blocks /\ txs \in Seq(Txs)
  BY ExecutionAssumption DEF IInv, SetsFine
<1>5. PICK from, receipts :
        /\ Told(utxo_set, d, from, receipts)
        /\ Active => from = DOMAIN context.initial /\ receipts = context.executed
  BY <1>3, ToldAtStart DEF Fine
<1>6. /\ \E e : /\ Fine(done.set, e, asked)
                /\ Told(done.set, e, from, receipts \o done.receipts)
      /\ done.receipts \in Seq(Receipts)
      /\ Ids(done.set) = Replay(Ids(utxo_set), done.receipts)
  BY <1>1, <1>3, <1>4, <1>5, BatchFacts
<1>7. PICK e : /\ Fine(done.set, e, asked)
               /\ Told(done.set, e, from, receipts \o done.receipts)
  BY <1>6
<1>8. Active => Told(utxo_set', e, DOMAIN context.initial, context.executed \o done.receipts)
  BY <1>2, <1>5, <1>7
<1>9. SetsFine' /\ ContextFine'
  BY <1>2, <1>6, <1>7, <1>8, Executed
<1>10. BatchFine'
  BY <1>2, <1>6 DEF BatchFine, Ids
<1> QED BY <1>9, <1>10 DEF IInv

\* begin_utxo_execution: the story starts over.
LEMMA BeginFine == ASSUME IInv, Begin PROVE IInv'
<1>1. /\ context' = [initial |-> utxo_set.utxos, executed |-> <<>>]
      /\ UNCHANGED <<utxo_set, history, current_slot, batch, asked>>
  BY DEF Begin
<1>2. PICK d : Fine(utxo_set, d, asked)
  BY DEF IInv, ContextFine
<1>3. utxo_set \in UtxoSets /\ utxo_set.utxos \in UtxoMaps
  BY <1>2, SetFacts DEF Fine
<1>4. Told(utxo_set, d, DOMAIN context'.initial, context'.executed)
  BY <1>1, <1>3, ToldAtStart DEF Ids
<1>5. context' \in [initial : UtxoMaps, executed : Seq(Receipts)]
  BY <1>1, <1>3
<1> QED BY <1>1, <1>2, <1>4, <1>5 DEF IInv, SetsFine, ContextFine, BatchFine

\* commit_utxo_execution: the set goes into the history.
LEMMA CommitFine == ASSUME IInv, Commit PROVE IInv'
<1>1. /\ context' = NoContext /\ history' = IF Active THEN Append(history, utxo_set) ELSE history
      /\ UNCHANGED <<utxo_set, current_slot, batch, asked>>
  BY DEF Commit
<1>2. PICK d : Fine(utxo_set, d, asked)
  BY DEF IInv, ContextFine
<1>3. history \in Seq(UtxoSets) /\ utxo_set \in UtxoSets
      /\ \A i \in DOMAIN history : \E e : Fine(history[i], e, asked)
  BY <1>2 DEF IInv, SetsFine, Fine
<1>4. history' \in Seq(UtxoSets)
      /\ \A i \in DOMAIN history' :
           (i \in DOMAIN history /\ history'[i] = history[i]) \/ history'[i] = utxo_set
  BY <1>1, <1>3
<1>5. SetsFine'
  BY <1>1, <1>2, <1>3, <1>4 DEF IInv, SetsFine
<1> QED BY <1>1, <1>2, <1>5 DEF IInv, ContextFine, BatchFine, Active

\* rollback_utxo_execution: a set of the history comes back, with its story.
LEMMA RollbackFine == ASSUME IInv, Rollback PROVE IInv'
<1>1. /\ context' = NoContext
      /\ history' = IF history = <<>> THEN history ELSE Front(history)
      /\ utxo_set' = IF history = <<>> THEN utxo_set ELSE Last(history)
      /\ UNCHANGED <<current_slot, batch, asked>>
  BY DEF Rollback
<1>2. PICK d : Fine(utxo_set, d, asked)
  BY DEF IInv, ContextFine
<1>3. history \in Seq(UtxoSets) /\ \A i \in DOMAIN history : \E e : Fine(history[i], e, asked)
  BY DEF IInv, SetsFine
<1>4. CASE history = <<>>
  BY <1>1, <1>2, <1>4 DEF IInv, SetsFine, ContextFine, BatchFine, Active
<1>5. CASE history # <<>>
  <2>1. /\ Len(history) \in DOMAIN history /\ utxo_set' = history[Len(history)]
        /\ history' \in Seq(UtxoSets)
        /\ \A i \in DOMAIN history' : i \in DOMAIN history /\ history'[i] = history[i]
    BY <1>1, <1>3, <1>5 DEF Front, Last
  <2>2. \E e : Fine(utxo_set', e, asked)
    BY <1>3, <2>1
  <2>3. SetsFine'
    BY <1>1, <1>3, <2>1 DEF IInv, SetsFine
  <2> QED BY <1>1, <2>2, <2>3 DEF IInv, ContextFine, BatchFine, Active
<1> QED BY <1>4, <1>5

\* Every step.
LEMMA StepFine == IInv /\ [Next]_vars => IInv'
<1> SUFFICES ASSUME IInv, [Next]_vars PROVE IInv'
  OBVIOUS
<1>1. ASSUME NEW entries \in GenesisLists, InitializeGenesis(entries) PROVE IInv'
  BY <1>1, GenesisFine
<1>2. ASSUME NEW b \in Blocks, NEW reward \in Rewards, NEW locked \in BOOLEAN,
             CreateCoinbase(b, reward, locked)
      PROVE  IInv'
  BY <1>2, CoinbaseFine
<1>3. ASSUME NEW h \in Txs, ExecuteTransaction(h) PROVE IInv'
  BY <1>3, ExecuteFine
<1>4. ASSUME NEW txs \in BatchLists, ExecuteBatch(txs) PROVE IInv'
  BY <1>4, BatchIsFine
<1>5. CASE AdvanceSlot
  <2>1. /\ current_slot < MaxSlot /\ current_slot' = current_slot + 1
        /\ UNCHANGED <<utxo_set, history, context, batch, asked>>
    BY <1>5 DEF AdvanceSlot
  <2>2. current_slot' \in 0 .. MaxSlot
    BY <2>1, ExecutionAssumption DEF IInv, SetsFine
  <2> QED BY <2>1, <2>2 DEF IInv, SetsFine, ContextFine, BatchFine, Active
<1>6. CASE Begin
  BY <1>6, BeginFine
<1>7. CASE Commit
  BY <1>7, CommitFine
<1>8. CASE Rollback
  BY <1>8, RollbackFine
<1>9. CASE UNCHANGED vars
  BY <1>9 DEF vars, IInv, SetsFine, ContextFine, BatchFine, Active
<1> QED BY <1>1, <1>2, <1>3, <1>4, <1>5, <1>6, <1>7, <1>8, <1>9 DEF Next

\* The invariant holds always.
LEMMA InvHolds == Spec => []IInv
<1>1. IInv /\ [Next]_vars => IInv'
  BY StepFine
<1> QED BY <1>1, InitFine, PTL DEF Spec

\* Each property follows from it.
LEMMA InvNoDoubleSpend == IInv /\ EveryTxSpends => NoDoubleSpend
<1> SUFFICES ASSUME IInv, EveryTxSpends, Active PROVE NoDoubleSpend
  BY DEF NoDoubleSpend
<1>1. PICK d : SpentOnce(context.executed, d)
  BY DEF IInv, ContextFine, Told
<1> QED BY <1>1 DEF SpentOnce, NoDoubleSpend

\* No UTXO is spent by two transactions of one context, whatever the transactions
\* are and however genesis, coinbase, commit and rollback come in between, as long
\* as every transaction spends something.
THEOREM SpendsAreUnique ==
  ASSUME EveryTxSpends
  PROVE  Spec => []NoDoubleSpend
<1>1. IInv => NoDoubleSpend
  BY InvNoDoubleSpend
<1>2. Spec => []IInv
  BY InvHolds
<1> QED BY <1>1, <1>2, PTL

\* The receipts of the context, and those of the last batch, account for the
\* UTXO set.
THEOREM ReceiptsAccountForSet == Spec => []ReceiptsExplainSet
<1>1. IInv => ReceiptsExplainSet
  BY DEF IInv, ContextFine, BatchFine, Told, ReceiptsExplainSet
<1>2. Spec => []IInv
  BY InvHolds
<1> QED BY <1>1, <1>2, PTL

\* The types of the maps, as TypeOK says it.
LEMMA MapIsMap == \A u \in UtxoMaps : IsUtxoMap(u)
BY MapFacts DEF IsUtxoMap, Utxo

\* A fine set has a total that is the sum, less what was listed again.
LEMMA FineCounts ==
  ASSUME NEW set, NEW d, NEW called, Fine(set, d, called), GenesisCounted
  PROVE  IsUtxoSet(set) /\ TotalIsSumIn(set)
<1>1. set \in UtxoSets /\ TotalIsSumIn(set)
  BY DEF Fine
<1> QED BY <1>1, SetFacts, MapIsMap DEF IsUtxoSet

LEMMA InvTotalIsSum == IInv /\ GenesisCounted => TotalIsSum
<1> SUFFICES ASSUME IInv, GenesisCounted PROVE TotalIsSum
  OBVIOUS
<1>1. IsUtxoSet(utxo_set) /\ TotalIsSumIn(utxo_set)
  BY FineCounts DEF IInv, ContextFine
<1>2. \A i \in DOMAIN history : IsUtxoSet(history[i]) /\ TotalIsSumIn(history[i])
  BY FineCounts DEF IInv, SetsFine
<1>3. ASSUME Active
      PROVE  /\ IsUtxoMap(context.initial)
             /\ \A i \in DOMAIN context.executed : IsReceipt(context.executed[i])
  <2>1. context.initial \in UtxoMaps /\ context.executed \in Seq(Receipts)
    BY <1>3 DEF IInv, ContextFine
  <2>2. \A r \in Receipts : IsReceipt(r)
    BY DEF Receipts, IsReceipt, ToSet
  <2>3. \A i \in DOMAIN context.executed : context.executed[i] \in Receipts
    BY <2>1
  <2> QED BY <2>1, <2>2, <2>3, MapIsMap
<1> QED BY <1>1, <1>2, <1>3 DEF IInv, SetsFine, TotalIsSum, TypeOK

\* Every variable has its type, and total_value falls short of what the UTXOs of
\* the set add up to by what transactions listed again, and by nothing else: in the
\* present set and in each one a rollback can bring back, if the genesis is taken
\* as a whole or refused at its first entry.
THEOREM TotalIsAlwaysSum ==
  ASSUME GenesisCounted
  PROVE  Spec => []TotalIsSum
<1>1. IInv => TotalIsSum
  BY InvTotalIsSum
<1>2. Spec => []IInv
  BY InvHolds
<1> QED BY <1>1, <1>2, PTL

-----------------------------------------------------------------------------
(***************************************************************************)
(* What transactions move.  They gain nothing whatever total_value says,   *)
(* because they write over nothing of value; a batch does not, because its *)
(* transactions do not.                                                    *)
(***************************************************************************)
\* A fine set is worth an amount.
LEMMA FineWorth ==
  ASSUME NEW set, NEW d, NEW called, Fine(set, d, called)
  PROVE  set \in UtxoSets /\ IsFiniteSet(Ids(set)) /\ AsCreated(set)
         /\ Worth(set.utxos, Ids(set)) \in Nat
<1>1. set \in UtxoSets /\ IsFiniteSet(Ids(set)) /\ AsCreated(set)
  BY DEF Fine
<1>2. \A id \in Ids(set) : set.utxos[id].value \in Nat
  BY <1>1, SetFacts
<1> QED BY <1>1, <1>2, WorthNat

\* From one set to the next no coin changes and those that are new were made by
\* transactions; all are worth no more than before, once the fees are taken off,
\* but for what was listed again.
MovesWithoutGain(old, new, fees) ==
  /\ \A id \in Ids(old) \cap Ids(new) : new.utxos[id] = old.utxos[id]
  /\ \A id \in Ids(new) \ Ids(old) : id[1] \in Txs
  /\ new.forged >= old.forged
  /\ Worth(new.utxos, Ids(new)) + fees <= Worth(old.utxos, Ids(old)) + (new.forged - old.forged)

\* One transaction.
LEMMA ProcessMoves ==
  ASSUME NEW set, NEW dead, NEW called, Fine(set, dead, called),
         called \subseteq {GenesisCall} \cup Blocks,
         NEW slot, NEW h \in Txs, NEW done, done = Process(set, slot, h)
  PROVE  /\ done.receipt \in Receipts
         /\ MovesWithoutGain(set, done.set, Charged(0, done.receipt))
<1>1. /\ set \in UtxoSets /\ IsFiniteSet(Ids(set)) /\ AsCreated(set)
      /\ Worth(set.utxos, Ids(set)) \in Nat /\ set.forged \in Nat
  BY FineWorth, SetFacts
<1>2. /\ Valid(set, slot, h) => done.set = Apply(set, h)
      /\ ~Valid(set, slot, h) => done.set = set
      /\ done.receipt \in Receipts /\ done.receipt.tx = h
      /\ done.receipt.success <=> Valid(set, slot, h)
  BY <1>1, ProcessFacts
<1>3. CASE ~Valid(set, slot, h)
  <2>1. Charged(0, done.receipt) = 0
    BY <1>2, <1>3 DEF Charged
  <2> QED BY <1>1, <1>2, <1>3, <2>1 DEF MovesWithoutGain
<1>4. CASE Valid(set, slot, h)
  <2> DEFINE rest == Ids(set) \ Inputs(h)
             new  == Apply(set, h)
  <2>1. Inputs(h) \subseteq Ids(set) /\ InputValue(set, h) >= OutputValue(h) + Body[h].fee
    BY <1>4 DEF Valid
  <2>2. /\ InputValue(set, h) \in Nat /\ OutputValue(h) \in Nat /\ Body[h].fee \in Nat
        /\ RepeatValue(set, h) \in Nat
    BY <1>1, AmountFacts, BodyFacts
  <2>3. /\ Ids(new) = rest \cup Created(h) /\ AsCreated(new)
        /\ new.forged = set.forged + RepeatValue(set, h)
        /\ \A id \in Ids(new) \ Created(h) : new.utxos[id] = set.utxos[id]
    BY <1>1, ApplyFacts, ApplyAsCreated
  <2>4. OverwritesNothing(set, h)
    <3>1. Lineage(Worthy, Ids(set), dead, called)
      BY DEF Fine
    <3>2. Created(h) \cap Worthy # {} => Inputs(h) \cap Worthy # {}
      BY <1>1, <1>4, WorthySpend
    <3>3. Created(h) \cap Ids(set) \cap Worthy = {}
      BY <2>1, <3>1, <3>2, LineageGoesOn
    <3> QED BY <1>1, <3>3, NothingOverwritten
  <2>5. /\ IsFiniteSet(rest)
        /\ Worth(set.utxos, rest) + InputValue(set, h)
             = Worth(set.utxos, Ids(set)) + RepeatValue(set, h)
    BY <1>1, <2>1, InputsWorth
  <2>6. Worth(new.utxos, rest \cup Created(h)) = Worth(set.utxos, rest) + OutputValue(h)
    <3>1. rest \subseteq Ids(set) \ Inputs(h)
      OBVIOUS
    <3> QED BY <1>1, <2>4, <2>5, <3>1, OutputsWorth
  <2>7. Worth(set.utxos, rest) \in Nat
    <3>1. \A id \in rest : set.utxos[id].value \in Nat
      BY <1>1, SetFacts
    <3> QED BY <2>5, <3>1, WorthNat
  <2>8. /\ Worth(new.utxos, Ids(new)) + Body[h].fee
             <= Worth(set.utxos, Ids(set)) + (new.forged - set.forged)
        /\ new.forged >= set.forged
    <3>1. Worth(new.utxos, Ids(new)) = Worth(set.utxos, rest) + OutputValue(h)
      BY <2>3, <2>6
    <3>2. new.forged - set.forged = RepeatValue(set, h) /\ new.forged >= set.forged
      BY <1>1, <2>2, <2>3
    <3> HIDE DEF rest, new
    <3> QED BY <1>1, <2>1, <2>2, <2>5, <2>7, <3>1, <3>2
  <2>9. \A id \in Created(h) : id[1] = h
    BY BodyFacts
  <2>10. ASSUME NEW id \in Ids(set) \cap Ids(new) PROVE new.utxos[id] = set.utxos[id]
    <3> HIDE DEF new
    <3>1. CASE id \in Created(h)
      BY <1>1, <2>3, <2>9, <3>1 DEF AsCreated
    <3>2. CASE id \notin Created(h)
      BY <2>3, <3>2
    <3> QED BY <3>1, <3>2
  <2>11. \A id \in Ids(new) \ Ids(set) : id[1] \in Txs
    BY <2>3, <2>9
  <2> HIDE DEF new
  <2>12. MovesWithoutGain(set, new, Body[h].fee)
    BY <2>8, <2>10, <2>11 DEF MovesWithoutGain
  <2>13. Charged(0, done.receipt) = Body[h].fee
    BY <1>2, <1>4, <2>2 DEF Charged
  <2>14. done.set = new
    BY <1>2, <1>4 DEF new
  <2> QED BY <1>2, <2>12, <2>13, <2>14
<1> QED BY <1>3, <1>4

\* One move after another.
LEMMA MovesCompose ==
  ASSUME NEW a, NEW b, NEW c, NEW called, NEW d, NEW e, NEW f, NEW m \in Nat, NEW n \in Nat,
         Fine(a, d, called), Fine(b, e, called), Fine(c, f, called),
         MovesWithoutGain(a, b, m), MovesWithoutGain(b, c, n)
  PROVE  MovesWithoutGain(a, c, m + n)
<1>1. /\ AsCreated(a) /\ AsCreated(c)
      /\ Worth(a.utxos, Ids(a)) \in Nat /\ Worth(b.utxos, Ids(b)) \in Nat
      /\ Worth(c.utxos, Ids(c)) \in Nat
      /\ a.forged \in Nat /\ b.forged \in Nat /\ c.forged \in Nat
  BY FineWorth, SetFacts
<1>2. /\ Worth(c.utxos, Ids(c)) + (m + n) <= Worth(a.utxos, Ids(a)) + (c.forged - a.forged)
      /\ c.forged >= a.forged
  <2>1. /\ Worth(c.utxos, Ids(c)) + n <= Worth(b.utxos, Ids(b)) + (c.forged - b.forged)
        /\ Worth(b.utxos, Ids(b)) + m <= Worth(a.utxos, Ids(a)) + (b.forged - a.forged)
        /\ c.forged >= b.forged /\ b.forged >= a.forged
    BY DEF MovesWithoutGain
  <2> QED BY <1>1, <2>1
<1>3. \A id \in Ids(c) \ Ids(a) : id[1] \in Txs
  BY DEF MovesWithoutGain
<1>4. ASSUME NEW id \in Ids(a) \cap Ids(c) PROVE c.utxos[id] = a.utxos[id]
  <2>1. CASE id[1] \in Txs
    BY <1>1, <2>1 DEF AsCreated
  <2>2. CASE id[1] \notin Txs
    <3>1. id \in Ids(b)
      BY <2>2 DEF MovesWithoutGain
    <3>2. b.utxos[id] = a.utxos[id] /\ c.utxos[id] = b.utxos[id]
      BY <3>1 DEF MovesWithoutGain
    <3> QED BY <3>2
  <2> QED BY <2>1, <2>2
<1> QED BY <1>2, <1>3, <1>4 DEF MovesWithoutGain

\* A batch.
LEMMA BatchMoves ==
  ASSUME NEW set, NEW dead, NEW called, Fine(set, dead, called),
         called \subseteq {GenesisCall} \cup Blocks,
         NEW txs \in Seq(Txs), NEW done, done = RunBatch(set, txs)
  PROVE  /\ done \in Batches
         /\ \E d : Fine(done.set, d, called)
         /\ MovesWithoutGain(set, done.set, FeesOf(done.receipts))
<1> DEFINE n == Len(txs)
           Reached(b) == /\ b \in Batches
                         /\ MovesWithoutGain(set, b.set, FeesOf(b.receipts))
                         /\ \E d : Fine(b.set, d, called)
<1>1. n \in Nat /\ \A k \in 1 .. n : txs[k] \in Txs
  OBVIOUS
<1>2. set \in UtxoSets /\ Worth(set.utxos, Ids(set)) \in Nat /\ set.forged \in Nat
  BY FineWorth, SetFacts
<1>3. PICK acc : RunBatchRun(set, txs, acc)
  BY <1>2, RunBatchRuns
<1>4. /\ acc[0] = [set |-> set, receipts |-> <<>>] /\ acc[n] = done
      /\ \A k \in 1 .. n : acc[k] = BatchStep(acc[k - 1], txs[k])
  BY <1>3 DEF RunBatchRun
<1>5. Reached([set |-> set, receipts |-> <<>>])
  <2>1. [set |-> set, receipts |-> <<>>] \in Batches
    BY <1>2 DEF Batches
  <2>2. MovesWithoutGain(set, set, 0)
    BY <1>2 DEF MovesWithoutGain
  <2> QED BY <2>1, <2>2, FeesEmpty
<1>6. ASSUME NEW b, Reached(b), NEW h \in Txs PROVE Reached(BatchStep(b, h))
  <2>1. PICK d : Fine(b.set, d, called)
    BY <1>6
  <2>2. PICK p : p = Process(b.set, current_slot, h)
    OBVIOUS
  <2>3. PICK c : c = BatchStep(b, h)
    OBVIOUS
  <2>4. c.set = p.set /\ c.receipts = Append(b.receipts, p.receipt) /\ c \in Batches
    BY <1>6, <2>2, <2>3, BatchStepClosed DEF BatchStep
  <2>5. /\ Fine(p.set, Buried(d, p.receipt), called)
        /\ MovesWithoutGain(b.set, p.set, Charged(0, p.receipt)) /\ p.receipt \in Receipts
    BY <2>1, <2>2, OneMore, ProcessMoves
  <2>6. PICK old \in Seq(Receipts) : old = b.receipts
    BY <1>6 DEF Batches
  <2>7. PICK r \in Receipts : r = p.receipt
    BY <2>5
  <2>8. PICK m \in Nat, f \in Nat : m = FeesOf(old) /\ f = Charged(0, r)
    BY FeesType, ChargedClosed
  <2>9. FeesOf(Append(old, r)) = m + f
    <3>1. FeesOf(Append(old, r)) = Charged(m, r)
      BY <2>8, FeesAppend
    <3>2. Body[r.tx].fee \in Nat
      BY BodyFacts DEF Receipts
    <3> QED BY <2>8, <3>1, <3>2 DEF Charged
  <2>10. MovesWithoutGain(set, b.set, m) /\ MovesWithoutGain(b.set, p.set, f)
    BY <1>6, <2>5, <2>6, <2>7, <2>8
  <2>11. MovesWithoutGain(set, p.set, m + f)
    BY <2>1, <2>5, <2>10, MovesCompose
  <2>12. MovesWithoutGain(set, c.set, FeesOf(c.receipts))
    BY <2>4, <2>6, <2>7, <2>9, <2>11
  <2> QED BY <2>3, <2>4, <2>5, <2>12
<1> HIDE DEF Reached, n
<1> DEFINE S == {k \in 0 .. n : Reached(acc[k])}
<1>7. 0 \in S
  BY <1>1, <1>4, <1>5
<1>8. ASSUME NEW k \in 0 .. n - 1, k \in S PROVE k + 1 \in S
  <2>1. k + 1 \in 1 .. n /\ (k + 1) - 1 = k /\ k + 1 \in 0 .. n
    BY <1>1
  <2>2. acc[k + 1] = BatchStep(acc[k], txs[k + 1]) /\ txs[k + 1] \in Txs
    BY <1>1, <1>4, <2>1
  <2>3. Reached(acc[k])
    BY <1>8
  <2>4. Reached(acc[k + 1])
    BY <1>6, <2>2, <2>3
  <2> QED BY <2>1, <2>4
<1> HIDE DEF S
<1>9. n \in S
  <2>1. \A k \in 0 .. n : k \in S
    BY <1>1, <1>7, <1>8, CountUp
  <2> QED BY <1>1, <2>1
<1>10. Reached(done)
  BY <1>4, <1>9 DEF S
<1> QED BY <1>10 DEF Reached

\* A list that did not grow has no new receipts.
LEMMA NothingNew ==
  ASSUME NEW rs \in Seq(Receipts) PROVE SubSeq(rs, Len(rs) + 1, Len(rs)) = <<>>
OBVIOUS

\* What the set holds and the fees are no more than what it held, but for what was
\* listed again.
Burns(fees) == Held(utxo_set') + fees <= Held(utxo_set) + (utxo_set'.forged - utxo_set.forged)

\* A move burns its fees, and nothing at least.
LEMMA MovesBurn ==
  ASSUME NEW d, Fine(utxo_set, d, asked), NEW called, \E e : Fine(utxo_set', e, called),
         NEW fees \in Nat, MovesWithoutGain(utxo_set, utxo_set', fees)
  PROVE  Burns(fees) /\ Burns(0)
<1>1. PICK old \in Nat, new \in Nat :
        /\ old = Worth(utxo_set.utxos, Ids(utxo_set))
        /\ new = Worth(utxo_set'.utxos, Ids(utxo_set'))
  BY FineWorth
<1>2. PICK m \in Nat, n \in Nat : m = utxo_set.forged /\ n = utxo_set'.forged
  BY SetFacts DEF Fine
<1>3. Held(utxo_set) = old /\ Held(utxo_set') = new
  BY <1>1, HeldIsWorth, Zenon
<1>4. new + fees <= old + (n - m)
  BY <1>1, <1>2 DEF MovesWithoutGain
<1>5. new + 0 <= old + (n - m)
  BY <1>4
<1> QED BY <1>2, <1>3, <1>4, <1>5 DEF Burns

\* Nothing happens to a set that stays.
LEMMA SameBurns == ASSUME IInv, utxo_set' = utxo_set PROVE Burns(0)
<1>1. PICK d : Fine(utxo_set, d, asked)
  BY DEF IInv, ContextFine
<1>2. PICK held \in Nat, m \in Nat :
        held = Worth(utxo_set.utxos, Ids(utxo_set)) /\ m = utxo_set.forged
  BY <1>1, FineWorth, SetFacts
<1>3. Held(utxo_set) = held
  BY <1>2, HeldIsWorth
<1>4. held + 0 <= held + (m - m)
  OBVIOUS
<1> QED BY <1>2, <1>3, <1>4 DEF Burns

\* A step that mints nothing and rolls nothing back burns fees at least, but for what
\* is listed again.
LEMMA StepBurns ==
  ASSUME IInv, [Next]_vars
  PROVE  asked' = asked /\ Len(history') >= Len(history) => Burns(FeesOf(NewReceipts))
<1> SUFFICES ASSUME Next, asked' = asked, Len(history') >= Len(history)
             PROVE  Burns(FeesOf(NewReceipts))
  <2>1. CASE UNCHANGED vars
    <3>1. utxo_set' = utxo_set
      BY <2>1 DEF vars
    <3>2. NewReceipts = <<>>
      <4>1. CASE Active
        <5>1. context.executed \in Seq(Receipts) /\ context' = context
          BY <2>1, <4>1 DEF vars, IInv, ContextFine
        <5> QED BY <5>1, NothingNew DEF NewReceipts
      <4>2. CASE ~Active
        BY <4>2 DEF NewReceipts
      <4> QED BY <4>1, <4>2
    <3> QED BY <3>1, <3>2, FeesEmpty, SameBurns
  <2> QED BY <2>1
<1>1. PICK d : Fine(utxo_set, d, asked)
  BY DEF IInv, ContextFine
<1>2. Active => context \in [initial : UtxoMaps, executed : Seq(Receipts)]
  BY DEF IInv, ContextFine
<1>3. asked \subseteq {GenesisCall} \cup Blocks /\ history \in Seq(UtxoSets)
  BY DEF IInv, SetsFine
<1>4. ASSUME NEW receipts \in Seq(Receipts), context' = Record(context, receipts)
      PROVE  NewReceipts = receipts \/ NewReceipts = <<>>
  <2>1. /\ Active' <=> Active
        /\ Active => context'.executed = context.executed \o receipts
    BY <1>2, <1>4, Recorded
  <2>2. CASE Active
    <3>1. PICK old \in Seq(Receipts) : old = context.executed
      BY <1>2, <2>2
    <3>2. context'.executed = old \o receipts
      BY <2>1, <2>2, <3>1
    <3>3. SubSeq(old \o receipts, Len(old) + 1, Len(old \o receipts)) = receipts
      OBVIOUS
    <3>4. NewReceipts = SubSeq(context'.executed, Len(old) + 1, Len(context'.executed))
      BY <2>1, <2>2, <3>1 DEF NewReceipts, Active
    <3> QED BY <3>2, <3>3, <3>4
  <2>3. CASE ~Active
    BY <2>3 DEF NewReceipts
  <2> QED BY <2>2, <2>3
<1>5. ASSUME utxo_set' = utxo_set, NewReceipts = <<>>
      PROVE  Burns(FeesOf(NewReceipts))
  BY <1>5, FeesEmpty, SameBurns
<1>6. ASSUME NEW h \in Txs, ExecuteTransaction(h)
      PROVE  Burns(FeesOf(NewReceipts))
  <2>1. PICK done : done = Process(utxo_set, current_slot, h)
    OBVIOUS
  <2>2. utxo_set' = done.set /\ context' = Record(context, <<done.receipt>>)
    BY <1>6, <2>1 DEF ExecuteTransaction
  <2>3. /\ done.receipt \in Receipts /\ \E e : Fine(done.set, e, asked)
        /\ MovesWithoutGain(utxo_set, done.set, Charged(0, done.receipt))
    BY <1>1, <1>3, <2>1, OneMore, ProcessMoves
  <2>4. NewReceipts = <<done.receipt>> \/ NewReceipts = <<>>
    <3>1. <<done.receipt>> = Append(<<>>, done.receipt) /\ <<>> \in Seq(Receipts)
      BY <2>3
    <3>2. PICK r \in Receipts : r = done.receipt
      BY <2>3
    <3>3. PICK one \in Seq(Receipts) : one = Append(<<>>, r)
      <4>1. \A e \in Seq(Receipts) : Append(e, r) \in Seq(Receipts)
        OBVIOUS
      <4>2. <<>> \in Seq(Receipts)
        BY <3>1
      <4>3. Append(<<>>, r) \in Seq(Receipts)
        BY <4>1, <4>2
      <4> QED BY <4>3
    <3> QED BY <1>4, <2>2, <3>1, <3>2, <3>3
  <2>5. FeesOf(<<done.receipt>>) = Charged(0, done.receipt)
    <3>1. <<done.receipt>> = Append(<<>>, done.receipt) /\ <<>> \in Seq(Receipts)
      BY <2>3
    <3> QED BY <2>3, <3>1, FeesAppend, FeesEmpty
  <2>6. PICK fees \in Nat : fees = FeesOf(<<done.receipt>>)
    BY <2>3, <2>5, ChargedClosed
  <2>7. MovesWithoutGain(utxo_set, utxo_set', fees) /\ \E e : Fine(utxo_set', e, asked)
    BY <2>2, <2>3, <2>5, <2>6
  <2>8. Burns(fees) /\ Burns(0)
    BY <1>1, <2>7, MovesBurn
  <2> QED BY <2>4, <2>6, <2>8, FeesEmpty
<1>7. ASSUME NEW txs \in BatchLists, ExecuteBatch(txs)
      PROVE  Burns(FeesOf(NewReceipts))
  <2>1. PICK done : done = RunBatch(utxo_set, txs)
    OBVIOUS
  <2>2. utxo_set' = done.set /\ context' = Record(context, done.receipts)
    BY <1>7, <2>1 DEF ExecuteBatch
  <2>3. txs \in Seq(Txs)
    BY ExecutionAssumption
  <2>4. /\ done \in Batches /\ \E e : Fine(done.set, e, asked)
        /\ MovesWithoutGain(utxo_set, done.set, FeesOf(done.receipts))
    BY <1>1, <1>3, <2>1, <2>3, BatchMoves
  <2>5. done.receipts \in Seq(Receipts)
    BY <2>4 DEF Batches
  <2>6. PICK fees \in Nat : fees = FeesOf(done.receipts)
    BY <2>5, FeesType
  <2>7. MovesWithoutGain(utxo_set, utxo_set', fees) /\ \E e : Fine(utxo_set', e, asked)
    BY <2>2, <2>4, <2>6
  <2>8. Burns(fees) /\ Burns(0)
    BY <1>1, <2>7, MovesBurn
  <2>9. NewReceipts = done.receipts \/ NewReceipts = <<>>
    BY <1>4, <2>2, <2>5
  <2> QED BY <2>6, <2>8, <2>9, FeesEmpty
<1>8. ASSUME NEW entries \in GenesisLists, InitializeGenesis(entries) PROVE FALSE
  BY <1>8 DEF InitializeGenesis
<1>9. ASSUME NEW b \in Blocks, NEW reward \in Rewards, NEW l \in BOOLEAN,
             CreateCoinbase(b, reward, l)
      PROVE  FALSE
  BY <1>9 DEF CreateCoinbase
<1>10. CASE AdvanceSlot
  <2>1. utxo_set' = utxo_set /\ context' = context
    BY <1>10 DEF AdvanceSlot
  <2>2. NewReceipts = <<>>
    <3>1. CASE Active
      BY <1>2, <2>1, <3>1, NothingNew DEF NewReceipts
    <3>2. CASE ~Active
      BY <3>2 DEF NewReceipts
    <3> QED BY <3>1, <3>2
  <2> QED BY <1>5, <2>1, <2>2
<1>11. CASE Begin
  <2>1. utxo_set' = utxo_set /\ context'.executed = <<>>
    BY <1>11 DEF Begin
  <2>2. NewReceipts = <<>>
    <3>1. CASE Active
      <4>1. PICK n \in Nat : n = Len(context.executed)
        BY <1>2, <3>1
      <4>2. SubSeq(<<>>, n + 1, Len(<<>>)) = <<>>
        OBVIOUS
      <4> QED BY <2>1, <4>1, <4>2 DEF NewReceipts
    <3>2. CASE ~Active
      BY <3>2 DEF NewReceipts
    <3> QED BY <3>1, <3>2
  <2> QED BY <1>5, <2>1, <2>2
<1>12. CASE Commit
  BY <1>5, <1>12 DEF Commit, NewReceipts
<1>13. CASE Rollback
  <2>1. NewReceipts = <<>>
    BY <1>13 DEF Rollback, NewReceipts
  <2>2. history = <<>>
    <3> SUFFICES ASSUME history # <<>> PROVE FALSE
      OBVIOUS
    <3>1. history' = Front(history)
      BY <1>13 DEF Rollback
    <3>2. history \in Seq(UtxoSets) /\ Len(history) >= 1
      BY <1>3
    <3>3. Len(Front(history)) = Len(history) - 1
      <4>1. PICK n \in Nat : n = Len(history) /\ n >= 1
        BY <3>2
      <4>2. Len(SubSeq(history, 1, n - 1)) = n - 1
        BY <3>2, <4>1
      <4> QED BY <4>1, <4>2 DEF Front
    <3>4. Len(history) \in Nat
      BY <3>2
    <3> QED BY <1>13, <3>1, <3>3, <3>4
  <2>3. utxo_set' = utxo_set
    BY <1>13, <2>2 DEF Rollback
  <2> QED BY <1>5, <2>1, <2>3
<1> QED BY <1>6, <1>7, <1>8, <1>9, <1>10, <1>11, <1>12, <1>13 DEF Next

\* Nothing adds to what the set holds but genesis, coinbase, rollback and what a
\* transaction lists again: what succeeds, alone or in a batch, burns its fee.
THEOREM SupplyIsAlwaysExplained == Spec => SupplyIsExplained
<1>1. IInv /\ [Next]_vars =>
        [asked' = asked /\ Len(history') >= Len(history)
           => Held(utxo_set') + FeesOf(NewReceipts)
                <= Held(utxo_set) + (utxo_set'.forged - utxo_set.forged)]_vars
  BY StepBurns DEF Burns
<1>2. Spec => []IInv
  BY InvHolds
<1>3. Spec => [][Next]_vars
  BY PTL DEF Spec
<1> QED BY <1>1, <1>2, <1>3, PTL DEF SupplyIsExplained

-----------------------------------------------------------------------------
(***************************************************************************)
(* The layer implements CoinLedger.                                        *)
(***************************************************************************)
\* The ledger's coins, and what they are worth.
LEMMA LedgerWorth == \A u : Ledger!Worth(u) = Worth(u, DOMAIN u)
BY DEF Ledger!Worth, Ledger!FoldFunctionOnSet, Ledger!MapThenFoldSet, Worth, FoldFunctionOnSet,
       MapThenFoldSet

\* The checkpoints are the coins of the sets in the history.
Coins(set) == [coins |-> set.utxos, forged |-> set.forged]

Saved(h) == [i \in DOMAIN h |-> Coins(h[i])]

\* They are records of a map and a number.
CoinRecords == [coins : UtxoMaps, forged : Nat]

LEMMA CoinsType == \A set \in UtxoSets : Coins(set) \in CoinRecords
BY SetFacts DEF Coins, CoinRecords

LEMMA SavedFacts ==
  ASSUME NEW h \in Seq(UtxoSets)
  PROVE  /\ \A set \in UtxoSets : Saved(Append(h, set)) = Append(Saved(h), Coins(set))
         /\ h # <<>> => /\ Saved(h) # <<>>
                        /\ Ledger!Last(Saved(h)) = Coins(Last(h))
                        /\ Ledger!Front(Saved(h)) = Saved(Front(h))
<1>1. PICK n \in Nat : n = Len(h) /\ DOMAIN h = 1 .. n
  OBVIOUS
<1>2. PICK saved \in Seq(CoinRecords) : saved = Saved(h) /\ Len(saved) = n
                                     /\ \A i \in 1 .. n : saved[i] = Coins(h[i])
  <2>1. \A i \in 1 .. n : Coins(h[i]) \in CoinRecords
    BY <1>1, CoinsType
  <2>2. [i \in 1 .. n |-> Coins(h[i])] \in Seq(CoinRecords)
    BY <2>1
  <2>3. Saved(h) = [i \in 1 .. n |-> Coins(h[i])]
    BY <1>1 DEF Saved
  <2> QED BY <2>2, <2>3
<1>3. ASSUME NEW set \in UtxoSets PROVE Saved(Append(h, set)) = Append(Saved(h), Coins(set))
  <2>1. PICK u \in CoinRecords : u = Coins(set)
    BY CoinsType
  <2>2. PICK more \in Seq(UtxoSets) : more = Append(h, set)
    <3>1. Append(h, set) \in Seq(UtxoSets)
      OBVIOUS
    <3> QED BY <3>1
  <2>3. DOMAIN more = 1 .. n + 1 /\ more[n + 1] = set /\ \A i \in 1 .. n : more[i] = h[i]
    BY <1>1, <2>2
  <2>4. Append(saved, u) = [i \in 1 .. n + 1 |-> IF i = n + 1 THEN u ELSE saved[i]]
    <3>1. Append(saved, u) \in Seq(CoinRecords) /\ Len(Append(saved, u)) = n + 1
          /\ \A i \in 1 .. n + 1 : Append(saved, u)[i] = IF i = n + 1 THEN u ELSE saved[i]
      BY <1>2
    <3>2. PICK longer \in Seq(CoinRecords) : longer = Append(saved, u)
      BY <3>1
    <3>3. longer = [i \in 1 .. n + 1 |-> longer[i]]
      <4>1. Len(longer) = n + 1 /\ \A e \in Seq(CoinRecords) : e = [i \in 1 .. Len(e) |-> e[i]]
        BY <3>1, <3>2
      <4> QED BY <4>1
    <3> QED BY <3>1, <3>2, <3>3
  <2>5. \A i \in 1 .. n + 1 : Coins(more[i]) = IF i = n + 1 THEN u ELSE saved[i]
    BY <1>2, <2>1, <2>3
  <2>6. Saved(more) = Append(saved, u)
    BY <2>3, <2>4, <2>5 DEF Saved
  <2> QED BY <1>2, <2>1, <2>2, <2>6
<1>4. ASSUME h # <<>>
      PROVE  /\ Saved(h) # <<>>
             /\ Ledger!Last(Saved(h)) = Coins(Last(h))
             /\ Ledger!Front(Saved(h)) = Saved(Front(h))
  <2>1. n >= 1
    BY <1>1, <1>4
  <2>2. saved # <<>> /\ Ledger!Last(saved) = Coins(Last(h))
    BY <1>1, <1>2, <2>1 DEF Ledger!Last, Last
  <2>3. PICK less \in Seq(UtxoSets) : less = Front(h)
    <3>1. SubSeq(h, 1, n - 1) \in Seq(UtxoSets)
      BY <1>1, <2>1
    <3> QED BY <1>1, <3>1 DEF Front
  <2>4. DOMAIN less = 1 .. n - 1 /\ \A i \in 1 .. n - 1 : less[i] = h[i]
    BY <1>1, <2>1, <2>3 DEF Front
  <2>5. Ledger!Front(saved) = [i \in 1 .. n - 1 |-> saved[i]]
    BY <1>2, <2>1 DEF Ledger!Front
  <2>6. \A i \in 1 .. n - 1 : Coins(less[i]) = saved[i]
    BY <1>2, <2>4
  <2>7. Saved(less) = Ledger!Front(saved)
    BY <2>4, <2>5, <2>6 DEF Saved
  <2> QED BY <1>2, <2>2, <2>3, <2>7
<1> QED BY <1>3, <1>4

\* execute_utxo_transaction and execute_utxo_batch are moves.
LEMMA ExecutionMoves ==
  ASSUME IInv, IInv', UNCHANGED <<history, asked>>,
         NEW fees \in Nat, MovesWithoutGain(utxo_set, utxo_set', fees)
  PROVE  Ledger!Move
<1>1. \A id \in Ids(utxo_set') \ Ids(utxo_set) : id[1] \notin {GenesisCall} \cup Blocks
  BY ExecutionAssumption DEF MovesWithoutGain
<1>2. PICK old \in Nat, new \in Nat :
        /\ old = Worth(utxo_set.utxos, Ids(utxo_set))
        /\ new = Worth(utxo_set'.utxos, Ids(utxo_set'))
  BY FineWorth DEF IInv, ContextFine
<1>3. PICK m \in Nat, n \in Nat : m = utxo_set.forged /\ n = utxo_set'.forged
  BY SetFacts DEF IInv, ContextFine, Fine
<1>4. Ledger!Worth(utxo_set'.utxos) = new /\ Ledger!Worth(utxo_set.utxos) = old
  BY <1>2, LedgerWorth, Zenon DEF Ids
<1>5. n >= m /\ new - old <= n - m
  <2>1. new + fees <= old + (n - m) /\ n >= m
    BY <1>2, <1>3 DEF MovesWithoutGain
  <2> QED BY <2>1
<1>6. /\ utxo_set'.forged >= utxo_set.forged
      /\ Ledger!Worth(utxo_set'.utxos) - Ledger!Worth(utxo_set.utxos)
           <= utxo_set'.forged - utxo_set.forged
  BY <1>3, <1>4, <1>5
<1> QED BY <1>1, <1>6 DEF Ledger!Move, Ledger!Unchanged, Ledger!NewIds, MovesWithoutGain, Ids

\* create_coinbase_utxo mints, and so does initialize_genesis_utxo_set, which
\* saves a checkpoint when it succeeds.
LEMMA CallsMint ==
  ASSUME IInv, NEW name \in {GenesisCall} \cup Blocks, name \notin asked, asked' = asked \cup {name},
         NEW ids, MintsUnder(name, ids, utxo_set, utxo_set'),
         \/ history' = history
         \/ history' = Append(history, utxo_set') /\ utxo_set' \in UtxoSets,
         \/ utxo_set'.forged = utxo_set.forged
         \/ Ids(utxo_set) = {} /\ utxo_set'.forged = 0
  PROVE  Ledger!Mint(name)
<1>1. PICK d : Fine(utxo_set, d, asked)
  BY DEF IInv, ContextFine
<1>2. PICK new : new = utxo_set'
  OBVIOUS
<1>3. ids \cap Ids(utxo_set) = {}
  BY <1>1, <1>2, Minted
<1>4. history \in Seq(UtxoSets)
  BY DEF IInv, SetsFine
<1>5. Saved(history') = Saved(history) \/ Saved(history') = Append(Saved(history), Coins(utxo_set'))
  BY <1>4, SavedFacts
<1> QED BY <1>3, <1>5
        DEF MintsUnder, Ids, Saved, Coins, Ledger!Mint, Ledger!Unchanged, Ledger!NewIds, Ledger!Now

\* Every step.
LEMMA LedgerStep ==
  ASSUME IInv, [Next]_vars
  PROVE  [Ledger!Next]_(Ledger!vars)
<1>0. /\ asked \subseteq {GenesisCall} \cup Blocks /\ history \in Seq(UtxoSets)
      /\ utxo_set \in UtxoSets
  BY DEF IInv, SetsFine, ContextFine, Fine
<1>9. IInv'
  BY StepFine
<1>1. ASSUME NEW entries \in GenesisLists, InitializeGenesis(entries)
      PROVE  Ledger!Mint(GenesisCall)
  <2> DEFINE list == GoodPrefix(entries)
             filled == InsertAll(<<>>, list)
  <2>1. entries \in Seq(Entries)
    BY ExecutionAssumption DEF Entries
  <2>2. list \in Seq(Entries)
    BY <2>1, GoodPrefixType
  <2>3. /\ filled \in UtxoMaps
        /\ \A id \in DOMAIN filled : id[1] = GenesisCall /\ id \in MintedIds
    BY <2>2, GenesisFacts
  <2> HIDE DEF list
  <2>4. /\ GenesisCall \notin asked /\ asked' = asked \cup {GenesisCall}
        /\ \/ UNCHANGED <<utxo_set, history>>
           \/ /\ Ids(utxo_set) = {} /\ utxo_set'.utxos = filled
              /\ utxo_set'.forged \in {0, utxo_set.forged}
              /\ history' = history \/ history' = Append(history, utxo_set')
    <3> DEFINE full == [utxos |-> filled, total |-> SumOf([i \in DOMAIN entries |-> entries[i].value]),
                        forged |-> 0]
    <3>1. /\ GenesisCall \notin asked /\ asked' = asked \cup {GenesisCall}
          /\ \/ UNCHANGED <<utxo_set, history>>
             \/ Ids(utxo_set) = {} /\ utxo_set' = full /\ history' = Append(history, full)
             \/ /\ Ids(utxo_set) = {} /\ utxo_set' = [utxo_set EXCEPT !.utxos = filled]
                /\ history' = history
      BY <1>1 DEF InitializeGenesis, list
    <3>2. full.utxos = filled /\ full.forged = 0
      OBVIOUS
    <3> HIDE DEF full, filled
    <3>3. /\ [utxo_set EXCEPT !.utxos = filled].utxos = filled
          /\ [utxo_set EXCEPT !.utxos = filled].forged = utxo_set.forged
      BY <1>0 DEF UtxoSets
    <3> QED BY <3>1, <3>2, <3>3
  <2> HIDE DEF filled
  <2>5. CASE UNCHANGED <<utxo_set, history>>
    <3>1. MintsUnder(GenesisCall, {}, utxo_set, utxo_set')
      BY <2>5 DEF MintsUnder
    <3> QED BY <2>4, <2>5, <3>1, CallsMint
  <2>6. CASE /\ Ids(utxo_set) = {} /\ utxo_set'.utxos = filled
             /\ utxo_set'.forged \in {0, utxo_set.forged}
             /\ history' = history \/ history' = Append(history, utxo_set')
    <3>1. MintsUnder(GenesisCall, DOMAIN filled, utxo_set, utxo_set')
      BY <2>3, <2>6 DEF MintsUnder, Ids
    <3>2. utxo_set' \in UtxoSets
      BY <1>1, <1>0, GenesisFine DEF IInv, SetsFine, ContextFine, Fine
    <3> QED BY <2>4, <2>6, <3>1, <3>2, CallsMint
  <2> QED BY <2>4, <2>5, <2>6
<1>2. ASSUME NEW b \in Blocks, NEW reward \in Rewards, NEW l \in BOOLEAN,
             CreateCoinbase(b, reward, l)
      PROVE  Ledger!Mint(b)
  <2> DEFINE minted == Insert(utxo_set.utxos, <<b, 0>>, [value |-> reward, locked |-> l])
  <2>1. /\ b \notin asked /\ asked' = asked \cup {b} /\ history' = history
        /\ utxo_set'.utxos = minted /\ utxo_set'.forged = utxo_set.forged
    <3>1. /\ b \notin asked /\ asked' = asked \cup {b} /\ history' = history
          /\ utxo_set' = [utxo_set EXCEPT !.utxos = minted, !.total = @ + reward]
      BY <1>2 DEF CreateCoinbase
    <3> HIDE DEF minted
    <3> QED BY <1>0, <3>1 DEF UtxoSets
  <2>2. <<b, 0>> \in MintedIds /\ <<b, 0>>[1] = b
    BY DEF MintedIds
  <2>3. /\ Ids(utxo_set') = Ids(utxo_set) \cup {<<b, 0>>}
        /\ \A id \in Ids(utxo_set) \ {<<b, 0>>} : utxo_set'.utxos[id] = utxo_set.utxos[id]
    BY <2>1 DEF Insert, Ids
  <2>4. MintsUnder(b, {<<b, 0>>}, utxo_set, utxo_set')
    <3>1. PICK ids : ids = {<<b, 0>>}
      OBVIOUS
    <3>2. ids \subseteq MintedIds /\ \A id \in ids : id[1] = b
      BY <2>2, <3>1
    <3> QED BY <2>3, <3>1, <3>2 DEF MintsUnder
  <2> QED BY <2>1, <2>4, CallsMint
<1>3. ASSUME NEW h \in Txs, ExecuteTransaction(h) PROVE Ledger!Move
  <2>1. PICK d : Fine(utxo_set, d, asked)
    BY DEF IInv, ContextFine
  <2>2. PICK done : done = Process(utxo_set, current_slot, h)
    OBVIOUS
  <2>3. utxo_set' = done.set /\ UNCHANGED <<history, asked>>
    BY <1>3, <2>2 DEF ExecuteTransaction
  <2>4. PICK fees \in Nat : MovesWithoutGain(utxo_set, done.set, fees)
    BY <1>0, <2>1, <2>2, ProcessMoves, ChargedClosed
  <2> QED BY <1>9, <2>3, <2>4, ExecutionMoves
<1>4. ASSUME NEW txs \in BatchLists, ExecuteBatch(txs) PROVE Ledger!Move
  <2>1. PICK d : Fine(utxo_set, d, asked)
    BY DEF IInv, ContextFine
  <2>2. PICK done : done = RunBatch(utxo_set, txs)
    OBVIOUS
  <2>3. utxo_set' = done.set /\ UNCHANGED <<history, asked>> /\ txs \in Seq(Txs)
    BY <1>4, <2>2, ExecutionAssumption DEF ExecuteBatch
  <2>4. PICK fees \in Nat : MovesWithoutGain(utxo_set, done.set, fees)
    BY <1>0, <2>1, <2>2, <2>3, BatchMoves, FeesType DEF Batches
  <2> QED BY <1>9, <2>3, <2>4, ExecutionMoves
<1>5. CASE AdvanceSlot \/ Begin \/ UNCHANGED vars
  BY <1>5 DEF AdvanceSlot, Begin, vars, Ledger!vars
<1>6. CASE Commit
  <2>1. UNCHANGED <<utxo_set, asked>>
        /\ (history' = Append(history, utxo_set) \/ history' = history)
    BY <1>6 DEF Commit
  <2>2. CASE history' = history
    BY <2>1, <2>2 DEF Ledger!vars
  <2>3. CASE history' = Append(history, utxo_set)
    <3>1. Saved(history') = Append(Saved(history), Coins(utxo_set))
      BY <1>0, <2>3, SavedFacts
    <3>2. Ledger!Checkpoint
      BY <2>1, <3>1 DEF Ledger!Checkpoint, Ledger!Now, Saved, Coins
    <3> QED BY <3>2 DEF Ledger!Next
  <2> QED BY <2>1, <2>2, <2>3
<1>7. CASE Rollback
  <2>1. CASE history = <<>>
    BY <1>7, <2>1 DEF Rollback, Ledger!vars
  <2>2. CASE history # <<>>
    <3>1. utxo_set' = Last(history) /\ history' = Front(history) /\ asked' = asked
      BY <1>7, <2>2 DEF Rollback
    <3>2. /\ Saved(history) # <<>>
          /\ Ledger!Last(Saved(history)) = Coins(utxo_set')
          /\ Ledger!Front(Saved(history)) = Saved(history')
      BY <1>0, <2>2, <3>1, SavedFacts
    <3>3. Ledger!Restore
      BY <3>1, <3>2 DEF Ledger!Restore, Ledger!Now, Saved, Coins
    <3> QED BY <3>3 DEF Ledger!Next
  <2> QED BY <2>1, <2>2
<1>8. GenesisCall \in {GenesisCall} \cup Blocks /\ \A b \in Blocks : b \in {GenesisCall} \cup Blocks
  OBVIOUS
<1> QED BY <1>1, <1>2, <1>3, <1>4, <1>5, <1>6, <1>7, <1>8 DEF Next, Ledger!Next

\* The execution layer implements CoinLedger, for any transactions, batches,
\* genesis lists and order of the calls, total_value right or not: transactions
\* gain nothing but what they list again.
THEOREM ExecutionImplementsLedger == Spec => ImplementsLedger
<1>1. Init => Ledger!Init
  BY DEF Init, EmptySet, Ledger!Init, Saved, Coins
<1>2. IInv /\ [Next]_vars => [Ledger!Next]_(Ledger!vars)
  BY LedgerStep
<1> QED BY <1>1, <1>2, InvHolds, PTL DEF Spec, ImplementsLedger, Ledger!Spec
=============================================================================
