----------------------- MODULE AccountExecutionProofs -----------------------
(***************************************************************************)
(* Proofs about the account-based execution layer and, at the end, the     *)
(* script state manager.                                                   *)
(***************************************************************************)
EXTENDS AccountExecution, ScriptState, FiniteSetTheorems, TLAPS

-----------------------------------------------------------------------------
(***************************************************************************)
(* Folds and sums.  The community modules define both by choosing a        *)
(* function on subsets: one that exists, by counting up.                   *)
(***************************************************************************)
\* Counting from 0 to n, a property of numbers being given as a set.
LEMMA CountUp ==
  ASSUME NEW n \in Nat, NEW S, 0 \in S, \A k \in 0 .. n - 1 : k \in S => k + 1 \in S
  PROVE  \A k \in 0 .. n : k \in S
<1> DEFINE bad == {k \in 0 .. n : k \notin S}
<1> SUFFICES ASSUME bad # {} PROVE FALSE
  OBVIOUS
<1>1. bad \subseteq Nat
  OBVIOUS
<1>2. \A x, y \in Nat : <<y, x>> \in OpToRel(<, Nat) <=> y < x
  BY DEF OpToRel
<1> HIDE DEF bad
<1>3. PICK x \in bad : \A y \in bad : ~(<<y, x>> \in OpToRel(<, Nat))
  BY <1>1, WFMin, NatLessThanWellFounded
<1>4. x \in Nat /\ \A y \in bad : ~(y < x)
  BY <1>1, <1>2, <1>3
<1>5. x \in 0 .. n /\ x \notin S
  BY <1>3 DEF bad
<1>6. x # 0
  BY <1>5
<1>7. x - 1 \in 0 .. n - 1 /\ x - 1 \notin bad
  BY <1>4, <1>5, <1>6
<1>8. x - 1 \in S
  BY <1>7 DEF bad
<1> QED BY <1>5, <1>7, <1>8

\* The Max of the community modules, on positions of a list.
LEMMA MaxOfPositions ==
  ASSUME NEW n \in Nat, NEW s \in SUBSET (1 .. n), s # {}
  PROVE  Max(s) \in s /\ \A i \in s : i <= Max(s)
<1> DEFINE S == {k \in 0 .. n : \A t \in SUBSET (1 .. k) :
                    t # {} => \E x \in t : \A i \in t : i <= x}
<1>1. 0 \in S
  <2>1. \A t \in SUBSET (1 .. 0) : t = {}
    OBVIOUS
  <2>2. \A t \in SUBSET (1 .. 0) : t # {} => \E x \in t : \A i \in t : i <= x
    BY <2>1
  <2>3. 0 \in 0 .. n
    OBVIOUS
  <2> QED BY <2>2, <2>3
<1>2. ASSUME NEW k \in 0 .. n - 1, k \in S PROVE k + 1 \in S
  <2> SUFFICES ASSUME NEW t \in SUBSET (1 .. k + 1), t # {}
               PROVE  \E x \in t : \A i \in t : i <= x
    BY <1>2
  <2>1. CASE k + 1 \in t
    BY <2>1
  <2>2. CASE k + 1 \notin t
    <3>1. t \in SUBSET (1 .. k)
      BY <2>2
    <3> QED BY <1>2, <3>1
  <2> QED BY <2>1, <2>2
<1> HIDE DEF S
<1>3. n \in S
  BY <1>1, <1>2, CountUp
<1>4. \E x \in s : \A i \in s : i <= x
  BY <1>3 DEF S
<1> QED BY <1>4 DEF Max

\* What a fold from the left is made of: a value for each set of positions.
FoldSteps(n, V, base, F, g) ==
  /\ g \in [SUBSET (1 .. n) -> V]
  /\ \A s \in SUBSET (1 .. n) :
       g[s] = IF s = {} THEN base ELSE F[<<g[s \ {Max(s)}], Max(s)>>]

\* There is such a table of values, one set of positions after the other.
LEMMA StepsExist ==
  ASSUME NEW n \in Nat, NEW V, NEW base \in V, NEW F \in [V \X (1 .. n) -> V]
  PROVE  \E g : FoldSteps(n, V, base, F, g)
<1> DEFINE Steps(k, g) == FoldSteps(k, V, base, F, g)
           S == {k \in 0 .. n : \E g : Steps(k, g)}
<1>1. 0 \in S
  <2> DEFINE g == [s \in SUBSET (1 .. 0) |-> base]
  <2>1. \A s \in SUBSET (1 .. 0) : s = {}
    OBVIOUS
  <2>2. Steps(0, g)
    BY <2>1 DEF FoldSteps
  <2> HIDE DEF g, Steps
  <2> QED BY <2>2
<1>2. ASSUME NEW k \in 0 .. n - 1, k \in S PROVE k + 1 \in S
  <2>1. PICK g : Steps(k, g)
    BY <1>2
  <2> DEFINE h == [s \in SUBSET (1 .. k + 1) |->
                     IF k + 1 \in s THEN F[<<g[s \ {k + 1}], k + 1>>] ELSE g[s]]
  <2>2. \A s \in SUBSET (1 .. k + 1) : k + 1 \in s => s \ {k + 1} \in SUBSET (1 .. k)
    OBVIOUS
  <2>3. \A s \in SUBSET (1 .. k + 1) : k + 1 \notin s => s \in SUBSET (1 .. k)
    OBVIOUS
  <2>4. h \in [SUBSET (1 .. k + 1) -> V]
    BY <2>1, <2>2, <2>3 DEF FoldSteps
  <2>5. ASSUME NEW s \in SUBSET (1 .. k + 1)
        PROVE  h[s] = IF s = {} THEN base ELSE F[<<h[s \ {Max(s)}], Max(s)>>]
    <3> USE <2>1 DEF FoldSteps
    <3>1. CASE k + 1 \in s
      <4>1. Max(s) = k + 1
        <5>1. k + 1 \in Nat /\ s # {}
          BY <3>1
        <5>2. Max(s) \in s /\ \A i \in s : i <= Max(s)
          BY <5>1, MaxOfPositions
        <5>3. Max(s) \in 1 .. k + 1 /\ k + 1 <= Max(s)
          BY <3>1, <5>2
        <5> QED BY <5>3
      <4>2. h[s \ {k + 1}] = g[s \ {k + 1}]
        BY <2>2, <3>1
      <4> QED BY <3>1, <4>1, <4>2
    <3>2. CASE k + 1 \notin s
      <4>1. s \in SUBSET (1 .. k) /\ h[s] = g[s]
        BY <2>3, <3>2
      <4>2. CASE s = {}
        BY <2>1, <4>1, <4>2
      <4>3. CASE s # {}
        <5>1. s \ {Max(s)} \in SUBSET (1 .. k)
          BY <4>1
        <5>2. h[s \ {Max(s)}] = g[s \ {Max(s)}]
          BY <5>1
        <5>3. g[s] = F[<<g[s \ {Max(s)}], Max(s)>>]
          BY <2>1, <4>1, <4>3
        <5> QED BY <4>1, <4>3, <5>2, <5>3, Zenon
      <4> QED BY <4>2, <4>3
    <3> QED BY <3>1, <3>2
  <2> HIDE DEF h
  <2>6. Steps(k + 1, h)
    BY <2>4, <2>5 DEF FoldSteps
  <2> HIDE DEF Steps
  <2> QED BY <2>6
<1> HIDE DEF S
<1>3. n \in S
  BY <1>1, <1>2, CountUp
<1> QED BY <1>3 DEF S

\* The last position of a prefix, and the prefix before it.
LEMMA PrefixSteps ==
  ASSUME NEW n \in Nat, NEW k \in 1 .. n
  PROVE  /\ 1 .. k \in SUBSET (1 .. n) /\ 1 .. k # {} /\ Max(1 .. k) = k
         /\ (1 .. k) \ {k} = 1 .. k - 1
<1>1. 1 .. k \in SUBSET (1 .. n) /\ 1 .. k # {} /\ k \in 1 .. k
  OBVIOUS
<1>2. Max(1 .. k) = k
  <2>1. Max(1 .. k) \in 1 .. k /\ \A i \in 1 .. k : i <= Max(1 .. k)
    BY <1>1, MaxOfPositions
  <2>2. k <= Max(1 .. k)
    BY <1>1, <2>1
  <2> QED BY <2>1, <2>2
<1>3. (1 .. k) \ {k} = 1 .. k - 1
  OBVIOUS
<1> QED BY <1>1, <1>2, <1>3

\* What each step of a fold keeps is true of its result.
LEMMA FoldKeeps ==
  ASSUME NEW n \in Nat, NEW V, NEW h, h[{}] \in V,
         \A s \in SUBSET (1 .. n) : s # {} /\ h[s \ {Max(s)}] \in V => h[s] \in V
  PROVE  h[1 .. n] \in V
<1> DEFINE S == {k \in 0 .. n : h[1 .. k] \in V}
<1>1. 0 \in S
  <2>1. 1 .. 0 = {}
    OBVIOUS
  <2> QED BY <2>1
<1>2. ASSUME NEW k \in 0 .. n - 1, k \in S PROVE k + 1 \in S
  <2>1. k + 1 \in 1 .. n /\ k + 1 \in 0 .. n /\ (k + 1) - 1 = k
    OBVIOUS
  <2>2. /\ 1 .. k + 1 \in SUBSET (1 .. n) /\ 1 .. k + 1 # {}
        /\ (1 .. k + 1) \ {Max(1 .. k + 1)} = 1 .. k
    BY <2>1, PrefixSteps
  <2>3. h[(1 .. k + 1) \ {Max(1 .. k + 1)}] \in V
    BY <1>2, <2>2
  <2> QED BY <2>1, <2>2, <2>3
<1> HIDE DEF S
<1>3. \A k \in 0 .. n : k \in S
  BY <1>1, <1>2, CountUp
<1> QED BY <1>3 DEF S

\* The element that a sum takes first, and the table it chooses.
Pick(s) == CHOOSE y \in s : TRUE

SumSteps(w, T, g) ==
  g = [s \in SUBSET T |-> IF s = {} THEN 0 ELSE LET x == Pick(s) IN w[x] + g[s \ {x}]]

\* A table in which the order makes no difference.
AnyOrder(w, T, g) ==
  /\ g \in [SUBSET T -> Nat] /\ g[{}] = 0
  /\ \A s \in SUBSET T : \A x \in s : g[s] = w[x] + g[s \ {x}]

LEMMA AnyOrderExists ==
  ASSUME NEW T, IsFiniteSet(T), NEW w \in [T -> Nat]
  PROVE  \E g : AnyOrder(w, T, g)
<1> DEFINE n == Cardinality(T)
           S == {k \in 0 .. n : \A U \in SUBSET T :
                    Cardinality(U) = k => \E g : AnyOrder(w, U, g)}
<1>0. n \in Nat
  BY FS_CardinalityType
<1>a. \A U \in SUBSET T : IsFiniteSet(U) /\ Cardinality(U) \in Nat
  BY FS_Subset, FS_CardinalityType
<1>1. 0 \in S
  <2>1. \A U \in SUBSET T : Cardinality(U) = 0 => U = {}
    BY <1>a, FS_EmptySet
  <2> DEFINE g == [s \in SUBSET {} |-> 0]
  <2>2. AnyOrder(w, {}, g)
    BY DEF AnyOrder
  <2> HIDE DEF g
  <2> QED BY <1>0, <2>1, <2>2
<1>2. ASSUME NEW k \in 0 .. n - 1, k \in S PROVE k + 1 \in S
  <2> SUFFICES ASSUME NEW U \in SUBSET T, Cardinality(U) = k + 1
               PROVE  \E g : AnyOrder(w, U, g)
    BY <1>0
  <2>1. U # {}
    BY <1>0, FS_EmptySet
  <2>2. PICK x \in U : TRUE
    BY <2>1
  <2>3. Cardinality(U \ {x}) = k /\ U \ {x} \in SUBSET T
    <3>1. IsFiniteSet(U) /\ x \in U
      BY <1>a
    <3>2. Cardinality(U \ {x}) = Cardinality(U) - 1
      BY <3>1, FS_RemoveElement
    <3> QED BY <1>0, <3>2
  <2>4. PICK g : AnyOrder(w, U \ {x}, g)
    BY <1>2, <2>3
  <2> DEFINE h == [s \in SUBSET U |-> IF x \in s THEN w[x] + g[s \ {x}] ELSE g[s]]
  <2>5. /\ \A s \in SUBSET U : x \in s => s \ {x} \in SUBSET (U \ {x})
        /\ \A s \in SUBSET U : x \notin s => s \in SUBSET (U \ {x})
    OBVIOUS
  <2>6. w[x] \in Nat /\ \A s \in SUBSET (U \ {x}) : g[s] \in Nat
    BY <2>4 DEF AnyOrder
  <2>7. h \in [SUBSET U -> Nat] /\ h[{}] = 0
    BY <2>4, <2>5, <2>6 DEF AnyOrder
  <2>8. ASSUME NEW s \in SUBSET U, NEW y \in s PROVE h[s] = w[y] + h[s \ {y}]
    <3>0. s \ {y} \in SUBSET U /\ w[y] \in Nat
      OBVIOUS
    <3>1. CASE x \notin s
      <4>1. s \in SUBSET (U \ {x}) /\ x \notin s \ {y} /\ h[s] = g[s] /\ h[s \ {y}] = g[s \ {y}]
        BY <2>5, <3>0, <3>1
      <4> QED BY <2>4, <4>1 DEF AnyOrder
    <3>2. CASE x = y
      <4>1. h[s] = w[x] + g[s \ {x}] /\ h[s \ {x}] = g[s \ {x}]
        BY <3>0, <3>2
      <4> QED BY <3>2, <4>1
    <3>3. CASE x \in s /\ x # y
      <4>1. h[s] = w[x] + g[s \ {x}] /\ h[s \ {y}] = w[x] + g[(s \ {y}) \ {x}]
        BY <3>0, <3>3
      <4>2. s \ {x} \in SUBSET (U \ {x}) /\ y \in s \ {x}
        BY <2>5, <3>3
      <4>3. g[s \ {x}] = w[y] + g[(s \ {x}) \ {y}]
        BY <2>4, <4>2 DEF AnyOrder
      <4>4. (s \ {x}) \ {y} = (s \ {y}) \ {x} /\ (s \ {x}) \ {y} \in SUBSET (U \ {x})
        BY <4>2
      <4>5. PICK r, a, b \in Nat : r = g[(s \ {x}) \ {y}] /\ a = w[x] /\ b = w[y]
        BY <2>6, <3>0, <4>4
      <4>6. h[s] = a + (b + r)
        BY <4>1, <4>3, <4>5, Zenon
      <4>7. w[y] + h[s \ {y}] = b + (a + r)
        BY <4>1, <4>4, <4>5, Zenon
      <4> QED BY <4>5, <4>6, <4>7
    <3> QED BY <3>1, <3>2, <3>3
  <2> HIDE DEF h
  <2>9. AnyOrder(w, U, h)
    BY <2>7, <2>8 DEF AnyOrder
  <2> QED BY <2>9
<1> HIDE DEF S
<1>3. n \in S
  BY <1>0, <1>1, <1>2, CountUp
<1> QED BY <1>3 DEF S

\* A table that is made in the order of the picks, for the weights v of W.
Picked(v, W, h) ==
  /\ h[{}] = 0
  /\ \A s \in SUBSET W : s # {} => h[s] = v[Pick(s)] + h[s \ {Pick(s)}]

Alike(v, w, W) == \A x \in W : v[x] = w[x]

\* Tables agree as far as their weights do, in whatever order they pick.
LEMMA TablesAgree ==
  ASSUME NEW W, IsFiniteSet(W), NEW T, W \subseteq T, NEW w, NEW g, AnyOrder(w, T, g),
         NEW v, NEW h, Picked(v, W, h), Alike(v, w, W)
  PROVE  h[W] = g[W]
<1> DEFINE n == Cardinality(W)
           S == {k \in 0 .. n : \A s \in SUBSET W : Cardinality(s) <= k => h[s] = g[s]}
<1>0. n \in Nat
  BY FS_CardinalityType
<1>a. \A s \in SUBSET W : Cardinality(s) \in Nat /\ IsFiniteSet(s) /\ (Cardinality(s) = 0 <=> s = {})
  <2> TAKE s \in SUBSET W
  <2>1. IsFiniteSet(s)
    BY FS_Subset
  <2> QED BY <2>1, FS_CardinalityType, FS_EmptySet
<1>1. 0 \in S
  <2>1. \A s \in SUBSET W : Cardinality(s) <= 0 => s = {}
    BY <1>a
  <2>2. h[{}] = g[{}]
    BY DEF AnyOrder, Picked
  <2>3. \A s \in SUBSET W : Cardinality(s) <= 0 => h[s] = g[s]
    BY <2>1, <2>2
  <2>4. 0 \in 0 .. n
    BY <1>0
  <2> QED BY <2>3, <2>4
<1>2. ASSUME NEW k \in 0 .. n - 1, k \in S PROVE k + 1 \in S
  <2>0. k + 1 \in 0 .. n
    BY <1>0
  <2> SUFFICES ASSUME NEW s \in SUBSET W, Cardinality(s) <= k + 1 PROVE h[s] = g[s]
    BY <2>0
  <2> SUFFICES ASSUME s # {} PROVE h[s] = g[s]
    BY DEF AnyOrder, Picked
  <2>1. PICK c \in s : c = Pick(s)
    BY DEF Pick
  <2>2. h[s] = v[c] + h[s \ {c}]
    BY <2>1 DEF Picked
  <2>3. g[s] = w[c] + g[s \ {c}]
    BY <2>1 DEF AnyOrder
  <2>4. s \ {c} \in SUBSET W /\ Cardinality(s \ {c}) <= k
    <3>1. Cardinality(s \ {c}) = Cardinality(s) - 1
      BY <1>a, FS_RemoveElement
    <3> QED BY <1>a, <3>1
  <2>5. h[s \ {c}] = g[s \ {c}] /\ v[c] = w[c]
    BY <1>2, <2>4 DEF Alike
  <2> QED BY <2>2, <2>3, <2>5, Zenon
<1> HIDE DEF S
<1>3. n \in S
  BY <1>0, <1>1, <1>2, CountUp
<1> QED BY <1>0, <1>3 DEF S

\* So a sum is the entry for the whole set in any such table.
LEMMA SumIs ==
  ASSUME NEW T, IsFiniteSet(T), NEW w \in [T -> Nat]
  PROVE  \E g : AnyOrder(w, T, g) /\ SumOver(w, T) = g[T]
<1>1. PICK g : AnyOrder(w, T, g)
  BY AnyOrderExists
<1>2. SumOver(w, T) = (CHOOSE h : SumSteps(w, T, h))[T]
  BY DEF SumOver, MapThenSumSet, MapThenFoldSet, SumSteps, Pick
<1>3. SumSteps(w, T, g)
  <2>1. g = [s \in SUBSET T |-> g[s]]
    BY <1>1 DEF AnyOrder
  <2>2. \A s \in SUBSET T : g[s] = IF s = {} THEN 0 ELSE LET x == Pick(s) IN w[x] + g[s \ {x}]
    <3> TAKE s \in SUBSET T
    <3>1. s # {} => Pick(s) \in s
      BY DEF Pick
    <3> QED BY <1>1, <3>1 DEF AnyOrder
  <2> QED BY <2>1, <2>2 DEF SumSteps
<1>4. PICK h : h = (CHOOSE k : SumSteps(w, T, k)) /\ SumSteps(w, T, h)
  BY <1>3
<1>5. Picked(w, T, h)
  BY <1>4 DEF SumSteps, Picked
<1>6. h[T] = g[T]
  <2>1. T \subseteq T /\ Alike(w, w, T)
    BY DEF Alike
  <2> QED BY <1>1, <1>5, <2>1, TablesAgree
<1> QED BY <1>1, <1>2, <1>4, <1>6

LEMMA SumNat ==
  ASSUME NEW T, IsFiniteSet(T), NEW w \in [T -> Nat]
  PROVE  SumOver(w, T) \in Nat
<1>1. PICK g : AnyOrder(w, T, g) /\ SumOver(w, T) = g[T]
  BY SumIs
<1> QED BY <1>1 DEF AnyOrder

LEMMA SumEmpty == \A w \in [{} -> Nat] : SumOver(w, {}) = 0
<1> TAKE w \in [{} -> Nat]
<1>1. PICK g : AnyOrder(w, {}, g) /\ SumOver(w, {}) = g[{}]
  BY SumIs, FS_EmptySet
<1> QED BY <1>1 DEF AnyOrder

\* A sum without one element, whatever the weights of that one.
LEMMA SumWithout ==
  ASSUME NEW T, IsFiniteSet(T), NEW w \in [T -> Nat], NEW x \in T,
         NEW v \in [T \ {x} -> Nat], \A y \in T \ {x} : v[y] = w[y]
  PROVE  SumOver(w, T) = w[x] + SumOver(v, T \ {x})
<1>1. PICK g : AnyOrder(w, T, g) /\ SumOver(w, T) = g[T]
  BY SumIs
<1>2. IsFiniteSet(T \ {x})
  BY FS_RemoveElement
<1>3. PICK h : AnyOrder(v, T \ {x}, h) /\ SumOver(v, T \ {x}) = h[T \ {x}]
  BY <1>2, SumIs
<1>4. Picked(v, T \ {x}, h)
  <2>1. \A s : s # {} => Pick(s) \in s
    BY DEF Pick
  <2> QED BY <1>3, <2>1 DEF AnyOrder, Picked
<1>5. h[T \ {x}] = g[T \ {x}]
  <2>1. T \ {x} \subseteq T /\ Alike(v, w, T \ {x})
    BY DEF Alike
  <2> QED BY <1>1, <1>2, <1>4, <2>1, TablesAgree
<1>6. g[T] = w[x] + g[T \ {x}]
  BY <1>1 DEF AnyOrder
<1> QED BY <1>1, <1>3, <1>5, <1>6

\* A value put in adds what it is more than the one it replaces.
PutAdds(w, T, x, value) ==
  /\ IsFiniteSet(T \cup {x}) /\ Put(w, x, value) \in [T \cup {x} -> Nat]
  /\ SumOver(w, T) \in Nat
  /\ x \in T => w[x] \in Nat /\ w[x] <= SumOver(w, T)
  /\ SumOver(Put(w, x, value), T \cup {x}) =
       SumOver(w, T) + value - (IF x \in T THEN w[x] ELSE 0)

LEMMA SumPut ==
  ASSUME NEW T, IsFiniteSet(T), NEW w \in [T -> Nat], NEW x, NEW value \in Nat
  PROVE  PutAdds(w, T, x, value)
<1>1. IsFiniteSet(T \cup {x}) /\ IsFiniteSet(T \ {x})
  BY FS_AddElement, FS_RemoveElement
<1>2. Put(w, x, value) \in [T \cup {x} -> Nat]
  BY DEF Put
<1>3. PICK v \in [T \ {x} -> Nat] : \A y \in T \ {x} : v[y] = w[y] /\ v[y] = Put(w, x, value)[y]
  <2> WITNESS [y \in T \ {x} |-> w[y]] \in [T \ {x} -> Nat]
  <2> QED BY DEF Put
<1>4. SumOver(v, T \ {x}) \in Nat /\ SumOver(w, T) \in Nat
  BY <1>1, SumNat
<1>5. SumOver(Put(w, x, value), T \cup {x}) = value + SumOver(v, T \ {x})
  <2>1. (T \cup {x}) \ {x} = T \ {x} /\ x \in T \cup {x} /\ Put(w, x, value)[x] = value
    BY DEF Put
  <2>2. \A y \in (T \cup {x}) \ {x} : v[y] = Put(w, x, value)[y]
    BY <1>3, <2>1
  <2>3. v \in [(T \cup {x}) \ {x} -> Nat]
    BY <2>1
  <2>4. SumOver(Put(w, x, value), T \cup {x}) = Put(w, x, value)[x] + SumOver(v, (T \cup {x}) \ {x})
    BY <1>1, <1>2, <2>1, <2>2, <2>3, SumWithout
  <2> QED BY <2>1, <2>4
<1>6. CASE x \in T
  <2>1. SumOver(w, T) = w[x] + SumOver(v, T \ {x})
    BY <1>3, <1>6, SumWithout
  <2>2. w[x] \in Nat
    BY <1>6
  <2> QED BY <1>1, <1>2, <1>4, <1>5, <1>6, <2>1, <2>2 DEF PutAdds
<1>7. CASE x \notin T
  <2>1. T \ {x} = T /\ v = w
    BY <1>3, <1>7
  <2> QED BY <1>1, <1>2, <1>4, <1>5, <1>7, <2>1 DEF PutAdds
<1> QED BY <1>6, <1>7

-----------------------------------------------------------------------------
(***************************************************************************)
(* The maps of the script state manager, and what its operations make of   *)
(* them.                                                                   *)
(***************************************************************************)
LEMMA EntriesPut ==
  ASSUME NEW e \in Entries, NEW key \in Keys, NEW length \in Lengths
  PROVE  /\ Put(e, key, length) \in Entries
         /\ Total(e) \in Nat
         /\ Total(Put(e, key, length)) =
              Total(e) + length - (IF key \in DOMAIN e THEN e[key] ELSE 0)
<1>1. PICK K \in SUBSET Keys : IsFiniteSet(K) /\ e \in [K -> Lengths]
  BY DEF Entries
<1>2. DOMAIN e = K /\ e \in [K -> Nat] /\ length \in Nat
  BY <1>1, ScriptStoreAssumption
<1>3. PutAdds(e, K, key, length)
  BY <1>1, <1>2, SumPut
<1>4. Put(e, key, length) \in [K \cup {key} -> Lengths] /\ K \cup {key} \in SUBSET Keys
  BY <1>1 DEF Put
<1>5. DOMAIN Put(e, key, length) = K \cup {key}
  BY <1>4
<1>6. Put(e, key, length) \in Entries
  BY <1>3, <1>4 DEF Entries, PutAdds
<1> QED BY <1>2, <1>3, <1>5, <1>6 DEF Total, PutAdds

LEMMA EntriesWithout ==
  ASSUME NEW e \in Entries, NEW key \in DOMAIN e
  PROVE  /\ Without(e, key) \in Entries
         /\ Total(e) \in Nat /\ e[key] \in Nat /\ Total(Without(e, key)) \in Nat
         /\ Total(Without(e, key)) = Total(e) - e[key]
<1>1. PICK K \in SUBSET Keys : IsFiniteSet(K) /\ e \in [K -> Lengths]
  BY DEF Entries
<1>2. DOMAIN e = K /\ e \in [K -> Nat] /\ key \in K /\ e[key] \in Nat
  BY <1>1, ScriptStoreAssumption
<1>3. /\ Without(e, key) \in [K \ {key} -> Lengths] /\ Without(e, key) \in [K \ {key} -> Nat]
      /\ DOMAIN Without(e, key) = K \ {key}
      /\ \A y \in K \ {key} : Without(e, key)[y] = e[y]
  BY <1>1, <1>2 DEF Without
<1>4. IsFiniteSet(K \ {key}) /\ K \ {key} \in SUBSET Keys
  BY <1>1, FS_RemoveElement
<1>5. SumOver(e, K) = e[key] + SumOver(Without(e, key), K \ {key})
  BY <1>1, <1>2, <1>3, SumWithout
<1>6. SumOver(e, K) \in Nat /\ SumOver(Without(e, key), K \ {key}) \in Nat
  BY <1>1, <1>2, <1>3, <1>4, SumNat
<1>7. Without(e, key) \in Entries
  BY <1>3, <1>4 DEF Entries
<1>8. Total(e) = SumOver(e, K) /\ Total(Without(e, key)) = SumOver(Without(e, key), K \ {key})
  BY <1>2, <1>3 DEF Total
<1> QED BY <1>2, <1>5, <1>6, <1>7, <1>8

LEMMA EmptyIsSized == EmptyState \in SizedStates
<1>1. <<>> \in [{} -> Lengths] /\ <<>> \in [{} -> Nat] /\ DOMAIN <<>> = {}
  OBVIOUS
<1>2. <<>> \in Entries
  BY <1>1, FS_EmptySet DEF Entries
<1>3. Total(<<>>) = 0
  BY <1>1, SumEmpty DEF Total
<1> QED BY <1>2, <1>3, ScriptStoreAssumption DEF EmptyState, SizedStates

LEMMA DeployedIsMap ==
  ASSUME NEW m \in ScriptMaps, NEW hash \in ScriptHashes
  PROVE  Deployed(m, hash) \in ScriptMaps /\ DOMAIN Deployed(m, hash) = DOMAIN m \cup {hash}
<1>1. PICK D \in SUBSET ScriptHashes : m \in [D -> [active : BOOLEAN]]
  BY DEF ScriptMaps
<1>2. [active |-> TRUE] \in [active : BOOLEAN]
  OBVIOUS
<1>3. Deployed(m, hash) \in [D \cup {hash} -> [active : BOOLEAN]]
  BY <1>1, <1>2 DEF Deployed, Put
<1>4. D \cup {hash} \in SUBSET ScriptHashes
  OBVIOUS
<1> QED BY <1>1, <1>3, <1>4 DEF ScriptMaps

LEMMA InitialisedIsMap ==
  ASSUME NEW m \in StateMaps, NEW hash \in ScriptHashes
  PROVE  Initialised(m, hash) \in StateMaps /\ DOMAIN Initialised(m, hash) = DOMAIN m \cup {hash}
<1>1. PICK D \in SUBSET ScriptHashes : m \in [D -> SizedStates]
  BY DEF StateMaps
<1>2. Initialised(m, hash) \in [D \cup {hash} -> SizedStates]
  BY <1>1, EmptyIsSized DEF Initialised, Put
<1>3. D \cup {hash} \in SUBSET ScriptHashes
  OBVIOUS
<1> QED BY <1>1, <1>2, <1>3 DEF StateMaps

\* A state put in the place of another.
LEMMA ReplacedIsMap ==
  ASSUME NEW m \in StateMaps, NEW hash \in DOMAIN m, NEW state \in SizedStates
  PROVE  /\ [m EXCEPT ![hash] = state] \in StateMaps
         /\ DOMAIN [m EXCEPT ![hash] = state] = DOMAIN m
<1>1. PICK D \in SUBSET ScriptHashes : m \in [D -> SizedStates]
  BY DEF StateMaps
<1>2. [m EXCEPT ![hash] = state] \in [D -> SizedStates]
  BY <1>1
<1> QED BY <1>1, <1>2 DEF StateMaps

LEMMA StateOfMap ==
  ASSUME NEW m \in StateMaps, NEW hash \in DOMAIN m
  PROVE  /\ m[hash] \in SizedStates /\ m[hash].entries \in Entries /\ m[hash].size \in Nat
         /\ m[hash].size = Total(m[hash].entries) /\ m[hash].size <= MaxStateSize
         /\ hash \in ScriptHashes
<1>1. PICK D \in SUBSET ScriptHashes : m \in [D -> SizedStates]
  BY DEF StateMaps
<1>2. m[hash] \in SizedStates
  BY <1>1
<1> QED BY <1>1, <1>2 DEF SizedStates

LEMMA UpdatedIsMap ==
  ASSUME NEW m \in StateMaps, NEW hash, NEW key \in Keys, NEW length \in Lengths,
         CanUpdate(m, hash, key, length)
  PROVE  /\ Updated(m, hash, key, length) \in StateMaps
         /\ DOMAIN Updated(m, hash, key, length) = DOMAIN m
<1>1. hash \in DOMAIN m /\ NewSize(m[hash], key, length) <= MaxStateSize
  BY DEF CanUpdate
<1>2. PICK e \in Entries, size \in Nat : m[hash].entries = e /\ m[hash].size = size /\ size = Total(e)
  BY <1>1, StateOfMap
<1>3. Put(e, key, length) \in Entries /\ Total(Put(e, key, length)) = NewSize(m[hash], key, length)
  BY <1>2, EntriesPut DEF NewSize, OldLength
<1>4. Total(Put(e, key, length)) \in Nat
  <2>1. PICK K \in SUBSET Keys : IsFiniteSet(K) /\ Put(e, key, length) \in [K -> Lengths]
    BY <1>3 DEF Entries
  <2>2. Put(e, key, length) \in [K -> Nat] /\ DOMAIN Put(e, key, length) = K
    BY <2>1, ScriptStoreAssumption
  <2> QED BY <2>1, <2>2, SumNat DEF Total
<1> DEFINE state == [entries |-> Put(e, key, length), size |-> NewSize(m[hash], key, length)]
<1>5. state \in SizedStates
  BY <1>1, <1>3, <1>4 DEF SizedStates
<1>6. Updated(m, hash, key, length) = [m EXCEPT ![hash] = state]
  BY <1>2 DEF Updated
<1> HIDE DEF state
<1>7. [m EXCEPT ![hash] = state] \in StateMaps /\ DOMAIN [m EXCEPT ![hash] = state] = DOMAIN m
  BY <1>1, <1>5, ReplacedIsMap
<1> QED BY <1>6, <1>7

LEMMA DeletedIsMap ==
  ASSUME NEW m \in StateMaps, NEW hash \in DOMAIN m, NEW key \in DOMAIN m[hash].entries
  PROVE  Deleted(m, hash, key) \in StateMaps /\ DOMAIN Deleted(m, hash, key) = DOMAIN m
<1>1. PICK e \in Entries, size \in Nat :
        m[hash].entries = e /\ m[hash].size = size /\ size = Total(e) /\ size <= MaxStateSize
  BY StateOfMap
<1>2. /\ Without(e, key) \in Entries /\ Total(Without(e, key)) \in Nat
      /\ e[key] \in Nat /\ Total(Without(e, key)) = size - e[key]
  BY <1>1, EntriesWithout
<1>3. m[hash].size - OldLength(m[hash], key) = Total(Without(e, key))
  BY <1>1, <1>2 DEF OldLength
<1> DEFINE state == [entries |-> Without(e, key), size |-> Total(Without(e, key))]
<1>4. Total(Without(e, key)) <= MaxStateSize
  BY <1>1, <1>2, ScriptStoreAssumption
<1>5. state \in SizedStates
  BY <1>2, <1>4 DEF SizedStates
<1>6. Deleted(m, hash, key) = [m EXCEPT ![hash] = state]
  BY <1>1, <1>3 DEF Deleted
<1> HIDE DEF state
<1>7. [m EXCEPT ![hash] = state] \in StateMaps /\ DOMAIN [m EXCEPT ![hash] = state] = DOMAIN m
  BY <1>5, ReplacedIsMap
<1> QED BY <1>6, <1>7

\* Such maps have their type, and their sizes agree.
LEMMA MapsAreTyped ==
  /\ \A m \in ScriptMaps : IsScripts(m)
  /\ \A m \in StateMaps : IsStates(m) /\ SizesAgree(m)
<1>1. \A m \in ScriptMaps : IsScripts(m)
  BY DEF ScriptMaps, IsScripts
<1>2. ASSUME NEW m \in StateMaps PROVE IsStates(m) /\ SizesAgree(m)
  <2>1. DOMAIN m \subseteq ScriptHashes
    BY DEF StateMaps
  <2>2. ASSUME NEW h \in DOMAIN m
        PROVE  /\ DOMAIN m[h].entries \subseteq Keys
               /\ \A k \in DOMAIN m[h].entries : m[h].entries[k] \in Lengths
               /\ m[h].size \in Nat /\ m[h].size <= MaxStateSize
               /\ m[h].size = Total(m[h].entries)
    <3>1. /\ m[h].entries \in Entries /\ m[h].size \in Nat
          /\ m[h].size = Total(m[h].entries) /\ m[h].size <= MaxStateSize
      BY StateOfMap
    <3>2. /\ DOMAIN m[h].entries \subseteq Keys
          /\ \A k \in DOMAIN m[h].entries : m[h].entries[k] \in Lengths
      BY <3>1 DEF Entries
    <3> QED BY <3>1, <3>2, Zenon
  <2>3. IsStates(m)
    BY <2>1, <2>2 DEF IsStates
  <2>4. SizesAgree(m)
    BY <2>2, Zenon DEF SizesAgree
  <2> QED BY <2>3, <2>4
<1> QED BY <1>1, <1>2

-----------------------------------------------------------------------------
(***************************************************************************)
(* Accounts, and the money in them.                                        *)
(***************************************************************************)
Balance == [balance : Nat, nonce : Nat]

AccountMaps == UNION {[D -> Balance] : D \in {D \in SUBSET Addresses : IsFiniteSet(D)}}

Balances(table) == [x \in DOMAIN table |-> table[x].balance]

Money(table) == SumOver(Balances(table), DOMAIN table)

LEMMA AccountMapIs ==
  ASSUME NEW table \in AccountMaps
  PROVE  /\ IsFiniteSet(DOMAIN table) /\ DOMAIN table \subseteq Addresses
         /\ table \in [DOMAIN table -> Balance]
         /\ Balances(table) \in [DOMAIN table -> Nat]
         /\ Money(table) \in Nat
         /\ IsAccounts(table)
<1>1. PICK D \in SUBSET Addresses : IsFiniteSet(D) /\ table \in [D -> Balance]
  BY DEF AccountMaps
<1>2. DOMAIN table = D
  BY <1>1
<1>3. Balances(table) \in [D -> Nat]
  BY <1>1, <1>2 DEF Balances, Balance
<1>4. Money(table) \in Nat
  BY <1>1, <1>2, <1>3, SumNat DEF Money
<1>5. IsAccounts(table)
  BY <1>1, <1>2 DEF IsAccounts, Balance
<1> QED BY <1>1, <1>2, <1>3, <1>4, <1>5

\* An account put into the table adds what it holds more than the one it
\* replaces.
PutPays(table, x, account, new) ==
  /\ new = Put(table, x, account)
  /\ new \in AccountMaps
  /\ DOMAIN new = DOMAIN table \cup {x}
  /\ Money(new) = Money(table) + account.balance
                    - (IF x \in DOMAIN table THEN table[x].balance ELSE 0)

LEMMA AccountPut ==
  ASSUME NEW table \in AccountMaps, NEW x \in Addresses, NEW account \in Balance
  PROVE  \E new : PutPays(table, x, account, new)
<1>1. PICK D \in SUBSET Addresses : IsFiniteSet(D) /\ table \in [D -> Balance] /\ D = DOMAIN table
  BY DEF AccountMaps
<1>2. Balances(table) \in [D -> Nat]
  BY <1>1, AccountMapIs
<1>3. PICK b \in Nat : b = account.balance
  BY DEF Balance
<1>4. PutAdds(Balances(table), D, x, b)
  BY <1>1, <1>2, SumPut
<1>5. /\ Put(table, x, account) \in [D \cup {x} -> Balance]
      /\ DOMAIN Put(table, x, account) = D \cup {x}
      /\ D \cup {x} \in SUBSET Addresses
  BY <1>1 DEF Put
<1>6. Put(table, x, account) \in AccountMaps
  BY <1>4, <1>5 DEF AccountMaps, PutAdds
<1>7. Balances(Put(table, x, account)) = Put(Balances(table), x, b)
  <2>1. Balances(Put(table, x, account)) \in [D \cup {x} -> Nat]
    BY <1>5, <1>6, AccountMapIs
  <2>2. Put(Balances(table), x, b) \in [D \cup {x} -> Nat]
    BY <1>4 DEF PutAdds
  <2>3. \A y \in D \cup {x} : Balances(Put(table, x, account))[y] = Put(Balances(table), x, b)[y]
    BY <1>1, <1>3 DEF Balances, Put
  <2> QED BY <2>1, <2>2, <2>3
<1>8. x \in D => Balances(table)[x] = table[x].balance
  BY <1>1 DEF Balances
<1>9. SumOver(Put(Balances(table), x, b), D \cup {x}) =
        SumOver(Balances(table), D) + b - (IF x \in D THEN Balances(table)[x] ELSE 0)
  BY <1>4 DEF PutAdds
<1>10. Money(Put(table, x, account)) = SumOver(Put(Balances(table), x, b), D \cup {x})
  BY <1>5, <1>7 DEF Money
<1>11. Money(table) = SumOver(Balances(table), D)
  BY <1>1 DEF Money
<1>12. PutPays(table, x, account, Put(table, x, account))
  BY <1>1, <1>3, <1>5, <1>6, <1>8, <1>9, <1>10, <1>11 DEF PutPays
<1> QED BY <1>12

\* Money, as MoneyIsConserved adds it up.
LEMMA MoneyIs ==
  ASSUME NEW table \in AccountMaps
  PROVE  MapThenSumSet(LAMBDA x : table[x].balance, DOMAIN table) = Money(table)
<1> DEFINE T == DOMAIN table
           w == Balances(table)
           R(h) == h = [s \in SUBSET T |-> IF s = {} THEN 0
                                           ELSE LET x == Pick(s) IN table[x].balance + h[s \ {x}]]
<1>1. MapThenSumSet(LAMBDA x : table[x].balance, DOMAIN table) = (CHOOSE h : R(h))[T]
  BY DEF MapThenSumSet, MapThenFoldSet, Pick
<1>2. IsFiniteSet(T) /\ w \in [T -> Nat]
  BY AccountMapIs
<1>3. \A x \in T : w[x] = table[x].balance
  BY DEF Balances
<1>4. PICK g : AnyOrder(w, T, g) /\ SumOver(w, T) = g[T]
  BY <1>2, SumIs
<1>5. \A s \in SUBSET T : s # {} => Pick(s) \in s /\ Pick(s) \in T
  BY DEF Pick
<1> HIDE DEF T, w
<1>6. R(g)
  <2>1. g = [s \in SUBSET T |-> g[s]]
    BY <1>4 DEF AnyOrder
  <2>2. \A s \in SUBSET T :
          g[s] = IF s = {} THEN 0 ELSE LET x == Pick(s) IN table[x].balance + g[s \ {x}]
    BY <1>3, <1>4, <1>5 DEF AnyOrder
  <2> QED BY <2>1, <2>2
<1>7. PICK h : h = (CHOOSE k : R(k)) /\ R(h)
  BY <1>6
<1>8. Picked(w, T, h)
  BY <1>3, <1>5, <1>7 DEF Picked
<1>9. T \subseteq T /\ Alike(w, w, T)
  BY DEF Alike
<1>10. h[T] = g[T]
  BY <1>2, <1>4, <1>8, <1>9, TablesAgree
<1> QED BY <1>1, <1>4, <1>7, <1>10 DEF Money, T, w

-----------------------------------------------------------------------------
(***************************************************************************)
(* What a transaction keeps.                                               *)
(***************************************************************************)
Receipts == [tx : Txs, success : BOOLEAN]

WorldTypes ==
  [accounts : AccountMaps, scripts : ScriptMaps, states : StateMaps,
   funded : SUBSET Addresses, receipts : Seq(Receipts)]

\* All money was given to somebody who has an account, and every script has its
\* state.
Worlds ==
  {w \in WorldTypes :
     /\ w.funded \subseteq DOMAIN w.accounts
     /\ Money(w.accounts) = InitialBalance * Cardinality(w.funded)
     /\ DOMAIN w.scripts = DOMAIN w.states}

LEMMA SenderIsMade ==
  ASSUME NEW w \in Worlds, NEW tx \in TransferTx
  PROVE  WithSender(w, tx) \in Worlds /\ tx.from \in DOMAIN WithSender(w, tx).accounts
<1>1. PICK from \in Addresses : from = tx.from
  BY DEF TransferTx
<1>2. /\ w \in WorldTypes /\ w.accounts \in AccountMaps /\ w.funded \in SUBSET Addresses
      /\ w.funded \subseteq DOMAIN w.accounts
      /\ Money(w.accounts) = InitialBalance * Cardinality(w.funded)
      /\ DOMAIN w.scripts = DOMAIN w.states
  BY DEF Worlds, WorldTypes
<1>3. /\ IsFiniteSet(DOMAIN w.accounts) /\ w.accounts \in [DOMAIN w.accounts -> Balance]
      /\ Money(w.accounts) \in Nat
  BY <1>2, AccountMapIs
<1>4. InitialBalance \in Nat
  BY AccountAssumption
<1>5. PICK account \in Balance : account = Account(w.accounts, from, InitialBalance)
  <2>1. Account(w.accounts, from, InitialBalance) \in Balance
    BY <1>3, <1>4 DEF Account, Balance
  <2> QED BY <2>1
<1>a. PICK table : PutPays(w.accounts, from, account, table)
  BY <1>2, AccountPut
<1>6. /\ table \in AccountMaps /\ table = Put(w.accounts, from, account)
      /\ DOMAIN table = DOMAIN w.accounts \cup {from}
      /\ Money(table) = Money(w.accounts) + account.balance
                          - (IF from \in DOMAIN w.accounts THEN w.accounts[from].balance ELSE 0)
  BY <1>a DEF PutPays
<1>7. PICK funds \in SUBSET Addresses :
        funds = IF from \in DOMAIN w.accounts THEN w.funded ELSE w.funded \cup {from}
  BY <1>2
<1>8. WithSender(w, tx) = [w EXCEPT !.accounts = table, !.funded = funds]
  BY <1>1, <1>2, <1>5, <1>6, <1>7 DEF WithSender, WorldTypes
<1>9. Money(table) = InitialBalance * Cardinality(funds) /\ funds \subseteq DOMAIN table
  <2>1. CASE from \in DOMAIN w.accounts
    <3>1. account = w.accounts[from] /\ account.balance \in Nat
      BY <1>5, <2>1 DEF Account, Balance
    <3>2. Money(table) = Money(w.accounts)
      BY <1>3, <1>6, <2>1, <3>1
    <3> QED BY <1>2, <1>6, <1>7, <2>1, <3>2
  <2>2. CASE from \notin DOMAIN w.accounts
    <3>1. account.balance = InitialBalance
      BY <1>5, <2>2 DEF Account
    <3>2. IsFiniteSet(w.funded) /\ from \notin w.funded
      BY <1>2, <1>3, <2>2, FS_Subset
    <3>3. Cardinality(funds) = Cardinality(w.funded) + 1 /\ Cardinality(w.funded) \in Nat
      BY <1>7, <2>2, <3>2, FS_AddElement, FS_CardinalityType
    <3>4. Money(table) = Money(w.accounts) + InitialBalance
      BY <1>3, <1>4, <1>6, <2>2, <3>1
    <3>5. PICK c \in Nat, i \in Nat : c = Cardinality(w.funded) /\ i = InitialBalance
      BY <1>4, <3>3
    <3>6. i * (c + 1) = i * c + i
      BY <3>5
    <3> QED BY <1>2, <1>6, <1>7, <2>2, <3>3, <3>4, <3>5, <3>6
  <2> QED BY <2>1, <2>2
<1>10. [w EXCEPT !.accounts = table, !.funded = funds] \in WorldTypes
  BY <1>2, <1>6 DEF WorldTypes
<1> QED BY <1>1, <1>2, <1>6, <1>8, <1>9, <1>10 DEF Worlds, WorldTypes

\* Nothing is made or lost on the way, to oneself neither.
LEMMA MovedKeeps ==
  ASSUME NEW table \in AccountMaps, NEW tx \in TransferTx, tx.from \in DOMAIN table,
         table[tx.from].balance >= tx.value
  PROVE  /\ Moved(table, tx) \in AccountMaps
         /\ Money(Moved(table, tx)) = Money(table)
         /\ DOMAIN table \subseteq DOMAIN Moved(table, tx)
<1>1. PICK from \in Addresses, to \in Addresses, v \in Nat :
        from = tx.from /\ to = tx.to /\ v = tx.value
  BY DEF TransferTx
<1>2. table \in [DOMAIN table -> Balance] /\ Money(table) \in Nat
  BY AccountMapIs
<1>3. PICK b \in Nat, n \in Nat : table[from] = [balance |-> b, nonce |-> n] /\ b >= v
  BY <1>1, <1>2 DEF Balance
<1>4. PICK account \in Balance : account = [balance |-> b - v, nonce |-> n + 1]
  <2>1. b - v \in Nat /\ n + 1 \in Nat
    BY <1>3
  <2>2. [balance |-> b - v, nonce |-> n + 1] \in Balance
    BY <2>1 DEF Balance
  <2> QED BY <2>2
<1>a. PICK paid : PutPays(table, from, account, paid)
  BY AccountPut
<1>5. /\ paid \in AccountMaps /\ paid = Put(table, from, account)
      /\ DOMAIN paid = DOMAIN table \cup {from}
      /\ Money(paid) = Money(table) + account.balance
                         - (IF from \in DOMAIN table THEN table[from].balance ELSE 0)
  BY <1>a DEF PutPays
<1>6. paid = [table EXCEPT ![tx.from].balance = @ - tx.value, ![tx.from].nonce = @ + 1]
  <2>1. DOMAIN paid = DOMAIN table
    BY <1>1, <1>5
  <2>2. paid = [x \in DOMAIN table |-> IF x = from THEN account ELSE table[x]]
    BY <1>5, <2>1 DEF Put
  <2>3. /\ table[from].balance = b /\ table[from].nonce = n
        /\ [table[from] EXCEPT !.balance = b - v] = [balance |-> b - v, nonce |-> n]
        /\ [[balance |-> b - v, nonce |-> n] EXCEPT !.nonce = n + 1] = account
    BY <1>3, <1>4
  <2>a. PICK first : first = [table EXCEPT ![from].balance = b - v]
    OBVIOUS
  <2>b. first = [table EXCEPT ![from] = [balance |-> b - v, nonce |-> n]]
    BY <2>3, <2>a, Zenon
  <2>c. first[from] = [balance |-> b - v, nonce |-> n] /\ DOMAIN first = DOMAIN table
    BY <1>1, <1>2, <2>b
  <2>d. [first EXCEPT ![from].nonce = n + 1] = [first EXCEPT ![from] = account]
    BY <2>3, <2>c, Zenon
  <2>e. [first EXCEPT ![from] = account] = [table EXCEPT ![from] = account]
    BY <1>1, <1>2, <2>b
  <2>4. [table EXCEPT ![from].balance = @ - v, ![from].nonce = @ + 1]
          = [table EXCEPT ![from] = account]
    BY <2>3, <2>a, <2>d, <2>e, Zenon
  <2>5. [table EXCEPT ![from] = account] = paid
    BY <1>1, <1>2, <2>2
  <2> QED BY <1>1, <2>4, <2>5
<1>7. DOMAIN paid = DOMAIN table /\ Money(paid) = Money(table) - v /\ Money(paid) \in Nat
  <2>1. Money(paid) \in Nat
    BY <1>5, AccountMapIs
  <2>2. from \in DOMAIN table /\ table[from].balance = b /\ account.balance = b - v
    BY <1>1, <1>3, <1>4
  <2>3. DOMAIN paid = DOMAIN table
    BY <1>5, <2>2
  <2>4. Money(paid) = Money(table) + (b - v) - b
    BY <1>5, <2>2
  <2> QED BY <1>1, <1>2, <1>3, <2>1, <2>3, <2>4
<1>8. paid \in [DOMAIN paid -> Balance]
  BY <1>5, AccountMapIs
<1>9. PICK old \in Balance : old = Account(paid, to, 0)
  BY <1>8 DEF Account, Balance
<1>10. PICK new \in Balance : new = [old EXCEPT !.balance = @ + v] /\ new.balance = old.balance + v
  <2>1. old.balance + v \in Nat /\ old.nonce \in Nat
    BY <1>9 DEF Balance
  <2>2. [old EXCEPT !.balance = old.balance + v] \in Balance
    BY <1>9, <2>1 DEF Balance
  <2>3. [old EXCEPT !.balance = old.balance + v].balance = old.balance + v
    BY <1>9 DEF Balance
  <2> QED BY <2>2, <2>3
<1>b. PICK moved : PutPays(paid, to, new, moved)
  BY <1>5, AccountPut
<1>11. /\ moved = Put(paid, to, new) /\ moved \in AccountMaps
       /\ DOMAIN moved = DOMAIN paid \cup {to}
       /\ Money(moved) =
            Money(paid) + new.balance - (IF to \in DOMAIN paid THEN paid[to].balance ELSE 0)
  BY <1>b DEF PutPays
<1>12. old.balance = (IF to \in DOMAIN paid THEN paid[to].balance ELSE 0) /\ old.balance \in Nat
  BY <1>9 DEF Account, Balance
<1>13. Money(moved) = Money(table)
  <2>1. Money(moved) = Money(paid) + (old.balance + v) - old.balance
    BY <1>10, <1>11, <1>12
  <2> QED BY <1>2, <1>7, <1>12, <2>1
<1>14. Moved(table, tx) = moved
  BY <1>1, <1>6, <1>9, <1>10, <1>11 DEF Moved
<1> QED BY <1>7, <1>11, <1>13, <1>14

LEMMA TransferKeeps ==
  ASSUME NEW w \in Worlds, NEW tx \in TransferTx
  PROVE  Transfer(w, tx).world \in Worlds /\ Transfer(w, tx).success \in BOOLEAN
<1>1. PICK known \in Worlds : known = WithSender(w, tx) /\ tx.from \in DOMAIN known.accounts
  BY SenderIsMade
<1>2. /\ known \in WorldTypes /\ known.accounts \in AccountMaps
      /\ known.funded \subseteq DOMAIN known.accounts
      /\ Money(known.accounts) = InitialBalance * Cardinality(known.funded)
      /\ DOMAIN known.scripts = DOMAIN known.states
  BY DEF Worlds, WorldTypes
<1>3. tx.low \in BOOLEAN
  BY DEF TransferTx
<1>4. CASE known.accounts[tx.from].balance >= tx.value
  <2>1. PICK table \in AccountMaps :
          /\ table = Moved(known.accounts, tx)
          /\ Money(table) = Money(known.accounts)
          /\ DOMAIN known.accounts \subseteq DOMAIN table
    BY <1>1, <1>2, <1>4, MovedKeeps
  <2>2. [known EXCEPT !.accounts = table] \in WorldTypes
    BY <1>2, <2>1 DEF WorldTypes
  <2>3. [known EXCEPT !.accounts = table] \in Worlds
    BY <1>2, <2>1, <2>2 DEF Worlds, WorldTypes
  <2>4. Transfer(w, tx).world = [known EXCEPT !.accounts = table]
    BY <1>1, <1>4, <2>1 DEF Transfer
  <2> QED BY <1>3, <2>3, <2>4 DEF Transfer
<1>5. CASE ~(known.accounts[tx.from].balance >= tx.value)
  <2>1. Transfer(w, tx).world = known
    BY <1>1, <1>5 DEF Transfer
  <2> QED BY <1>1, <1>3, <2>1 DEF Transfer
<1> QED BY <1>4, <1>5

\* Another map of states for the same scripts.
LEMMA StatesPut ==
  ASSUME NEW w \in Worlds, NEW m \in StateMaps, DOMAIN m = DOMAIN w.states
  PROVE  [w EXCEPT !.states = m] \in Worlds
<1>1. w \in WorldTypes
  BY DEF Worlds
<1>2. [w EXCEPT !.states = m] \in WorldTypes
  BY <1>1 DEF WorldTypes
<1> QED BY <1>1, <1>2 DEF Worlds, WorldTypes

\* One change of a list, as Apply makes it.
Changed(acc, hash, change, stopAtError) ==
  IF acc.error /\ stopAtError THEN acc
  ELSE IF CanUpdate(acc.states, hash, change[1], change[2])
       THEN [acc EXCEPT !.states = Updated(@, hash, change[1], change[2])]
       ELSE [acc EXCEPT !.error = TRUE]

\* Whichever of the changes fail, the states are maps for the same hashes.
Applied(m) == [states : {s \in StateMaps : DOMAIN s = DOMAIN m}, error : BOOLEAN]

LEMMA ChangedKeeps ==
  ASSUME NEW m, NEW acc \in Applied(m), NEW hash, NEW change \in Keys \X Lengths,
         NEW stopAtError \in BOOLEAN
  PROVE  Changed(acc, hash, change, stopAtError) \in Applied(m)
<1>1. PICK s \in StateMaps, e \in BOOLEAN :
        acc = [states |-> s, error |-> e] /\ DOMAIN s = DOMAIN m
  BY DEF Applied
<1>2. change[1] \in Keys /\ change[2] \in Lengths
  OBVIOUS
<1>3. CASE CanUpdate(s, hash, change[1], change[2])
  <2>1. PICK u \in StateMaps : u = Updated(s, hash, change[1], change[2]) /\ DOMAIN u = DOMAIN m
    BY <1>1, <1>2, <1>3, UpdatedIsMap
  <2>2. [acc EXCEPT !.states = u] \in Applied(m)
    BY <1>1, <2>1 DEF Applied
  <2> QED BY <1>1, <1>3, <2>1, <2>2 DEF Changed
<1>4. CASE ~CanUpdate(s, hash, change[1], change[2])
  <2>1. [acc EXCEPT !.error = TRUE] \in Applied(m)
    BY <1>1 DEF Applied
  <2> QED BY <1>1, <1>4, <2>1 DEF Changed
<1> QED BY <1>3, <1>4

LEMMA ApplyKeeps ==
  ASSUME NEW m \in StateMaps, NEW hash, NEW changes \in ChangeList, NEW stopAtError \in BOOLEAN
  PROVE  Apply(m, hash, changes, stopAtError) \in Applied(m)
<1> DEFINE n == Len(changes)
           V == Applied(m)
           base == [states |-> m, error |-> FALSE]
           F == [p \in V \X (1 .. n) |-> Changed(p[1], hash, changes[p[2]], stopAtError)]
           R(h) == h = [s \in SUBSET (DOMAIN changes) |->
                          IF s = {} THEN base
                          ELSE LET x == Max(s) IN Changed(h[s \ {x}], hash, changes[x], stopAtError)]
<1>1. n \in Nat /\ DOMAIN changes = 1 .. n /\ \A i \in 1 .. n : changes[i] \in Keys \X Lengths
  BY DEF ChangeList
<1>2. Apply(m, hash, changes, stopAtError) = (CHOOSE h : R(h))[DOMAIN changes]
  BY DEF Apply, FoldLeft, MapThenFoldSet, Changed
<1>3. base \in V
  BY DEF Applied
<1> HIDE DEF n, V, base
<1>4. \A p \in V \X (1 .. n) : Changed(p[1], hash, changes[p[2]], stopAtError) \in V
  BY <1>1, ChangedKeeps DEF V
<1>5. F \in [V \X (1 .. n) -> V]
  BY <1>4
<1>6. \A v \in V, i \in 1 .. n : F[<<v, i>>] = Changed(v, hash, changes[i], stopAtError)
  OBVIOUS
<1> HIDE DEF F
<1>7. PICK g : FoldSteps(n, V, base, F, g)
  BY <1>1, <1>3, <1>5, StepsExist
<1>8. R(g)
  <2>1. g = [s \in SUBSET (1 .. n) |-> g[s]]
    BY <1>7 DEF FoldSteps
  <2>2. ASSUME NEW s \in SUBSET (1 .. n), s # {}
        PROVE  g[s] = Changed(g[s \ {Max(s)}], hash, changes[Max(s)], stopAtError)
    <3>1. Max(s) \in 1 .. n /\ g[s \ {Max(s)}] \in V
      BY <1>1, <1>7, <2>2, MaxOfPositions DEF FoldSteps
    <3> QED BY <1>6, <1>7, <2>2, <3>1 DEF FoldSteps
  <2>3. \A s \in SUBSET (1 .. n) :
          g[s] = IF s = {} THEN base
                 ELSE LET x == Max(s) IN Changed(g[s \ {x}], hash, changes[x], stopAtError)
    BY <1>7, <2>2 DEF FoldSteps
  <2> QED BY <1>1, <2>1, <2>3
<1>9. PICK h : h = (CHOOSE k : R(k)) /\ R(h)
  BY <1>8
<1>10. h[{}] \in V
  BY <1>3, <1>9
<1>11. \A s \in SUBSET (1 .. n) : s # {} /\ h[s \ {Max(s)}] \in V => h[s] \in V
  <2> TAKE s \in SUBSET (1 .. n)
  <2> HAVE s # {} /\ h[s \ {Max(s)}] \in V
  <2>1. Max(s) \in 1 .. n
    BY <1>1, MaxOfPositions
  <2>2. h[s] = Changed(h[s \ {Max(s)}], hash, changes[Max(s)], stopAtError)
    BY <1>1, <1>9
  <2> QED BY <1>1, <2>1, <2>2, ChangedKeeps DEF V
<1>12. h[1 .. n] \in V
  BY <1>1, <1>10, <1>11, FoldKeeps
<1> QED BY <1>1, <1>2, <1>9, <1>12 DEF V

LEMMA DeployKeeps ==
  ASSUME NEW w \in Worlds, NEW code \in Codes, now \in 0 .. MaxTime
  PROVE  [w EXCEPT !.scripts = Deployed(@, <<code, now>>),
                   !.states = Initialised(@, <<code, now>>)] \in Worlds
<1>1. PICK hash \in ScriptHashes : hash = <<code, now>>
  BY ScriptStoreAssumption
<1>2. w \in WorldTypes /\ w.scripts \in ScriptMaps /\ w.states \in StateMaps
  BY DEF Worlds, WorldTypes
<1>3. PICK scr \in ScriptMaps :
        scr = Deployed(w.scripts, hash) /\ DOMAIN scr = DOMAIN w.scripts \cup {hash}
  BY <1>2, DeployedIsMap
<1>4. PICK st \in StateMaps :
        st = Initialised(w.states, hash) /\ DOMAIN st = DOMAIN w.states \cup {hash}
  BY <1>2, InitialisedIsMap
<1>5. [w EXCEPT !.scripts = scr, !.states = st] \in WorldTypes
  BY <1>2 DEF WorldTypes
<1>6. [w EXCEPT !.scripts = scr, !.states = st] \in Worlds
  BY <1>2, <1>3, <1>4, <1>5 DEF Worlds, WorldTypes
<1> QED BY <1>1, <1>3, <1>4, <1>6

\* What a transaction is.
LEMMA KindsOfTxs ==
  ASSUME NEW tx \in Txs
  PROVE  \/ tx.kind = "transfer" /\ tx \in TransferTx
         \/ tx.kind = "plain" /\ tx.ok \in BOOLEAN /\ tx.low \in BOOLEAN
         \/ tx.kind = "deploy" /\ tx.code \in Codes /\ tx.low \in BOOLEAN
         \/ tx.kind \in {"call", "update"} /\ tx.changes \in ChangeList /\ tx.low \in BOOLEAN
<1>1. CASE tx \in Transfers
  <2>1. tx \in TransferTx
    BY <1>1, AccountAssumption
  <2> QED BY <2>1 DEF TransferTx
<1>2. CASE tx \in OtherTxs
  <2>1. tx \in OtherTx /\ Changes \subseteq ChangeList
    BY <1>2, AccountAssumption
  <2> QED BY <2>1 DEF OtherTx
<1> QED BY <1>1, <1>2 DEF Txs

\* What process_transaction does before it makes the receipt.
Done(w, tx) ==
  CASE tx.kind = "transfer" -> Transfer(w, tx)
    [] tx.kind = "plain"    -> Plain(w, tx)
    [] tx.kind = "deploy"   -> Deploy(w, tx)
    [] tx.kind = "call"     -> Call(w, tx)
    [] tx.kind = "update"   -> Update(w, tx)

LEMMA DoneKeeps ==
  ASSUME NEW w \in Worlds, NEW tx \in Txs, now \in 0 .. MaxTime
  PROVE  Done(w, tx).world \in Worlds /\ Done(w, tx).success \in BOOLEAN
<1>0. w.states \in StateMaps
  BY DEF Worlds, WorldTypes
<1>1. CASE tx.kind = "transfer" /\ tx \in TransferTx
  <2>1. Done(w, tx) = Transfer(w, tx)
    BY <1>1 DEF Done
  <2> QED BY <1>1, <2>1, TransferKeeps
<1>2. CASE tx.kind = "plain" /\ tx.ok \in BOOLEAN /\ tx.low \in BOOLEAN
  <2>1. Done(w, tx) = Plain(w, tx)
    BY <1>2 DEF Done
  <2> QED BY <1>2, <2>1 DEF Plain
<1>3. CASE tx.kind = "deploy" /\ tx.code \in Codes /\ tx.low \in BOOLEAN
  <2>1. Done(w, tx) = Deploy(w, tx)
    BY <1>3 DEF Done
  <2>2. Deploy(w, tx).world \in Worlds
    BY <1>3, DeployKeeps DEF Deploy
  <2>3. Deploy(w, tx).success \in BOOLEAN
    BY <1>3, Zenon DEF Deploy
  <2> QED BY <2>1, <2>2, <2>3
<1>4. CASE tx.kind = "call" /\ tx.changes \in ChangeList
  <2>1. Done(w, tx) = Call(w, tx)
    BY <1>4 DEF Done
  <2>2. PICK done \in Applied(w.states) : done = Apply(w.states, tx.hash, tx.changes, FALSE)
    <3>1. FALSE \in BOOLEAN
      OBVIOUS
    <3> QED BY <1>0, <1>4, <3>1, ApplyKeeps
  <2>3. PICK m \in StateMaps : m = done.states /\ DOMAIN m = DOMAIN w.states
    BY DEF Applied
  <2>4. [w EXCEPT !.states = m] \in Worlds
    BY <2>3, StatesPut
  <2>5. CASE tx.hash \notin DOMAIN w.scripts \/ tx.answer = "error"
    <3>1. Call(w, tx) = [world |-> w, success |-> FALSE]
      BY <2>5, Zenon DEF Call
    <3> QED BY <2>1, <3>1
  <2>6. CASE ~(tx.hash \notin DOMAIN w.scripts \/ tx.answer = "error")
    <3>1. Call(w, tx) = [world |-> [w EXCEPT !.states = m], success |-> tx.answer = "ok"]
      BY <2>2, <2>3, <2>6 DEF Call
    <3> QED BY <2>1, <2>4, <3>1
  <2> QED BY <2>5, <2>6
<1>5. CASE tx.kind = "update" /\ tx.changes \in ChangeList /\ tx.low \in BOOLEAN
  <2>1. Done(w, tx) = Update(w, tx)
    BY <1>5 DEF Done
  <2>2. PICK done \in Applied(w.states) : done = Apply(w.states, tx.hash, tx.changes, TRUE)
    BY <1>0, <1>5, ApplyKeeps
  <2>3. PICK m \in StateMaps : m = done.states /\ DOMAIN m = DOMAIN w.states
    BY DEF Applied
  <2>4. [w EXCEPT !.states = m] \in Worlds /\ done.error \in BOOLEAN
    BY <2>3, StatesPut DEF Applied
  <2> QED BY <1>5, <2>1, <2>2, <2>3, <2>4 DEF Update
<1> QED BY <1>1, <1>2, <1>3, <1>4, <1>5, KindsOfTxs

LEMMA ProcessKeeps ==
  ASSUME NEW w \in Worlds, NEW tx \in Txs, now \in 0 .. MaxTime
  PROVE  Process(w, tx) \in Worlds
<1>1. PICK v \in Worlds : v = Done(w, tx).world
  BY DoneKeeps
<1>2. PICK receipt \in Receipts : receipt = [tx |-> tx, success |-> Done(w, tx).success]
  BY DoneKeeps DEF Receipts
<1>3. Process(w, tx) = [v EXCEPT !.receipts = Append(v.receipts, receipt)]
  BY <1>1, <1>2, Zenon DEF Process, Done
<1>4. v \in WorldTypes /\ v.receipts \in Seq(Receipts)
  BY DEF Worlds, WorldTypes
<1>5. PICK rs \in Seq(Receipts) : rs = Append(v.receipts, receipt)
  <2>1. PICK old \in Seq(Receipts) : old = v.receipts
    BY <1>4
  <2>2. Append(old, receipt) \in Seq(Receipts)
    OBVIOUS
  <2> QED BY <2>1, <2>2
<1>6. [v EXCEPT !.receipts = rs] \in WorldTypes
  BY <1>4 DEF WorldTypes
<1>7. [v EXCEPT !.receipts = rs] \in Worlds
  BY <1>4, <1>6 DEF Worlds, WorldTypes
<1> QED BY <1>3, <1>5, <1>7

LEMMA BatchKeeps ==
  ASSUME NEW w \in Worlds, NEW txs \in Seq(Txs), now \in 0 .. MaxTime
  PROVE  FoldLeft(Process, w, txs) \in Worlds
<1> DEFINE n == Len(txs)
           F == [p \in Worlds \X (1 .. n) |-> Process(p[1], txs[p[2]])]
           R(h) == h = [s \in SUBSET (DOMAIN txs) |->
                          IF s = {} THEN w ELSE LET x == Max(s) IN Process(h[s \ {x}], txs[x])]
<1>1. n \in Nat /\ DOMAIN txs = 1 .. n /\ \A i \in 1 .. n : txs[i] \in Txs
  OBVIOUS
<1>2. FoldLeft(Process, w, txs) = (CHOOSE h : R(h))[DOMAIN txs]
  BY DEF FoldLeft, MapThenFoldSet
<1> HIDE DEF n
<1>4. \A p \in Worlds \X (1 .. n) : Process(p[1], txs[p[2]]) \in Worlds
  BY <1>1, ProcessKeeps
<1>5. F \in [Worlds \X (1 .. n) -> Worlds]
  BY <1>4
<1>6. \A v \in Worlds, i \in 1 .. n : F[<<v, i>>] = Process(v, txs[i])
  OBVIOUS
<1> HIDE DEF F
<1>7. PICK g : FoldSteps(n, Worlds, w, F, g)
  BY <1>1, <1>5, StepsExist
<1>8. R(g)
  <2>1. g = [s \in SUBSET (1 .. n) |-> g[s]]
    BY <1>7 DEF FoldSteps
  <2>2. ASSUME NEW s \in SUBSET (1 .. n), s # {}
        PROVE  g[s] = Process(g[s \ {Max(s)}], txs[Max(s)])
    <3>1. Max(s) \in 1 .. n /\ g[s \ {Max(s)}] \in Worlds
      BY <1>1, <1>7, <2>2, MaxOfPositions DEF FoldSteps
    <3> QED BY <1>6, <1>7, <2>2, <3>1 DEF FoldSteps
  <2>3. \A s \in SUBSET (1 .. n) :
          g[s] = IF s = {} THEN w ELSE LET x == Max(s) IN Process(g[s \ {x}], txs[x])
    BY <1>7, <2>2 DEF FoldSteps
  <2> QED BY <1>1, <2>1, <2>3
<1>9. PICK h : h = (CHOOSE k : R(k)) /\ R(h)
  BY <1>8
<1>10. h[{}] \in Worlds
  BY <1>9
<1>11. \A s \in SUBSET (1 .. n) : s # {} /\ h[s \ {Max(s)}] \in Worlds => h[s] \in Worlds
  <2> TAKE s \in SUBSET (1 .. n)
  <2> HAVE s # {} /\ h[s \ {Max(s)}] \in Worlds
  <2>1. Max(s) \in 1 .. n
    BY <1>1, MaxOfPositions
  <2>2. h[s] = Process(h[s \ {Max(s)}], txs[Max(s)])
    BY <1>1, <1>9
  <2> QED BY <1>1, <2>1, <2>2, ProcessKeeps
<1>12. h[1 .. n] \in Worlds
  BY <1>1, <1>10, <1>11, FoldKeeps
<1> QED BY <1>1, <1>2, <1>9, <1>12

-----------------------------------------------------------------------------
(***************************************************************************)
(* The invariant.                                                          *)
(***************************************************************************)
IInv ==
  /\ now \in 0 .. MaxTime
  /\ World \in Worlds
  /\ state_root # GenesisRoot => state_root \in AccountMaps
  /\ context # None =>
       context \in [executed : Seq(Receipts)] /\ Len(context.executed) <= MaxReceipts

LEMMA InitIInv == Init => IInv
<1> SUFFICES ASSUME Init PROVE IInv
  OBVIOUS
<1>1. <<>> \in [{} -> Balance] /\ <<>> \in [{} -> Nat] /\ DOMAIN <<>> = {}
      /\ <<>> \in [{} -> [active : BOOLEAN]] /\ <<>> \in [{} -> SizedStates]
  OBVIOUS
<1>2. <<>> \in AccountMaps /\ <<>> \in ScriptMaps /\ <<>> \in StateMaps
  BY <1>1, FS_EmptySet DEF AccountMaps, ScriptMaps, StateMaps
<1>3. Money(<<>>) = 0
  <2>1. Balances(<<>>) \in [{} -> Nat]
    BY <1>1 DEF Balances
  <2> QED BY <1>1, <2>1, SumEmpty DEF Money
<1>4. World = [accounts |-> <<>>, scripts |-> <<>>, states |-> <<>>, funded |-> {}, receipts |-> <<>>]
  BY DEF Init, World
<1>5. World \in WorldTypes
  BY <1>2, <1>4 DEF WorldTypes
<1>6. Cardinality({}) = 0 /\ InitialBalance * 0 = 0
  BY FS_EmptySet, AccountAssumption
<1>7. World \in Worlds
  BY <1>3, <1>4, <1>5, <1>6 DEF Worlds
<1> QED BY <1>7, AccountAssumption, ScriptStoreAssumption DEF Init, IInv

\* What makes a world, but for its receipts, in the next state.
LEMMA FieldsMakeWorld ==
  ASSUME NEW w \in Worlds,
         w.accounts = accounts', w.scripts = scripts', w.states = states', w.funded = funded'
  PROVE  World' \in Worlds
<1>1. w \in WorldTypes
  BY DEF Worlds
<1>2. World' = [accounts |-> accounts', scripts |-> scripts', states |-> states',
                funded |-> funded', receipts |-> <<>>]
  BY DEF World
<1>3. World' \in WorldTypes
  BY <1>1, <1>2 DEF WorldTypes
<1> QED BY <1>1, <1>2, <1>3 DEF Worlds, WorldTypes

LEMMA BecomeKeeps ==
  ASSUME NEW w \in Worlds, Become(w), IInv
  PROVE  /\ World' \in Worlds
         /\ (context # None =>
               context \in [executed : Seq(Receipts)] /\ Len(context.executed) <= MaxReceipts)'
<1>1. w.receipts \in Seq(Receipts)
  BY DEF Worlds, WorldTypes
<1>4. World' \in Worlds
  BY FieldsMakeWorld DEF Become
<1>5. CASE context = None
  BY <1>4, <1>5 DEF Become
<1>6. CASE context # None
  <2>1. PICK ex \in Seq(Receipts) : context = [executed |-> ex]
    BY <1>6 DEF IInv
  <2>2. context' = [executed |-> ex \o w.receipts] /\ Len(ex \o w.receipts) <= MaxReceipts
    BY <1>6, <2>1 DEF Become
  <2>3. ex \o w.receipts \in Seq(Receipts)
    BY <1>1, <2>1
  <2> QED BY <1>4, <2>2, <2>3
<1> QED BY <1>5, <1>6

LEMMA IInvStep == IInv /\ [Next]_vars => IInv'
<1> SUFFICES ASSUME IInv, [Next]_vars PROVE IInv'
  OBVIOUS
<1>0. /\ now \in 0 .. MaxTime /\ World \in Worlds
      /\ accounts \in AccountMaps /\ scripts \in ScriptMaps /\ states \in StateMaps
      /\ DOMAIN scripts = DOMAIN states
  BY DEF IInv, Worlds, WorldTypes, World
<1>1. CASE Tick
  <2>1. World' = World /\ now' \in 0 .. MaxTime
    BY <1>0, <1>1, AccountAssumption, ScriptStoreAssumption DEF Tick, World
  <2> QED BY <1>1, <2>1 DEF Tick, IInv
<1>2. ASSUME NEW tx \in Txs, ExecuteTransaction(tx) PROVE IInv'
  <2>1. PICK w \in Worlds : w = Process(World, tx)
    BY <1>0, ProcessKeeps
  <2>2. Become(w) /\ UNCHANGED <<now, state_root>>
    BY <1>2, <2>1 DEF ExecuteTransaction
  <2> QED BY <1>0, <2>2, BecomeKeeps DEF IInv
<1>3. ASSUME NEW txs \in Batches, ExecuteBatch(txs) PROVE IInv'
  <2>0. txs \in Seq(Txs)
    BY AccountAssumption
  <2>1. PICK w \in Worlds : w = FoldLeft(Process, World, txs)
    BY <1>0, <2>0, BatchKeeps
  <2>2. Become(w) /\ state_root' = w.accounts /\ now' = now
    BY <1>3, <2>1 DEF ExecuteBatch
  <2>3. w.accounts \in AccountMaps
    BY DEF Worlds, WorldTypes
  <2> QED BY <1>0, <2>2, <2>3, BecomeKeeps DEF IInv
<1>4. CASE BeginExecution
  <2>1. World' = World
    BY <1>4 DEF BeginExecution, World
  <2>2. <<>> \in Seq(Receipts) /\ Len(<<>>) <= MaxReceipts
    BY AccountAssumption
  <2> QED BY <1>4, <2>1, <2>2 DEF BeginExecution, IInv
<1>5. CASE CommitExecution
  <2>1. World' = World
    BY <1>5 DEF CommitExecution, World
  <2> QED BY <1>0, <1>5, <2>1 DEF CommitExecution, IInv
<1>6. CASE RollbackExecution
  <2>1. World' = World
    BY <1>6 DEF RollbackExecution, World
  <2> QED BY <1>6, <2>1 DEF RollbackExecution, IInv
<1>7. ASSUME NEW code \in Codes, DeployScript(code) PROVE IInv'
  <2>1. PICK w \in Worlds : w = [World EXCEPT !.scripts = Deployed(@, <<code, now>>),
                                             !.states = Initialised(@, <<code, now>>)]
    BY <1>0, DeployKeeps
  <2>2. /\ World.accounts = accounts /\ World.scripts = scripts /\ World.states = states
        /\ World.funded = funded /\ World.receipts = <<>>
        /\ World = [x \in DOMAIN World |-> World[x]]
        /\ DOMAIN World = {"accounts", "scripts", "states", "funded", "receipts"}
    BY DEF World
  <2>3. /\ w.accounts = accounts' /\ w.scripts = scripts' /\ w.states = states'
        /\ w.funded = funded' /\ w.receipts = <<>>
    BY <1>7, <2>1, <2>2 DEF DeployScript
  <2>4. World' \in Worlds
    BY <2>3, FieldsMakeWorld
  <2> QED BY <1>7, <2>4 DEF DeployScript, IInv
<1>8. ASSUME NEW hash \in ScriptHashes, NEW changes \in Changes, ExecuteScript(hash, changes)
      PROVE  IInv'
  <2>0. changes \in ChangeList
    BY AccountAssumption
  <2>a. PICK done \in Applied(states) : done = Apply(states, hash, changes, TRUE)
    <3>1. TRUE \in BOOLEAN
      OBVIOUS
    <3> QED BY <1>0, <2>0, <3>1, ApplyKeeps
  <2>1. PICK m \in StateMaps : m = done.states /\ DOMAIN m = DOMAIN states
    BY DEF Applied
  <2>2. World' = [World EXCEPT !.states = m]
    <3>1. states' = m /\ UNCHANGED <<accounts, scripts, funded>>
      BY <1>8, <2>a, <2>1 DEF ExecuteScript
    <3> QED BY <3>1 DEF World
  <2>3. World' \in Worlds
    <3>1. World.states = states
      BY DEF World
    <3> QED BY <1>0, <2>1, <2>2, <3>1, StatesPut
  <2> QED BY <1>8, <2>3 DEF ExecuteScript, IInv
<1>9. CASE UNCHANGED vars
  <2>1. World' = World
    BY <1>9 DEF vars, World
  <2> QED BY <1>9, <2>1 DEF vars, IInv
<1> QED BY <1>1, <1>2, <1>3, <1>4, <1>5, <1>6, <1>7, <1>8, <1>9 DEF Next

\* All the money there is was given to new senders: for any transfers and
\* batches, to oneself too, whichever fail, run out of gas or are rolled back
\* (ExecutionLayer::process_transaction, which rolls nothing back).
THEOREM MoneyIsNeverMade == Spec => []MoneyIsConserved
<1>1. IInv => MoneyIsConserved
  <2> SUFFICES ASSUME IInv PROVE MoneyIsConserved
    OBVIOUS
  <2>1. accounts \in AccountMaps /\ Money(accounts) = InitialBalance * Cardinality(funded)
    BY DEF IInv, Worlds, WorldTypes, World
  <2>2. MapThenSumSet(LAMBDA x : accounts[x].balance, DOMAIN accounts) = Money(accounts)
    BY <2>1, MoneyIs
  <2> QED BY <2>1, <2>2, Zenon DEF MoneyIsConserved
<1> QED BY <1>1, InitIInv, IInvStep, PTL DEF Spec

\* Scripts and states are there for the same hashes, and the size kept beside
\* each state is that of its entries, for any lists of changes that fail in the
\* middle (ExecutionLayer::apply_state_changes, ScriptStateManager).
THEOREM ScriptsAndStatesAgree == Spec => []StatesAgree
<1>1. IInv => StatesAgree
  <2> SUFFICES ASSUME IInv PROVE StatesAgree
    OBVIOUS
  <2>1. /\ accounts \in AccountMaps /\ scripts \in ScriptMaps /\ states \in StateMaps
        /\ DOMAIN scripts = DOMAIN states /\ funded \subseteq Addresses
    BY DEF IInv, Worlds, WorldTypes, World
  <2>2. IsAccounts(accounts) /\ (state_root # GenesisRoot => IsAccounts(state_root))
    BY <2>1, AccountMapIs DEF IInv
  <2>3. IsScripts(scripts) /\ IsStates(states) /\ SizesAgree(states)
    BY <2>1, MapsAreTyped
  <2> QED BY <2>1, <2>2, <2>3 DEF IInv, StatesAgree, TypeOK
<1> QED BY <1>1, InitIInv, IInvStep, PTL DEF Spec

-----------------------------------------------------------------------------
(***************************************************************************)
(* The script state manager called by several threads, as the module       *)
(* ScriptState has it: the clock, the scripts and the states are the       *)
(* variables of that name above.                                           *)
(***************************************************************************)
-----------------------------------------------------------------------------
(***************************************************************************)
(* The calls under way, and the types.                                     *)
(***************************************************************************)
Snapshots == [id : Heights \X (0 .. MaxTime), scripts : ScriptMaps, states : StateMaps]

Exports == [scripts : ScriptMaps, states : StateMaps]

Deploying == [op : {"deploy"}, hash : ScriptHashes]
Copying == [op : {"snapshot"}, height : Heights, scripts : ScriptMaps]
             \cup [op : {"export"}, height : {0}, scripts : ScriptMaps]
Pushing == [op : {"push"}, height : Heights, scripts : ScriptMaps, states : StateMaps]
Replacing == [op : {"rollback", "import"}, states : StateMaps]
Clearing == [op : {"clear states", "clear history"}]

Calls == Deploying \cup Copying \cup Pushing \cup Replacing \cup Clearing

MTypes ==
  /\ now \in 0 .. MaxTime
  /\ scripts \in ScriptMaps
  /\ states \in StateMaps
  /\ history \in Seq(Snapshots) /\ Len(history) <= MaxHistoryDepth
  /\ exported \in Exports \cup {None}
  /\ call \in [Callers -> Calls \cup {None}]
  /\ overlapped \in BOOLEAN

\* The snapshots that are kept are some of those there were.
LEMMA TrimmedIs ==
  ASSUME NEW S, NEW h \in Seq(S), NEW s \in S
  PROVE  /\ Trimmed(Append(h, s)) \in Seq(S)
         /\ Len(Trimmed(Append(h, s))) <= MaxHistoryDepth
<1> USE ScriptStateAssumption
<1> DEFINE l == Append(h, s)
<1>1. l \in Seq(S) /\ Len(l) \in Nat
  OBVIOUS
<1> HIDE DEF l
<1> DEFINE Kept == /\ Trimmed(l) \in Seq(S)
                   /\ Len(Trimmed(l)) <= MaxHistoryDepth
<1>2. ASSUME Len(l) > MaxHistoryDepth PROVE Kept
  <2>1. PICK n \in Nat : n = Len(l) - MaxHistoryDepth
    BY <1>1, <1>2
  <2>2. Trimmed(l) = SubSeq(l, n + 1, Len(l))
    BY <1>2, <2>1 DEF Trimmed
  <2>3. \A i \in n + 1 .. Len(l) : l[i] \in S
    BY <1>1, <2>1
  <2>4. SubSeq(l, n + 1, Len(l)) \in Seq(S) /\ Len(SubSeq(l, n + 1, Len(l))) = Len(l) - n
    BY <1>1, <2>1, <2>3
  <2> QED BY <1>1, <2>1, <2>2, <2>4
<1>3. ASSUME ~(Len(l) > MaxHistoryDepth) PROVE Kept
  <2>1. Trimmed(l) = l
    BY <1>3 DEF Trimmed
  <2> QED BY <1>1, <1>3, <2>1
<1> QED BY <1>2, <1>3 DEF l

\* A snapshot that is found is in the history.
LEMMA FoundIs ==
  ASSUME NEW S, history \in Seq(S), NEW id, Found(id) # 0
  PROVE  history[Found(id)] \in S
<1> DEFINE I == {i \in 1 .. Len(history) : history[i].id = id}
<1>1. Found(id) = (IF I # {} THEN Min(I) ELSE 0)
  BY Zenon DEF Found, SelectInSeq
<1> HIDE DEF I
<1>2. I # {} /\ Found(id) = Min(I)
  BY <1>1
<1>3. I \subseteq 1 .. Len(history) /\ Len(history) \in Nat
  BY DEF I
<1>4. \A x, y \in Nat : <<y, x>> \in OpToRel(<, Nat) <=> y < x
  BY DEF OpToRel
<1>5. I \subseteq Nat
  BY <1>3
<1>6. PICK x \in I : \A y \in I : ~(<<y, x>> \in OpToRel(<, Nat))
  BY <1>2, <1>5, WFMin, NatLessThanWellFounded
<1>7. \A y \in I : x =< y
  <2> TAKE y \in I
  <2>1. x \in Nat /\ y \in Nat /\ ~(<<y, x>> \in OpToRel(<, Nat))
    BY <1>5, <1>6
  <2>2. ~(y < x)
    BY <1>4, <2>1
  <2>3. x \in Nat /\ y \in Nat
    BY <1>5
  <2> QED BY <2>2, <2>3
<1>8. Min(I) \in I
  BY <1>6, <1>7, Zenon DEF Min
<1>9. Found(id) \in 1 .. Len(history)
  BY <1>2, <1>3, <1>8
<1>10. \A i \in 1 .. Len(history) : history[i] \in S
  OBVIOUS
<1> QED BY <1>9, <1>10

LEMMA MInitTypes == ManagerInit => MTypes
<1> SUFFICES ASSUME ManagerInit PROVE MTypes
  OBVIOUS
<1> USE ScriptStateAssumption
<1>1. <<>> \in [{} -> [active : BOOLEAN]] /\ <<>> \in [{} -> SizedStates]
      /\ {} \in SUBSET ScriptHashes
  OBVIOUS
<1>2. <<>> \in ScriptMaps /\ <<>> \in StateMaps
  BY <1>1 DEF ScriptMaps, StateMaps
<1>3. history \in Seq(Snapshots) /\ Len(history) <= MaxHistoryDepth
  BY DEF ManagerInit
<1>4. now \in 0 .. MaxTime
  BY ScriptStoreAssumption DEF ManagerInit
<1> QED BY <1>2, <1>3, <1>4 DEF ManagerInit, MTypes

\* A step of a call moves the call on and keeps the rest typed.
LEMMA CallsTyped ==
  ASSUME MTypes, NEW c \in Callers, NEW step \in Calls \cup {None},
         Begin(c, step) \/ Continue(c, step)
  PROVE  call' \in [Callers -> Calls \cup {None}] /\ overlapped' \in BOOLEAN
<1>1. call' = [call EXCEPT ![c] = step]
  BY DEF Begin, Continue
<1>2. call' \in [Callers -> Calls \cup {None}]
  BY <1>1 DEF MTypes
<1>3. overlapped \in BOOLEAN
  BY DEF MTypes
<1>4. CASE Begin(c, step)
  <2>1. overlapped' = (overlapped \/ \E d \in Callers : ~Idle(d))
    BY <1>4 DEF Begin
  <2>2. overlapped' \in BOOLEAN
    BY <2>1, Zenon
  <2> QED BY <1>2, <2>2
<1>5. CASE Continue(c, step)
  BY <1>2, <1>3, <1>5 DEF Continue
<1> QED BY <1>4, <1>5

\* What a caller in the middle of a call has in its hands.
LEMMA CallIs ==
  ASSUME MTypes, NEW c \in Callers
  PROVE  /\ ~Idle(c) => call[c] \in Calls
         /\ In(c, "deploy") => call[c] \in Deploying
         /\ In(c, "snapshot") => call[c].height \in Heights /\ call[c].scripts \in ScriptMaps
         /\ In(c, "export") => call[c].scripts \in ScriptMaps
         /\ In(c, "push") => call[c] \in Pushing
         /\ In(c, "rollback") \/ In(c, "import") => call[c] \in Replacing
<1>1. ~Idle(c) => call[c] \in Calls
  BY DEF MTypes, Idle
<1>2. /\ \A r \in Deploying : r.op = "deploy"
      /\ \A r \in Copying : \/ r.op = "snapshot" /\ r.height \in Heights /\ r.scripts \in ScriptMaps
                            \/ r.op = "export" /\ r.scripts \in ScriptMaps
      /\ \A r \in Pushing : r.op = "push"
      /\ \A r \in Replacing : r.op = "rollback" \/ r.op = "import"
      /\ \A r \in Clearing : r.op = "clear states" \/ r.op = "clear history"
  BY DEF Deploying, Copying, Pushing, Replacing, Clearing
<1>3. \A r \in Calls : \/ r \in Deploying \/ r \in Copying \/ r \in Pushing
                       \/ r \in Replacing \/ r \in Clearing
  BY DEF Calls
<1>4. In(c, "deploy") => call[c] \in Deploying
  BY <1>1, <1>2, <1>3 DEF In
<1>5. In(c, "snapshot") => call[c].height \in Heights /\ call[c].scripts \in ScriptMaps
  BY <1>1, <1>2, <1>3 DEF In
<1>6. In(c, "export") => call[c].scripts \in ScriptMaps
  BY <1>1, <1>2, <1>3 DEF In
<1>7. In(c, "push") => call[c] \in Pushing
  BY <1>1, <1>2, <1>3 DEF In
<1>8. In(c, "rollback") \/ In(c, "import") => call[c] \in Replacing
  BY <1>1, <1>2, <1>3 DEF In
<1> QED BY <1>1, <1>4, <1>5, <1>6, <1>7, <1>8

\* The maps after a step are maps, when those before are.
LEMMA MTypesStep == MTypes /\ [ManagerNext]_managerVars => MTypes'
<1> SUFFICES ASSUME MTypes, [ManagerNext]_managerVars PROVE MTypes'
  OBVIOUS
<1> DEFINE Others == /\ now' \in 0 .. MaxTime
                     /\ scripts' \in ScriptMaps
                     /\ states' \in StateMaps
                     /\ history' \in Seq(Snapshots) /\ Len(history') <= MaxHistoryDepth
                     /\ exported' \in Exports \cup {None}
<1>0. /\ now \in 0 .. MaxTime
      /\ scripts \in ScriptMaps
      /\ states \in StateMaps
      /\ history \in Seq(Snapshots) /\ Len(history) <= MaxHistoryDepth
      /\ exported \in Exports \cup {None}
      /\ call \in [Callers -> Calls \cup {None}]
      /\ overlapped \in BOOLEAN
  BY DEF MTypes
<1>a. ASSUME NEW c \in Callers, NEW step \in Calls \cup {None},
             Begin(c, step) \/ Continue(c, step), Others
      PROVE  MTypes'
  <2>1. call' \in [Callers -> Calls \cup {None}] /\ overlapped' \in BOOLEAN
    BY <1>a, CallsTyped
  <2> QED BY <1>a, <2>1 DEF MTypes
<1>b. None \in Calls \cup {None}
  OBVIOUS
<1>1. CASE ManagerTick
  <2>1. now' \in 0 .. MaxTime
    BY <1>0, <1>1, ScriptStoreAssumption DEF ManagerTick
  <2> QED BY <1>0, <1>1, <2>1 DEF ManagerTick, MTypes
<1>2. ASSUME NEW c \in Callers, NEW code \in Codes, InsertScript(c, code) PROVE MTypes'
  <2>1. <<code, now>> \in ScriptHashes
    BY <1>0, ScriptStoreAssumption
  <2>2. scripts' \in ScriptMaps
    BY <1>0, <1>2, <2>1, DeployedIsMap DEF InsertScript
  <2>3. Others
    BY <1>0, <1>2, <2>2 DEF InsertScript
  <2>4. [op |-> "deploy", hash |-> <<code, now>>] \in Calls \cup {None}
    BY <2>1 DEF Calls, Deploying
  <2> HIDE DEF Others
  <2> QED BY <1>2, <1>a, <2>3, <2>4 DEF InsertScript
<1>3. ASSUME NEW c \in Callers, InitialiseState(c) PROVE MTypes'
  <2>1. call[c].hash \in ScriptHashes
    BY <1>3, CallIs DEF InitialiseState, Deploying
  <2>2. states' \in StateMaps
    BY <1>0, <1>3, <2>1, InitialisedIsMap DEF InitialiseState
  <2>3. Others
    BY <1>0, <1>3, <2>2 DEF InitialiseState
  <2> HIDE DEF Others
  <2> QED BY <1>3, <1>a, <1>b, <2>3 DEF InitialiseState
<1>4. ASSUME NEW c \in Callers, NEW h \in ScriptHashes, NEW k \in Keys, NEW l \in Lengths,
             UpdateState(c, h, k, l)
      PROVE  MTypes'
  <2>1. CanUpdate(states, h, k, l) /\ states' = Updated(states, h, k, l)
    BY <1>4, Zenon DEF UpdateState
  <2>2. states' \in StateMaps
    BY <1>0, <2>1, UpdatedIsMap
  <2>3. Others
    BY <1>0, <1>4, <2>2 DEF UpdateState
  <2> HIDE DEF Others
  <2> QED BY <1>4, <1>a, <1>b, <2>3 DEF UpdateState
<1>5. ASSUME NEW c \in Callers, NEW h \in ScriptHashes, NEW k \in Keys,
             DeleteState(c, h, k)
      PROVE  MTypes'
  <2>1. h \in DOMAIN states /\ k \in DOMAIN states[h].entries /\ states' = Deleted(states, h, k)
    BY <1>5, Zenon DEF DeleteState
  <2>2. states' \in StateMaps
    BY <1>0, <2>1, DeletedIsMap
  <2>3. Others
    BY <1>0, <1>5, <2>2 DEF DeleteState
  <2> HIDE DEF Others
  <2> QED BY <1>5, <1>a, <1>b, <2>3 DEF DeleteState
<1>6. ASSUME NEW c \in Callers, NEW h \in ScriptHashes, DeactivateScript(c, h) PROVE MTypes'
  <2>1. PICK D \in SUBSET ScriptHashes : scripts \in [D -> [active : BOOLEAN]]
    BY <1>0 DEF ScriptMaps
  <2>2. scripts' \in [D -> [active : BOOLEAN]]
    BY <1>6, <2>1 DEF DeactivateScript
  <2>3. scripts' \in ScriptMaps
    BY <2>1, <2>2 DEF ScriptMaps
  <2>4. Others
    BY <1>0, <1>6, <2>3 DEF DeactivateScript
  <2> HIDE DEF Others
  <2> QED BY <1>6, <1>a, <1>b, <2>4 DEF DeactivateScript
<1>7. ASSUME NEW c \in Callers,
             \/ \E height \in Heights : CopyScripts(c, "snapshot", height)
             \/ CopyScripts(c, "export", 0)
      PROVE  MTypes'
  <2>1. CASE \E height \in Heights : CopyScripts(c, "snapshot", height)
    <3>1. PICK height \in Heights : CopyScripts(c, "snapshot", height)
      BY <2>1
    <3>2. [op |-> "snapshot", height |-> height, scripts |-> scripts] \in Calls \cup {None}
      BY <1>0 DEF Calls, Copying
    <3>3. Others
      BY <1>0, <3>1 DEF CopyScripts
    <3> HIDE DEF Others
    <3> QED BY <1>a, <3>1, <3>2, <3>3 DEF CopyScripts
  <2>2. CASE CopyScripts(c, "export", 0)
    <3>2. [op |-> "export", height |-> 0, scripts |-> scripts] \in Calls \cup {None}
      BY <1>0 DEF Calls, Copying
    <3>3. Others
      BY <1>0, <2>2 DEF CopyScripts
    <3> HIDE DEF Others
    <3> QED BY <1>a, <2>2, <3>2, <3>3 DEF CopyScripts
  <2> QED BY <1>7, <2>1, <2>2
<1>8. ASSUME NEW c \in Callers, CopyStates(c) PROVE MTypes'
  <2>1. call[c].height \in Heights /\ call[c].scripts \in ScriptMaps
    BY <1>8, CallIs DEF CopyStates
  <2>2. [op |-> "push", height |-> call[c].height,
         scripts |-> call[c].scripts, states |-> states] \in Calls \cup {None}
    BY <1>0, <2>1 DEF Calls, Pushing
  <2>3. Others
    BY <1>0, <1>8 DEF CopyStates
  <2> HIDE DEF Others
  <2> QED BY <1>8, <1>a, <2>2, <2>3 DEF CopyStates
<1>9. ASSUME NEW c \in Callers, PushSnapshot(c) PROVE MTypes'
  <2>1. call[c] \in Pushing
    BY <1>9, CallIs DEF PushSnapshot
  <2>2. PICK s \in Snapshots : s = [id |-> <<call[c].height, now>>, scripts |-> call[c].scripts,
                                    states |-> call[c].states]
    BY <1>0, <2>1 DEF Pushing, Snapshots
  <2>3. history' = Trimmed(Append(history, s))
    BY <1>9, <2>2 DEF PushSnapshot
  <2>4. history' \in Seq(Snapshots) /\ Len(history') <= MaxHistoryDepth
    BY <1>0, <2>3, TrimmedIs
  <2>5. Others
    BY <1>0, <1>9, <2>4 DEF PushSnapshot
  <2> HIDE DEF Others
  <2> QED BY <1>9, <1>a, <1>b, <2>5 DEF PushSnapshot
<1>10. ASSUME NEW c \in Callers, ExportStates(c) PROVE MTypes'
  <2>1. call[c].scripts \in ScriptMaps
    BY <1>10, CallIs DEF ExportStates
  <2>2. exported' \in Exports
    BY <1>0, <1>10, <2>1 DEF ExportStates, Exports
  <2>3. Others
    BY <1>0, <1>10, <2>2 DEF ExportStates
  <2> HIDE DEF Others
  <2> QED BY <1>10, <1>a, <1>b, <2>3 DEF ExportStates
<1>11. ASSUME NEW c \in Callers, NEW id, Rollback(c, id) PROVE MTypes'
  <2>1. PICK s \in Snapshots : s = history[Found(id)]
    BY <1>0, <1>11, FoundIs DEF Rollback
  <2>2. s.scripts \in ScriptMaps /\ s.states \in StateMaps
    BY DEF Snapshots
  <2>3. [op |-> "rollback", states |-> s.states] \in Calls \cup {None}
    BY <2>2 DEF Calls, Replacing
  <2>4. Others
    BY <1>0, <1>11, <2>1, <2>2 DEF Rollback
  <2> HIDE DEF Others
  <2> QED BY <1>11, <1>a, <2>1, <2>3, <2>4 DEF Rollback
<1>12. ASSUME NEW c \in Callers, NEW e \in Importable, Import(c, e) PROVE MTypes'
  <2>1. e.scripts \in ScriptMaps /\ e.states \in StateMaps
    BY <1>0, ForeignAssumption DEF Importable, Exports
  <2>2. [op |-> "import", states |-> e.states] \in Calls \cup {None}
    BY <2>1 DEF Calls, Replacing
  <2>3. Others
    BY <1>0, <1>12, <2>1 DEF Import
  <2> HIDE DEF Others
  <2> QED BY <1>12, <1>a, <2>2, <2>3 DEF Import
<1>13. ASSUME NEW c \in Callers, ReplaceStates(c) PROVE MTypes'
  <2>1. call[c].states \in StateMaps
    BY <1>13, CallIs DEF ReplaceStates, Replacing
  <2>2. Others
    BY <1>0, <1>13, <2>1 DEF ReplaceStates
  <2> HIDE DEF Others
  <2> QED BY <1>13, <1>a, <1>b, <2>2 DEF ReplaceStates
<1>c. <<>> \in ScriptMaps /\ <<>> \in StateMaps
  <2>1. <<>> \in [{} -> [active : BOOLEAN]] /\ <<>> \in [{} -> SizedStates]
        /\ {} \in SUBSET ScriptHashes
    OBVIOUS
  <2> QED BY <2>1 DEF ScriptMaps, StateMaps
<1>14. ASSUME NEW c \in Callers, ClearScripts(c) PROVE MTypes'
  <2>1. [op |-> "clear states"] \in Calls \cup {None}
    BY DEF Calls, Clearing
  <2>2. Others
    BY <1>0, <1>14, <1>c DEF ClearScripts
  <2> HIDE DEF Others
  <2> QED BY <1>14, <1>a, <2>1, <2>2 DEF ClearScripts
<1>15. ASSUME NEW c \in Callers, ClearStates(c) PROVE MTypes'
  <2>1. [op |-> "clear history"] \in Calls \cup {None}
    BY DEF Calls, Clearing
  <2>2. Others
    BY <1>0, <1>15, <1>c DEF ClearStates
  <2> HIDE DEF Others
  <2> QED BY <1>15, <1>a, <2>1, <2>2 DEF ClearStates
<1>16. ASSUME NEW c \in Callers, ClearHistory(c) PROVE MTypes'
  <2>1. history' \in Seq(Snapshots) /\ Len(history') <= MaxHistoryDepth
    <3>1. history' = <<>>
      BY <1>16 DEF ClearHistory
    <3>2. <<>> \in Seq(Snapshots) /\ Len(<<>>) = 0
      OBVIOUS
    <3> QED BY <3>1, <3>2, ScriptStateAssumption
  <2>2. Others
    BY <1>0, <1>16, <2>1 DEF ClearHistory
  <2> HIDE DEF Others
  <2> QED BY <1>16, <1>a, <1>b, <2>2 DEF ClearHistory
<1>17. CASE UNCHANGED managerVars
  BY <1>0, <1>17 DEF managerVars, MTypes
<1> HIDE DEF Others
<1> QED BY <1>1, <1>2, <1>3, <1>4, <1>5, <1>6, <1>7, <1>8, <1>9, <1>10, <1>11, <1>12, <1>13,
           <1>14, <1>15, <1>16, <1>17 DEF ManagerNext

\* The size kept beside each state is that of its entries and within the limit,
\* in the states and in every copy of them, whatever calls overlap
\* (ScriptStateManager).
THEOREM ManagerKeepsSizes == ManagerSpec => []SizeIsKept
<1>1. MTypes => SizeIsKept
  <2> SUFFICES ASSUME MTypes PROVE SizeIsKept
    OBVIOUS
  <2>1. \A i \in DOMAIN history : history[i] \in Snapshots
    BY DEF MTypes
  <2>2. Copies \subseteq StateMaps
    <3>1. \A i \in DOMAIN history : history[i].states \in StateMaps
      BY <2>1 DEF Snapshots
    <3>2. exported # None => exported.states \in StateMaps
      BY DEF MTypes, Exports
    <3> QED BY <3>1, <3>2 DEF Copies
  <2>3. \A s \in Copies : IsStates(s) /\ SizesAgree(s)
    BY <2>2, MapsAreTyped
  <2>4. \A i \in DOMAIN history :
          history[i].id \in Heights \X (0 .. MaxTime) /\ IsScripts(history[i].scripts)
    <3>1. \A i \in DOMAIN history :
            history[i].id \in Heights \X (0 .. MaxTime) /\ history[i].scripts \in ScriptMaps
      BY <2>1 DEF Snapshots
    <3> QED BY <3>1, MapsAreTyped
  <2>5. IsScripts(scripts) /\ IsStates(states) /\ SizesAgree(states)
    BY MapsAreTyped DEF MTypes
  <2> QED BY <2>3, <2>4, <2>5 DEF MTypes, ManagerTypes, SizeIsKept
<1>2. ManagerInit => MTypes
  BY MInitTypes
<1>3. MTypes /\ [ManagerNext]_managerVars => MTypes'
  BY MTypesStep
<1> QED BY <1>1, <1>2, <1>3, PTL DEF ManagerSpec

-----------------------------------------------------------------------------
(***************************************************************************)
(* Scripts and states, as long as no two calls overlapped: between the     *)
(* steps of its call, a caller knows by how much they differ.              *)
(***************************************************************************)
Whole == {s \in Snapshots : DOMAIN s.scripts = DOMAIN s.states}

\* What a caller in the middle of the call r finds, with scripts and states for
\* the hashes ss and ts.
Half(r, ss, ts) ==
  /\ r.op = "deploy" => ss = ts \cup {r.hash}
  /\ r.op \in {"snapshot", "export"} => ss = ts /\ DOMAIN r.scripts = ss
  /\ r.op = "push" => ss = ts /\ DOMAIN r.scripts = DOMAIN r.states
  /\ r.op \in {"rollback", "import"} => ss = DOMAIN r.states
  /\ r.op = "clear states" => ss = {}
  /\ r.op = "clear history" => ss = ts

\* The caller c at its step, and nobody else in a call.
Alone(c, step) == \A d \in Callers : call[d] = (IF d = c THEN step ELSE None)

Copied == /\ history \in Seq(Whole)
          /\ exported # None => DOMAIN exported.scripts = DOMAIN exported.states

Agreement ==
  ~overlapped =>
    /\ Copied
    /\ \/ (\A d \in Callers : call[d] = None) /\ DOMAIN scripts = DOMAIN states
       \/ \E c \in Callers :
            call[c] # None /\ Alone(c, call[c]) /\ Half(call[c], DOMAIN scripts, DOMAIN states)

\* A call that begins alone begins with scripts and states that agree, and one
\* that goes on finds what it left.
LEMMA BeginsWhole ==
  ASSUME MTypes, Agreement, NEW c \in Callers, NEW step, Begin(c, step), ~overlapped'
  PROVE  Copied /\ DOMAIN scripts = DOMAIN states /\ Alone(c, step)'
<1>1. overlapped' = (overlapped \/ \E d \in Callers : ~Idle(d))
  BY DEF Begin
<1>2. ~overlapped /\ \A d \in Callers : call[d] = None
  BY <1>1 DEF Idle
<1>3. call' = [call EXCEPT ![c] = step] /\ call \in [Callers -> Calls \cup {None}]
  BY DEF Begin, MTypes
<1>4. Alone(c, step)'
  BY <1>2, <1>3 DEF Alone
<1> QED BY <1>2, <1>4 DEF Agreement

LEMMA GoesOnHalf ==
  ASSUME MTypes, Agreement, NEW c \in Callers, NEW step, ~Idle(c),
         Continue(c, step), ~overlapped'
  PROVE  Copied /\ Half(call[c], DOMAIN scripts, DOMAIN states) /\ Alone(c, step)'
<1>1. ~overlapped /\ call[c] # None
  BY DEF Continue, Idle
<1>2. call' = [call EXCEPT ![c] = step] /\ call \in [Callers -> Calls \cup {None}]
  BY DEF Continue, MTypes
<1>3. Copied
  BY <1>1 DEF Agreement
<1>4. PICK d \in Callers : Alone(d, call[d]) /\ Half(call[d], DOMAIN scripts, DOMAIN states)
  BY <1>1, Zenon DEF Agreement
<1>5. d = c
  BY <1>1, <1>4 DEF Alone
<1>6. Alone(c, step)'
  BY <1>2, <1>4, <1>5 DEF Alone
<1> QED BY <1>3, <1>4, <1>5, <1>6

\* No call is None: every call has a field `op`.
LEMMA NoneIsNoCall == None \notin Calls
<1>1. \A x \in Calls : "op" \in DOMAIN x
  BY DEF Calls, Deploying, Copying, Pushing, Replacing, Clearing
<1>2. DOMAIN None = {"none"}
  BY DEF None
<1> QED BY <1>1, <1>2

\* What is left when a caller stands at its step, alone.
LEMMA Settles ==
  ASSUME NEW c \in Callers, NEW step, Alone(c, step)', Copied',
         \/ step = None /\ (DOMAIN scripts = DOMAIN states)'
         \/ step # None /\ Half(step, DOMAIN scripts', DOMAIN states')
  PROVE  Agreement'
<1>1. call'[c] = step /\ \A d \in Callers : d # c => call'[d] = None
  BY DEF Alone
<1>2. CASE step = None /\ (DOMAIN scripts = DOMAIN states)'
  <2>1. \A d \in Callers : call'[d] = None
    BY <1>1, <1>2
  <2> QED BY <1>2, <2>1 DEF Agreement
<1>3. CASE step # None /\ Half(step, DOMAIN scripts', DOMAIN states')
  <2>1. call'[c] # None /\ Alone(c, call[c])' /\ Half(call'[c], DOMAIN scripts', DOMAIN states')
    BY <1>1, <1>3, Zenon DEF Alone
  <2>2. \E d \in Callers :
          call'[d] # None /\ Alone(d, call[d])' /\ Half(call'[d], DOMAIN scripts', DOMAIN states')
    BY <2>1, Zenon
  <2> QED BY <2>2, Zenon DEF Agreement
<1> QED BY <1>2, <1>3

LEMMA MapsHaveKeys ==
  ASSUME MTypes, NEW h \in ScriptHashes
  PROVE  /\ DOMAIN Deployed(scripts, h) = DOMAIN scripts \cup {h}
         /\ DOMAIN Initialised(states, h) = DOMAIN states \cup {h}
         /\ \A k \in Keys, l \in Lengths : CanUpdate(states, h, k, l) =>
              DOMAIN Updated(states, h, k, l) = DOMAIN states
<1>1. scripts \in ScriptMaps /\ states \in StateMaps
  BY DEF MTypes
<1>2. /\ DOMAIN Deployed(scripts, h) = DOMAIN scripts \cup {h}
      /\ DOMAIN Initialised(states, h) = DOMAIN states \cup {h}
  BY <1>1, DeployedIsMap, InitialisedIsMap
<1>3. \A k \in Keys, l \in Lengths :
        CanUpdate(states, h, k, l) => DOMAIN Updated(states, h, k, l) = DOMAIN states
  BY <1>1, UpdatedIsMap
<1> QED BY <1>2, <1>3, Zenon

LEMMA AgreementStep ==
  MTypes /\ MTypes' /\ Agreement /\ [ManagerNext]_managerVars => Agreement'
<1> SUFFICES ASSUME MTypes, MTypes', Agreement, [ManagerNext]_managerVars, ~overlapped'
             PROVE  Agreement'
  BY DEF Agreement
<1>0. /\ scripts \in ScriptMaps /\ states \in StateMaps
      /\ exported \in Exports \cup {None}
  BY DEF MTypes
<1>1. CASE ManagerTick
  <2>1. UNCHANGED <<scripts, states, history, exported, call, calls, overlapped>>
    BY <1>1 DEF ManagerTick
  <2> QED BY <2>1 DEF Agreement, Copied, Alone
<1>2. ASSUME NEW c \in Callers, NEW code \in Codes, InsertScript(c, code) PROVE Agreement'
  <2>1. PICK h \in ScriptHashes : h = <<code, now>>
    BY ScriptStoreAssumption DEF MTypes
  <2>2. PICK step \in Calls : step = [op |-> "deploy", hash |-> h]
    BY DEF Calls, Deploying
  <2>3. Copied /\ DOMAIN scripts = DOMAIN states /\ Alone(c, step)'
    BY <1>2, <2>1, <2>2, BeginsWhole DEF InsertScript
  <2>4. DOMAIN scripts' = DOMAIN states \cup {h} /\ UNCHANGED <<states, history, exported>>
    BY <1>2, <2>1, <2>3, MapsHaveKeys DEF InsertScript
  <2>5. Copied' /\ Half(step, DOMAIN scripts', DOMAIN states')
    BY <2>2, <2>3, <2>4 DEF Copied, Half
  <2> QED BY <2>2, <2>3, <2>5, NoneIsNoCall, Settles
<1>3. ASSUME NEW c \in Callers, InitialiseState(c) PROVE Agreement'
  <2>1. PICK h \in ScriptHashes : h = call[c].hash
    BY <1>3, CallIs DEF InitialiseState, Deploying
  <2>2. ~Idle(c) /\ call[c].op = "deploy" /\ Continue(c, None)
    BY <1>3 DEF InitialiseState, In
  <2>3. Copied /\ Half(call[c], DOMAIN scripts, DOMAIN states) /\ Alone(c, None)'
    BY <2>2, GoesOnHalf
  <2>4. DOMAIN states' = DOMAIN states \cup {h} /\ UNCHANGED <<scripts, history, exported>>
    BY <1>3, <2>1, MapsHaveKeys DEF InitialiseState
  <2>5. Copied' /\ (DOMAIN scripts = DOMAIN states)'
    BY <2>1, <2>2, <2>3, <2>4 DEF Copied, Half
  <2> QED BY <2>3, <2>5, Settles
<1>a. ASSUME NEW c \in Callers, Begin(c, None), UNCHANGED <<history, exported>>,
             DOMAIN scripts' = DOMAIN scripts, DOMAIN states' = DOMAIN states
      PROVE  Agreement'
  <2>1. Copied /\ DOMAIN scripts = DOMAIN states /\ Alone(c, None)'
    BY <1>a, BeginsWhole
  <2>2. Copied' /\ (DOMAIN scripts = DOMAIN states)'
    BY <1>a, <2>1 DEF Copied
  <2> QED BY <2>1, <2>2, Settles
<1>4. ASSUME NEW c \in Callers, NEW h \in ScriptHashes, NEW k \in Keys, NEW l \in Lengths,
             UpdateState(c, h, k, l)
      PROVE  Agreement'
  <2>1. DOMAIN states' = DOMAIN states
    BY <1>4, MapsHaveKeys DEF UpdateState
  <2> QED BY <1>4, <1>a, <2>1 DEF UpdateState
<1>5. ASSUME NEW c \in Callers, NEW h \in ScriptHashes, NEW k \in Keys,
             DeleteState(c, h, k)
      PROVE  Agreement'
  <2>1. h \in DOMAIN states /\ k \in DOMAIN states[h].entries /\ states' = Deleted(states, h, k)
    BY <1>5, Zenon DEF DeleteState
  <2>2. DOMAIN states' = DOMAIN states
    BY <1>0, <2>1, DeletedIsMap
  <2> QED BY <1>5, <1>a, <2>2 DEF DeleteState
<1>6. ASSUME NEW c \in Callers, NEW h \in ScriptHashes, DeactivateScript(c, h)
      PROVE  Agreement'
  <2>1. DOMAIN scripts' = DOMAIN scripts
    BY <1>6 DEF DeactivateScript
  <2> QED BY <1>6, <1>a, <2>1 DEF DeactivateScript
<1>7. ASSUME NEW c \in Callers, NEW op \in {"snapshot", "export"}, NEW height \in Heights \cup {0},
             CopyScripts(c, op, height),
             [op |-> op, height |-> height, scripts |-> scripts] \in Calls
      PROVE  Agreement'
  <2>1. PICK step \in Calls : step = [op |-> op, height |-> height, scripts |-> scripts]
    BY <1>7
  <2>2. Copied /\ DOMAIN scripts = DOMAIN states /\ Alone(c, step)'
    BY <1>7, <2>1, BeginsWhole DEF CopyScripts
  <2>3. UNCHANGED <<scripts, states, history, exported>>
    BY <1>7 DEF CopyScripts
  <2>4. step.op \in {"snapshot", "export"} /\ step.scripts = scripts
    BY <2>1
  <2>5. Copied' /\ Half(step, DOMAIN scripts', DOMAIN states')
    BY <2>2, <2>3, <2>4 DEF Copied, Half
  <2> QED BY <2>1, <2>2, <2>5, NoneIsNoCall, Settles
<1>8. ASSUME NEW c \in Callers, CopyStates(c) PROVE Agreement'
  <2>1. ~Idle(c) /\ call[c].op = "snapshot"
    BY <1>8 DEF CopyStates, In
  <2>2. PICK step \in Calls : step = [op |-> "push", height |-> call[c].height,
                                      scripts |-> call[c].scripts, states |-> states]
    <3>1. call[c].height \in Heights /\ call[c].scripts \in ScriptMaps
      BY <1>8, CallIs DEF CopyStates
    <3> QED BY <1>0, <3>1 DEF Calls, Pushing
  <2>3. Copied /\ Half(call[c], DOMAIN scripts, DOMAIN states) /\ Alone(c, step)'
    BY <1>8, <2>1, <2>2, GoesOnHalf DEF CopyStates
  <2>4. UNCHANGED <<scripts, states, history, exported>>
    BY <1>8 DEF CopyStates
  <2>5. step.op = "push" /\ step.scripts = call[c].scripts /\ step.states = states
    BY <2>2
  <2>6. Copied' /\ Half(step, DOMAIN scripts', DOMAIN states')
    BY <2>1, <2>3, <2>4, <2>5 DEF Copied, Half
  <2> QED BY <2>2, <2>3, <2>6, NoneIsNoCall, Settles
<1>b. ASSUME NEW c \in Callers, ~Idle(c), Continue(c, None), Copied',
             Half(call[c], DOMAIN scripts, DOMAIN states) => (DOMAIN scripts = DOMAIN states)'
      PROVE  Agreement'
  <2>1. Half(call[c], DOMAIN scripts, DOMAIN states) /\ Alone(c, None)'
    BY <1>b, GoesOnHalf
  <2> QED BY <1>b, <2>1, Settles
<1>c. ASSUME NEW c \in Callers, ~Idle(c), NEW step, Continue(c, step)
      PROVE  Copied /\ Half(call[c], DOMAIN scripts, DOMAIN states)
  BY <1>c, GoesOnHalf
<1>9. ASSUME NEW c \in Callers, PushSnapshot(c) PROVE Agreement'
  <2>1. ~Idle(c) /\ call[c].op = "push" /\ Continue(c, None)
    BY <1>9 DEF PushSnapshot, In
  <2>2. Copied /\ Half(call[c], DOMAIN scripts, DOMAIN states)
    BY <1>c, <2>1
  <2>3. PICK s \in Whole : s = [id |-> <<call[c].height, now>>, scripts |-> call[c].scripts,
                                states |-> call[c].states]
    <3>1. call[c] \in Pushing
      BY <1>9, CallIs DEF PushSnapshot
    <3>2. DOMAIN call[c].scripts = DOMAIN call[c].states
      BY <2>1, <2>2 DEF Half
    <3> QED BY <3>1, <3>2 DEF Pushing, Whole, Snapshots, MTypes
  <2>4. history' = Trimmed(Append(history, s)) /\ UNCHANGED <<scripts, states, exported>>
    BY <1>9, <2>3 DEF PushSnapshot
  <2>5. history \in Seq(Whole)
    BY <2>2 DEF Copied
  <2>6. history' \in Seq(Whole)
    BY <2>4, <2>5, TrimmedIs
  <2>7. Copied'
    BY <2>2, <2>4, <2>6 DEF Copied
  <2>8. Half(call[c], DOMAIN scripts, DOMAIN states) => (DOMAIN scripts = DOMAIN states)'
    BY <2>1, <2>4 DEF Half
  <2> QED BY <1>b, <2>1, <2>7, <2>8
<1>10. ASSUME NEW c \in Callers, ExportStates(c) PROVE Agreement'
  <2>1. ~Idle(c) /\ call[c].op = "export" /\ Continue(c, None)
    BY <1>10 DEF ExportStates, In
  <2>2. Copied /\ Half(call[c], DOMAIN scripts, DOMAIN states)
    BY <1>c, <2>1
  <2>3. exported' = [scripts |-> call[c].scripts, states |-> states]
        /\ UNCHANGED <<scripts, states, history>>
    BY <1>10 DEF ExportStates
  <2>4. DOMAIN exported'.scripts = DOMAIN exported'.states
    BY <2>1, <2>2, <2>3 DEF Half
  <2>5. Copied'
    BY <2>2, <2>3, <2>4 DEF Copied
  <2>6. Half(call[c], DOMAIN scripts, DOMAIN states) => (DOMAIN scripts = DOMAIN states)'
    BY <2>1, <2>3 DEF Half
  <2> QED BY <1>b, <2>1, <2>5, <2>6
<1>11. ASSUME NEW c \in Callers, NEW id, Rollback(c, id) PROVE Agreement'
  <2>1. Copied
    BY <1>11, BeginsWhole DEF Rollback
  <2>2. PICK s \in Whole : s = history[Found(id)]
    BY <1>11, <2>1, FoundIs DEF Rollback, Copied
  <2>3. s.states \in StateMaps /\ DOMAIN s.scripts = DOMAIN s.states
    BY DEF Whole, Snapshots
  <2>4. PICK step \in Calls : step = [op |-> "rollback", states |-> s.states]
    BY <2>3 DEF Calls, Replacing
  <2>5. Alone(c, step)'
    BY <1>11, <2>2, <2>4, BeginsWhole DEF Rollback
  <2>6. scripts' = s.scripts /\ UNCHANGED <<states, history, exported>>
    BY <1>11, <2>2 DEF Rollback
  <2>7. Copied' /\ Half(step, DOMAIN scripts', DOMAIN states')
    BY <2>1, <2>3, <2>4, <2>6 DEF Copied, Half
  <2> QED BY <2>4, <2>5, <2>7, NoneIsNoCall, Settles
<1>12. ASSUME NEW c \in Callers, NEW e \in Importable, Import(c, e) PROVE Agreement'
  <2>1. PICK step \in Calls : step = [op |-> "import", states |-> e.states]
    <3>1. e.states \in StateMaps
      BY <1>0, ForeignAssumption DEF Importable, Exports
    <3> QED BY <3>1 DEF Calls, Replacing
  <2>2. Copied /\ Alone(c, step)'
    BY <1>12, <2>1, BeginsWhole DEF Import
  <2>3. scripts' = e.scripts /\ UNCHANGED <<states, history, exported>>
        /\ DOMAIN e.scripts = DOMAIN e.states
    BY <1>12, <2>2, ForeignAssumption DEF Import, Copied, Importable
  <2>4. Copied' /\ Half(step, DOMAIN scripts', DOMAIN states')
    BY <2>1, <2>2, <2>3 DEF Copied, Half
  <2> QED BY <2>1, <2>2, <2>4, NoneIsNoCall, Settles
<1>13. ASSUME NEW c \in Callers, ReplaceStates(c) PROVE Agreement'
  <2>1. ~Idle(c) /\ call[c].op \in {"rollback", "import"} /\ Continue(c, None)
    BY <1>13 DEF ReplaceStates, In
  <2>2. Copied /\ Half(call[c], DOMAIN scripts, DOMAIN states)
    BY <1>c, <2>1
  <2>3. states' = call[c].states /\ UNCHANGED <<scripts, history, exported>>
    BY <1>13 DEF ReplaceStates
  <2>4. Copied'
    BY <2>2, <2>3 DEF Copied
  <2>5. Half(call[c], DOMAIN scripts, DOMAIN states) => (DOMAIN scripts = DOMAIN states)'
    BY <2>1, <2>3 DEF Half
  <2> QED BY <1>b, <2>1, <2>4, <2>5
<1>e. DOMAIN <<>> = {}
  OBVIOUS
<1>14. ASSUME NEW c \in Callers, ClearScripts(c) PROVE Agreement'
  <2>1. PICK step \in Calls : step = [op |-> "clear states"]
    BY DEF Calls, Clearing
  <2>2. Copied /\ Alone(c, step)'
    BY <1>14, <2>1, BeginsWhole DEF ClearScripts
  <2>3. DOMAIN scripts' = {} /\ UNCHANGED <<states, history, exported>>
    BY <1>14, <1>e DEF ClearScripts
  <2>4. Copied' /\ Half(step, DOMAIN scripts', DOMAIN states')
    BY <2>1, <2>2, <2>3 DEF Copied, Half
  <2> QED BY <2>1, <2>2, <2>4, NoneIsNoCall, Settles
<1>15. ASSUME NEW c \in Callers, ClearStates(c) PROVE Agreement'
  <2>1. PICK step \in Calls : step = [op |-> "clear history"]
    BY DEF Calls, Clearing
  <2>2. ~Idle(c) /\ call[c].op = "clear states"
    BY <1>15 DEF ClearStates, In
  <2>3. Copied /\ Half(call[c], DOMAIN scripts, DOMAIN states) /\ Alone(c, step)'
    BY <1>15, <2>1, <2>2, GoesOnHalf DEF ClearStates
  <2>4. DOMAIN states' = {} /\ UNCHANGED <<scripts, history, exported>>
    BY <1>15, <1>e DEF ClearStates
  <2>5. Copied' /\ Half(step, DOMAIN scripts', DOMAIN states')
    BY <2>1, <2>2, <2>3, <2>4 DEF Copied, Half
  <2> QED BY <2>1, <2>3, <2>5, NoneIsNoCall, Settles
<1>16. ASSUME NEW c \in Callers, ClearHistory(c) PROVE Agreement'
  <2>1. ~Idle(c) /\ call[c].op = "clear history" /\ Continue(c, None)
    BY <1>16 DEF ClearHistory, In
  <2>2. Copied /\ Half(call[c], DOMAIN scripts, DOMAIN states)
    BY <1>c, <2>1
  <2>3. history' = <<>> /\ UNCHANGED <<scripts, states, exported>>
    BY <1>16 DEF ClearHistory
  <2>4. Copied'
    BY <2>2, <2>3 DEF Copied
  <2>5. Half(call[c], DOMAIN scripts, DOMAIN states) => (DOMAIN scripts = DOMAIN states)'
    BY <2>1, <2>3 DEF Half
  <2> QED BY <1>b, <2>1, <2>4, <2>5
<1>17. CASE UNCHANGED managerVars
  BY <1>17 DEF managerVars, Agreement, Copied, Alone
<1>d. ASSUME NEW c \in Callers,
             \/ \E height \in Heights : CopyScripts(c, "snapshot", height)
             \/ CopyScripts(c, "export", 0)
      PROVE  Agreement'
  <2>1. /\ \A height \in Heights : [op |-> "snapshot", height |-> height, scripts |-> scripts] \in Calls
        /\ [op |-> "export", height |-> 0, scripts |-> scripts] \in Calls
    BY <1>0 DEF Calls, Copying
  <2> QED BY <1>7, <1>d, <2>1
<1> QED BY <1>1, <1>2, <1>3, <1>4, <1>5, <1>6, <1>d, <1>8, <1>9, <1>10, <1>11, <1>12, <1>13,
           <1>14, <1>15, <1>16, <1>17 DEF ManagerNext

\* As long as no two calls overlapped, scripts and states are there for the same
\* hashes when no call is under way, and in every snapshot: after any sequence of
\* calls, though each takes the mutexes one by one (ScriptStateManager).
THEOREM ManagerKeepsStates == ManagerSpec => []ScriptsHaveStates
<1>1. MTypes /\ Agreement => ScriptsHaveStates
  <2> SUFFICES ASSUME MTypes, Agreement, ~overlapped
               PROVE  /\ (\A c \in Callers : Idle(c)) => DOMAIN scripts = DOMAIN states
                      /\ \A i \in DOMAIN history : DOMAIN history[i].scripts = DOMAIN history[i].states
    BY DEF ScriptsHaveStates
  <2>1. \A i \in DOMAIN history : history[i] \in Whole
    BY DEF Agreement, Copied
  <2>2. \A i \in DOMAIN history : DOMAIN history[i].scripts = DOMAIN history[i].states
    BY <2>1 DEF Whole
  <2>3. (\A c \in Callers : Idle(c)) => DOMAIN scripts = DOMAIN states
    BY DEF Idle, Agreement
  <2> QED BY <2>2, <2>3
<1>2. ManagerInit => MTypes /\ Agreement
  <2> SUFFICES ASSUME ManagerInit PROVE MTypes /\ Agreement
    OBVIOUS
  <2>1. MTypes
    BY MInitTypes
  <2>2. history = <<>> /\ exported = None /\ scripts = <<>> /\ states = <<>>
        /\ call = [c \in Callers |-> None]
    BY DEF ManagerInit
  <2>3. Copied
    BY <2>2 DEF Copied
  <2> QED BY <2>1, <2>2, <2>3 DEF Agreement
<1>3. MTypes /\ Agreement /\ [ManagerNext]_managerVars => (MTypes /\ Agreement)'
  BY MTypesStep, AgreementStep
<1> QED BY <1>1, <1>2, <1>3, PTL DEF ManagerSpec
====
