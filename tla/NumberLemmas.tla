---------------------------- MODULE NumberLemmas ----------------------------
(***************************************************************************)
(* Facts about numbers that the proofs share: products and division, which  *)
(* the solver has to be shown step by step; induction over the natural      *)
(* numbers in a form that takes a set in place of an operator; sums.        *)
(***************************************************************************)
EXTENDS Integers, FiniteSetTheorems, WellFoundedInduction, TLAPS

-----------------------------------------------------------------------------
(* Products and quotients                                                   *)

LEMMA Floor ==
    ASSUME NEW n \in Nat, NEW d \in Nat, d > 0
    PROVE  n \div d \in Nat /\ (n \div d) * d <= n /\ n < (n \div d) * d + d
<1>1. n \div d \in Int /\ n = d * (n \div d) + (n % d) /\ n % d \in 0..(d - 1)
  OBVIOUS
<1> QED BY <1>1

LEMMA IntFloor ==
    ASSUME NEW n \in Int, NEW d \in Nat, d > 0
    PROVE  n \div d \in Int /\ (n \div d) * d <= n /\ n < (n \div d) * d + d
<1>1. n \div d \in Int /\ n = d * (n \div d) + (n % d) /\ n % d \in 0..(d - 1)
  OBVIOUS
<1> QED BY <1>1

LEMMA Products ==
    ASSUME NEW x \in Nat, NEW y \in Nat
    PROVE  x * y \in Nat
  OBVIOUS

LEMMA Times ==
    ASSUME NEW x \in Nat, NEW y \in Nat, NEW z \in Nat, x <= y
    PROVE  x * z <= y * z
  OBVIOUS

LEMMA Cancels ==
    ASSUME NEW x \in Int, NEW y \in Int, NEW z \in Nat, z > 0, x * z <= y * z
    PROVE  x <= y
<1>1. SUFFICES ASSUME y + 1 <= x PROVE FALSE
  OBVIOUS
<1>2. PICK k \in Nat : x = y + 1 + k
  <2>1. x - y - 1 \in Nat /\ x = y + 1 + (x - y - 1)
    BY <1>1
  <2> QED BY <2>1
<1>3. x * z = y * z + z + k * z
  BY <1>2
<1>4. k * z \in Nat /\ x * z \in Int /\ y * z \in Int
  BY Products
<1> QED BY <1>3, <1>4

\* What is no more than n times d is, divided by d, no more than n.
LEMMA Divides ==
    ASSUME NEW m \in Nat, NEW n \in Nat, NEW d \in Nat, d > 0, m <= n * d
    PROVE  m \div d \in Nat /\ m \div d <= n
<1>1. PICK q \in Nat : q = m \div d
  BY Floor
<1>2. q * d <= m
  BY <1>1, Floor
<1>3. q * d <= n * d
  BY <1>2, Products
<1> QED BY <1>1, <1>3, Cancels

-----------------------------------------------------------------------------
(* Induction                                                                *)

LessThan == {p \in Nat \X Nat : p[1] < p[2]}

\* The library's induction takes an operator; its well-founded relations are sets.
LEMMA Least ==
    ASSUME NEW T, T \subseteq Nat, T # {}
    PROVE  \E x \in T : \A y \in T : x <= y
<1>1. IsWellFoundedOn(LessThan, Nat)
  <2>1. LessThan = OpToRel(<, Nat)
    BY DEF OpToRel, LessThan
  <2> QED BY <2>1, NatLessThanWellFounded
<1>2. PICK x \in T : \A y \in T : ~(<<y, x>> \in LessThan)
  BY <1>1, WFMin
<1>3. ASSUME NEW y \in T, y < x PROVE FALSE
  <2>1. <<y, x>> \in Nat \X Nat
    OBVIOUS
  <2>2. <<y, x>>[1] = y /\ <<y, x>>[2] = x
    OBVIOUS
  <2>3. <<y, x>> \in LessThan
    BY <1>3, <2>1, <2>2, Zenon DEF LessThan
  <2> QED BY <1>2, <2>3
<1>4. \A y \in T : y \in Nat /\ x \in Nat
  OBVIOUS
<1>5. \A y \in T : x <= y
  BY <1>3, <1>4
<1> QED BY <1>5

\* A set that has 0 and the successors of its members has every number.
LEMMA Induction ==
    ASSUME NEW S, 0 \in S, \A n \in Nat : n \in S => n + 1 \in S
    PROVE  Nat \subseteq S
<1>1. SUFFICES ASSUME Nat \ S # {} PROVE FALSE
  OBVIOUS
<1>2. PICK x \in Nat \ S : \A y \in Nat \ S : x <= y
  BY <1>1, Least
<1>3. x - 1 \in Nat /\ x - 1 \in S
  BY <1>2
<1> QED BY <1>2, <1>3

-----------------------------------------------------------------------------
(* Sums                                                                     *)

Pick(s) == CHOOSE x \in s : TRUE

\* f gives every part of S the sum of its weights, which takes the elements in the order of
\* Pick, as the folds of the community modules do.
AreSums(f, w, S) ==
    /\ f = [s \in SUBSET S |-> f[s]]
    /\ \A s \in SUBSET S : f[s] = IF s = {} THEN 0 ELSE w[Pick(s)] + f[s \ {Pick(s)}]

LEMMA Picked ==
    ASSUME NEW S, IsFiniteSet(S), NEW s \in SUBSET S
    PROVE  /\ IsFiniteSet(s) /\ Cardinality(s) \in Nat /\ Cardinality(s) <= Cardinality(S)
           /\ Cardinality(s) = 0 <=> s = {}
           /\ s # {} => Pick(s) \in s
           /\ \A x \in s : s \ {x} \in SUBSET S /\ Cardinality(s \ {x}) = Cardinality(s) - 1
<1>1. IsFiniteSet(s) /\ Cardinality(s) \in Nat /\ Cardinality(s) <= Cardinality(S)
  BY FS_Subset, FS_CardinalityType
<1>2. Cardinality(s) = 0 <=> s = {}
  BY <1>1, FS_EmptySet
<1>3. \A x \in s : Cardinality(s \ {x}) = Cardinality(s) - 1
  BY <1>1, FS_RemoveElement
<1>4. s # {} => Pick(s) \in s
  BY DEF Pick
<1> QED BY <1>1, <1>2, <1>3, <1>4

LEMMA SumsExist ==
    ASSUME NEW S, IsFiniteSet(S), NEW w
    PROVE  \E f : AreSums(f, w, S)
<1> DEFINE Small(n) == {s \in SUBSET S : Cardinality(s) <= n}
           Are(f, n) == /\ f = [s \in Small(n) |-> f[s]]
                        /\ \A s \in Small(n) : f[s] = IF s = {} THEN 0 ELSE w[Pick(s)] + f[s \ {Pick(s)}]
           N == {n \in Nat : \E f : Are(f, n)}
<1>1. 0 \in N
  <2>1. \A s \in Small(0) : s = {}
    BY Picked
  <2>2. Are([s \in Small(0) |-> 0], 0)
    BY <2>1
  <2> QED BY <2>2
<1>2. ASSUME NEW n \in Nat, n \in N PROVE n + 1 \in N
  <2>1. PICK f : Are(f, n)
    BY <1>2
  <2> DEFINE g == [s \in Small(n + 1) |-> IF s \in Small(n) THEN f[s] ELSE w[Pick(s)] + f[s \ {Pick(s)}]]
  <2>2. \A s \in Small(n) : s \in Small(n + 1) /\ g[s] = f[s]
    BY Picked
  <2>3. ASSUME NEW s \in Small(n + 1)
        PROVE  g[s] = IF s = {} THEN 0 ELSE w[Pick(s)] + g[s \ {Pick(s)}]
    <3>1. s # {} => s \ {Pick(s)} \in Small(n)
      BY Picked
    <3>2. CASE s \in Small(n)
      BY <2>1, <2>2, <3>1, <3>2
    <3>3. CASE s \notin Small(n)
      <4>1. s # {}
        <5>1. Cardinality({}) = 0 /\ {} \in SUBSET S
          BY FS_EmptySet
        <5> QED BY <3>3, <5>1
      <4>2. g[s] = w[Pick(s)] + f[s \ {Pick(s)}]
        BY <3>3
      <4> QED BY <2>2, <3>1, <4>1, <4>2
    <3> QED BY <3>2, <3>3
  <2>4. g = [s \in Small(n + 1) |-> g[s]]
    OBVIOUS
  <2> HIDE DEF g
  <2>5. Are(g, n + 1)
    BY <2>3, <2>4
  <2> HIDE DEF Are
  <2>6. \E h : Are(h, n + 1)
    BY <2>5
  <2> QED BY <2>6
<1>3. Cardinality(S) \in N
  <2> HIDE DEF N
  <2>1. Nat \subseteq N
    BY <1>1, <1>2, Induction
  <2> QED BY <2>1, FS_CardinalityType
<1>4. Small(Cardinality(S)) = SUBSET S
  BY Picked
<1>5. PICK f : Are(f, Cardinality(S))
  BY <1>3
<1> QED BY <1>4, <1>5 DEF AreSums

LEMMA SumsAreNumbers ==
    ASSUME NEW S, IsFiniteSet(S), NEW w \in [S -> Nat], NEW f, AreSums(f, w, S),
           NEW s \in SUBSET S
    PROVE  f[s] \in Nat
<1> DEFINE N == {n \in Nat : \A t \in SUBSET S : Cardinality(t) = n => f[t] \in Nat}
<1>1. 0 \in N
  <2>1. f[{}] = 0
    BY DEF AreSums
  <2>2. \A t \in SUBSET S : Cardinality(t) = 0 => t = {}
    BY Picked
  <2> QED BY <2>1, <2>2
<1>2. ASSUME NEW n \in Nat, n \in N PROVE n + 1 \in N
  <2>1. SUFFICES ASSUME NEW t \in SUBSET S, Cardinality(t) = n + 1 PROVE f[t] \in Nat
    OBVIOUS
  <2>2. PICK p \in t : p = Pick(t)
    BY <2>1, Picked
  <2>3. f[t \ {p}] \in Nat /\ w[p] \in Nat
    BY <1>2, <2>1, Picked
  <2>4. f[t] = w[p] + f[t \ {p}]
    BY <2>2 DEF AreSums
  <2> QED BY <2>3, <2>4
<1> HIDE DEF N
<1>3. Cardinality(s) \in N
  BY <1>1, <1>2, Induction, Picked
<1> QED BY <1>3 DEF N

\* The order does not matter.
LEMMA SumsTake ==
    ASSUME NEW S, IsFiniteSet(S), NEW w \in [S -> Nat], NEW f, AreSums(f, w, S),
           NEW s \in SUBSET S
    PROVE  /\ f[s] \in Nat
           /\ s = {} => f[s] = 0
           /\ \A a \in s : f[s] = w[a] + f[s \ {a}]
<1> DEFINE Takes(t) == f[t] \in Nat /\ \A a \in t : f[t] = w[a] + f[t \ {a}]
           N == {n \in Nat : \A t \in SUBSET S : Cardinality(t) = n => Takes(t)}
<1>1. f[{}] = 0
  BY DEF AreSums
<1>2. 0 \in N
  <2>1. \A t \in SUBSET S : Cardinality(t) = 0 => t = {}
    BY Picked
  <2> QED BY <1>1, <2>1
<1>3. ASSUME NEW n \in Nat, n \in N PROVE n + 1 \in N
  <2>1. SUFFICES ASSUME NEW t \in SUBSET S, Cardinality(t) = n + 1 PROVE Takes(t)
    OBVIOUS
  <2>2. PICK p \in t : p = Pick(t)
    BY <2>1, Picked
  <2>3. f[t] = w[p] + f[t \ {p}]
    BY <2>2 DEF AreSums
  <2>4. \A a \in t : t \ {a} \in SUBSET S /\ Cardinality(t \ {a}) = n /\ Takes(t \ {a})
    <3>1. \A a \in t : t \ {a} \in SUBSET S /\ Cardinality(t \ {a}) = n
      BY <2>1, Picked
    <3>2. \A u \in SUBSET S : Cardinality(u) = n => Takes(u)
      BY <1>3
    <3> HIDE DEF Takes
    <3> QED BY <3>1, <3>2
  <2>5. \A a \in t : w[a] \in Nat
    OBVIOUS
  <2>6. ASSUME NEW a \in t, a # p PROVE f[t] = w[a] + f[t \ {a}]
    <3>1. (t \ {p}) \ {a} = (t \ {a}) \ {p} /\ a \in t \ {p} /\ p \in t \ {a}
      BY <2>6
    <3>2. PICK r : r = (t \ {p}) \ {a}
      OBVIOUS
    <3>3. f[t \ {p}] = w[a] + f[r] /\ f[t \ {a}] = w[p] + f[r]
      BY <2>4, <3>1, <3>2
    <3>4. f[r] \in Nat
      BY <2>4, <3>1, <3>2, SumsAreNumbers
    <3> QED BY <2>3, <2>5, <3>3, <3>4
  <2>7. f[t] \in Nat
    BY SumsAreNumbers
  <2>8. \A a \in t : f[t] = w[a] + f[t \ {a}]
    BY <2>3, <2>6
  <2> QED BY <2>7, <2>8
<1> HIDE DEF N
<1>4. Nat \subseteq N
  BY <1>2, <1>3, Induction
<1>5. Takes(s)
  <2>1. Cardinality(s) \in N
    BY <1>4, Picked
  <2> QED BY <2>1 DEF N
<1> QED BY <1>1, <1>5

\* What weighs nothing may be left out.
LEMMA SumsSkip ==
    ASSUME NEW S, IsFiniteSet(S), NEW w \in [S -> Nat], NEW f, AreSums(f, w, S),
           NEW T \in SUBSET S, \A x \in S \ T : w[x] = 0
    PROVE  f[S] = f[T]
<1> DEFINE N == {n \in Nat : \A t \in SUBSET S : Cardinality(t) = n => f[t] = f[t \cap T]}
<1>1. 0 \in N
  <2>1. \A t \in SUBSET S : Cardinality(t) = 0 => t \cap T = t
    BY Picked
  <2> QED BY <2>1
<1>2. ASSUME NEW n \in Nat, n \in N PROVE n + 1 \in N
  <2>1. SUFFICES ASSUME NEW t \in SUBSET S, Cardinality(t) = n + 1 PROVE f[t] = f[t \cap T]
    OBVIOUS
  <2>2. PICK a \in t : t \ {a} \in SUBSET S /\ Cardinality(t \ {a}) = n
    BY <2>1, Picked
  <2>3. f[t] = w[a] + f[t \ {a}] /\ f[t \ {a}] = f[(t \ {a}) \cap T]
    BY <1>2, <2>1, <2>2, SumsTake
  <2>4. CASE a \in T
    <3>1. (t \cap T) \ {a} = (t \ {a}) \cap T /\ a \in t \cap T /\ t \cap T \in SUBSET S
      BY <2>4
    <3>2. f[t \cap T] = w[a] + f[(t \cap T) \ {a}]
      BY <3>1, SumsTake
    <3> QED BY <2>3, <3>1, <3>2
  <2>5. CASE a \notin T
    <3>1. (t \ {a}) \cap T = t \cap T /\ w[a] = 0 /\ t \cap T \in SUBSET S
      BY <2>2, <2>5
    <3>2. f[t \cap T] \in Nat
      BY <3>1, SumsTake
    <3> QED BY <2>3, <3>1, <3>2
  <2> QED BY <2>4, <2>5
<1> HIDE DEF N
<1>3. Cardinality(S) \in N
  BY <1>1, <1>2, Induction, FS_CardinalityType
<1>4. S \cap T = T /\ S \in SUBSET S
  OBVIOUS
<1> QED BY <1>3, <1>4 DEF N

\* Only the weights of what is summed matter.
LEMMA SumsAgree ==
    ASSUME NEW S, IsFiniteSet(S), NEW w, NEW f, AreSums(f, w, S),
           NEW T \in SUBSET S, NEW v, NEW g, AreSums(g, v, T),
           \A x \in T : v[x] = w[x]
    PROVE  g[T] = f[T]
<1> DEFINE N == {n \in Nat : \A t \in SUBSET T : Cardinality(t) = n => g[t] = f[t]}
<1>1. \A t \in SUBSET T : t \in SUBSET S
  OBVIOUS
<1>2. 0 \in N
  <2>1. f[{}] = 0 /\ g[{}] = 0
    BY DEF AreSums
  <2>2. \A t \in SUBSET T : Cardinality(t) = 0 => t = {}
    BY <1>1, Picked
  <2> QED BY <2>1, <2>2
<1>3. ASSUME NEW n \in Nat, n \in N PROVE n + 1 \in N
  <2>1. SUFFICES ASSUME NEW t \in SUBSET T, Cardinality(t) = n + 1 PROVE g[t] = f[t]
    OBVIOUS
  <2>2. PICK p \in t : p = Pick(t)
    BY <1>1, <2>1, Picked
  <2>3. f[t] = w[p] + f[t \ {p}] /\ g[t] = v[p] + g[t \ {p}]
    BY <1>1, <2>2 DEF AreSums
  <2>4. g[t \ {p}] = f[t \ {p}] /\ v[p] = w[p]
    BY <1>1, <1>3, <2>1, Picked
  <2> QED BY <2>3, <2>4
<1> HIDE DEF N
<1>4. Cardinality(T) \in N
  BY <1>2, <1>3, Induction, Picked
<1> QED BY <1>4 DEF N
=============================================================================
