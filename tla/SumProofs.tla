----------------------------- MODULE SumProofs ------------------------------
(***************************************************************************)
(* Sums over finite sets.  The models add up with MapThenSumSet of the     *)
(* library: a recursive function on the subsets, which takes an arbitrary  *)
(* element off at each step.  Total is that function for the summands f,   *)
(* and the theorems say that the order does not matter: an element more is *)
(* a summand more.                                                         *)
(***************************************************************************)
EXTENDS Integers, Sequences, TLAPS, FiniteSetTheorems, WellFoundedInduction

AnElement(s) == CHOOSE x \in s : TRUE

TotalFun(f, S) ==
    CHOOSE g : g = [s \in SUBSET S |->
                       IF s = {} THEN 0 ELSE f[AnElement(s)] + g[s \ {AnElement(s)}]]

Total(f, S) == TotalFun(f, S)[S]

Small(S, n) == {s \in SUBSET S : Cardinality(s) <= n}

IsTotal(g, f, D) == g = [s \in D |-> IF s = {} THEN 0 ELSE f[AnElement(s)] + g[s \ {AnElement(s)}]]

-----------------------------------------------------------------------------
(* A non-empty set of numbers has a least one.  (The library's least number *)
(* principle takes an operator, so this goes by the initial segments, which *)
(* strict inclusion orders well.)                                           *)
LEMMA LeastNatural ==
  ASSUME NEW T \in SUBSET Nat, T # {}
  PROVE  \E n \in T : \A m \in T : n <= m
<1> DEFINE Below == {0 .. n : n \in T}
<1>1. Below \subseteq FiniteSubsetsOf(Nat)
  <2>1. ASSUME NEW n \in T PROVE IsFiniteSet(0 .. n)
    BY FS_Interval
  <2>2. ASSUME NEW n \in T PROVE 0 .. n \in SUBSET Nat
    OBVIOUS
  <2> QED BY <2>1, <2>2 DEF FiniteSubsetsOf
<1>2. Below # {}
  OBVIOUS
<1>3. \E s \in Below : \A r \in Below : ~(<<r, s>> \in StrictSubsetOrdering(Nat))
  <2> HIDE DEF Below
  <2> QED BY <1>1, <1>2, FS_StrictSubsetOrderingWellFounded, WFMin
<1>4. PICK n \in T : \A m \in T : ~(<<0 .. m, 0 .. n>> \in StrictSubsetOrdering(Nat))
  BY <1>3
<1>5. ASSUME NEW m \in T, m < n PROVE FALSE
  <2>1. 0 .. m \in SUBSET Nat /\ 0 .. n \in SUBSET Nat
    OBVIOUS
  <2>2. 0 .. m \subseteq 0 .. n /\ n \in 0 .. n /\ n \notin 0 .. m
    BY <1>5
  <2> QED BY <2>1, <2>2, <1>4 DEF StrictSubsetOrdering
<1> QED
  BY <1>5

(* Induction on the natural numbers, for a set.                             *)
LEMMA Induction ==
  ASSUME NEW S, 0 \in S, \A n \in Nat : n \in S => n + 1 \in S
  PROVE  Nat \subseteq S
<1> SUFFICES ASSUME Nat \ S # {} PROVE FALSE
  OBVIOUS
<1>1. PICK n \in Nat \ S : \A m \in Nat \ S : n <= m
  BY LeastNatural
<1>2. n - 1 \in Nat /\ n - 1 \in S
  BY <1>1
<1> QED
  BY <1>1, <1>2

-----------------------------------------------------------------------------
(* An element is taken off a non-empty subset of a finite set.              *)
LEMMA OneLess ==
  ASSUME NEW S, IsFiniteSet(S), NEW s \in SUBSET S, s # {}, NEW x \in s
  PROVE  /\ IsFiniteSet(s) /\ Cardinality(s) \in Nat /\ Cardinality(s) >= 1
         /\ s \ {x} \in SUBSET S /\ IsFiniteSet(s \ {x})
         /\ Cardinality(s \ {x}) = Cardinality(s) - 1
<1>1. IsFiniteSet(s)
  BY FS_Subset
<1>2. /\ Cardinality(s) \in Nat /\ IsFiniteSet(s \ {x})
      /\ Cardinality(s \ {x}) = Cardinality(s) - 1
      /\ Cardinality(s \ {x}) \in Nat
  BY <1>1, FS_CardinalityType, FS_RemoveElement
<1> QED
  BY <1>1, <1>2

(* The recursion is well defined, size by size.                             *)
LEMMA TotalExists ==
  ASSUME NEW f, NEW S, IsFiniteSet(S), NEW n \in Nat
  PROVE  \E g : IsTotal(g, f, Small(S, n))
<1> DEFINE I == {k \in Nat : \E g : IsTotal(g, f, Small(S, k))}
<1>1. 0 \in I
  <2> DEFINE g == [s \in Small(S, 0) |-> 0]
  <2>1. ASSUME NEW s \in Small(S, 0) PROVE s = {}
    <3>1. s \in SUBSET S /\ Cardinality(s) <= 0
      BY DEF Small
    <3>2. CASE s # {}
      <4>1. AnElement(s) \in s
        BY <3>2 DEF AnElement
      <4>2. Cardinality(s) >= 1 /\ Cardinality(s) \in Nat
        BY <3>1, <3>2, <4>1, OneLess
      <4> QED BY <3>1, <4>2
    <3> QED BY <3>2
  <2>2. IsTotal(g, f, Small(S, 0))
    BY <2>1 DEF IsTotal
  <2> QED BY <2>2
<1>2. ASSUME NEW k \in Nat, k \in I PROVE k + 1 \in I
  <2>1. PICK g : IsTotal(g, f, Small(S, k))
    BY <1>2
  <2> DEFINE h == [s \in Small(S, k + 1) |->
                     IF s \in Small(S, k) THEN g[s] ELSE f[AnElement(s)] + g[s \ {AnElement(s)}]]
  <2>2. ASSUME NEW s \in Small(S, k + 1)
        PROVE  h[s] = IF s = {} THEN 0 ELSE f[AnElement(s)] + h[s \ {AnElement(s)}]
    <3>1. s = {} => s \in Small(S, k)
      BY FS_EmptySet DEF Small
    <3>2. s # {} => s \ {AnElement(s)} \in Small(S, k) /\ s \ {AnElement(s)} \in Small(S, k + 1)
      <4> HAVE s # {}
      <4>1. AnElement(s) \in s
        BY DEF AnElement
      <4>2. s \in SUBSET S /\ Cardinality(s) <= k + 1
        BY DEF Small
      <4>3. /\ Cardinality(s) \in Nat /\ s \ {AnElement(s)} \in SUBSET S
            /\ Cardinality(s \ {AnElement(s)}) = Cardinality(s) - 1
        BY <4>1, <4>2, OneLess
      <4>4. Cardinality(s) - 1 <= k /\ Cardinality(s) - 1 <= k + 1
        BY <4>2, <4>3
      <4> QED BY <4>3, <4>4 DEF Small
    <3>3. s # {} => h[s \ {AnElement(s)}] = g[s \ {AnElement(s)}]
      BY <3>2
    <3>4. s \in Small(S, k) =>
            g[s] = IF s = {} THEN 0 ELSE f[AnElement(s)] + g[s \ {AnElement(s)}]
      BY <2>1 DEF IsTotal
    <3>5. h[s] = IF s \in Small(S, k) THEN g[s] ELSE f[AnElement(s)] + g[s \ {AnElement(s)}]
      OBVIOUS
    <3> HIDE DEF h
    <3> QED BY <3>1, <3>3, <3>4, <3>5
  <2>3. IsTotal(h, f, Small(S, k + 1))
    <3>1. h = [s \in Small(S, k + 1) |-> h[s]]
      OBVIOUS
    <3> HIDE DEF h
    <3> QED BY <2>2, <3>1 DEF IsTotal
  <2> QED BY <2>3
<1> HIDE DEF I
<1>3. n \in I
  BY <1>1, <1>2, Induction
<1> QED
  BY <1>3 DEF I

(* The function is the sum.                                                 *)
LEMMA TotalFunIsTotal ==
  ASSUME NEW f, NEW S, IsFiniteSet(S)
  PROVE  IsTotal(TotalFun(f, S), f, SUBSET S)
<1>1. Cardinality(S) \in Nat
  BY FS_CardinalityType
<1>2. Small(S, Cardinality(S)) = SUBSET S
  <2>1. \A s \in SUBSET S : Cardinality(s) <= Cardinality(S)
    BY FS_Subset
  <2> QED BY <2>1 DEF Small
<1>3. \E g : IsTotal(g, f, SUBSET S)
  <2>1. \E g : IsTotal(g, f, Small(S, Cardinality(S)))
    BY <1>1, TotalExists
  <2> QED BY <1>2, <2>1
<1>4. TotalFun(f, S) = CHOOSE g : IsTotal(g, f, SUBSET S)
  BY DEF TotalFun, IsTotal
<1> QED
  BY <1>3, <1>4

(* It does not depend on the set it was begun with, ...                     *)
LEMMA SameTotals ==
  ASSUME NEW f, NEW S, IsFiniteSet(S), NEW T, IsFiniteSet(T), T \subseteq S
  PROVE  TotalFun(f, S)[T] = Total(f, T)
<1> DEFINE F == TotalFun(f, S)
           G == TotalFun(f, T)
           I == {n \in Nat : \A s \in SUBSET T : Cardinality(s) = n => F[s] = G[s]}
<1>1. IsTotal(F, f, SUBSET S) /\ IsTotal(G, f, SUBSET T)
  BY TotalFunIsTotal
<1> HIDE DEF F, G
<1>2. ASSUME NEW s \in SUBSET T
      PROVE  /\ F[s] = IF s = {} THEN 0 ELSE f[AnElement(s)] + F[s \ {AnElement(s)}]
             /\ G[s] = IF s = {} THEN 0 ELSE f[AnElement(s)] + G[s \ {AnElement(s)}]
  BY <1>1 DEF IsTotal
<1>3. 0 \in I
  <2> SUFFICES ASSUME NEW s \in SUBSET T, Cardinality(s) = 0 PROVE F[s] = G[s]
    OBVIOUS
  <2>1. CASE s = {}
    BY <1>2, <2>1
  <2>2. CASE s # {}
    <3>1. AnElement(s) \in s
      BY <2>2 DEF AnElement
    <3>2. Cardinality(s) >= 1
      BY <2>2, <3>1, OneLess
    <3> QED BY <3>2
  <2> QED BY <2>1, <2>2
<1>4. ASSUME NEW n \in Nat, n \in I PROVE n + 1 \in I
  <2> SUFFICES ASSUME NEW s \in SUBSET T, Cardinality(s) = n + 1 PROVE F[s] = G[s]
    OBVIOUS
  <2>1. CASE s = {}
    BY <1>2, <2>1
  <2>2. CASE s # {}
    <3>1. AnElement(s) \in s
      BY <2>2 DEF AnElement
    <3>2. s \ {AnElement(s)} \in SUBSET T /\ Cardinality(s \ {AnElement(s)}) = n
      <4>1. Cardinality(s \ {AnElement(s)}) = Cardinality(s) - 1 /\ s \ {AnElement(s)} \in SUBSET T
        BY <2>2, <3>1, OneLess
      <4> QED BY <4>1
    <3>3. F[s \ {AnElement(s)}] = G[s \ {AnElement(s)}]
      BY <1>4, <3>2
    <3> QED BY <1>2, <2>2, <3>3
  <2> QED BY <2>1, <2>2
<1> HIDE DEF I
<1>5. Cardinality(T) \in I
  <2>1. Cardinality(T) \in Nat
    BY FS_CardinalityType
  <2> QED BY <1>3, <1>4, <2>1, Induction
<1> QED
  BY <1>5 DEF I, F, G, Total

(* ... so a sum is one summand and the sum of the rest.                     *)
LEMMA TotalStep ==
  ASSUME NEW f, NEW S, IsFiniteSet(S)
  PROVE  /\ S = {} => Total(f, S) = 0
         /\ S # {} => Total(f, S) = f[AnElement(S)] + Total(f, S \ {AnElement(S)})
<1>1. IsTotal(TotalFun(f, S), f, SUBSET S) /\ S \in SUBSET S
  BY TotalFunIsTotal
<1>2. S = {} => Total(f, S) = 0
  BY <1>1 DEF Total, IsTotal
<1>3. S # {} => Total(f, S) = f[AnElement(S)] + TotalFun(f, S)[S \ {AnElement(S)}]
  BY <1>1 DEF Total, IsTotal
<1>4. IsFiniteSet(S \ {AnElement(S)}) /\ S \ {AnElement(S)} \subseteq S
  BY FS_Subset
<1>5. TotalFun(f, S)[S \ {AnElement(S)}] = Total(f, S \ {AnElement(S)})
  BY <1>4, SameTotals
<1> QED
  BY <1>2, <1>3, <1>5

-----------------------------------------------------------------------------
(* The sum over the empty set.                                              *)
THEOREM TotalEmpty ==
  ASSUME NEW f
  PROVE  Total(f, {}) = 0
  BY TotalStep, FS_EmptySet

(* Sums of integers are integers.                                           *)
THEOREM TotalIsInt ==
  ASSUME NEW f, NEW S, IsFiniteSet(S), \A x \in S : f[x] \in Int
  PROVE  Total(f, S) \in Int
<1> DEFINE I == {n \in Nat : \A s \in SUBSET S : Cardinality(s) = n => Total(f, s) \in Int}
<1>0. \A s \in SUBSET S : IsFiniteSet(s)
  BY FS_Subset
<1>1. 0 \in I
  <2> SUFFICES ASSUME NEW s \in SUBSET S, Cardinality(s) = 0 PROVE Total(f, s) \in Int
    OBVIOUS
  <2>1. s # {} => AnElement(s) \in s
    BY DEF AnElement
  <2>2. s # {} => Cardinality(s) >= 1
    BY <2>1, OneLess
  <2>3. s = {}
    BY <2>2
  <2> QED BY <2>3, TotalEmpty
<1>2. ASSUME NEW n \in Nat, n \in I PROVE n + 1 \in I
  <2> SUFFICES ASSUME NEW s \in SUBSET S, Cardinality(s) = n + 1 PROVE Total(f, s) \in Int
    OBVIOUS
  <2>1. CASE s = {}
    BY <2>1, TotalEmpty
  <2>2. CASE s # {}
    <3>1. AnElement(s) \in s
      BY <2>2 DEF AnElement
    <3>2. s \ {AnElement(s)} \in SUBSET S /\ Cardinality(s \ {AnElement(s)}) = n
      <4>1. Cardinality(s \ {AnElement(s)}) = Cardinality(s) - 1 /\ s \ {AnElement(s)} \in SUBSET S
        BY <2>2, <3>1, OneLess
      <4> QED BY <4>1
    <3>3. Total(f, s \ {AnElement(s)}) \in Int
      BY <1>2, <3>2
    <3>4. f[AnElement(s)] \in Int
      BY <3>1
    <3>5. Total(f, s) = f[AnElement(s)] + Total(f, s \ {AnElement(s)})
      BY <1>0, <2>2, TotalStep
    <3> QED BY <3>3, <3>4, <3>5
  <2> QED BY <2>1, <2>2
<1> HIDE DEF I
<1>3. Cardinality(S) \in Nat
  BY FS_CardinalityType
<1>4. Cardinality(S) \in I
  BY <1>1, <1>2, <1>3, Induction
<1> QED
  BY <1>4 DEF I

(* Any element may be taken off first.                                      *)
THEOREM TotalRemove ==
  ASSUME NEW f, NEW S, IsFiniteSet(S), \A x \in S : f[x] \in Int, NEW x \in S
  PROVE  Total(f, S) = f[x] + Total(f, S \ {x})
<1> DEFINE I == {n \in Nat : \A s \in SUBSET S : Cardinality(s) = n =>
                   \A y \in s : Total(f, s) = f[y] + Total(f, s \ {y})}
<1>0. \A s \in SUBSET S : IsFiniteSet(s) /\ Total(f, s) \in Int
  <2>1. ASSUME NEW s \in SUBSET S PROVE IsFiniteSet(s) /\ Total(f, s) \in Int
    <3>1. IsFiniteSet(s)
      BY FS_Subset
    <3>2. \A y \in s : f[y] \in Int
      OBVIOUS
    <3> QED BY <3>1, <3>2, TotalIsInt
  <2> QED BY <2>1
<1>1. 0 \in I
  <2> SUFFICES ASSUME NEW s \in SUBSET S, Cardinality(s) = 0, NEW y \in s PROVE FALSE
    OBVIOUS
  <2>1. Cardinality(s) >= 1
    BY OneLess
  <2> QED BY <2>1
<1>2. ASSUME NEW n \in Nat, n \in I PROVE n + 1 \in I
  <2> SUFFICES ASSUME NEW s \in SUBSET S, Cardinality(s) = n + 1, NEW y \in s
               PROVE  Total(f, s) = f[y] + Total(f, s \ {y})
    OBVIOUS
  <2> DEFINE z == AnElement(s)
             a == s \ {z}
             b == s \ {y}
  <2>1. z \in s
    BY DEF AnElement
  <2>2. a \in SUBSET S /\ b \in SUBSET S /\ Cardinality(a) = n /\ Cardinality(b) = n
    <3>1. /\ a \in SUBSET S /\ Cardinality(a) = Cardinality(s) - 1
          /\ b \in SUBSET S /\ Cardinality(b) = Cardinality(s) - 1
      BY <2>1, OneLess
    <3> HIDE DEF a, b
    <3> QED BY <3>1
  <2>3. Total(f, s) = f[z] + Total(f, a)
    BY <1>0, <2>1, TotalStep
  <2> HIDE DEF z
  <2>4. CASE z = y
    BY <2>3, <2>4
  <2>5. CASE z # y
    <3>1. y \in a /\ z \in b /\ a \ {y} = b \ {z}
      BY <2>1, <2>5
    <3> DEFINE c == b \ {z}
    <3>2. Total(f, a) = f[y] + Total(f, c) /\ Total(f, b) = f[z] + Total(f, c)
      BY <1>2, <2>2, <3>1
    <3>3. f[y] \in Int /\ f[z] \in Int /\ Total(f, c) \in Int
      BY <1>0, <2>1, <2>2
    <3> HIDE DEF a, b, c
    <3>4. Total(f, s) = f[y] + Total(f, b)
      BY <2>3, <3>2, <3>3
    <3> QED BY <3>4 DEF b
  <2> QED BY <2>4, <2>5
<1> HIDE DEF I
<1>3. Cardinality(S) \in Nat
  BY FS_CardinalityType
<1>4. Cardinality(S) \in I
  BY <1>1, <1>2, <1>3, Induction
<1> QED
  BY <1>4 DEF I

(* An element more is a summand more.                                       *)
THEOREM TotalAdd ==
  ASSUME NEW f, NEW S, IsFiniteSet(S), \A y \in S : f[y] \in Int,
         NEW x, x \notin S, f[x] \in Int
  PROVE  Total(f, S \cup {x}) = f[x] + Total(f, S)
<1>1. IsFiniteSet(S \cup {x})
  BY FS_AddElement
<1>2. (S \cup {x}) \ {x} = S /\ x \in S \cup {x}
  OBVIOUS
<1>3. \A y \in S \cup {x} : f[y] \in Int
  OBVIOUS
<1> QED
  BY <1>1, <1>2, <1>3, TotalRemove

(* Only the summands of the set count.                                      *)
THEOREM TotalAgrees ==
  ASSUME NEW f, NEW g, NEW S, IsFiniteSet(S), \A x \in S : f[x] = g[x]
  PROVE  Total(f, S) = Total(g, S)
<1>1. ASSUME NEW F
      PROVE  [s \in SUBSET S |-> IF s = {} THEN 0 ELSE f[AnElement(s)] + F[s \ {AnElement(s)}]]
             = [s \in SUBSET S |-> IF s = {} THEN 0 ELSE g[AnElement(s)] + F[s \ {AnElement(s)}]]
  <2>1. ASSUME NEW s \in SUBSET S, s # {} PROVE f[AnElement(s)] = g[AnElement(s)]
    BY <2>1 DEF AnElement
  <2> QED BY <2>1
<1>2. TotalFun(f, S) = TotalFun(g, S)
  BY <1>1 DEF TotalFun
<1> QED
  BY <1>2 DEF Total

(* A fact about the sums over all subsets of a finite set holds when it     *)
(* holds for the empty one and is kept when an element is added.            *)
LEMMA SubsetInduction ==
  ASSUME NEW S, IsFiniteSet(S), NEW Q \in SUBSET SUBSET S, {} \in Q,
         \A s \in SUBSET S : \A x \in S \ s : s \in Q => s \cup {x} \in Q
  PROVE  S \in Q
<1> DEFINE I == {n \in Nat : \A s \in SUBSET S : Cardinality(s) = n => s \in Q}
<1>1. 0 \in I
  <2> SUFFICES ASSUME NEW s \in SUBSET S, Cardinality(s) = 0 PROVE s \in Q
    OBVIOUS
  <2>1. s # {} => AnElement(s) \in s
    BY DEF AnElement
  <2>2. s # {} => Cardinality(s) >= 1
    BY <2>1, OneLess
  <2> QED BY <2>2
<1>2. ASSUME NEW n \in Nat, n \in I PROVE n + 1 \in I
  <2> SUFFICES ASSUME NEW s \in SUBSET S, Cardinality(s) = n + 1 PROVE s \in Q
    OBVIOUS
  <2>1. CASE s = {}
    BY <2>1
  <2>2. CASE s # {}
    <3>1. AnElement(s) \in s
      BY <2>2 DEF AnElement
    <3>2. s \ {AnElement(s)} \in SUBSET S /\ Cardinality(s \ {AnElement(s)}) = n
      <4>1. Cardinality(s \ {AnElement(s)}) = Cardinality(s) - 1 /\ s \ {AnElement(s)} \in SUBSET S
        BY <2>2, <3>1, OneLess
      <4> QED BY <4>1
    <3>3. s \ {AnElement(s)} \in Q
      BY <1>2, <3>2
    <3>4. AnElement(s) \in S \ (s \ {AnElement(s)}) /\ (s \ {AnElement(s)}) \cup {AnElement(s)} = s
      BY <3>1
    <3> QED BY <3>2, <3>3, <3>4
  <2> QED BY <2>1, <2>2
<1> HIDE DEF I
<1>3. Cardinality(S) \in I
  <2>1. Cardinality(S) \in Nat
    BY FS_CardinalityType
  <2> QED BY <1>1, <1>2, <2>1, Induction
<1> QED
  BY <1>3 DEF I

(* Subsets of a finite set, and their sums one element on.                  *)
LEMMA PartialTotals ==
  ASSUME NEW f, NEW S, IsFiniteSet(S), \A x \in S : f[x] \in Int
  PROVE  \A s \in SUBSET S :
           /\ IsFiniteSet(s) /\ Total(f, s) \in Int
           /\ \A x \in S \ s : Total(f, s \cup {x}) = f[x] + Total(f, s)
<1> SUFFICES ASSUME NEW s \in SUBSET S
             PROVE  /\ IsFiniteSet(s) /\ Total(f, s) \in Int
                    /\ \A x \in S \ s : Total(f, s \cup {x}) = f[x] + Total(f, s)
  OBVIOUS
<1>1. IsFiniteSet(s) /\ \A x \in s : f[x] \in Int
  BY FS_Subset
<1>2. Total(f, s) \in Int
  BY <1>1, TotalIsInt
<1>3. ASSUME NEW x \in S \ s PROVE Total(f, s \cup {x}) = f[x] + Total(f, s)
  BY <1>1, TotalAdd
<1> QED
  BY <1>1, <1>2, <1>3

(* Summands may be added one by one.                                        *)
THEOREM TotalPlus ==
  ASSUME NEW f, NEW g, NEW h, NEW S, IsFiniteSet(S),
         \A x \in S : f[x] \in Int /\ g[x] \in Int /\ h[x] = f[x] + g[x]
  PROVE  Total(h, S) = Total(f, S) + Total(g, S)
<1> DEFINE Q == {s \in SUBSET S : Total(h, s) = Total(f, s) + Total(g, s)}
<1>1. \A x \in S : h[x] \in Int
  OBVIOUS
<1>2. {} \in Q
  BY TotalEmpty
<1>3. ASSUME NEW s \in SUBSET S, NEW x \in S \ s, s \in Q PROVE s \cup {x} \in Q
  <2>1. /\ Total(f, s) \in Int /\ Total(g, s) \in Int
        /\ Total(f, s \cup {x}) = f[x] + Total(f, s)
        /\ Total(g, s \cup {x}) = g[x] + Total(g, s)
        /\ Total(h, s \cup {x}) = h[x] + Total(h, s)
    BY <1>1, PartialTotals
  <2>2. Total(h, s) = Total(f, s) + Total(g, s) /\ h[x] = f[x] + g[x]
        /\ f[x] \in Int /\ g[x] \in Int
    BY <1>3
  <2>3. Total(h, s \cup {x}) = Total(f, s \cup {x}) + Total(g, s \cup {x})
    BY <2>1, <2>2
  <2> QED BY <2>3
<1>4. S \in Q
  <2> HIDE DEF Q
  <2>1. Q \in SUBSET SUBSET S
    BY DEF Q
  <2> QED BY <1>2, <1>3, <2>1, SubsetInduction
<1> QED
  BY <1>4

(* Equal summands add up to a product.                                      *)
THEOREM TotalConstant ==
  ASSUME NEW c \in Int, NEW f, NEW S, IsFiniteSet(S), \A x \in S : f[x] = c
  PROVE  Total(f, S) = c * Cardinality(S)
<1> DEFINE Q == {s \in SUBSET S : Total(f, s) = c * Cardinality(s)}
<1>1. \A x \in S : f[x] \in Int
  OBVIOUS
<1>2. {} \in Q
  BY TotalEmpty, FS_EmptySet
<1>3. ASSUME NEW s \in SUBSET S, NEW x \in S \ s, s \in Q PROVE s \cup {x} \in Q
  <2>1. IsFiniteSet(s) /\ Total(f, s \cup {x}) = f[x] + Total(f, s)
    BY <1>1, PartialTotals
  <2>2. Cardinality(s) \in Nat /\ Cardinality(s \cup {x}) = Cardinality(s) + 1
    BY <2>1, FS_AddElement, FS_CardinalityType
  <2>3. f[x] = c /\ Total(f, s) = c * Cardinality(s)
    BY <1>3
  <2>4. c + c * Cardinality(s) = c * (Cardinality(s) + 1)
    BY <2>2
  <2>5. Total(f, s \cup {x}) = c * Cardinality(s \cup {x})
    BY <2>1, <2>2, <2>3, <2>4
  <2> QED BY <2>5
<1>4. S \in Q
  <2> HIDE DEF Q
  <2>1. Q \in SUBSET SUBSET S
    BY DEF Q
  <2> QED BY <1>2, <1>3, <2>1, SubsetInduction
<1> QED
  BY <1>4

(* A sum over a set is the sum over a part and over the rest.               *)
THEOREM TotalSplit ==
  ASSUME NEW f, NEW S, IsFiniteSet(S), \A x \in S : f[x] \in Int, NEW T \in SUBSET S
  PROVE  Total(f, S) = Total(f, T) + Total(f, S \ T)
<1> DEFINE R == S \ T
           Q == {s \in SUBSET R : Total(f, T \cup s) = Total(f, T) + Total(f, s)}
<1>1. IsFiniteSet(R) /\ R \in SUBSET S
  BY FS_Subset
<1>2. {} \in Q
  <2>1. Total(f, T) \in Int
    BY PartialTotals
  <2>2. T \cup {} = T
    OBVIOUS
  <2> QED BY <2>1, <2>2, TotalEmpty
<1>3. ASSUME NEW s \in SUBSET R, NEW x \in R \ s, s \in Q PROVE s \cup {x} \in Q
  <2>1. /\ s \in SUBSET S /\ T \cup s \in SUBSET S /\ x \in S \ s /\ x \in S \ (T \cup s)
        /\ T \cup (s \cup {x}) = (T \cup s) \cup {x}
    OBVIOUS
  <2>2. /\ Total(f, T) \in Int /\ Total(f, s) \in Int
        /\ Total(f, s \cup {x}) = f[x] + Total(f, s)
        /\ Total(f, (T \cup s) \cup {x}) = f[x] + Total(f, T \cup s)
    BY <2>1, PartialTotals
  <2>3. Total(f, T \cup s) = Total(f, T) + Total(f, s) /\ f[x] \in Int
    BY <1>3, <2>1
  <2>4. Total(f, (T \cup s) \cup {x}) = Total(f, T) + Total(f, s \cup {x})
    BY <2>2, <2>3
  <2> QED BY <2>1, <2>4
<1>4. R \in Q
  <2>1. Q \in SUBSET SUBSET R
    OBVIOUS
  <2> HIDE DEF Q, R
  <2> QED BY <1>1, <1>2, <1>3, <2>1, SubsetInduction
<1>5. T \cup R = S
  OBVIOUS
<1> QED
  BY <1>4, <1>5

(* A factor may be taken out.                                               *)
THEOREM TotalTimes ==
  ASSUME NEW c \in Int, NEW f, NEW g, NEW S, IsFiniteSet(S),
         \A x \in S : f[x] \in Int /\ g[x] = c * f[x]
  PROVE  Total(g, S) = c * Total(f, S)
<1> DEFINE Q == {s \in SUBSET S : Total(g, s) = c * Total(f, s)}
<1>1. \A x \in S : g[x] \in Int /\ f[x] \in Int
  OBVIOUS
<1>2. {} \in Q
  BY TotalEmpty
<1>3. ASSUME NEW s \in SUBSET S, NEW x \in S \ s, s \in Q PROVE s \cup {x} \in Q
  <2>1. /\ Total(f, s) \in Int
        /\ Total(f, s \cup {x}) = f[x] + Total(f, s)
        /\ Total(g, s \cup {x}) = g[x] + Total(g, s)
    BY <1>1, PartialTotals
  <2>2. g[x] = c * f[x] /\ f[x] \in Int /\ Total(g, s) = c * Total(f, s)
    BY <1>3
  <2>3. c * f[x] + c * Total(f, s) = c * (f[x] + Total(f, s))
    BY <2>1, <2>2
  <2>4. Total(g, s \cup {x}) = c * Total(f, s \cup {x})
    BY <2>1, <2>2, <2>3
  <2> QED BY <2>4
<1>4. S \in Q
  <2> HIDE DEF Q
  <2>1. Q \in SUBSET SUBSET S
    BY DEF Q
  <2> QED BY <1>2, <1>3, <2>1, SubsetInduction
<1> QED
  BY <1>4

(* Larger summands, a larger sum.                                           *)
THEOREM TotalGrows ==
  ASSUME NEW f, NEW g, NEW S, IsFiniteSet(S),
         \A x \in S : f[x] \in Int /\ g[x] \in Int /\ f[x] <= g[x]
  PROVE  Total(f, S) <= Total(g, S)
<1> DEFINE Q == {s \in SUBSET S : Total(f, s) <= Total(g, s)}
<1>1. \A x \in S : f[x] \in Int /\ g[x] \in Int
  OBVIOUS
<1>2. {} \in Q
  BY TotalEmpty
<1>3. ASSUME NEW s \in SUBSET S, NEW x \in S \ s, s \in Q PROVE s \cup {x} \in Q
  <2>1. /\ Total(f, s) \in Int /\ Total(g, s) \in Int
        /\ Total(f, s \cup {x}) = f[x] + Total(f, s)
        /\ Total(g, s \cup {x}) = g[x] + Total(g, s)
    BY <1>1, PartialTotals
  <2>2. Total(f, s) <= Total(g, s) /\ f[x] \in Int /\ g[x] \in Int /\ f[x] <= g[x]
    BY <1>3
  <2>3. Total(f, s \cup {x}) <= Total(g, s \cup {x})
    BY <2>1, <2>2
  <2> QED BY <2>3
<1>4. S \in Q
  <2> HIDE DEF Q
  <2>1. Q \in SUBSET SUBSET S
    BY DEF Q
  <2> QED BY <1>2, <1>3, <2>1, SubsetInduction
<1> QED
  BY <1>4

(* Summands that are nothing may be left out.                               *)
THEOREM TotalSupport ==
  ASSUME NEW f, NEW S, IsFiniteSet(S), NEW T \in SUBSET S, \A x \in T : f[x] \in Int,
         \A x \in S \ T : f[x] = 0
  PROVE  Total(f, S) = Total(f, T)
<1>1. \A x \in S : f[x] \in Int
  OBVIOUS
<1>2. IsFiniteSet(T) /\ IsFiniteSet(S \ T)
  BY FS_Subset
<1>3. Total(f, S \ T) = 0 * Cardinality(S \ T) /\ Cardinality(S \ T) \in Nat
  BY <1>2, TotalConstant, FS_CardinalityType
<1>4. Total(f, S) = Total(f, T) + Total(f, S \ T)
  BY <1>1, TotalSplit
<1>5. Total(f, T) \in Int
  BY <1>2, TotalIsInt
<1> QED
  BY <1>3, <1>4, <1>5

(* Natural summands have a natural sum.                                     *)
THEOREM TotalIsNat ==
  ASSUME NEW f, NEW S, IsFiniteSet(S), \A x \in S : f[x] \in Nat
  PROVE  Total(f, S) \in Nat
<1> DEFINE zero == [x \in S |-> 0]
<1>1. \A x \in S : zero[x] = 0 /\ zero[x] \in Int /\ f[x] \in Int /\ zero[x] <= f[x]
  OBVIOUS
<1> HIDE DEF zero
<1>2. Total(zero, S) <= Total(f, S) /\ Total(f, S) \in Int
  BY <1>1, TotalGrows, TotalIsInt
<1>3. Total(zero, S) = 0 * Cardinality(S) /\ Cardinality(S) \in Nat
  BY <1>1, TotalConstant, FS_CardinalityType
<1> QED
  BY <1>2, <1>3

(* Counting is adding up ones.                                              *)
THEOREM TotalCounts ==
  ASSUME NEW f, NEW S, IsFiniteSet(S), NEW T \in SUBSET S,
         \A x \in S : f[x] = IF x \in T THEN 1 ELSE 0
  PROVE  Total(f, S) = Cardinality(T)
<1>1. (\A x \in T : f[x] = 1) /\ \A x \in S \ T : f[x] = 0
  OBVIOUS
<1>2. IsFiniteSet(T) /\ Cardinality(T) \in Nat
  BY FS_Subset, FS_CardinalityType
<1>3. Total(f, S) = Total(f, T)
  BY <1>1, TotalSupport
<1>4. Total(f, T) = 1 * Cardinality(T)
  BY <1>1, <1>2, TotalConstant
<1> QED
  BY <1>2, <1>3, <1>4

(* A table may be added up by rows or by columns.                           *)
THEOREM TotalSwap ==
  ASSUME NEW A, NEW B, IsFiniteSet(A), IsFiniteSet(B), NEW m \in [A -> [B -> Int]]
  PROVE  Total([a \in A |-> Total(m[a], B)], A)
           = Total([b \in B |-> Total([a \in A |-> m[a][b]], A)], B)
<1> DEFINE row    == [a \in A |-> Total(m[a], B)]
           col(b) == [a \in A |-> m[a][b]]
           sum(s) == [b \in B |-> Total(col(b), s)]
           Q == {s \in SUBSET A : Total(row, s) = Total(sum(s), B)}
<1>1. /\ \A a \in A : m[a] \in [B -> Int] /\ row[a] \in Int /\ row[a] = Total(m[a], B)
      /\ \A b \in B : \A a \in A : col(b)[a] \in Int /\ col(b)[a] = m[a][b]
  BY TotalIsInt
<1>2. {} \in Q
  <2>1. \A b \in B : sum({})[b] = 0
    BY TotalEmpty
  <2>2. Total(sum({}), B) = 0 * Cardinality(B) /\ Cardinality(B) \in Nat
    <3> HIDE DEF sum
    <3> QED BY <2>1, TotalConstant, FS_CardinalityType
  <2>3. Total(row, {}) = 0
    BY TotalEmpty
  <2> QED BY <2>2, <2>3
<1>3. ASSUME NEW s \in SUBSET A, NEW x \in A \ s, s \in Q PROVE s \cup {x} \in Q
  <2>1. Total(row, s \cup {x}) = row[x] + Total(row, s)
    <3> HIDE DEF row
    <3> QED BY <1>1, PartialTotals
  <2>2. \A b \in B : Total(col(b), s \cup {x}) = m[x][b] + Total(col(b), s)
                     /\ Total(col(b), s) \in Int
    <3> HIDE DEF col
    <3> QED BY <1>1, PartialTotals
  <2>3. \A b \in B : /\ m[x][b] \in Int /\ sum(s)[b] \in Int
                     /\ sum(s \cup {x})[b] = m[x][b] + sum(s)[b]
    BY <1>1, <2>2
  <2>4. Total(sum(s \cup {x}), B) = Total(m[x], B) + Total(sum(s), B)
    <3> DEFINE f == m[x]
               g == sum(s)
               h == sum(s \cup {x})
    <3>1. \A b \in B : f[b] \in Int /\ g[b] \in Int /\ h[b] = f[b] + g[b]
      BY <2>3
    <3> HIDE DEF f, g, h
    <3>2. Total(h, B) = Total(f, B) + Total(g, B)
      BY <3>1, TotalPlus
    <3> QED BY <3>2 DEF f, g, h
  <2>5. Total(row, s) = Total(sum(s), B) /\ row[x] = Total(m[x], B)
    BY <1>1, <1>3
  <2>6. Total(row, s \cup {x}) = Total(sum(s \cup {x}), B)
    BY <2>1, <2>4, <2>5
  <2>7. s \cup {x} \in SUBSET A
    OBVIOUS
  <2> HIDE DEF row, sum
  <2> QED BY <2>6, <2>7
<1>4. A \in Q
  <2> HIDE DEF Q
  <2>1. Q \in SUBSET SUBSET A
    BY DEF Q
  <2> QED BY <1>2, <1>3, <2>1, SubsetInduction
<1> QED
  BY <1>4

=============================================================================
