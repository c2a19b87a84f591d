---------------------------- MODULE SolverProofs ----------------------------
(***************************************************************************)
(* Proofs about a search, for any configuration, any number of threads and *)
(* any time: every command runs when its trigger says, every iteration is  *)
(* run once, nothing throws, and the flops are dealt.                      *)
(*                                                                         *)
(* The module follows the solver: what BuildCMDPipeline yields (Follows:   *)
(* each command is triggered where the one before it ends), what the state *)
(* of Solve and its threads makes of it (SearchInv), and what              *)
(* AllocateFlops deals.                                                    *)
(***************************************************************************)
EXTENDS Solver, SumProofs

Concat(x, y) == x \o y

Whole == INSTANCE FoldProofs WITH Op <- Concat

(***************************************************************************)
(* The commands of a configuration                                         *)
(***************************************************************************)
Planned == {"discount", "save", "profile", "avgOn", "pruneOn", "printRoot"}

Commands == [iter : Int, type : Planned \cup {"solve"}, steps : Int]

Asked(c) == Discounts(c) \cup AverageOn(c) \cup Profiles(c) \cup Saves(c) \cup Pruning(c)

(* What is planned is told apart by trigger and type.                       *)
PlannedOnly(c, a) ==
    /\ a \in Commands
    /\ a.iter \in Nat
    /\ a.type \in Planned
    /\ a.steps = IF a.type = "profile" THEN c.profSteps ELSE 0

(* No two types have the same rank.                                         *)
LEMMA RanksDiffer ==
  /\ \A type \in Planned : Rank(type) \in Int
  /\ \A type, other \in Planned : Rank(type) = Rank(other) => type = other
<1>1. DOMAIN Types = 1 .. 7
  BY DEF Types
<1>2. ASSUME NEW type \in Planned PROVE Rank(type) \in 1 .. 7 /\ Types[Rank(type)] = type
  <2>1. \E i \in DOMAIN Types : Types[i] = type
    <3>1. \E i \in 1 .. 7 : Types[i] = type
      BY DEF Types, Planned
    <3> QED BY <1>1, <3>1
  <2> QED BY <1>1, <2>1 DEF Rank
<1> QED
  BY <1>2

(* The commands of a set of triggers.                                       *)
LEMMA TriggersAreFinite ==
  ASSUME NEW I, IsFiniteSet(I), NEW type, NEW steps
  PROVE  IsFiniteSet({Command(i, type, steps) : i \in I})
<1> DEFINE T == {Command(i, type, steps) : i \in I}
           f == [i \in I |-> Command(i, type, steps)]
<1>1. f \in Surjection(I, T)
  BY DEF Surjection
<1> QED
  BY <1>1, FS_Surjection

(* What a configuration asks for is finite and told apart.                  *)
LEMMA AskedIsPlanned ==
  ASSUME NEW c \in Configuration
  PROVE  IsFiniteSet(Asked(c)) /\ \A a \in Asked(c) : PlannedOnly(c, a)
<1>0. /\ c.maxIter \in Nat /\ c.discFirst \in Nat /\ c.discCount \in Nat /\ c.profSteps \in Nat
      /\ c.avgOn \in Nat \cup {-1, Absent} /\ c.pruneAt \in Nat \cup {Absent}
      /\ c.discInterval \in (Nat \ {0}) \cup {Absent}
      /\ c.profInterval \in (Nat \ {0}) \cup {Absent}
      /\ c.saveInterval \in (Nat \ {0}) \cup {Absent}
  BY DEF Configuration, MaybeSome
<1>1. ASSUME NEW i \in Nat, NEW type \in Planned,
             NEW steps, steps = IF type = "profile" THEN c.profSteps ELSE 0
      PROVE  PlannedOnly(c, Command(i, type, steps))
  BY <1>0, <1>1 DEF PlannedOnly, Command, Commands, Planned
<1>2. ASSUME NEW first \in Nat, NEW interval, NEW last \in Int
      PROVE  IsFiniteSet(Every(first, interval, last)) /\ Every(first, interval, last) \subseteq Nat
  <2>1. Every(first, interval, last) \in SUBSET (first .. last)
    BY DEF Every
  <2>2. first .. last \subseteq Nat
    OBVIOUS
  <2>3. IsFiniteSet(first .. last)
    BY FS_Interval
  <2> QED BY <2>1, <2>2, <2>3, FS_Subset
<1>3. IsFiniteSet({}) /\ \A x : IsFiniteSet({x})
  BY FS_EmptySet, FS_Singleton
<1>4. IsFiniteSet(Discounts(c)) /\ \A a \in Discounts(c) : PlannedOnly(c, a)
  <2> DEFINE J == {c.discFirst + k * c.discInterval : k \in 0 .. c.discCount - 1}
             I == {j \in J : j < c.maxIter}
  <2> SUFFICES ASSUME c.discInterval # Absent
               PROVE  IsFiniteSet(Discounts(c)) /\ \A a \in Discounts(c) : PlannedOnly(c, a)
    BY <1>3 DEF Discounts
  <2>1. I \in SUBSET (0 .. c.maxIter - 1) /\ 0 .. c.maxIter - 1 \subseteq Nat
    <3>1. \A k \in Nat : k * c.discInterval \in Nat
      BY <1>0
    <3>2. J \subseteq Nat
      BY <1>0, <3>1
    <3> HIDE DEF J
    <3>3. \A j \in I : j \in 0 .. c.maxIter - 1
      BY <1>0, <3>2
    <3> QED BY <3>3
  <2>2. IsFiniteSet(0 .. c.maxIter - 1)
    <3>1. 0 \in Int /\ c.maxIter - 1 \in Int
      BY <1>0
    <3> QED BY <3>1, FS_Interval
  <2>3. IsFiniteSet(I) /\ I \subseteq Nat
    BY <2>1, <2>2, FS_Subset
  <2>4. Discounts(c) = {Command(i, "discount", 0) : i \in I}
    BY DEF Discounts
  <2>5. IsFiniteSet({Command(i, "discount", 0) : i \in I})
    <3>1. \A K : IsFiniteSet(K) => IsFiniteSet({Command(i, "discount", 0) : i \in K})
      BY TriggersAreFinite
    <3> HIDE DEF I
    <3> QED BY <2>3, <3>1
  <2> HIDE DEF I
  <2>6. \A i \in Nat : PlannedOnly(c, Command(i, "discount", 0))
    BY <1>1 DEF Planned
  <2> QED BY <1>3, <2>3, <2>4, <2>5, <2>6
<1>5. IsFiniteSet(AverageOn(c)) /\ \A a \in AverageOn(c) : PlannedOnly(c, a)
  <2>1. c.avgOn \notin {Absent, -1} => PlannedOnly(c, Command(c.avgOn, "avgOn", 0))
    BY <1>0, <1>1 DEF Planned
  <2> QED BY <1>3, <2>1 DEF AverageOn
<1>6. IsFiniteSet(Profiles(c)) /\ \A a \in Profiles(c) : PlannedOnly(c, a)
  <2> DEFINE offset == IF c.profAverage /\ c.avgOn # Absent THEN c.avgOn ELSE 0
             I == Every(offset + c.profInterval, c.profInterval, c.maxIter)
  <2>1. c.profInterval # Absent => offset + c.profInterval \in Nat
    BY <1>0
  <2>2. c.profInterval # Absent => IsFiniteSet(I) /\ I \subseteq Nat
    BY <1>0, <1>2, <2>1
  <2>3. Profiles(c) = IF c.profInterval = Absent THEN {} ELSE {Command(i, "profile", c.profSteps) : i \in I}
    BY DEF Profiles
  <2> HIDE DEF I
  <2>4. c.profInterval # Absent => IsFiniteSet({Command(i, "profile", c.profSteps) : i \in I})
    BY <2>2, TriggersAreFinite
  <2>5. \A i \in Nat : PlannedOnly(c, Command(i, "profile", c.profSteps))
    BY <1>1 DEF Planned
  <2> QED BY <1>3, <2>2, <2>3, <2>4, <2>5
<1>7. IsFiniteSet(Saves(c)) /\ \A a \in Saves(c) : PlannedOnly(c, a)
  <2> DEFINE I == Every(c.saveInterval, c.saveInterval, c.maxIter - 1)
             A == IF c.saveInterval = Absent THEN {} ELSE {Command(i, "save", 0) : i \in I}
             B == IF c.saveFinal THEN {Command(c.maxIter, "save", 0)} ELSE {}
             C == IF c.printRoot THEN {Command(c.maxIter, "printRoot", 0)} ELSE {}
  <2>1. c.saveInterval # Absent => IsFiniteSet(I) /\ I \subseteq Nat
    BY <1>0, <1>2
  <2>2. Saves(c) = (A \cup B) \cup C
    BY DEF Saves
  <2> HIDE DEF I
  <2>3. c.saveInterval # Absent => IsFiniteSet({Command(i, "save", 0) : i \in I})
    BY <2>1, TriggersAreFinite
  <2>4. \A i \in Nat : PlannedOnly(c, Command(i, "save", 0)) /\ PlannedOnly(c, Command(i, "printRoot", 0))
    BY <1>1 DEF Planned
  <2>5. IsFiniteSet(A) /\ IsFiniteSet(B) /\ IsFiniteSet(C)
    BY <1>3, <2>3
  <2>6. IsFiniteSet((A \cup B) \cup C)
    <3> HIDE DEF A, B, C
    <3> QED BY <2>5, FS_Union
  <2>7. /\ \A a \in A : PlannedOnly(c, a)
        /\ \A a \in B : PlannedOnly(c, a)
        /\ \A a \in C : PlannedOnly(c, a)
    BY <1>0, <2>1, <2>4
  <2> HIDE DEF A, B, C
  <2> QED BY <2>2, <2>6, <2>7
<1>8. IsFiniteSet(Pruning(c)) /\ \A a \in Pruning(c) : PlannedOnly(c, a)
  <2>1. c.pruneAt # Absent /\ c.pruneAt < c.maxIter => PlannedOnly(c, Command(c.pruneAt, "pruneOn", 0))
    BY <1>0, <1>1 DEF Planned
  <2> QED BY <1>3, <2>1 DEF Pruning
<1>9. IsFiniteSet(Asked(c))
  BY <1>4, <1>5, <1>6, <1>7, <1>8, FS_Union DEF Asked
<1> QED
  BY <1>4, <1>5, <1>6, <1>7, <1>8, <1>9 DEF Asked

(* Sorting by trigger and type lists a finite set whose members differ in   *)
(* one of them: a member's place is the number of those before it.          *)
LEMMA SortedIsInOrder ==
  ASSUME NEW S, IsFiniteSet(S),
         \A a \in S : a.iter \in Int /\ Rank(a.type) \in Int,
         \A a, b \in S : a.iter = b.iter /\ Rank(a.type) = Rank(b.type) => a = b
  PROVE  /\ Sorted(S) \in Seq(S)
         /\ Len(Sorted(S)) = Cardinality(S)
         /\ \A i \in 1 .. Len(Sorted(S)) : i > 1 => Sorted(S)[i - 1].iter <= Sorted(S)[i].iter
<1> DEFINE n == Cardinality(S)
           down(a) == {b \in S : Before(b, a)}
           place == [a \in S |-> Cardinality(down(a))]
           s == Sorted(S)
<1>1. n \in Nat
  BY FS_CardinalityType
<1>2. ASSUME NEW a \in S
      PROVE  place[a] \in Nat /\ place[a] < n
  <2>1. a \notin down(a) /\ down(a) \in SUBSET (S \ {a})
    BY DEF Before
  <2>2. IsFiniteSet(S \ {a}) /\ Cardinality(S \ {a}) = n - 1
    BY FS_RemoveElement
  <2> HIDE DEF down
  <2>3. Cardinality(down(a)) \in Nat /\ Cardinality(down(a)) <= n - 1
    BY <2>1, <2>2, FS_Subset, FS_CardinalityType
  <2> QED BY <1>1, <2>3
<1>3. ASSUME NEW a \in S, NEW b \in S, Before(a, b)
      PROVE  place[a] < place[b]
  <2>1. down(a) \in SUBSET down(b) /\ a \in down(b) /\ a \notin down(a) /\ down(b) \in SUBSET S
    BY <1>3 DEF Before
  <2> HIDE DEF down
  <2>2. IsFiniteSet(down(b)) /\ Cardinality(down(a)) <= Cardinality(down(b))
    BY <2>1, FS_Subset
  <2>3. Cardinality(down(a)) # Cardinality(down(b))
    BY <2>1, <2>2, FS_Subset
  <2>4. place[a] = Cardinality(down(a)) /\ place[b] = Cardinality(down(b))
    OBVIOUS
  <2> HIDE DEF place
  <2> QED BY <1>2, <2>2, <2>3, <2>4
<1>4. ASSUME NEW a \in S, NEW b \in S, a # b PROVE Before(a, b) \/ Before(b, a)
  BY <1>4 DEF Before
<1>5. /\ place \in [S -> 0 .. n - 1]
      /\ \A a, b \in S : a # b => place[a] # place[b]
  <2>1. place = [a \in S |-> place[a]]
    OBVIOUS
  <2> HIDE DEF place
  <2>2. \A a \in S : place[a] \in 0 .. n - 1
    BY <1>1, <1>2
  <2> QED BY <1>2, <1>3, <1>4, <2>1, <2>2
<1> HIDE DEF place
<1>6. \A k \in 0 .. n - 1 : \E a \in S : place[a] = k
  <2>1. place \in Injection(S, 0 .. n - 1)
    BY <1>5 DEF Injection, IsInjective
  <2>2. IsFiniteSet(0 .. n - 1) /\ Cardinality(0 .. n - 1) = n
    <3>1. 0 \in Int /\ n - 1 \in Int
      BY <1>1
    <3>2. IsFiniteSet(0 .. n - 1) /\ Cardinality(0 .. n - 1) = IF 0 > n - 1 THEN 0 ELSE (n - 1) - 0 + 1
      BY <3>1, FS_Interval
    <3> QED BY <1>1, <3>2
  <2>3. place \in Surjection(S, 0 .. n - 1)
    BY <2>1, <2>2, FS_Injection
  <2> QED BY <2>3 DEF Surjection
<1>7. ASSUME NEW i \in 1 .. n PROVE s[i] \in S /\ place[s[i]] = i - 1
  <2>1. s[i] = CHOOSE a \in S : Cardinality(down(a)) = i - 1
    BY <1>7 DEF Sorted
  <2>2. \A a \in S : place[a] = Cardinality(down(a))
    BY DEF place
  <2>3. \E a \in S : place[a] = i - 1
    BY <1>1, <1>6
  <2> HIDE DEF s, down
  <2> QED BY <2>1, <2>2, <2>3
<1>8. s \in Seq(S) /\ Len(s) = n
  <2> DEFINE at(i) == CHOOSE a \in S : Cardinality(down(a)) = i - 1
  <2>1. s = [i \in 1 .. n |-> at(i)]
    BY DEF Sorted
  <2> HIDE DEF s, at
  <2> QED BY <1>1, <1>7, <2>1
<1> HIDE DEF s, down
<1>9. ASSUME NEW i \in 1 .. n, i > 1 PROVE s[i - 1].iter <= s[i].iter
  <2>1. i - 1 \in 1 .. n
    BY <1>1, <1>9
  <2>2. s[i] \in S /\ s[i - 1] \in S /\ place[s[i - 1]] = (i - 1) - 1 /\ place[s[i]] = i - 1
    BY <1>7, <2>1
  <2>3. ~Before(s[i], s[i - 1])
    BY <1>1, <1>3, <2>2
  <2> QED BY <2>2, <2>3 DEF Before
<1> QED
  BY <1>8, <1>9 DEF s

(* What a configuration asks for, in order.                                 *)
LEMMA InitialIsInOrder ==
  ASSUME NEW c \in Configuration
  PROVE  /\ Initial(c) \in Seq(Commands)
         /\ \A i \in 1 .. Len(Initial(c)) :
              /\ PlannedOnly(c, Initial(c)[i])
              /\ i > 1 => Initial(c)[i - 1].iter <= Initial(c)[i].iter
<1> DEFINE S == Asked(c)
           s == Initial(c)
<1>1. IsFiniteSet(S) /\ \A a \in S : PlannedOnly(c, a)
  BY AskedIsPlanned
<1>2. s = Sorted(S)
  BY DEF Initial, Asked
<1> HIDE DEF S, s
<1>3. \A a \in S : a \in Commands /\ a.iter \in Int /\ a.type \in Planned /\ Rank(a.type) \in Int
  BY <1>1, RanksDiffer DEF PlannedOnly
<1>4. ASSUME NEW a \in S, NEW b \in S, a.iter = b.iter, Rank(a.type) = Rank(b.type) PROVE a = b
  <2>1. a.type = b.type
    BY <1>3, <1>4, RanksDiffer
  <2>2. a.steps = b.steps /\ a \in Commands /\ b \in Commands
    BY <1>1, <2>1 DEF PlannedOnly
  <2> QED BY <1>4, <2>1, <2>2 DEF Commands
<1>5. /\ s \in Seq(S)
      /\ \A i \in 1 .. Len(s) : i > 1 => s[i - 1].iter <= s[i].iter
  BY <1>1, <1>2, <1>3, <1>4, SortedIsInOrder
<1>6. \A i \in 1 .. Len(s) : s[i] \in S
  BY <1>5
<1>7. s \in Seq(Commands)
  BY <1>3, <1>5, <1>6
<1> QED
  BY <1>1, <1>5, <1>6, <1>7 DEF s

-----------------------------------------------------------------------------
(***************************************************************************)
(* The pipeline                                                            *)
(***************************************************************************)
(* Commands that follow one another: each is triggered where the one before *)
(* ends.  A negative number of steps is left to a search that has converged *)
(* by then, with max iterations.                                            *)
Allowed(a, max) ==
    /\ a.type = "solve" => a.steps \in Nat \/ a.iter >= max
    /\ a.type = "profile" => a.steps \in Nat
    /\ a.type \notin {"solve", "profile"} => a.steps = 0

Follows(s, from, to, max) ==
    /\ s \in Seq(Commands)
    /\ s = << >> => from = to
    /\ s # << >> => s[1].iter = from /\ EndOf(s[Len(s)]) = to
    /\ \A i \in 1 .. Len(s) : i > 1 => s[i].iter = EndOf(s[i - 1])
    /\ \A i \in 1 .. Len(s) : Allowed(s[i], max)

(* A command alone follows from its trigger.                                *)
LEMMA FollowsOne ==
  ASSUME NEW a \in Commands, NEW max \in Int, Allowed(a, max)
  PROVE  Follows(<<a>>, a.iter, EndOf(a), max)
BY DEF Follows

(* A sequence goes on where the one before it ends.                         *)
LEMMA FollowsJoin ==
  ASSUME NEW s, NEW t, NEW x, NEW y, NEW z, NEW max \in Int,
         Follows(s, x, y, max), Follows(t, y, z, max)
  PROVE  Follows(s \o t, x, z, max)
<1> DEFINE u == s \o t
<1>1. /\ s \in Seq(Commands) /\ t \in Seq(Commands) /\ u \in Seq(Commands)
      /\ Len(s) \in Nat /\ Len(t) \in Nat /\ Len(u) = Len(s) + Len(t)
      /\ \A i \in 1 .. Len(s) : u[i] = s[i]
      /\ \A i \in 1 .. Len(u) : i > Len(s) => i - Len(s) \in 1 .. Len(t) /\ u[i] = t[i - Len(s)]
  BY DEF Follows
<1>2. /\ s = << >> => x = y
      /\ t = << >> => y = z
      /\ s # << >> => s[1].iter = x /\ EndOf(s[Len(s)]) = y
      /\ t # << >> => t[1].iter = y /\ EndOf(t[Len(t)]) = z
      /\ s = << >> <=> Len(s) = 0
      /\ t = << >> <=> Len(t) = 0
      /\ u = << >> <=> Len(u) = 0
  BY <1>1 DEF Follows
<1> HIDE DEF u
<1>3. u = << >> => x = z
  BY <1>1, <1>2
<1>4. ASSUME u # << >> PROVE u[1].iter = x /\ EndOf(u[Len(u)]) = z
  <2>1. CASE s = << >>
    <3>1. Len(s) = 0 /\ Len(t) >= 1 /\ t # << >>
      BY <1>1, <1>2, <1>4, <2>1
    <3>2. u[1] = t[1] /\ u[Len(u)] = t[Len(t)]
      BY <1>1, <3>1
    <3> QED BY <1>2, <2>1, <3>1, <3>2
  <2>2. CASE s # << >> /\ t = << >>
    <3>1. Len(t) = 0 /\ Len(s) >= 1
      BY <1>1, <1>2, <2>2
    <3>2. u[1] = s[1] /\ u[Len(u)] = s[Len(s)]
      BY <1>1, <3>1
    <3> QED BY <1>2, <2>2, <3>2
  <2>3. CASE s # << >> /\ t # << >>
    <3>1. Len(t) >= 1 /\ Len(s) >= 1
      BY <1>1, <1>2, <2>3
    <3>2. u[1] = s[1] /\ u[Len(u)] = t[Len(t)]
      BY <1>1, <3>1
    <3> QED BY <1>2, <2>3, <3>2
  <2> QED BY <2>1, <2>2, <2>3
<1>5. ASSUME NEW i \in 1 .. Len(u), i > 1 PROVE u[i].iter = EndOf(u[i - 1])
  <2>1. CASE i <= Len(s)
    <3>1. i \in 1 .. Len(s) /\ i - 1 \in 1 .. Len(s)
      BY <1>1, <1>5, <2>1
    <3>2. s[i].iter = EndOf(s[i - 1])
      BY <1>5, <3>1 DEF Follows
    <3> QED BY <1>1, <3>1, <3>2
  <2>2. CASE i = Len(s) + 1
    <3>1. Len(s) >= 1 /\ i - 1 = Len(s) /\ Len(t) >= 1 /\ i - Len(s) = 1
      BY <1>1, <1>5, <2>2
    <3>2. u[i] = t[1] /\ u[i - 1] = s[Len(s)]
      BY <1>1, <3>1, <2>2
    <3> QED BY <1>2, <3>1, <3>2
  <2>3. CASE i > Len(s) + 1
    <3> DEFINE j == i - Len(s)
    <3>1. j \in 1 .. Len(t) /\ j > 1 /\ j - 1 = (i - 1) - Len(s) /\ i - 1 \in 1 .. Len(u) /\ i - 1 > Len(s)
      BY <1>1, <2>3
    <3>2. u[i] = t[j] /\ u[i - 1] = t[j - 1]
      BY <1>1, <2>3, <3>1
    <3> HIDE DEF j
    <3>3. t[j].iter = EndOf(t[j - 1])
      BY <3>1 DEF Follows
    <3> QED BY <3>2, <3>3
  <2> QED BY <1>1, <2>1, <2>2, <2>3
<1>6. ASSUME NEW i \in 1 .. Len(u) PROVE Allowed(u[i], max)
  <2>1. CASE i <= Len(s)
    <3>1. i \in 1 .. Len(s)
      BY <1>1, <2>1
    <3> QED BY <1>1, <3>1 DEF Follows
  <2>2. CASE i > Len(s)
    <3>1. i - Len(s) \in 1 .. Len(t) /\ u[i] = t[i - Len(s)]
      BY <1>1, <2>2
    <3> QED BY <3>1 DEF Follows
  <2> QED BY <1>1, <2>1, <2>2
<1>7. Follows(u, x, z, max)
  BY <1>1, <1>3, <1>4, <1>5, <1>6 DEF Follows
<1> QED
  BY <1>7 DEF u

(* What is left once the first command is done.                             *)
LEMMA FollowsTail ==
  ASSUME NEW s, NEW x, NEW z, NEW max \in Int, Follows(s, x, z, max), s # << >>
  PROVE  /\ Head(s) \in Commands /\ Head(s).iter = x /\ Allowed(Head(s), max)
         /\ Follows(Tail(s), EndOf(Head(s)), z, max)
<1> DEFINE t == Tail(s)
<1>0. s \in Seq(Commands)
  BY DEF Follows
<1>1. /\ s \in Seq(Commands) /\ Len(s) \in Nat /\ Len(s) >= 1
      /\ t \in Seq(Commands) /\ Len(t) = Len(s) - 1
      /\ \A i \in 1 .. Len(t) : i + 1 \in 1 .. Len(s) /\ t[i] = s[i + 1]
      /\ Head(s) = s[1] /\ s[1] \in Commands
      /\ t = << >> <=> Len(t) = 0
  <2>1. Len(s) \in Nat /\ Len(s) >= 1
    BY <1>0
  <2>2. t \in Seq(Commands) /\ Len(t) = Len(s) - 1 /\ \A i \in 1 .. Len(t) : t[i] = s[i + 1]
    BY <1>0
  <2>3. Head(s) = s[1] /\ s[1] \in Commands
    BY <1>0, <2>1
  <2> HIDE DEF t
  <2>4. \A i \in 1 .. Len(t) : i + 1 \in 1 .. Len(s)
    BY <2>1, <2>2
  <2>5. t = << >> <=> Len(t) = 0
    BY <2>2
  <2> QED BY <1>0, <2>1, <2>2, <2>3, <2>4, <2>5
<1> HIDE DEF t
<1>2. Head(s).iter = x /\ Allowed(Head(s), max)
  <2>1. 1 \in 1 .. Len(s)
    BY <1>1
  <2> QED BY <1>1, <2>1 DEF Follows
<1>3. t = << >> => EndOf(s[1]) = z
  <2>1. t = << >> => Len(s) = 1
    BY <1>1
  <2> QED BY <2>1 DEF Follows
<1>4. ASSUME t # << >> PROVE t[1].iter = EndOf(s[1]) /\ EndOf(t[Len(t)]) = z
  <2>1. 1 \in 1 .. Len(t) /\ Len(t) \in 1 .. Len(t) /\ 2 \in 1 .. Len(s)
    BY <1>1, <1>4
  <2>2. t[1] = s[2] /\ t[Len(t)] = s[Len(s)]
    BY <1>1, <2>1
  <2> QED BY <1>1, <2>1, <2>2 DEF Follows
<1>5. ASSUME NEW i \in 1 .. Len(t), i > 1 PROVE t[i].iter = EndOf(t[i - 1])
  <2>1. i - 1 \in 1 .. Len(t) /\ i + 1 \in 1 .. Len(s) /\ i + 1 > 1 /\ (i + 1) - 1 = (i - 1) + 1
    BY <1>1, <1>5
  <2>2. t[i] = s[i + 1] /\ t[i - 1] = s[(i + 1) - 1]
    BY <1>1, <2>1
  <2>3. s[i + 1].iter = EndOf(s[(i + 1) - 1])
    BY <2>1 DEF Follows
  <2> QED BY <2>2, <2>3
<1>6. \A i \in 1 .. Len(t) : Allowed(t[i], max)
  BY <1>1 DEF Follows
<1>7. Follows(t, EndOf(Head(s)), z, max)
  BY <1>1, <1>3, <1>4, <1>5, <1>6 DEF Follows
<1> QED
  BY <1>1, <1>2, <1>7 DEF t

(* The commands of a configuration in order, and the solving before each.   *)
InOrder(c, s) ==
    /\ s \in Seq(Commands)
    /\ \A i \in 1 .. Len(s) :
         /\ PlannedOnly(c, s[i])
         /\ i > 1 => s[i - 1].iter <= s[i].iter

From(s, i) == IF i = 1 THEN 0 ELSE s[i - 1].iter

Piece(s, i) ==
    (IF s[i].iter > From(s, i) THEN <<Command(From(s, i), "solve", s[i].iter - From(s, i))>> ELSE <<>>)
    \o <<s[i]>>

Pieces(s, k) == [i \in 1 .. k |-> Piece(s, i)]

(* A record, and the solve that leads to it, follow from the one before.    *)
LEMMA PieceFollows ==
  ASSUME NEW c \in Configuration, NEW s, InOrder(c, s), NEW max \in Int, NEW i \in 1 .. Len(s)
  PROVE  Follows(Piece(s, i), From(s, i), s[i].iter, max)
<1> DEFINE a == s[i]
           x == From(s, i)
           b == Command(x, "solve", a.iter - x)
<1>1. /\ a \in Commands /\ a.iter \in Nat /\ a.type \in Planned
      /\ a.steps = IF a.type = "profile" THEN c.profSteps ELSE 0
      /\ c.profSteps \in Nat
  BY DEF InOrder, PlannedOnly, Configuration
<1>2. x \in Nat /\ x <= a.iter
  <2>1. CASE i = 1
    BY <1>1, <2>1 DEF From
  <2>2. CASE i # 1
    <3>1. Len(s) \in Nat
      BY DEF InOrder
    <3>2. i > 1 /\ i - 1 \in 1 .. Len(s)
      BY <2>2, <3>1
    <3>3. s[i - 1].iter \in Nat /\ s[i - 1].iter <= s[i].iter
      BY <3>2 DEF InOrder, PlannedOnly
    <3> QED BY <2>2, <3>3 DEF From
  <2> QED BY <2>1, <2>2
<1> HIDE DEF a, x
<1>3. EndOf(a) = a.iter /\ Allowed(a, max)
  BY <1>1 DEF EndOf, Allowed
<1>4. Follows(<<a>>, a.iter, a.iter, max)
  BY <1>1, <1>3, FollowsOne
<1>5. ASSUME a.iter > x PROVE Follows(<<b>> \o <<a>>, x, a.iter, max)
  <2>1. b \in Commands /\ b.iter = x /\ b.type = "solve" /\ b.steps = a.iter - x
    BY <1>1, <1>2 DEF Command, Commands
  <2>2. b.steps \in Nat
    BY <1>1, <1>2, <1>5, <2>1
  <2>3. EndOf(b) = a.iter /\ Allowed(b, max)
    BY <1>1, <1>2, <2>1, <2>2 DEF EndOf, Allowed
  <2> HIDE DEF b
  <2>4. Follows(<<b>>, b.iter, EndOf(b), max)
    BY <2>1, <2>3, FollowsOne
  <2>5. Follows(<<b>>, x, a.iter, max)
    BY <2>1, <2>3, <2>4
  <2> QED BY <1>4, <2>5, FollowsJoin
<1>6. ASSUME ~(a.iter > x) PROVE Follows(<< >> \o <<a>>, x, a.iter, max)
  <2>1. x = a.iter
    BY <1>1, <1>2, <1>6
  <2>2. << >> \o <<a>> = <<a>>
    OBVIOUS
  <2> QED BY <1>4, <2>1, <2>2
<1>7. Piece(s, i) = (IF a.iter > x THEN <<b>> ELSE << >>) \o <<a>>
  BY DEF Piece, a, x
<1>8. Follows(Piece(s, i), x, a.iter, max)
  <2> HIDE DEF b
  <2> QED BY <1>5, <1>6, <1>7
<1> QED
  BY <1>8 DEF a, x

(* One command after the other.                                             *)
LEMMA PiecesFollow ==
  ASSUME NEW c \in Configuration, NEW s, InOrder(c, s), NEW max \in Int, NEW n \in 1 .. Len(s)
  PROVE  Follows(Whole!Scan(Pieces(s, n)), 0, s[n].iter, max)
<1> DEFINE R == {k \in Nat : k + 1 <= Len(s) =>
                   Follows(Whole!Scan(Pieces(s, k + 1)), 0, s[k + 1].iter, max)}
<1>1. Len(s) \in Nat
  BY DEF InOrder
<1>2. \A i \in 1 .. Len(s) : Follows(Piece(s, i), From(s, i), s[i].iter, max) /\ Piece(s, i) \in Seq(Commands)
  BY PieceFollows DEF Follows
<1>3. \A k \in 1 .. Len(s) : Pieces(s, k) \in Seq(Seq(Commands)) /\ Len(Pieces(s, k)) = k
  <2> SUFFICES ASSUME NEW k \in 1 .. Len(s)
               PROVE  Pieces(s, k) \in Seq(Seq(Commands)) /\ Len(Pieces(s, k)) = k
    OBVIOUS
  <2>1. \A i \in 1 .. k : Piece(s, i) \in Seq(Commands)
    BY <1>1, <1>2
  <2> QED BY <1>1, <2>1 DEF Pieces
<1>4. 0 \in R
  <2> SUFFICES ASSUME 1 <= Len(s) PROVE Follows(Whole!Scan(Pieces(s, 1)), 0, s[1].iter, max)
    OBVIOUS
  <2>1. 1 \in 1 .. Len(s)
    BY <1>1
  <2>2. Whole!Scan(Pieces(s, 1)) = Pieces(s, 1)[1]
    BY <1>3, <2>1, Whole!ScanOne
  <2>3. Pieces(s, 1)[1] = Piece(s, 1)
    BY DEF Pieces
  <2> QED BY <1>2, <2>1, <2>2, <2>3 DEF From
<1>5. ASSUME NEW k \in Nat, k \in R PROVE k + 1 \in R
  <2> DEFINE m == k + 1
             p == Pieces(s, m)
  <2> SUFFICES ASSUME m + 1 <= Len(s)
               PROVE  Follows(Whole!Scan(Pieces(s, m + 1)), 0, s[m + 1].iter, max)
    BY <1>5
  <2>1. m \in 1 .. Len(s) /\ m + 1 \in 1 .. Len(s) /\ m \in Nat /\ (m + 1) - 1 = m /\ m + 1 # 1
    BY <1>1, <1>5
  <2>2. Follows(Whole!Scan(p), 0, s[m].iter, max)
    BY <1>1, <1>5, <2>1
  <2> HIDE DEF m
  <2>3. p \in Seq(Seq(Commands)) /\ Len(p) = m /\ Pieces(s, m + 1) \in Seq(Seq(Commands))
    BY <1>3, <2>1
  <2>4. Pieces(s, m + 1) = Append(p, Piece(s, m + 1))
    <3>1. \A i \in 1 .. m + 1 : Append(p, Piece(s, m + 1))[i] = Piece(s, i)
      <4> SUFFICES ASSUME NEW i \in 1 .. m + 1 PROVE Append(p, Piece(s, m + 1))[i] = Piece(s, i)
        OBVIOUS
      <4>1. CASE i = m + 1
        BY <2>3, <4>1
      <4>2. CASE i # m + 1
        <5>1. i \in 1 .. m
          BY <2>1, <4>2
        <5>2. p[i] = Piece(s, i)
          BY <5>1 DEF Pieces
        <5> HIDE DEF p
        <5> QED BY <2>3, <5>1, <5>2
      <4> QED BY <4>1, <4>2
    <3>2. Append(p, Piece(s, m + 1)) = [i \in 1 .. m + 1 |-> Append(p, Piece(s, m + 1))[i]]
      <4> HIDE DEF p
      <4> QED BY <2>1, <2>3
    <3> HIDE DEF p
    <3> QED BY <3>1, <3>2 DEF Pieces
  <2>5. p # << >>
    BY <2>1, <2>3
  <2>6. Piece(s, m + 1) \in Seq(Commands) /\ Follows(Piece(s, m + 1), s[m].iter, s[m + 1].iter, max)
    BY <1>2, <2>1 DEF From
  <2> HIDE DEF p
  <2>7. Whole!Scan(Append(p, Piece(s, m + 1))) = Whole!Scan(p) \o Piece(s, m + 1)
    BY <2>3, <2>5, <2>6, Whole!ScanAppend DEF Concat
  <2> QED BY <2>2, <2>4, <2>6, <2>7, FollowsJoin
<1> HIDE DEF R
<1>6. n - 1 \in Nat /\ n - 1 \in R
  <2>1. Nat \subseteq R
    BY <1>4, <1>5, Induction
  <2> QED BY <1>1, <2>1
<1>7. (n - 1) + 1 = n /\ n <= Len(s)
  BY <1>1
<1> QED
  BY <1>6, <1>7 DEF R

(* The commands of a search follow one another from iteration 0 to the last *)
(* one of the configuration: what the code checks when built for developers *)
(* (cfr.cpp, "command pipeline error").                                     *)
THEOREM PipelineFollows ==
  ASSUME NEW c \in Configuration
  PROVE  Follows(BuildCMDPipeline(c), 0, c.maxIter, c.maxIter)
<1> DEFINE i == Initial(c)
           s == WithSolves(i)
           max == c.maxIter
           t == IF s = << >> THEN <<Command(0, "solve", max)>> ELSE s
           e == EndOf(Last(t))
           b == Command(e, "solve", max - e)
<1>1. InOrder(c, i) /\ max \in Nat
  BY InitialIsInOrder DEF InOrder, Configuration
<1>2. Len(i) \in Nat /\ DOMAIN i = 1 .. Len(i) /\ i \in Seq(Commands)
  BY <1>1 DEF InOrder
<1>3. s = FlattenSeq(Pieces(i, Len(i)))
  BY <1>2 DEF WithSolves, Pieces, Piece, From
<1> HIDE DEF i, max
<1>4. ASSUME i # << >> PROVE \E z \in Int : Follows(s, 0, z, max)
  <2>1. Len(i) # 0 /\ Len(i) \in 1 .. Len(i)
    BY <1>2, <1>4
  <2>2. Len(Pieces(i, Len(i))) = Len(i)
    BY <1>2 DEF Pieces
  <2>3. s = Whole!Scan(Pieces(i, Len(i)))
    <3> DEFINE ss == Pieces(i, Len(i))
    <3>1. Len(ss) # 0 /\ s = FlattenSeq(ss)
      BY <1>3, <2>1, <2>2
    <3> HIDE DEF ss, s
    <3>2. FlattenSeq(ss) = Whole!Scan(ss)
      BY <3>1 DEF FlattenSeq, Whole!Scan, Whole!ScanFun, Concat
    <3> QED BY <3>1, <3>2 DEF ss
  <2>4. i[Len(i)].iter \in Int
    <3>1. i[Len(i)] \in Commands
      BY <1>2, <2>1
    <3> QED BY <3>1 DEF Commands
  <2> QED BY <1>1, <2>1, <2>3, <2>4, PiecesFollow
<1>5. ASSUME i = << >> PROVE s = << >>
  <2>1. Len(i) = 0
    BY <1>5
  <2>2. Pieces(i, Len(i)) = << >>
    BY <2>1 DEF Pieces
  <2>3. FlattenSeq(<< >>) = << >>
    BY DEF FlattenSeq
  <2> QED BY <1>3, <2>2, <2>3
<1> HIDE DEF s
<1>6. e \in Int /\ t # << >> /\ Follows(t, 0, e, max)
  <2>1. CASE s = << >>
    <3> DEFINE a == Command(0, "solve", max)
    <3>1. a \in Commands /\ a.iter = 0 /\ EndOf(a) = max /\ Allowed(a, max)
      BY <1>1 DEF Command, Commands, EndOf, Allowed
    <3> HIDE DEF a
    <3>2. Follows(<<a>>, 0, max, max)
      BY <1>1, <3>1, FollowsOne
    <3>3. Last(<<a>>) = a
      BY DEF Last
    <3>4. t = <<a>>
      BY <2>1 DEF a
    <3> HIDE DEF t
    <3> QED BY <1>1, <3>1, <3>2, <3>3, <3>4
  <2>2. CASE s # << >>
    <3>1. PICK z \in Int : Follows(s, 0, z, max)
      BY <1>4, <1>5, <2>2
    <3>2. EndOf(Last(s)) = z
      BY <2>2, <3>1 DEF Follows, Last
    <3>3. t = s
      BY <2>2
    <3> HIDE DEF t
    <3> QED BY <2>2, <3>1, <3>2, <3>3
  <2> QED BY <2>1, <2>2
<1>7. BuildCMDPipeline(c) = IF e = max THEN t ELSE Append(t, b)
  BY DEF BuildCMDPipeline, s, i, max
<1> HIDE DEF t, e
<1>8. ASSUME e # max PROVE Follows(Append(t, b), 0, max, max)
  <2>1. b \in Commands /\ b.iter = e /\ EndOf(b) = max
    BY <1>1, <1>6 DEF Command, Commands, EndOf
  <2>2. Allowed(b, max)
    <3>1. b.type = "solve" /\ b.steps = max - e /\ b.iter = e
      BY DEF Command
    <3> HIDE DEF b
    <3> QED BY <1>1, <1>6, <3>1 DEF Allowed
  <2> HIDE DEF b
  <2>3. Follows(<<b>>, e, max, max)
    BY <1>1, <2>1, <2>2, FollowsOne
  <2>4. Append(t, b) = t \o <<b>>
    BY <1>6, <2>1 DEF Follows
  <2> QED BY <1>1, <1>6, <2>3, <2>4, FollowsJoin
<1> HIDE DEF b
<1> QED
  BY <1>6, <1>7, <1>8 DEF max

-----------------------------------------------------------------------------
(***************************************************************************)
(* The iterations of a command, split over the threads                     *)
(***************************************************************************)
(* Division with a remainder.                                               *)
LEMMA Quotient ==
  ASSUME NEW a \in Nat, NEW n \in Nat \ {0}
  PROVE  /\ a \div n \in Nat
         /\ (a \div n) * n <= a
         /\ a < (a \div n) * n + n
OBVIOUS

(* A sum changes as one of its summands does.                               *)
LEMMA OneChanges ==
  ASSUME NEW S, IsFiniteSet(S), NEW f \in [S -> Int], NEW t \in S, NEW d \in Int,
         NEW g \in [S -> Int], g[t] = f[t] + d, \A x \in S \ {t} : g[x] = f[x]
  PROVE  Total(g, S) = Total(f, S) + d /\ Total(f, S) \in Int
<1>1. (\A x \in S : f[x] \in Int) /\ (\A x \in S : g[x] \in Int)
  OBVIOUS
<1>2. IsFiniteSet(S \ {t})
  BY FS_RemoveElement
<1>3. Total(f, S) = f[t] + Total(f, S \ {t})
  BY <1>1, TotalRemove
<1>4. Total(g, S) = g[t] + Total(g, S \ {t})
  BY <1>1, TotalRemove
<1>5. Total(g, S \ {t}) = Total(f, S \ {t}) /\ Total(f, S \ {t}) \in Int
  BY <1>1, <1>2, TotalAgrees, TotalIsInt
<1>6. f[t] \in Int
  OBVIOUS
<1> QED
  BY <1>3, <1>4, <1>5, <1>6

(* The shares of the threads are natural numbers that add up to the steps   *)
(* of the command.                                                          *)
LEMMA SharesAddUp ==
  ASSUME NEW steps \in Nat, NEW n \in Nat \ {0},
         NEW f, f = [t \in 0 .. n - 1 |-> Share(steps, n, t)]
  PROVE  f \in [0 .. n - 1 -> Nat] /\ Total(f, 0 .. n - 1) = steps
<1> DEFINE S == 0 .. n - 1
           q == steps \div n
<1>1. q \in Nat /\ q * n <= steps
  BY Quotient
<1>2. IsFiniteSet(S) /\ Cardinality(S) = n /\ n - 1 \in S
  <2>1. 0 \in Int /\ n - 1 \in Int
    OBVIOUS
  <2>2. IsFiniteSet(S) /\ Cardinality(S) = IF 0 > n - 1 THEN 0 ELSE (n - 1) - 0 + 1
    BY <2>1, FS_Interval
  <2> QED BY <2>2
<1>3. /\ f[n - 1] = steps - q * (n - 1)
      /\ \A t \in S \ {n - 1} : f[t] = q
  BY DEF Share
<1> HIDE DEF q
<1>4. q * (n - 1) = q * n - q /\ q * n \in Nat
  BY <1>1
<1>5. f[n - 1] \in Nat
  BY <1>1, <1>3, <1>4
<1>6. \A t \in S : f[t] \in Nat /\ f[t] \in Int
  BY <1>1, <1>3, <1>5
<1>7. f \in [S -> Nat]
  BY <1>6
<1> HIDE DEF S
<1>8. IsFiniteSet(S \ {n - 1}) /\ Cardinality(S \ {n - 1}) = n - 1
  BY <1>2, FS_RemoveElement
<1>9. Total(f, S) = f[n - 1] + Total(f, S \ {n - 1})
  <2>1. \A t \in S : f[t] \in Int
    BY <1>6
  <2> QED BY <1>2, <2>1, TotalRemove
<1>10. Total(f, S \ {n - 1}) = q * (n - 1)
  <2>1. q \in Int /\ \A t \in S \ {n - 1} : f[t] = q
    BY <1>1, <1>3
  <2>2. Total(f, S \ {n - 1}) = q * Cardinality(S \ {n - 1})
    BY <1>8, <2>1, TotalConstant
  <2> QED BY <1>8, <2>2
<1>11. Total(f, S) = steps
  BY <1>1, <1>3, <1>4, <1>9, <1>10
<1> QED
  BY <1>7, <1>11 DEF S

-----------------------------------------------------------------------------
(***************************************************************************)
(* The search                                                              *)
(***************************************************************************)
(* As long as it is not cancelled the state of Solve is a place in its      *)
(* pipeline: the commands left follow from the iteration it is at, which    *)
(* is the number of iterations run.  While threads run it is ahead by what  *)
(* they have done.                                                          *)
LastIteration == config.maxIter

Shared == \E n \in Nat \ {0} : left \in [0 .. n - 1 -> Nat]

AtCommands  == done = iteration /\ Follows(commands, iteration, LastIteration, LastIteration)

AtIterations ==
    /\ commands # << >> /\ Follows(commands, iteration, LastIteration, LastIteration)
    /\ Shared
    /\ Current.type = (IF pc = "solving" THEN "solve" ELSE "profile")
    /\ pc = "profiling" => done = iteration
    /\ pc = "solving" => done + Total(left, DOMAIN left) = iteration + Current.steps

PlaceInv ==
    ~cancelled =>
        /\ pc = "commands" => AtCommands
        /\ pc \in {"solving", "profiling"} => AtIterations
        /\ pc = "stop" => done >= LastIteration

CodeInv ==
    /\ code = 0 \/ pc = "returned"
    /\ code # THROWN
    /\ code \in {ALL_COMMANDS, EARLY} => done >= LastIteration

SearchTypes ==
    /\ config \in Configuration
    /\ pc \in {"commands", "solving", "profiling", "stop", "returned"}
    /\ iteration \in Int /\ done \in Int
    /\ cancelled \in BOOLEAN

SearchInv == SearchTypes /\ PlaceInv /\ CodeInv /\ CommandsRunOnTime

(* The first command is due when no iteration is done.                      *)
LEMMA SearchInitially == Init => SearchInv
<1> SUFFICES ASSUME Init PROVE SearchInv
  OBVIOUS
<1>0. /\ config \in Configs /\ commands = BuildCMDPipeline(config)
      /\ pc = "commands" /\ iteration = 0 /\ done = 0 /\ code = 0 /\ ran = {} /\ cancelled = FALSE
  BY DEF Init
<1>1. config \in Configuration
  BY <1>0, SolverAssumption DEF SolverAssumption
<1>2. AtCommands
  BY <1>0, <1>1, PipelineFollows DEF AtCommands, LastIteration
<1>3. SearchTypes
  <2>1. cancelled \in BOOLEAN
    BY <1>0
  <2>2. iteration \in Int /\ done \in Int /\ pc \in {"commands", "solving", "profiling", "stop", "returned"}
    BY <1>0
  <2> QED BY <1>1, <2>1, <2>2 DEF SearchTypes
<1>4. PlaceInv
  BY <1>0, <1>2 DEF PlaceInv
<1>5. CodeInv
  BY <1>0 DEF CodeInv, THROWN, ALL_COMMANDS, EARLY
<1>6. CommandsRunOnTime
  BY <1>0 DEF CommandsRunOnTime
<1> QED
  BY <1>3, <1>4, <1>5, <1>6 DEF SearchInv

(* At a command that is about to run.                                       *)
LEMMA AtCurrent ==
  ASSUME SearchInv, Going
  PROVE  /\ done = iteration /\ Current.iter = done /\ Current \in Commands
         /\ Allowed(Current, LastIteration) /\ Follows(commands, iteration, LastIteration, LastIteration)
         /\ Follows(Tail(commands), EndOf(Current), LastIteration, LastIteration)
         /\ LastIteration \in Nat /\ commands # << >> /\ pc = "commands" /\ ~cancelled /\ code = 0
<1>1. AtCommands /\ commands # << >> /\ pc = "commands" /\ ~cancelled /\ code = 0 /\ LastIteration \in Nat
  BY DEF SearchInv, SearchTypes, PlaceInv, CodeInv, Going, LastIteration, Configuration
<1> QED
  BY <1>1, FollowsTail DEF AtCommands, Current

(* What runs when it is due has run on time.                                *)
LEMMA RecordIsOnTime ==
  ASSUME CommandsRunOnTime, Current.iter = done, Record
  PROVE  CommandsRunOnTime'
<1>1. \A r \in ran' : r \in ran \/ r = [cmd |-> Current, done |-> done]
  BY DEF Record
<1> QED
  BY <1>1 DEF CommandsRunOnTime

(* The threads of a command are launched.                                   *)
LEMMA LaunchShares ==
  ASSUME SearchTypes, NEW steps \in Nat, NEW to, Launch(to, steps)
  PROVE  Shared' /\ (Total(left, DOMAIN left) = steps)' /\ pc' = to /\ code' = code
<1> DEFINE n == Effective(steps)
<1>1. n \in Nat \ {0}
  BY DEF SearchTypes, Configuration, Effective
<1>2. /\ left' = [t \in 0 .. n - 1 |-> Share(steps, n, t)]
      /\ pc' = to /\ code' = code
  BY DEF Launch
<1> HIDE DEF n
<1>3. left' \in [0 .. n - 1 -> Nat] /\ Total(left', 0 .. n - 1) = steps
  BY <1>1, <1>2, SharesAddUp
<1>4. DOMAIN left' = 0 .. n - 1
  BY <1>2
<1> QED
  BY <1>1, <1>2, <1>3, <1>4 DEF Shared

(* One lemma per step of the search.                                        *)
LEMMA SolvingKeeps ==
  ASSUME SearchInv, CmdSolve
  PROVE  SearchInv'
<1>1. /\ Going /\ Current.type = "solve"
      /\ config' = config /\ commands' = commands /\ iteration' = iteration
      /\ cancelled' = cancelled /\ done' = done
  BY DEF CmdSolve, Is
<1>2. /\ done = iteration /\ Current.iter = done /\ Current \in Commands
      /\ Allowed(Current, LastIteration) /\ Follows(commands, iteration, LastIteration, LastIteration)
      /\ LastIteration \in Nat /\ commands # << >> /\ code = 0
  BY <1>1, AtCurrent
<1>3. SearchTypes /\ CommandsRunOnTime /\ done \in Int
  BY DEF SearchInv, SearchTypes
<1>4. LastIteration' = LastIteration /\ Current' = Current
  BY <1>1 DEF LastIteration, Current
<1>5. CASE Converged
  <2>1. pc' = "stop" /\ code' = code /\ ran' = ran
    BY <1>5 DEF CmdSolve
  <2>2. done >= LastIteration
    BY <1>2, <1>5 DEF Converged, LastIteration
  <2>3. SearchTypes'
    BY <1>1, <1>3, <2>1 DEF SearchTypes
  <2>4. PlaceInv'
    BY <1>1, <1>4, <2>1, <2>2 DEF PlaceInv
  <2>5. CodeInv'
    BY <1>2, <2>1 DEF CodeInv, THROWN, ALL_COMMANDS, EARLY
  <2>6. CommandsRunOnTime'
    BY <1>3, <2>1 DEF CommandsRunOnTime
  <2> QED BY <2>3, <2>4, <2>5, <2>6 DEF SearchInv
<1>6. CASE ~Converged
  <2>1. Launch("solving", Current.steps) /\ Record
    BY <1>6 DEF CmdSolve
  <2>2. Current.steps \in Nat
    BY <1>1, <1>2, <1>3, <1>6 DEF Allowed, Converged, LastIteration
  <2>3. Shared' /\ (Total(left, DOMAIN left))' = Current.steps /\ pc' = "solving" /\ code' = code
    BY <1>3, <2>1, <2>2, LaunchShares
  <2>4. SearchTypes'
    BY <1>1, <1>3, <2>3 DEF SearchTypes
  <2>5. AtIterations'
    BY <1>1, <1>2, <1>4, <2>3 DEF AtIterations
  <2>6. PlaceInv'
    BY <2>3, <2>5 DEF PlaceInv
  <2>7. CodeInv'
    BY <1>2, <2>3 DEF CodeInv, THROWN, ALL_COMMANDS, EARLY
  <2>8. CommandsRunOnTime'
    BY <1>2, <1>3, <2>1, RecordIsOnTime
  <2> QED BY <2>4, <2>6, <2>7, <2>8 DEF SearchInv
<1> QED
  BY <1>5, <1>6

(* Profiling runs iterations that are not counted.                          *)
LEMMA ProfilingKeeps ==
  ASSUME SearchInv, CmdProfile
  PROVE  SearchInv'
<1>1. /\ Going /\ Current.type = "profile"
      /\ config' = config /\ commands' = commands /\ iteration' = iteration
      /\ cancelled' = cancelled /\ done' = done
      /\ Launch("profiling", Current.steps) /\ Record
  BY DEF CmdProfile, Is
<1>2. /\ done = iteration /\ Current.iter = done /\ Current \in Commands
      /\ Allowed(Current, LastIteration) /\ Follows(commands, iteration, LastIteration, LastIteration)
      /\ LastIteration \in Nat /\ commands # << >> /\ code = 0
  BY <1>1, AtCurrent
<1>3. SearchTypes /\ CommandsRunOnTime
  BY DEF SearchInv
<1>4. LastIteration' = LastIteration /\ Current' = Current
  BY <1>1 DEF LastIteration, Current
<1>5. Current.steps \in Nat
  BY <1>1, <1>2 DEF Allowed
<1>6. Shared' /\ pc' = "profiling" /\ code' = code
  BY <1>1, <1>3, <1>5, LaunchShares
<1>7. SearchTypes'
  BY <1>1, <1>3, <1>6 DEF SearchTypes
<1>8. AtIterations'
  BY <1>1, <1>2, <1>4, <1>6 DEF AtIterations
<1>9. PlaceInv'
  BY <1>6, <1>8 DEF PlaceInv
<1>10. CodeInv'
  BY <1>2, <1>6 DEF CodeInv, THROWN, ALL_COMMANDS, EARLY
<1>11. CommandsRunOnTime'
  BY <1>1, <1>2, <1>3, RecordIsOnTime
<1> QED
  BY <1>7, <1>9, <1>10, <1>11 DEF SearchInv

(* A command without iterations: the next one is due now.                   *)
LEMMA OtherCommandsKeep ==
  ASSUME SearchInv, CmdOther
  PROVE  SearchInv'
<1>1. /\ Going /\ Current.type # "solve"
      /\ config' = config /\ commands' = Tail(commands) /\ iteration' = iteration /\ pc' = pc
      /\ cancelled' = cancelled /\ done' = done /\ code' = code
      /\ Record
  BY DEF CmdOther, Is
<1>2. /\ done = iteration /\ Current.iter = done /\ Current \in Commands
      /\ Allowed(Current, LastIteration)
      /\ Follows(Tail(commands), EndOf(Current), LastIteration, LastIteration)
      /\ pc = "commands" /\ code = 0
  BY <1>1, AtCurrent
<1>3. SearchTypes /\ CommandsRunOnTime
  BY DEF SearchInv
<1>4. LastIteration' = LastIteration
  BY <1>1 DEF LastIteration
<1>5. EndOf(Current) = iteration
  BY <1>1, <1>2 DEF EndOf, Allowed, Commands
<1>6. SearchTypes'
  BY <1>1, <1>3 DEF SearchTypes
<1>7. AtCommands'
  BY <1>1, <1>2, <1>4, <1>5 DEF AtCommands
<1>8. PlaceInv'
  BY <1>1, <1>2, <1>7 DEF PlaceInv
<1>9. CodeInv'
  BY <1>1, <1>2 DEF CodeInv, THROWN, ALL_COMMANDS, EARLY
<1>10. CommandsRunOnTime'
  BY <1>1, <1>2, <1>3, RecordIsOnTime
<1> QED
  BY <1>6, <1>8, <1>9, <1>10 DEF SearchInv

(* An iteration moves one from a thread's share to those done.              *)
LEMMA IteratingKeeps ==
  ASSUME SearchInv, NEW t, Iterate(t)
  PROVE  SearchInv'
<1>1. /\ pc \in {"solving", "profiling"} /\ t \in DOMAIN left /\ left[t] # 0 /\ ~cancelled
      /\ left' = [left EXCEPT ![t] = @ - 1]
      /\ done' = IF pc = "solving" THEN done + 1 ELSE done
      /\ config' = config /\ commands' = commands /\ iteration' = iteration /\ pc' = pc
      /\ cancelled' = cancelled /\ code' = code /\ ran' = ran
  BY DEF Iterate
<1>2. SearchTypes /\ CommandsRunOnTime /\ AtIterations /\ code = 0 /\ done \in Int /\ iteration \in Int
  BY <1>1 DEF SearchInv, SearchTypes, PlaceInv, CodeInv
<1>3. PICK n \in Nat \ {0} : left \in [0 .. n - 1 -> Nat]
  BY <1>2 DEF AtIterations, Shared
<1> DEFINE S == 0 .. n - 1
<1>4. /\ left' \in [S -> Nat]
      /\ DOMAIN left = S /\ DOMAIN left' = S
      /\ Total(left', S) = Total(left, S) - 1 /\ Total(left, S) \in Int
  <2>1. IsFiniteSet(S)
    <3>1. 0 \in Int /\ n - 1 \in Int
      BY <1>3
    <3> QED BY <3>1, FS_Interval
  <2> HIDE DEF S
  <2>2. t \in S /\ left \in [S -> Int] /\ left' \in [S -> Nat] /\ DOMAIN left' = S
    BY <1>1, <1>3 DEF S
  <2>3. left' \in [S -> Int] /\ left'[t] = left[t] + (-1) /\ \A x \in S \ {t} : left'[x] = left[x]
    BY <1>1, <2>2
  <2>4. Total(left', S) = Total(left, S) + (-1) /\ Total(left, S) \in Int
    BY <2>1, <2>2, <2>3, OneChanges
  <2> QED BY <2>2, <2>4
<1>5. Shared'
  BY <1>3, <1>4 DEF Shared
<1>6. LastIteration' = LastIteration /\ Current' = Current
  BY <1>1 DEF LastIteration, Current
<1>7. SearchTypes'
  BY <1>1, <1>2 DEF SearchTypes
<1>8. AtIterations'
  <2>1. ASSUME pc = "solving"
        PROVE  done' + Total(left', DOMAIN left') = iteration + Current.steps
    <3>1. done + Total(left, S) = iteration + Current.steps
      BY <1>2, <1>4, <2>1 DEF AtIterations
    <3>2. done' = done + 1
      BY <1>1, <2>1
    <3> HIDE DEF S
    <3> QED BY <1>2, <1>4, <3>1, <3>2
  <2> QED BY <1>1, <1>2, <1>5, <1>6, <2>1 DEF AtIterations
<1>9. PlaceInv'
  BY <1>1, <1>8 DEF PlaceInv
<1>10. CodeInv'
  BY <1>1, <1>2 DEF CodeInv, THROWN, ALL_COMMANDS, EARLY
<1>11. CommandsRunOnTime'
  BY <1>1, <1>2 DEF CommandsRunOnTime
<1> QED
  BY <1>7, <1>9, <1>10, <1>11 DEF SearchInv

(* When all threads have come to their end nothing of the command is left.  *)
LEMMA JoiningKeeps ==
  ASSUME SearchInv, Join
  PROVE  SearchInv'
<1>1. /\ pc \in {"solving", "profiling"} /\ \A t \in DOMAIN left : left[t] = 0 \/ cancelled
      /\ iteration' = IF pc = "solving" /\ ~cancelled THEN iteration + Current.steps ELSE iteration
      /\ pc' = "commands" /\ commands' = Tail(commands)
      /\ config' = config /\ done' = done /\ cancelled' = cancelled /\ code' = code /\ ran' = ran
  BY DEF Join
<1>2. SearchTypes /\ CommandsRunOnTime /\ code = 0 /\ done \in Int /\ iteration \in Int
  BY <1>1 DEF SearchInv, SearchTypes, CodeInv
<1>3. CodeInv'
  BY <1>1, <1>2 DEF CodeInv, THROWN, ALL_COMMANDS, EARLY
<1>4. CommandsRunOnTime'
  BY <1>1, <1>2 DEF CommandsRunOnTime
<1>5. CASE cancelled
  <2>1. SearchTypes'
    BY <1>1, <1>2, <1>5 DEF SearchTypes
  <2>2. PlaceInv'
    BY <1>1, <1>5 DEF PlaceInv
  <2> QED BY <1>3, <1>4, <2>1, <2>2 DEF SearchInv
<1>6. CASE ~cancelled
  <2>1. AtIterations
    BY <1>1, <1>6 DEF SearchInv, PlaceInv
  <2>2. LastIteration \in Int /\ LastIteration' = LastIteration
    BY <1>1, <1>2 DEF SearchTypes, Configuration, LastIteration
  <2>3. /\ Current \in Commands /\ Current.iter = iteration
        /\ Follows(Tail(commands), EndOf(Current), LastIteration, LastIteration)
    BY <2>1, <2>2, FollowsTail DEF AtIterations, Current
  <2>4. iteration' = EndOf(Current) /\ iteration' \in Int
    BY <1>1, <1>2, <1>6, <2>1, <2>3 DEF AtIterations, EndOf, Commands
  <2>5. done = iteration'
    <3>1. CASE pc = "profiling"
      BY <1>1, <2>1, <3>1 DEF AtIterations
    <3>2. CASE pc = "solving"
      <4>1. PICK n \in Nat \ {0} : left \in [0 .. n - 1 -> Nat]
        BY <2>1 DEF AtIterations, Shared
      <4> DEFINE S == 0 .. n - 1
      <4>2. IsFiniteSet(S) /\ DOMAIN left = S
        <5>1. 0 \in Int /\ n - 1 \in Int
          BY <4>1
        <5> QED BY <4>1, <5>1, FS_Interval
      <4> HIDE DEF S
      <4>3. \A t \in S : left[t] = 0
        BY <1>1, <1>6, <4>2
      <4>4. Total(left, S) = 0
        <5>1. Total(left, S) = 0 * Cardinality(S) /\ Cardinality(S) \in Nat
          BY <4>2, <4>3, TotalConstant, FS_CardinalityType
        <5> QED BY <5>1
      <4> QED BY <1>1, <1>2, <1>6, <2>1, <3>2, <4>2, <4>4 DEF AtIterations
    <3> QED BY <1>1, <3>1, <3>2
  <2>6. AtCommands'
    BY <1>1, <2>2, <2>3, <2>4, <2>5 DEF AtCommands
  <2>7. PlaceInv'
    BY <1>1, <2>6 DEF PlaceInv
  <2>8. SearchTypes'
    BY <1>1, <1>2, <2>4 DEF SearchTypes
  <2> QED BY <1>3, <1>4, <2>7, <2>8 DEF SearchInv
<1> QED
  BY <1>5, <1>6

(* Solve returns a code that says what it has done.                         *)
LEMMA ReturningKeeps ==
  ASSUME SearchInv, Return
  PROVE  SearchInv'
<1>1. /\ pc = "stop" \/ (pc = "commands" /\ ~Going)
      /\ pc' = "returned"
      /\ code' = IF cancelled THEN Max({iteration, ASYNC_CHECKPOINT})
                 ELSE IF pc = "stop" THEN EARLY ELSE ALL_COMMANDS
      /\ config' = config /\ iteration' = iteration /\ done' = done /\ cancelled' = cancelled
      /\ ran' = ran
  BY DEF Return
<1>2. SearchTypes /\ CommandsRunOnTime /\ PlaceInv /\ iteration \in Int
  BY DEF SearchInv, SearchTypes
<1>3. SearchTypes'
  BY <1>1, <1>2 DEF SearchTypes
<1>4. PlaceInv'
  BY <1>1 DEF PlaceInv
<1>5. CommandsRunOnTime'
  BY <1>1, <1>2 DEF CommandsRunOnTime
<1>6. LastIteration' = LastIteration
  BY <1>1 DEF LastIteration
<1>7. CASE cancelled
  <2>1. \E m \in {iteration, 10} : \A k \in {iteration, 10} : m >= k
    BY <1>2
  <2>2. Max({iteration, 10}) \in Int /\ Max({iteration, 10}) >= 10
    <3> DEFINE m == Max({iteration, 10})
    <3>1. m \in {iteration, 10} /\ \A k \in {iteration, 10} : m >= k
      BY <2>1 DEF Max
    <3> HIDE DEF m
    <3>2. m \in Int /\ m >= 10
      BY <1>2, <3>1
    <3> QED BY <3>2 DEF m
  <2>3. code' \in Int /\ code' >= 10
    BY <1>1, <1>7, <2>2 DEF ASYNC_CHECKPOINT
  <2>4. CodeInv'
    BY <1>1, <2>3 DEF CodeInv, THROWN, ALL_COMMANDS, EARLY
  <2> QED BY <1>3, <1>4, <1>5, <2>4 DEF SearchInv
<1>8. CASE ~cancelled
  <2>1. code' \in {1, 2}
    BY <1>1, <1>8 DEF EARLY, ALL_COMMANDS
  <2>2. done >= LastIteration
    <3>1. CASE pc = "stop"
      BY <1>2, <1>8, <3>1 DEF PlaceInv
    <3>2. CASE pc = "commands" /\ ~Going
      <4>1. commands = << >> /\ AtCommands
        BY <1>2, <1>8, <3>2 DEF Going, PlaceInv
      <4>2. done = LastIteration
        BY <4>1 DEF AtCommands, Follows
      <4> QED BY <1>2, <4>1, <4>2 DEF AtCommands
    <3> QED BY <1>1, <3>1, <3>2
  <2>3. CodeInv'
    BY <1>1, <1>6, <2>1, <2>2 DEF CodeInv, THROWN, ALL_COMMANDS, EARLY
  <2> QED BY <1>3, <1>4, <1>5, <2>3 DEF SearchInv
<1> QED
  BY <1>7, <1>8

(* The engine cancels the search, or does not touch it.                     *)
LEMMA EngineKeeps ==
  ASSUME SearchInv, Poll \/ Get \/ UNCHANGED vars
  PROVE  SearchInv'
<1>1. /\ config' = config /\ boards' = boards /\ commands' = commands /\ pc' = pc
      /\ iteration' = iteration /\ left' = left /\ done' = done /\ code' = code /\ ran' = ran
  BY DEF Poll, Get, vars, solverVars
<1>2. cancelled' \in BOOLEAN
  BY DEF Poll, Get, vars, SearchInv, SearchTypes
<1>3. SearchTypes /\ CodeInv /\ PlaceInv /\ CommandsRunOnTime
  BY DEF SearchInv
<1>4. /\ LastIteration' = LastIteration /\ Current' = Current /\ Shared' = Shared
  BY <1>1 DEF LastIteration, Current, Shared
<1>5. AtCommands' = AtCommands /\ AtIterations' = AtIterations
  BY <1>1, <1>4 DEF AtCommands, AtIterations
<1>6. PlaceInv'
  <2>1. ~cancelled' => ~cancelled
    BY DEF Poll, Get, vars
  <2> QED BY <1>1, <1>3, <1>4, <1>5, <2>1 DEF PlaceInv
<1>7. SearchTypes'
  BY <1>1, <1>2, <1>3 DEF SearchTypes
<1>8. CodeInv'
  BY <1>1, <1>3, <1>4 DEF CodeInv
<1>9. CommandsRunOnTime'
  BY <1>1, <1>3 DEF CommandsRunOnTime
<1> QED
  BY <1>6, <1>7, <1>8, <1>9 DEF SearchInv

(* The search never leaves its invariant.                                   *)
LEMMA SearchHolds == Spec => []SearchInv
<1>1. ASSUME SearchInv, [Next]_vars PROVE SearchInv'
  <2>1. CASE CmdSolve
    BY <1>1, <2>1, SolvingKeeps
  <2>2. CASE CmdProfile
    BY <1>1, <2>2, ProfilingKeeps
  <2>3. CASE CmdOther
    BY <1>1, <2>3, OtherCommandsKeep
  <2>4. CASE Join
    BY <1>1, <2>4, JoiningKeeps
  <2>5. CASE Return
    BY <1>1, <2>5, ReturningKeeps
  <2>6. CASE Poll \/ Get \/ UNCHANGED vars
    BY <1>1, <2>6, EngineKeeps
  <2>7. ASSUME NEW t \in Threads, Iterate(t) PROVE SearchInv'
    BY <1>1, <2>7, IteratingKeeps
  <2> QED
    BY <1>1, <2>1, <2>2, <2>3, <2>4, <2>5, <2>6, <2>7 DEF Next, SolverStep, Rest
<1> QED
  BY <1>1, SearchInitially, PTL DEF Spec

(* Every command runs when as many iterations have been run as its trigger  *)
(* says: no average, saving or profile is early or late, whatever the       *)
(* schedule, the threads and the time of a cancellation.                    *)
THEOREM CommandsAreOnTime == Spec => []CommandsRunOnTime
<1>1. SearchInv => CommandsRunOnTime
  BY DEF SearchInv
<1> QED
  BY <1>1, SearchHolds, PTL

(* No search runs a negative number of iterations, though a schedule may    *)
(* have such a command.                                                     *)
THEOREM NothingThrows == Spec => []NeverThrows
<1>1. SearchInv => NeverThrows
  BY DEF SearchInv, CodeInv, NeverThrows
<1> QED
  BY <1>1, SearchHolds, PTL

(* A search that is not cancelled runs all its iterations, each of them on  *)
(* one thread.                                                              *)
THEOREM AllIterationsRun == Spec => []RunsAllIterations
<1>1. SearchInv => RunsAllIterations
  BY DEF SearchInv, PlaceInv, AtCommands, CodeInv, RunsAllIterations, LastIteration
<1> QED
  BY <1>1, SearchHolds, PTL

-----------------------------------------------------------------------------
(***************************************************************************)
(* Dealing the flops                                                       *)
(***************************************************************************)
Dealing == INSTANCE FoldProofs WITH Op <- DealBucket

(* A set of numbers has a least one, and a largest one if it is bounded.    *)
LEMMA LeastOf ==
  ASSUME NEW S \in SUBSET Nat, S # {}
  PROVE  Min(S) \in S /\ \A x \in S : Min(S) <= x
<1>1. \E x \in S : \A y \in S : x <= y
  BY LeastNatural
<1> QED
  BY <1>1 DEF Min

(* A bounded set of numbers has a largest one.                              *)
LEMMA LargestOf ==
  ASSUME NEW S \in SUBSET Nat, S # {}, NEW bound \in Nat, \A x \in S : x <= bound
  PROVE  Max(S) \in S /\ \A x \in S : x <= Max(S)
<1> DEFINE R == {bound - x : x \in S}
<1>1. R \in SUBSET Nat /\ R # {}
  <2>1. ASSUME NEW x \in S PROVE bound - x \in Nat
    <3>1. x \in Nat /\ x <= bound
      OBVIOUS
    <3> QED BY <3>1
  <2>2. PICK x : x \in S
    OBVIOUS
  <2>3. R # {}
    BY <2>2 DEF R
  <2> QED BY <2>1, <2>3 DEF R
<1> HIDE DEF R
<1>2. PICK r \in R : \A q \in R : r <= q
  BY <1>1, LeastNatural
<1>3. PICK x \in S : r = bound - x
  BY <1>2 DEF R
<1>4. ASSUME NEW y \in S PROVE x >= y
  <2>1. bound - y \in R
    BY DEF R
  <2>2. bound - x <= bound - y /\ x \in Nat /\ y \in Nat
    BY <1>2, <1>3, <2>1
  <2> QED BY <2>2
<1>5. \E z \in S : \A y \in S : z >= y
  BY <1>4
<1>6. Max(S) \in S /\ \A y \in S : Max(S) >= y
  BY <1>5 DEF Max
<1> QED
  BY <1>6

(* What fits a times into the whole is no more than the quotient.           *)
LEMMA PartIsSmall ==
  ASSUME NEW a \in Nat, NEW n \in Nat \ {0}, NEW whole \in Nat, a * n <= whole
  PROVE  a <= whole \div n
<1> DEFINE q == whole \div n
<1>1. q \in Nat /\ whole < q * n + n
  BY Quotient
<1> HIDE DEF q
<1>2. ASSUME a >= q + 1 PROVE FALSE
  <2>1. a * n >= (q + 1) * n
    BY <1>1, <1>2
  <2>2. (q + 1) * n = q * n + n /\ q * n \in Nat
    BY <1>1
  <2>3. a * n \in Nat
    OBVIOUS
  <2> HIDE DEF q
  <2> QED BY <1>1, <2>1, <2>2, <2>3
<1> QED
  BY <1>1, <1>2 DEF q

(* The thread that gets a bucket: it fits there, or the thread has least.   *)
LEMMA FirstFitIsAThread ==
  ASSUME NEW n \in Nat \ {0}, NEW tally \in [0 .. n - 1 -> Nat], NEW size \in Nat, NEW cap \in Nat,
         NEW t, t = FirstFit(tally, size, cap)
  PROVE  /\ t \in 0 .. n - 1
         /\ tally[t] + size <= cap \/ \A u \in 0 .. n - 1 : tally[t] <= tally[u]
<1> DEFINE T == 0 .. n - 1
           fits == {u \in DOMAIN tally : tally[u] + size <= cap}
           least == {u \in DOMAIN tally : \A v \in DOMAIN tally : tally[u] <= tally[v]}
<1>1. DOMAIN tally = T /\ T \in SUBSET Nat /\ T # {} /\ fits \in SUBSET T /\ least \in SUBSET T
  OBVIOUS
<1>2. CASE fits # {}
  <2>1. t = Min(fits)
    BY <1>2 DEF FirstFit
  <2>2. t \in fits
    <3> HIDE DEF fits, T
    <3> QED BY <1>1, <1>2, <2>1, LeastOf
  <2> QED BY <1>1, <2>2
<1>3. CASE fits = {}
  <2>1. t = Min(least)
    BY <1>3 DEF FirstFit, Least
  <2>2. least # {}
    <3> DEFINE counts == {tally[u] : u \in T}
    <3>1. counts \in SUBSET Nat /\ counts # {}
      BY <1>1
    <3> HIDE DEF counts
    <3>2. PICK m \in counts : \A k \in counts : m <= k
      BY <3>1, LeastNatural
    <3>3. PICK u \in T : m = tally[u]
      BY <3>2 DEF counts
    <3>4. \A v \in T : tally[u] <= tally[v]
      BY <3>2, <3>3 DEF counts
    <3> QED BY <1>1, <3>4
  <2>3. t \in least
    <3> HIDE DEF least, T
    <3> QED BY <1>1, <2>1, <2>2, LeastOf
  <2> QED BY <1>1, <2>3
<1> QED
  BY <1>2, <1>3

(* The buckets A have been dealt to the threads T: each to one of them, and *)
(* nobody has more than its part and one bucket.                            *)
DealtOut(d, A, sizes, cap, biggest, T) ==
    /\ d \in [sizes : {sizes}, cap : {cap}, tally : [T -> Nat], hand : [T -> SUBSET A]]
    /\ \A b \in A : \E t \in T : b \in d.hand[t]
    /\ \A t, u \in T : t # u => d.hand[t] \cap d.hand[u] = {}
    /\ \A t \in T : d.tally[t] = Total(sizes, d.hand[t])
    /\ Total(d.tally, T) = Total(sizes, A)
    /\ \A t \in T : d.tally[t] <= cap + biggest

(* Buckets of these sizes are dealt to n threads.                           *)
Dealable(sizes, n, cap, biggest) ==
    /\ sizes \in Seq(Nat) /\ n \in Nat \ {0} /\ biggest \in Nat
    /\ \A b \in DOMAIN sizes : sizes[b] <= biggest
    /\ cap = Total(sizes, DOMAIN sizes) \div n

Undealt(b, A, sizes) == A \in SUBSET DOMAIN sizes /\ b \in DOMAIN sizes /\ b \notin A

(* One bucket more is dealt.                                                *)
LEMMA BucketIsDealt ==
  ASSUME NEW sizes, NEW n, NEW cap, NEW biggest, Dealable(sizes, n, cap, biggest),
         NEW A, NEW b, Undealt(b, A, sizes),
         NEW d, DealtOut(d, A, sizes, cap, biggest, 0 .. n - 1)
  PROVE  DealtOut(DealBucket(d, b), A \cup {b}, sizes, cap, biggest, 0 .. n - 1)
<1> DEFINE T == 0 .. n - 1
           D == DOMAIN sizes
           B == A \cup {b}
           t == FirstFit(d.tally, d.sizes[b], d.cap)
           e == DealBucket(d, b)
<1>0. /\ sizes \in Seq(Nat) /\ n \in Nat \ {0} /\ biggest \in Nat
      /\ \A x \in D : sizes[x] <= biggest
      /\ cap = Total(sizes, D) \div n
      /\ A \in SUBSET D /\ b \in D /\ b \notin A
  BY DEF Dealable, Undealt
<1>1. /\ D = 1 .. Len(sizes) /\ IsFiniteSet(D) /\ IsFiniteSet(A) /\ IsFiniteSet(T) /\ Cardinality(T) = n
  <2>1. Len(sizes) \in Int /\ 1 \in Int /\ 0 \in Int /\ n - 1 \in Int
    BY <1>0
  <2>2. D = 1 .. Len(sizes)
    BY <1>0
  <2>3. IsFiniteSet(D) /\ IsFiniteSet(T) /\ Cardinality(T) = IF 0 > n - 1 THEN 0 ELSE (n - 1) - 0 + 1
    BY <2>1, <2>2, FS_Interval
  <2>4. IsFiniteSet(A)
    BY <1>0, <2>3, FS_Subset
  <2> QED BY <1>0, <2>2, <2>3, <2>4
<1>2. (\A x \in D : sizes[x] \in Nat /\ sizes[x] \in Int) /\ sizes[b] \in Nat /\ sizes[b] <= biggest
  BY <1>0
<1>3. Total(sizes, D) \in Nat /\ cap \in Nat
  <2>1. Total(sizes, D) \in Nat
    BY <1>1, <1>2, TotalIsNat
  <2> QED BY <1>0, <2>1, Quotient
<1>4. Total(sizes, A) \in Nat /\ Total(sizes, A) <= Total(sizes, D)
  <2>1. Total(sizes, D) = Total(sizes, A) + Total(sizes, D \ A)
    <3>1. (\A x \in D : sizes[x] \in Int) /\ A \in SUBSET D /\ IsFiniteSet(D)
      BY <1>0, <1>1, <1>2
    <3> HIDE DEF D
    <3> QED BY <3>1, TotalSplit
  <2>2. IsFiniteSet(D \ A) /\ (\A x \in D \ A : sizes[x] \in Nat) /\ \A x \in A : sizes[x] \in Nat
    BY <1>0, <1>1, <1>2, FS_Subset
  <2>3. Total(sizes, A) \in Nat /\ Total(sizes, D \ A) \in Nat
    BY <1>1, <2>2, TotalIsNat
  <2> QED BY <2>1, <2>3
<1>5. /\ d \in [sizes : {sizes}, cap : {cap}, tally : [T -> Nat], hand : [T -> SUBSET A]]
      /\ d.sizes = sizes /\ d.cap = cap /\ d.tally \in [T -> Nat] /\ d.hand \in [T -> SUBSET A]
      /\ \A x \in A : \E u \in T : x \in d.hand[u]
      /\ \A u, v \in T : u # v => d.hand[u] \cap d.hand[v] = {}
      /\ \A u \in T : d.tally[u] = Total(sizes, d.hand[u])
      /\ Total(d.tally, T) = Total(sizes, A)
      /\ \A u \in T : d.tally[u] <= cap + biggest
  BY DEF DealtOut
<1>6. /\ t \in T
      /\ d.tally[t] + sizes[b] <= cap \/ \A u \in T : d.tally[t] <= d.tally[u]
  BY <1>0, <1>2, <1>3, <1>5, FirstFitIsAThread
<1>7. /\ e \in [sizes : {sizes}, cap : {cap}, tally : {e.tally}, hand : {e.hand}]
      /\ e.tally = [d.tally EXCEPT ![t] = @ + sizes[b]]
      /\ e.hand = [d.hand EXCEPT ![t] = @ \cup {b}]
  <2> DEFINE tally == [d.tally EXCEPT ![t] = @ + sizes[b]]
             hand == [d.hand EXCEPT ![t] = @ \cup {b}]
  <2>1. e = [d EXCEPT !.tally = tally, !.hand = hand]
    BY <1>5 DEF DealBucket
  <2> HIDE DEF e, tally, hand, T
  <2>2. e.sizes = d.sizes /\ e.cap = d.cap /\ e.tally = tally /\ e.hand = hand
    BY <1>5, <2>1
  <2>3. e \in [sizes : {sizes}, cap : {cap}, tally : {tally}, hand : {hand}]
    BY <1>5, <2>1
  <2> QED BY <2>2, <2>3 DEF tally, hand
<1> HIDE DEF t, e, T, D
<1>8. /\ e.tally \in [T -> Nat]
      /\ e.tally[t] = d.tally[t] + sizes[b]
      /\ \A u \in T \ {t} : e.tally[u] = d.tally[u]
      /\ e.hand \in [T -> SUBSET B]
      /\ e.hand[t] = d.hand[t] \cup {b}
      /\ \A u \in T \ {t} : e.hand[u] = d.hand[u]
  BY <1>0, <1>2, <1>5, <1>6, <1>7
<1>9. \A x \in B : \E u \in T : x \in e.hand[u]
  <2>1. ASSUME NEW x \in A PROVE \E u \in T : x \in e.hand[u]
    <3>1. PICK u \in T : x \in d.hand[u]
      BY <1>5
    <3>2. x \in e.hand[u]
      BY <1>8, <3>1
    <3> QED BY <3>2
  <2>2. b \in e.hand[t]
    BY <1>8
  <2> QED BY <1>6, <2>1, <2>2
<1>10. \A u, v \in T : u # v => e.hand[u] \cap e.hand[v] = {}
  <2> SUFFICES ASSUME NEW u \in T, NEW v \in T, u # v, NEW x \in e.hand[u] \cap e.hand[v]
               PROVE  FALSE
    OBVIOUS
  <2>1. b \notin d.hand[u] /\ b \notin d.hand[v] /\ d.hand[u] \cap d.hand[v] = {}
    BY <1>0, <1>5
  <2>2. /\ x \in d.hand[u] \/ (x = b /\ u = t)
        /\ x \in d.hand[v] \/ (x = b /\ v = t)
    BY <1>8
  <2> QED BY <2>1, <2>2
<1>11. \A u \in T : e.tally[u] = Total(sizes, e.hand[u])
  <2>1. d.hand[t] \in SUBSET A /\ d.hand[t] \in SUBSET D /\ b \notin d.hand[t]
    BY <1>0, <1>5, <1>6
  <2>2. IsFiniteSet(d.hand[t]) /\ \A x \in d.hand[t] : sizes[x] \in Int
    BY <1>1, <1>2, <2>1, FS_Subset
  <2>3. Total(sizes, d.hand[t] \cup {b}) = sizes[b] + Total(sizes, d.hand[t])
    <3>1. sizes[b] \in Int /\ \A x \in d.hand[t] : sizes[x] \in Int
      BY <1>2, <2>2
    <3> QED BY <2>1, <2>2, <3>1, TotalAdd
  <2>4. d.tally[t] \in Nat /\ d.tally[t] = Total(sizes, d.hand[t])
    BY <1>5, <1>6
  <2>5. e.tally[t] = Total(sizes, e.hand[t])
    BY <1>2, <1>8, <2>3, <2>4
  <2> QED BY <1>5, <1>8, <2>5
<1>12. Total(e.tally, T) = Total(sizes, B)
  <2>1. \A x \in A : sizes[x] \in Int
    BY <1>0, <1>2
  <2>2. Total(sizes, B) = sizes[b] + Total(sizes, A)
    <3>1. sizes[b] \in Int /\ IsFiniteSet(A) /\ b \notin A
      BY <1>0, <1>1, <1>2
    <3> QED BY <2>1, <3>1, TotalAdd
  <2>3. Total(e.tally, T) = Total(d.tally, T) + sizes[b]
    <3> DEFINE f == d.tally
               g == e.tally
               k == sizes[b]
    <3>1. f \in [T -> Int] /\ g \in [T -> Int] /\ k \in Int
      BY <1>2, <1>5, <1>8
    <3>2. t \in T /\ IsFiniteSet(T) /\ g[t] = f[t] + k /\ \A u \in T \ {t} : g[u] = f[u]
      BY <1>1, <1>6, <1>8
    <3> HIDE DEF f, g, k
    <3>3. Total(g, T) = Total(f, T) + k
      BY <3>1, <3>2, OneChanges
    <3> QED BY <3>3 DEF f, g, k
  <2> QED BY <1>2, <1>4, <1>5, <2>2, <2>3
<1>13. e.tally[t] <= cap + biggest
  <2>1. d.tally[t] \in Nat
    BY <1>5, <1>6
  <2>2. CASE d.tally[t] + sizes[b] <= cap
    BY <1>0, <1>2, <1>3, <1>8, <2>1, <2>2
  <2>3. CASE \A u \in T : d.tally[t] <= d.tally[u]
    <3> DEFINE a == d.tally[t]
               even == [u \in T |-> a]
    <3>1. \A u \in T : even[u] = a /\ even[u] \in Int /\ d.tally[u] \in Int /\ even[u] <= d.tally[u]
      BY <1>5, <2>1, <2>3
    <3> HIDE DEF even
    <3>2. Total(even, T) <= Total(d.tally, T)
      BY <1>1, <3>1, TotalGrows
    <3>3. a \in Int /\ \A u \in T : even[u] = a
      BY <2>1, <3>1
    <3> HIDE DEF a
    <3>4. Total(even, T) = a * Cardinality(T)
      BY <1>1, <3>3, TotalConstant
    <3>5. a * n <= Total(sizes, D)
      <4>1. a * n \in Int
        BY <1>0, <3>3
      <4> QED BY <1>1, <1>3, <1>4, <1>5, <3>2, <3>4, <4>1
    <3>6. a \in Nat
      BY <2>1 DEF a
    <3>7. a <= Total(sizes, D) \div n
      BY <1>0, <1>3, <3>5, <3>6, PartIsSmall
    <3>8. a <= cap /\ e.tally[t] = a + sizes[b]
      BY <1>0, <1>8, <3>7 DEF a
    <3> QED BY <1>0, <1>2, <1>3, <3>6, <3>8
  <2> QED BY <1>6, <2>2, <2>3
<1>14. \A u \in T : e.tally[u] <= cap + biggest
  BY <1>5, <1>8, <1>13
<1>15. DealtOut(e, B, sizes, cap, biggest, T)
  BY <1>5, <1>7, <1>8, <1>9, <1>10, <1>11, <1>12, <1>14 DEF DealtOut
<1> QED
  BY <1>15 DEF e, T

(* The first k buckets of an order.                                         *)
Prefix(order, k) == [i \in 1 .. k |-> order[i]]
Taken(order, k)  == {order[i] : i \in 1 .. k}

(* An order is a sequence of all buckets, none of them twice.               *)
LEMMA OrdersAreComplete ==
  ASSUME NEW sizes \in Seq(Nat), NEW order \in Descending(sizes)
  PROVE  /\ order \in Seq(DOMAIN sizes) /\ Len(order) = Len(sizes)
         /\ \A i, j \in 1 .. Len(sizes) : i # j => order[i] # order[j]
         /\ Taken(order, Len(sizes)) = DOMAIN sizes
<1> DEFINE D == DOMAIN sizes
           L == Len(sizes)
<1>1. D = 1 .. L /\ L \in Nat
  OBVIOUS
<1>2. IsFiniteSet(D) /\ Cardinality(D) = L
  <2>1. 1 \in Int /\ L \in Int
    BY <1>1
  <2>2. IsFiniteSet(1 .. L) /\ Cardinality(1 .. L) = IF 1 > L THEN 0 ELSE L - 1 + 1
    BY <2>1, FS_Interval
  <2> QED BY <1>1, <2>2
<1>3. order \in [1 .. L -> D] /\ \A i, j \in 1 .. L : i # j => order[i] # order[j]
  <2>1. order \in [1 .. Cardinality(D) -> D] /\ \A i, j \in DOMAIN order : i # j => order[i] # order[j]
    BY DEF Descending
  <2> HIDE DEF D, L
  <2> QED BY <1>2, <2>1
<1> HIDE DEF L, D
<1>4. order \in Injection(D, D)
  BY <1>1, <1>3 DEF Injection, IsInjective
<1>5. order \in Surjection(D, D)
  BY <1>2, <1>4, FS_Injection
<1>6. Taken(order, L) = D
  <2>1. \A i \in 1 .. L : order[i] \in D
    BY <1>3
  <2>2. \A b \in D : \E i \in 1 .. L : order[i] = b
    BY <1>1, <1>5 DEF Surjection
  <2> QED BY <2>1, <2>2 DEF Taken
<1>7. order \in Seq(D) /\ Len(order) = L
  BY <1>1, <1>3
<1> QED
  BY <1>3, <1>6, <1>7 DEF L, D

(* All buckets are dealt, one after the other.                              *)
LEMMA AllIsDealt ==
  ASSUME NEW sizes \in Seq(Nat), NEW n \in Nat \ {0}, NEW biggest \in Nat,
         \A b \in DOMAIN sizes : sizes[b] <= biggest, NEW order \in Descending(sizes),
         NEW base, DealtOut(base, {}, sizes, Total(sizes, DOMAIN sizes) \div n, biggest, 0 .. n - 1)
  PROVE  DealtOut(FoldLeft(DealBucket, base, order), DOMAIN sizes, sizes,
                  Total(sizes, DOMAIN sizes) \div n, biggest, 0 .. n - 1)
<1> DEFINE D == DOMAIN sizes
           L == Len(sizes)
           T == 0 .. n - 1
           cap == Total(sizes, D) \div n
           p(k) == Prefix(order, k)
           R == {k \in Nat : k <= L =>
                   DealtOut(Dealing!Fold(base, p(k)), Taken(order, k), sizes, cap, biggest, T)}
<1>1. Dealable(sizes, n, cap, biggest)
  BY DEF Dealable
<1>2. /\ order \in Seq(D) /\ Len(order) = L /\ L \in Nat
      /\ \A i, j \in 1 .. L : i # j => order[i] # order[j]
      /\ Taken(order, L) = D
  BY OrdersAreComplete
<1>3. DealtOut(base, {}, sizes, cap, biggest, T)
  OBVIOUS
<1> HIDE DEF cap, D, L
<1>4. \A k \in Nat : k <= L => p(k) \in Seq(D) /\ Len(p(k)) = k
  <2> SUFFICES ASSUME NEW k \in Nat, k <= L PROVE p(k) \in Seq(D) /\ Len(p(k)) = k
    OBVIOUS
  <2>1. \A i \in 1 .. k : order[i] \in D
    BY <1>2
  <2> QED BY <2>1 DEF Prefix
<1>5. 0 \in R
  <2>1. p(0) = << >> /\ Taken(order, 0) = {}
    BY DEF Prefix, Taken
  <2> QED BY <1>3, <2>1, Dealing!FoldEmpty
<1>6. ASSUME NEW k \in Nat, k \in R PROVE k + 1 \in R
  <2> SUFFICES ASSUME k + 1 <= L
               PROVE  DealtOut(Dealing!Fold(base, p(k + 1)), Taken(order, k + 1), sizes, cap, biggest, T)
    OBVIOUS
  <2> DEFINE A == Taken(order, k)
             b == order[k + 1]
             d == Dealing!Fold(base, p(k))
  <2>1. k <= L /\ k + 1 \in 1 .. L /\ k \in Nat
    BY <1>2, <1>6
  <2>2. DealtOut(d, A, sizes, cap, biggest, T)
    BY <1>6, <2>1
  <2>3. Undealt(b, A, sizes)
    <3>1. \A i \in 1 .. k : i \in 1 .. L /\ i # k + 1
      BY <1>2, <2>1
    <3>2. b \in D /\ \A i \in 1 .. k : order[i] \in D /\ order[i] # b
      <4>1. b \in D
        BY <1>2, <2>1
      <4>2. ASSUME NEW i \in 1 .. k PROVE order[i] \in D /\ order[i] # b
        <5>1. i \in 1 .. L /\ i # k + 1
          BY <3>1
        <5> QED BY <1>2, <2>1, <5>1
      <4> QED BY <4>1, <4>2
    <3> QED BY <3>2 DEF Undealt, Taken, D
  <2>4. p(k + 1) = Append(p(k), b)
    <3> DEFINE u == Append(p(k), b)
    <3>1. p(k) \in Seq(D) /\ Len(p(k)) = k /\ b \in D
      <4>1. b \in D
        BY <1>2, <2>1
      <4>2. p(k) \in Seq(D) /\ Len(p(k)) = k
        <5> HIDE DEF b, p
        <5> QED BY <1>4, <2>1
      <4> QED BY <4>1, <4>2
    <3>2. u \in Seq(D) /\ Len(u) = k + 1 /\ u[k + 1] = b /\ \A i \in 1 .. k : u[i] = p(k)[i]
      <4> HIDE DEF b, p
      <4> QED BY <2>1, <3>1
    <3>3. \A i \in 1 .. k : p(k)[i] = order[i]
      BY DEF Prefix
    <3> HIDE DEF u, p
    <3>4. \A i \in 1 .. k + 1 : u[i] = order[i]
      <4> SUFFICES ASSUME NEW i \in 1 .. k + 1 PROVE u[i] = order[i]
        OBVIOUS
      <4>1. CASE i = k + 1
        BY <3>2, <4>1
      <4>2. CASE i # k + 1
        <5>1. i \in 1 .. k
          BY <2>1, <4>2
        <5> QED BY <3>2, <3>3, <5>1
      <4> QED BY <4>1, <4>2
    <3>5. u = [i \in 1 .. k + 1 |-> u[i]]
      BY <2>1, <3>2
    <3> QED BY <3>4, <3>5 DEF Prefix, u, p
  <2>5. Dealing!Fold(base, p(k + 1)) = DealBucket(d, b)
    <3>1. p(k) \in Seq(D) /\ b \in D
      <4>1. b \in D
        BY <1>2, <2>1
      <4>2. p(k) \in Seq(D)
        <5> HIDE DEF b, p
        <5> QED BY <1>4, <2>1
      <4> QED BY <4>1, <4>2
    <3> HIDE DEF b, p
    <3>2. Dealing!Fold(base, Append(p(k), b)) = DealBucket(Dealing!Fold(base, p(k)), b)
      BY <3>1, Dealing!FoldAppend
    <3> QED BY <2>4, <3>2
  <2>6. Taken(order, k + 1) = A \cup {b}
    <3>1. 1 .. k + 1 = (1 .. k) \cup {k + 1}
      BY <2>1
    <3> QED BY <3>1 DEF Taken
  <2> HIDE DEF A, b, d, p, T
  <2>7. DealtOut(DealBucket(d, b), A \cup {b}, sizes, cap, biggest, T)
    BY <1>1, <2>2, <2>3, BucketIsDealt DEF T
  <2> QED BY <2>5, <2>6, <2>7
<1>7. L \in R
  <2> HIDE DEF R
  <2>1. Nat \subseteq R
    BY <1>5, <1>6, Induction
  <2> QED BY <1>2, <2>1
<1>8. p(L) = order
  <2>1. order = [i \in 1 .. L |-> order[i]]
    BY <1>2
  <2> QED BY <2>1 DEF Prefix
<1>9. FoldLeft(DealBucket, base, order) = Dealing!Fold(base, order)
  <2>1. \A t : Max(t) = Dealing!Top(t)
    BY DEF Max, Dealing!Top
  <2> QED
    BY <2>1 DEF FoldLeft, MapThenFoldSet, Dealing!Fold, Dealing!FoldFun
<1>10. DealtOut(Dealing!Fold(base, order), D, sizes, cap, biggest, T)
  BY <1>2, <1>7, <1>8
<1> QED
  BY <1>9, <1>10 DEF cap, D

(* Before the first bucket.                                                 *)
LEMMA NothingIsDealt ==
  ASSUME NEW sizes \in Seq(Nat), NEW n \in Nat \ {0}, NEW biggest \in Nat,
         NEW cap \in Nat
  PROVE  DealtOut([sizes |-> sizes, cap |-> cap, tally |-> [t \in 0 .. n - 1 |-> 0],
                   hand |-> [t \in 0 .. n - 1 |-> {}]], {}, sizes, cap, biggest, 0 .. n - 1)
<1> DEFINE T == 0 .. n - 1
           tally == [t \in T |-> 0]
           hand == [t \in T |-> {}]
           d == [sizes |-> sizes, cap |-> cap, tally |-> tally, hand |-> hand]
<1>1. IsFiniteSet(T)
  <2>1. 0 \in Int /\ n - 1 \in Int
    OBVIOUS
  <2> QED BY <2>1, FS_Interval
<1> HIDE DEF T
<1>2. tally \in [T -> Nat] /\ hand \in [T -> SUBSET {}]
  OBVIOUS
<1>3. \A t \in T : tally[t] = 0 /\ hand[t] = {}
  OBVIOUS
<1> HIDE DEF tally, hand
<1>4. /\ d \in [sizes : {sizes}, cap : {cap}, tally : [T -> Nat], hand : [T -> SUBSET {}]]
      /\ d.tally = tally /\ d.hand = hand
  BY <1>2
<1>5. Total(tally, T) = 0
  <2>1. Total(tally, T) = 0 * Cardinality(T) /\ Cardinality(T) \in Nat
    BY <1>1, <1>3, TotalConstant, FS_CardinalityType
  <2> QED BY <2>1
<1>6. Total(sizes, {}) = 0
  BY TotalEmpty
<1> HIDE DEF d
<1>7. DealtOut(d, {}, sizes, cap, biggest, T)
  <2>1. \A t, u \in T : t # u => d.hand[t] \cap d.hand[u] = {}
    BY <1>3, <1>4
  <2>2. \A t \in T : d.tally[t] = Total(sizes, d.hand[t])
    BY <1>3, <1>4, <1>6
  <2>3. Total(d.tally, T) = Total(sizes, {})
    BY <1>4, <1>5, <1>6
  <2>4. \A t \in T : d.tally[t] <= cap + biggest
    BY <1>3, <1>4
  <2> QED BY <1>4, <2>1, <2>2, <2>3, <2>4 DEF DealtOut
<1> QED
  BY <1>7 DEF d, tally, hand, T

(* What a thread of the pool gets: every flop is solved by one thread of    *)
(* each cluster, and nobody has more than its part and one bucket.          *)
Fair(sizes, n, bds) ==
    LET N == Cluster(n)
        biggest == Max({sizes[b] : b \in DOMAIN sizes})
    IN
    /\ \A b \in DOMAIN sizes : \A k \in 0 .. (n \div N) - 1 :
         Cardinality({t \in k * N .. k * N + N - 1 : b \in bds[t]}) = 1
    /\ \A t \in DOMAIN bds : Total(sizes, bds[t]) <= Cap(sizes, n) + biggest

(* The flops of all buckets, counted by the model or by the proofs.         *)
LEMMA FlopsAreCounted ==
  ASSUME NEW sizes
  PROVE  FlopCount(sizes) = Total(sizes, DOMAIN sizes)
BY DEF FlopCount, MapThenSumSet, MapThenFoldSet, Total, TotalFun, AnElement

(* The biggest bucket.                                                      *)
LEMMA BiggestBucket ==
  ASSUME NEW sizes \in Seq(Nat), sizes # << >>
  PROVE  /\ Max({sizes[b] : b \in DOMAIN sizes}) \in Nat
         /\ \A b \in DOMAIN sizes : sizes[b] <= Max({sizes[x] : x \in DOMAIN sizes})
         /\ IsFiniteSet(DOMAIN sizes) /\ Total(sizes, DOMAIN sizes) \in Nat
<1> DEFINE D == DOMAIN sizes
           S == {sizes[b] : b \in D}
<1>1. IsFiniteSet(D)
  <2>1. D = 1 .. Len(sizes) /\ 1 \in Int /\ Len(sizes) \in Int
    OBVIOUS
  <2> QED BY <2>1, FS_Interval
<1>2. /\ \A b \in D : sizes[b] \in Nat /\ sizes[b] \in Int
      /\ D # {}
  <2>1. Len(sizes) \in Nat /\ Len(sizes) >= 1
    OBVIOUS
  <2>2. 1 \in D
    BY <2>1
  <2>3. \A b \in D : sizes[b] \in Nat
    OBVIOUS
  <2> QED BY <2>2, <2>3
<1> HIDE DEF D
<1>3. S \in SUBSET Nat /\ S # {}
  BY <1>2
<1>4. Total(sizes, D) \in Nat
  BY <1>1, <1>2, TotalIsNat
<1>5. ASSUME NEW b \in D PROVE sizes[b] <= Total(sizes, D)
  <2>1. Total(sizes, D) = sizes[b] + Total(sizes, D \ {b})
    BY <1>1, <1>2, TotalRemove
  <2>2. IsFiniteSet(D \ {b}) /\ \A x \in D \ {b} : sizes[x] \in Nat
    BY <1>1, <1>2, FS_RemoveElement
  <2>3. Total(sizes, D \ {b}) \in Nat /\ sizes[b] \in Nat
    BY <1>2, <2>2, TotalIsNat
  <2> QED BY <2>1, <2>3
<1>6. \A x \in S : x <= Total(sizes, D)
  BY <1>5
<1>7. Max(S) \in S /\ \A x \in S : x <= Max(S)
  <2> HIDE DEF S
  <2> QED BY <1>3, <1>4, <1>6, LargestOf
<1>8. \A b \in D : sizes[b] \in S
  OBVIOUS
<1> QED
  BY <1>1, <1>3, <1>4, <1>7, <1>8 DEF D

(* The threads of one cluster.                                              *)
LEMMA ThreadsOfACluster ==
  ASSUME NEW n \in Nat \ {0}, NEW N \in Nat \ {0}, NEW k \in 0 .. (n \div N) - 1
  PROVE  /\ k * N \in Nat
         /\ \A t \in k * N .. k * N + N - 1 :
              t \in 0 .. n - 1 /\ t < (n \div N) * N /\ t % N = t - k * N
<1>1. n \div N \in Nat /\ (n \div N) * N <= n
  BY Quotient
<1>2. k \in Nat /\ k + 1 <= n \div N
  BY <1>1
<1> DEFINE q == n \div N
<1> HIDE DEF q
<1>3. (k + 1) * N <= q * N /\ (k + 1) * N = k * N + N /\ k * N \in Nat
  BY <1>1, <1>2 DEF q
<1>4. ASSUME NEW t \in k * N .. k * N + N - 1
      PROVE  t \in 0 .. n - 1 /\ t < (n \div N) * N /\ t % N = t - k * N
  <2> DEFINE r == t - k * N
  <2>1. r \in 0 .. N - 1 /\ t = k * N + r /\ t \in Nat
    BY <1>3
  <2>2. t \in 0 .. n - 1 /\ t < (n \div N) * N
    BY <1>1, <1>3 DEF q
  <2> HIDE DEF r
  <2>3. (k * N + r) % N = r
    BY <1>2, <2>1
  <2> QED BY <2>1, <2>2, <2>3 DEF r
<1> QED
  BY <1>3, <1>4

(* AllocateFlops is fair, for all sizes and any order of equal ones.        *)
LEMMA AllocationIsFair ==
  ASSUME NEW sizes \in Seq(Nat), sizes # << >>, NEW n \in Nat \ {0},
         NEW order \in Descending(sizes), NEW bds, bds = AllocateFlops(sizes, order, n)
  PROVE  Fair(sizes, n, bds)
<1> DEFINE D == DOMAIN sizes
           N == Cluster(n)
           biggest == Max({sizes[b] : b \in D})
           cap == Cap(sizes, n)
<1>1. N \in Nat \ {0} /\ (n = 1 => N = 1)
  BY PoolAssumption DEF PoolAssumption, Cluster
<1>2. /\ biggest \in Nat /\ \A b \in D : sizes[b] <= biggest
      /\ IsFiniteSet(D) /\ Total(sizes, D) \in Nat
  BY BiggestBucket
<1>3. cap = Total(sizes, D) \div N
  BY FlopsAreCounted DEF Cap
<1>4. cap \in Nat
  BY <1>1, <1>2, <1>3, Quotient
<1> HIDE DEF N, cap, biggest
<1>5. SUFFICES /\ \A b \in D : \A k \in 0 .. (n \div N) - 1 :
                    Cardinality({t \in k * N .. k * N + N - 1 : b \in bds[t]}) = 1
               /\ \A t \in DOMAIN bds : Total(sizes, bds[t]) <= cap + biggest
  BY DEF Fair, N, cap, biggest
<1>6. CASE n = 1
  <2>1. bds = [t \in {0} |-> D]
    BY <1>6 DEF AllocateFlops
  <2>2. ASSUME NEW b \in D, NEW k \in 0 .. (n \div N) - 1
        PROVE  Cardinality({t \in k * N .. k * N + N - 1 : b \in bds[t]}) = 1
    <3>1. k = 0 /\ N = 1
      BY <1>1, <1>6, <2>2
    <3>2. k * N .. k * N + N - 1 = {0}
      BY <3>1
    <3>3. {t \in k * N .. k * N + N - 1 : b \in bds[t]} = {0}
      BY <2>1, <2>2, <3>2
    <3> QED BY <3>3, FS_Singleton
  <2>3. Total(sizes, D) <= cap + biggest
    <3>1. cap = Total(sizes, D)
      BY <1>1, <1>2, <1>3, <1>6
    <3> QED BY <1>2, <3>1
  <2> QED BY <2>1, <2>2, <2>3
<1>7. CASE n # 1
  <2> DEFINE T == 0 .. N - 1
             base == NothingDealt(sizes, n)
             d == FoldLeft(DealBucket, base, order)
  <2>1. base = [sizes |-> sizes, cap |-> cap, tally |-> [t \in T |-> 0], hand |-> [t \in T |-> {}]]
    BY DEF NothingDealt, N, cap
  <2>2. DealtOut(base, {}, sizes, cap, biggest, T)
    BY <1>1, <1>2, <1>4, <2>1, NothingIsDealt
  <2>3. DealtOut(d, D, sizes, cap, biggest, T)
    <3> HIDE DEF base
    <3> QED BY <1>1, <1>2, <1>3, <2>2, AllIsDealt
  <2>4. bds = [t \in 0 .. n - 1 |-> IF t < (n \div N) * N THEN d.hand[t % N] ELSE {}]
    BY <1>7 DEF AllocateFlops, Dealt, N
  <2> HIDE DEF d, T
  <2>5. /\ d.hand \in [T -> SUBSET D]
        /\ \A b \in D : \E t \in T : b \in d.hand[t]
        /\ \A t, u \in T : t # u => d.hand[t] \cap d.hand[u] = {}
        /\ \A t \in T : d.tally[t] = Total(sizes, d.hand[t])
        /\ \A t \in T : d.tally[t] <= cap + biggest
    BY <2>3 DEF DealtOut
  <2>6. ASSUME NEW b \in D, NEW k \in 0 .. (n \div N) - 1
        PROVE  Cardinality({t \in k * N .. k * N + N - 1 : b \in bds[t]}) = 1
    <3>1. PICK u \in T : b \in d.hand[u]
      BY <2>5, <2>6
    <3> DEFINE first == k * N
    <3>2. first \in Nat /\ \A t \in first .. first + N - 1 :
                             t \in 0 .. n - 1 /\ t < (n \div N) * N /\ t % N = t - first
      BY <1>1, <2>6, ThreadsOfACluster
    <3> HIDE DEF first
    <3>3. ASSUME NEW t \in first .. first + N - 1
          PROVE  bds[t] = d.hand[t - first] /\ t - first \in T /\ t \in Int
      <4>1. t \in 0 .. n - 1 /\ t < (n \div N) * N /\ t % N = t - first
        BY <3>2, <3>3
      <4>2. t - first \in T /\ t \in Int
        BY <1>1, <3>2, <3>3 DEF T
      <4> QED BY <2>4, <4>1, <4>2
    <3>4. first + u \in first .. first + N - 1 /\ (first + u) - first = u /\ u \in Int
      BY <1>1, <3>1, <3>2 DEF T
    <3>5. ASSUME NEW t \in first .. first + N - 1, b \in bds[t] PROVE t = first + u
      <4>1. t - first \in T /\ b \in d.hand[t - first] /\ t \in Int
        BY <3>3, <3>5
      <4>2. t - first = u
        BY <2>5, <3>1, <4>1
      <4> QED BY <3>2, <3>4, <4>1, <4>2
    <3>6. b \in bds[first + u]
      BY <3>1, <3>3, <3>4
    <3>7. {t \in first .. first + N - 1 : b \in bds[t]} = {first + u}
      BY <3>4, <3>5, <3>6
    <3>8. Cardinality({t \in first .. first + N - 1 : b \in bds[t]}) = 1
      BY <3>7, FS_Singleton
    <3> QED BY <3>8 DEF first
  <2>7. ASSUME NEW t \in DOMAIN bds PROVE Total(sizes, bds[t]) <= cap + biggest
    <3>1. t \in 0 .. n - 1 /\ bds[t] \in {d.hand[t % N], {}}
      BY <2>4, <2>7
    <3>2. t % N \in T
      BY <1>1, <3>1 DEF T
    <3>3. Total(sizes, {}) <= cap + biggest
      BY <1>2, <1>4, TotalEmpty
    <3>4. Total(sizes, d.hand[t % N]) <= cap + biggest
      BY <2>5, <3>2
    <3> QED BY <3>1, <3>3, <3>4
  <2> QED BY <2>6, <2>7
<1> QED
  BY <1>6, <1>7

(* The flops of a search are dealt when it starts.                          *)
FlopsInv ==
    /\ config \in Configuration
    /\ boards = << >> \/ (config.sizes # << >> /\ Fair(config.sizes, config.threads, boards))

(* A fair deal is what FlopsAreDealt asks for.                              *)
LEMMA FlopsAreFair == FlopsInv => FlopsAreDealt
<1> SUFFICES ASSUME FlopsInv, boards # << >> PROVE FlopsAreDealt
  BY DEF FlopsAreDealt
<1> DEFINE size(b) == config.sizes[b]
<1>1. Fair(config.sizes, config.threads, boards)
  BY DEF FlopsInv
<1>2. \A S : MapThenSumSet(size, S) = Total(config.sizes, S)
  BY DEF MapThenSumSet, MapThenFoldSet, Total, TotalFun, AnElement
<1> QED
  BY <1>1, <1>2 DEF FlopsAreDealt, Fair

(* Every flop is solved by one thread of each cluster, and no thread gets   *)
(* more than its part and one bucket.                                       *)
THEOREM FlopsAreDealtFairly == Spec => []FlopsAreDealt
<1>1. Init => FlopsInv
  <2> SUFFICES ASSUME Init PROVE FlopsInv
    OBVIOUS
  <2>1. config \in Configs
    BY DEF Init
  <2>2. config \in Configuration
    BY <2>1, SolverAssumption DEF SolverAssumption
  <2>3. IF config.sizes = << >> THEN boards = << >>
        ELSE \E order \in Descending(config.sizes) :
               boards = AllocateFlops(config.sizes, order, config.threads)
    BY DEF Init
  <2>4. CASE config.sizes = << >>
    BY <2>2, <2>3, <2>4 DEF FlopsInv
  <2>5. CASE config.sizes # << >>
    <3>1. PICK order \in Descending(config.sizes) :
            boards = AllocateFlops(config.sizes, order, config.threads)
      BY <2>3, <2>5
    <3>2. config.sizes \in Seq(Nat) /\ config.threads \in Nat \ {0}
      BY <2>2 DEF Configuration
    <3>3. Fair(config.sizes, config.threads, boards)
      BY <2>5, <3>1, <3>2, AllocationIsFair
    <3> QED BY <2>2, <2>5, <3>3 DEF FlopsInv
  <2> QED BY <2>4, <2>5
<1>2. FlopsInv /\ [Next]_vars => FlopsInv'
  <2> SUFFICES ASSUME FlopsInv, [Next]_vars PROVE FlopsInv'
    OBVIOUS
  <2>1. config' = config /\ boards' = boards
    BY DEF Next, SolverStep, CmdSolve, CmdProfile, CmdOther, Join, Return, Iterate, Poll, Get, Rest,
           vars, solverVars
  <2> QED BY <2>1 DEF FlopsInv
<1> QED
  BY <1>1, <1>2, FlopsAreFair, PTL DEF Spec

=============================================================================
