----------------------------- MODULE FoldProofs -----------------------------
(***************************************************************************)
(* What a left fold computes.  processTransactionFile and readBetting are  *)
(* loops over the lines of a file or the actions of a hand; the models     *)
(* write them as FoldLeft, and these are its facts, for any step Op of the *)
(* loop: the module is instantiated with the step.                         *)
(*                                                                         *)
(* A fold of the library is a recursive function on the sets of indices,   *)
(* taken up to the last one.  Fold is that function with Op in place.      *)
(* Scan is the same for FlattenSeq, which recurs on the indices themselves *)
(* and starts from the first element.                                      *)
(***************************************************************************)
EXTENDS SumProofs

CONSTANT Op(_, _)

Top(t) == CHOOSE n \in t : \A m \in t : n >= m

IsFold(g, base, s, n) ==
    g = [t \in SUBSET (1 .. n) |->
            IF t = {} THEN base ELSE Op(g[t \ {Top(t)}], s[Top(t)])]

FoldFun(base, s) ==
    CHOOSE g : g = [t \in SUBSET DOMAIN s |->
                       IF t = {} THEN base ELSE Op(g[t \ {Top(t)}], s[Top(t)])]

Fold(base, s) == FoldFun(base, s)[DOMAIN s]

IsScan(g, s, n) == g = [i \in 1 .. n |-> IF i = 1 THEN s[i] ELSE Op(g[i - 1], s[i])]

ScanFun(s) ==
    CHOOSE g : g = [i \in 1 .. Len(s) |-> IF i = 1 THEN s[i] ELSE Op(g[i - 1], s[i])]

Scan(s) == ScanFun(s)[Len(s)]

-----------------------------------------------------------------------------
(* The last index of a set is taken off first.                              *)
LEMMA TopOfSegment ==
  ASSUME NEW n \in Nat, NEW t \in SUBSET (1 .. n + 1)
  PROVE  /\ n + 1 \in t => Top(t) = n + 1 /\ t \ {Top(t)} \in SUBSET (1 .. n)
         /\ n + 1 \notin t => t \in SUBSET (1 .. n)
<1>1. ASSUME n + 1 \in t PROVE Top(t) = n + 1
  <2>1. \A m \in t : n + 1 >= m
    OBVIOUS
  <2>2. \A k \in t : (\A m \in t : k >= m) => k = n + 1
    BY <1>1
  <2> QED BY <1>1, <2>1, <2>2 DEF Top
<1>2. \A i \in 1 .. n + 1 : i # n + 1 => i \in 1 .. n
  OBVIOUS
<1> QED
  BY <1>1, <1>2

(* The recursion is well defined, segment by segment.                       *)
LEMMA FoldExists ==
  ASSUME NEW base, NEW s, NEW n \in Nat
  PROVE  \E g : IsFold(g, base, s, n)
<1> DEFINE S == {k \in Nat : \E g : IsFold(g, base, s, k)}
<1>1. 0 \in S
  <2> DEFINE g == [t \in SUBSET (1 .. 0) |-> base]
  <2>1. \A t \in SUBSET (1 .. 0) : t = {}
    OBVIOUS
  <2>2. IsFold(g, base, s, 0)
    BY <2>1 DEF IsFold
  <2> QED BY <2>2
<1>2. ASSUME NEW k \in Nat, k \in S PROVE k + 1 \in S
  <2>1. PICK g : IsFold(g, base, s, k)
    BY <1>2
  <2> DEFINE h == [t \in SUBSET (1 .. k + 1) |->
                     IF k + 1 \in t THEN Op(g[t \ {k + 1}], s[k + 1]) ELSE g[t]]
  <2>2. ASSUME NEW t \in SUBSET (1 .. k + 1)
        PROVE  h[t] = IF t = {} THEN base ELSE Op(h[t \ {Top(t)}], s[Top(t)])
    <3>1. CASE k + 1 \in t
      <4>1. Top(t) = k + 1 /\ t \ {k + 1} \in SUBSET (1 .. k)
        BY <3>1, TopOfSegment
      <4>2. t \ {k + 1} \in SUBSET (1 .. k + 1) /\ k + 1 \notin t \ {k + 1}
        BY <4>1
      <4>3. h[t \ {k + 1}] = g[t \ {k + 1}]
        BY <4>2
      <4>4. h[t] = Op(g[t \ {k + 1}], s[k + 1])
        BY <3>1
      <4> HIDE DEF h
      <4> QED BY <3>1, <4>1, <4>3, <4>4
    <3>2. CASE k + 1 \notin t
      <4>1. t \in SUBSET (1 .. k)
        BY <3>2, TopOfSegment
      <4>2. h[t] = g[t]
        BY <3>2
      <4>3. g[t] = IF t = {} THEN base ELSE Op(g[t \ {Top(t)}], s[Top(t)])
        BY <2>1, <4>1 DEF IsFold
      <4>4. t \ {Top(t)} \in SUBSET (1 .. k + 1) /\ k + 1 \notin t \ {Top(t)}
        BY <3>2
      <4>5. h[t \ {Top(t)}] = g[t \ {Top(t)}]
        BY <4>4
      <4> HIDE DEF h
      <4> QED BY <4>2, <4>3, <4>5
    <3> QED BY <3>1, <3>2
  <2>3. IsFold(h, base, s, k + 1)
    <3>1. h = [t \in SUBSET (1 .. k + 1) |-> h[t]]
      OBVIOUS
    <3> HIDE DEF h
    <3> QED BY <2>2, <3>1 DEF IsFold
  <2> QED BY <2>3
<1> HIDE DEF S
<1>3. n \in S
  BY <1>1, <1>2, Induction
<1> QED
  BY <1>3 DEF S

(* The function is the fold.                                                *)
LEMMA FoldFunIsFold ==
  ASSUME NEW base, NEW S, NEW s \in Seq(S)
  PROVE  IsFold(FoldFun(base, s), base, s, Len(s)) /\ DOMAIN s = 1 .. Len(s)
<1>1. DOMAIN s = 1 .. Len(s) /\ Len(s) \in Nat
  OBVIOUS
<1>2. \E g : IsFold(g, base, s, Len(s))
  BY <1>1, FoldExists
<1>3. FoldFun(base, s) = CHOOSE g : IsFold(g, base, s, Len(s))
  BY <1>1 DEF FoldFun, IsFold
<1> QED
  BY <1>1, <1>2, <1>3

-----------------------------------------------------------------------------
(* No line: the loop leaves what it began with.                             *)
THEOREM FoldEmpty ==
  ASSUME NEW base
  PROVE  Fold(base, << >>) = base
<1>1. << >> \in Seq({}) /\ Len(<< >>) = 0 /\ DOMAIN << >> = {}
  OBVIOUS
<1>2. IsFold(FoldFun(base, << >>), base, << >>, 0)
  BY <1>1, FoldFunIsFold
<1>3. {} \in SUBSET (1 .. 0)
  OBVIOUS
<1> QED
  BY <1>1, <1>2, <1>3 DEF Fold, IsFold

(* One line more: the loop's step is taken once more.                       *)
THEOREM FoldAppend ==
  ASSUME NEW base, NEW S, NEW s \in Seq(S), NEW e \in S
  PROVE  Fold(base, Append(s, e)) = Op(Fold(base, s), e)
<1> DEFINE n == Len(s)
           u == Append(s, e)
           f == FoldFun(base, s)
           g == FoldFun(base, u)
<1>1. /\ n \in Nat /\ DOMAIN s = 1 .. n
      /\ u \in Seq(S) /\ Len(u) = n + 1 /\ DOMAIN u = 1 .. n + 1 /\ u[n + 1] = e
      /\ \A i \in 1 .. n : u[i] = s[i]
  OBVIOUS
<1>2. IsFold(f, base, s, n)
  BY FoldFunIsFold
<1>3. IsFold(g, base, u, n + 1)
  BY <1>1, FoldFunIsFold
<1> HIDE DEF n, u, f, g
<1> DEFINE I == {k \in Nat : k <= n => f[1 .. k] = g[1 .. k]}
<1>4. 0 \in I
  <2>1. 1 .. 0 = {} /\ {} \in SUBSET (1 .. n) /\ {} \in SUBSET (1 .. n + 1)
    OBVIOUS
  <2>2. f[{}] = base /\ g[{}] = base
    BY <1>2, <1>3, <2>1 DEF IsFold
  <2> QED BY <2>1, <2>2
<1>5. ASSUME NEW k \in Nat, k \in I PROVE k + 1 \in I
  <2> SUFFICES ASSUME k + 1 <= n PROVE f[1 .. k + 1] = g[1 .. k + 1]
    OBVIOUS
  <2>1. 1 .. k + 1 \in SUBSET (1 .. n) /\ 1 .. k + 1 \in SUBSET (1 .. n + 1)
        /\ 1 .. k + 1 # {} /\ k + 1 \in 1 .. k + 1
    <3>1. n \in Nat
      BY <1>1
    <3>2. \A i \in 1 .. k + 1 : i \in 1 .. n /\ i \in 1 .. n + 1
      BY <3>1
    <3>3. k + 1 \in 1 .. k + 1
      OBVIOUS
    <3> QED BY <3>2, <3>3
  <2>2. Top(1 .. k + 1) = k + 1
    <3>1. 1 .. k + 1 \in SUBSET (1 .. k + 1)
      OBVIOUS
    <3> QED BY <2>1, <3>1, TopOfSegment
  <2>3. (1 .. k + 1) \ {k + 1} = 1 .. k
    <3>1. \A i : i \in 1 .. k + 1 /\ i # k + 1 <=> i \in 1 .. k
      OBVIOUS
    <3> QED BY <3>1
  <2>4. f[1 .. k + 1] = Op(f[1 .. k], s[k + 1])
    BY <1>2, <2>1, <2>2, <2>3 DEF IsFold
  <2>5. g[1 .. k + 1] = Op(g[1 .. k], u[k + 1])
    BY <1>3, <2>1, <2>2, <2>3 DEF IsFold
  <2>6. u[k + 1] = s[k + 1] /\ f[1 .. k] = g[1 .. k]
    BY <1>1, <1>5
  <2> QED BY <2>4, <2>5, <2>6
<1> HIDE DEF I
<1>6. n \in I
  BY <1>1, <1>4, <1>5, Induction
<1>7. f[1 .. n] = g[1 .. n]
  BY <1>1, <1>6 DEF I
<1>8. g[1 .. n + 1] = Op(g[1 .. n], u[n + 1])
  <2>1. 1 .. n + 1 \in SUBSET (1 .. n + 1) /\ 1 .. n + 1 # {} /\ n + 1 \in 1 .. n + 1
    <3>1. n \in Nat
      BY <1>1
    <3>2. n + 1 \in 1 .. n + 1
      BY <3>1
    <3> QED BY <3>2
  <2>2. Top(1 .. n + 1) = n + 1
    BY <1>1, <2>1, TopOfSegment
  <2>3. (1 .. n + 1) \ {n + 1} = 1 .. n
    <3>1. n \in Nat
      BY <1>1
    <3>2. \A i : i \in 1 .. n + 1 /\ i # n + 1 <=> i \in 1 .. n
      BY <3>1
    <3> QED BY <3>2
  <2> QED BY <1>3, <2>1, <2>2, <2>3 DEF IsFold
<1> QED
  BY <1>1, <1>7, <1>8 DEF Fold, f, g, u, n

-----------------------------------------------------------------------------
(* The recursion on the indices is well defined too.                        *)
LEMMA ScanExists ==
  ASSUME NEW s, NEW n \in Nat
  PROVE  \E g : IsScan(g, s, n)
<1> DEFINE S == {k \in Nat : \E g : IsScan(g, s, k)}
<1>1. 0 \in S
  <2> DEFINE g == [i \in 1 .. 0 |-> i]
  <2>1. IsScan(g, s, 0)
    BY DEF IsScan
  <2> QED BY <2>1
<1>2. ASSUME NEW k \in Nat, k \in S PROVE k + 1 \in S
  <2>1. PICK g : IsScan(g, s, k)
    BY <1>2
  <2> DEFINE last == IF k = 0 THEN s[k + 1] ELSE Op(g[k], s[k + 1])
             h == [i \in 1 .. k + 1 |-> IF i = k + 1 THEN last ELSE g[i]]
  <2>2. ASSUME NEW i \in 1 .. k + 1
        PROVE  h[i] = IF i = 1 THEN s[i] ELSE Op(h[i - 1], s[i])
    <3>1. CASE i = k + 1
      <4>1. h[i] = last
        BY <3>1
      <4>2. i # 1 => i - 1 \in 1 .. k + 1 /\ i - 1 = k /\ k # k + 1 /\ k # 0
        BY <3>1
      <4>3. i # 1 => h[i - 1] = g[k]
        BY <4>2
      <4>4. i = 1 <=> k = 0
        BY <3>1
      <4> HIDE DEF h
      <4> QED BY <3>1, <4>1, <4>3, <4>4
    <3>2. CASE i # k + 1
      <4>1. i \in 1 .. k /\ h[i] = g[i]
        BY <3>2
      <4>2. g[i] = IF i = 1 THEN s[i] ELSE Op(g[i - 1], s[i])
        BY <2>1, <4>1 DEF IsScan
      <4>3. i # 1 => h[i - 1] = g[i - 1]
        <5>1. i # 1 => i - 1 \in 1 .. k + 1 /\ i - 1 # k + 1
          BY <3>2
        <5> QED BY <5>1
      <4> HIDE DEF h
      <4> QED BY <4>1, <4>2, <4>3
    <3> QED BY <3>1, <3>2
  <2>3. IsScan(h, s, k + 1)
    <3>1. h = [i \in 1 .. k + 1 |-> h[i]]
      OBVIOUS
    <3> HIDE DEF h
    <3> QED BY <2>2, <3>1 DEF IsScan
  <2> QED BY <2>3
<1> HIDE DEF S
<1>3. n \in S
  BY <1>1, <1>2, Induction
<1> QED
  BY <1>3 DEF S

(* The function is the scan.                                                *)
LEMMA ScanFunIsScan ==
  ASSUME NEW S, NEW s \in Seq(S)
  PROVE  IsScan(ScanFun(s), s, Len(s))
<1>1. \E g : IsScan(g, s, Len(s))
  BY ScanExists
<1>2. ScanFun(s) = CHOOSE g : IsScan(g, s, Len(s))
  BY DEF ScanFun, IsScan
<1> QED
  BY <1>1, <1>2

(* One element is its own scan.                                             *)
THEOREM ScanOne ==
  ASSUME NEW S, NEW s \in Seq(S), Len(s) = 1
  PROVE  Scan(s) = s[1]
<1>1. IsScan(ScanFun(s), s, 1)
  BY ScanFunIsScan
<1>2. 1 \in 1 .. 1
  OBVIOUS
<1> QED
  BY <1>1, <1>2 DEF Scan, IsScan

(* One element more: one step more.                                         *)
THEOREM ScanAppend ==
  ASSUME NEW S, NEW s \in Seq(S), s # << >>, NEW e \in S
  PROVE  Scan(Append(s, e)) = Op(Scan(s), e)
<1> DEFINE n == Len(s)
           u == Append(s, e)
           f == ScanFun(s)
           g == ScanFun(u)
<1>1. /\ n \in Nat /\ n >= 1 /\ u \in Seq(S) /\ Len(u) = n + 1 /\ u[n + 1] = e
      /\ \A i \in 1 .. n : u[i] = s[i]
  OBVIOUS
<1>2. IsScan(f, s, n)
  BY ScanFunIsScan
<1>3. IsScan(g, u, n + 1)
  BY <1>1, ScanFunIsScan
<1> HIDE DEF n, u, f, g
<1> DEFINE I == {k \in Nat : k >= 1 /\ k <= n => f[k] = g[k]}
<1>4. 0 \in I
  OBVIOUS
<1>5. ASSUME NEW k \in Nat, k \in I PROVE k + 1 \in I
  <2> SUFFICES ASSUME k + 1 <= n PROVE f[k + 1] = g[k + 1]
    OBVIOUS
  <2>1. n \in Nat
    BY <1>1
  <2>2. k + 1 \in 1 .. n /\ k + 1 \in 1 .. n + 1 /\ (k + 1) - 1 = k
    BY <2>1
  <2>3. f[k + 1] = IF k + 1 = 1 THEN s[k + 1] ELSE Op(f[k], s[k + 1])
    BY <1>2, <2>2 DEF IsScan
  <2>4. g[k + 1] = IF k + 1 = 1 THEN u[k + 1] ELSE Op(g[k], u[k + 1])
    BY <1>3, <2>2 DEF IsScan
  <2>5. u[k + 1] = s[k + 1]
    BY <1>1, <2>2
  <2>6. k + 1 = 1 \/ f[k] = g[k]
    BY <1>5, <2>1
  <2> QED BY <2>3, <2>4, <2>5, <2>6
<1> HIDE DEF I
<1>6. n \in I
  BY <1>1, <1>4, <1>5, Induction
<1>7. f[n] = g[n]
  BY <1>1, <1>6 DEF I
<1>8. g[n + 1] = Op(g[n], u[n + 1])
  <2>1. n \in Nat /\ n >= 1
    BY <1>1
  <2>2. n + 1 \in 1 .. n + 1 /\ (n + 1) - 1 = n /\ n + 1 # 1
    BY <2>1
  <2> QED BY <1>3, <2>2 DEF IsScan
<1>9. Scan(s) = f[n] /\ Scan(u) = g[n + 1]
  <2>1. Len(u) = n + 1
    BY <1>1
  <2> QED BY <2>1 DEF Scan, f, g, n
<1> QED
  BY <1>1, <1>7, <1>8, <1>9 DEF u

=============================================================================
