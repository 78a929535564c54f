------------------------- MODULE EfCalibrationProofs -------------------------
(***************************************************************************)
(* Calibration for any number of queries, scores and buckets, any outcomes *)
(* of the searches, and any bounds.                                        *)
(***************************************************************************)
EXTENDS EfCalibration, FiniteSetTheorems, TLAPS

(* Finite sets have smallest subsets of any kind.                          *)
LEMMA SmallestSet ==
  ASSUME NEW D, IsFiniteSet(D), NEW X \in SUBSET (SUBSET D), X # {}
  PROVE  \E s \in X : \A u \in X : u \subseteq s => u = s
<1> DEFINE R == StrictSubsetOrdering(D)
<1>1. \A s \in X : s \in FiniteSubsetsOf(D)
  BY FS_Subset DEF FiniteSubsetsOf
<1>2. IsWellFoundedOn(R, FiniteSubsetsOf(D))
  BY FS_StrictSubsetOrderingWellFounded
<1> HIDE DEF R
<1>3. PICK s \in X : \A u \in X : ~ (<<u, s>> \in R)
  BY <1>1, <1>2, WFMin
<1>4. ASSUME NEW u \in X, u \subseteq s PROVE u = s
  BY <1>3, <1>4 DEF R, StrictSubsetOrdering
<1> QED
  BY <1>4

-----------------------------------------------------------------------------
Some(s) == CHOOSE x \in s : TRUE
LEMMA SomeIn == \A s : s # {} => Some(s) \in s
  BY DEF Some

(* What holds of the empty set, and of a set if it holds without one of its*)
(* members, holds of all subsets.                                          *)
LEMMA BySubsets ==
  ASSUME NEW D, IsFiniteSet(D), NEW X \in SUBSET (SUBSET D), {} \in X,
         \A s \in SUBSET D : s # {} /\ s \ {Some(s)} \in X => s \in X
  PROVE  X = SUBSET D
<1> DEFINE Y == (SUBSET D) \ X
<1>1. SUFFICES ASSUME Y # {} PROVE FALSE
  OBVIOUS
<1>2. PICK s \in Y : \A u \in Y : u \subseteq s => u = s
  <2>1. Y \in SUBSET (SUBSET D)
    OBVIOUS
  <2> HIDE DEF Y
  <2> QED
    BY <1>1, <2>1, SmallestSet
<1>3. s \in SUBSET D /\ s \notin X /\ s # {}
  OBVIOUS
<1>4. s \ {Some(s)} \in SUBSET D /\ s \ {Some(s)} # s
  BY <1>3, SomeIn
<1>5. s \ {Some(s)} \in X
  BY <1>2, <1>4
<1> QED
  BY <1>3, <1>5

-----------------------------------------------------------------------------
(* Sums and products are values of recursive functions on the subsets of a *)
(* finite set D, of numbers: there is such a function, whatever the step F.*)
Folds(g, F, base, D) ==
  g = [s \in SUBSET D |-> IF s = {} THEN base ELSE F[<<Some(s), g[s \ {Some(s)}]>>]]

LEMMA FoldsAgree ==
  ASSUME NEW D, IsFiniteSet(D), NEW C \in SUBSET D, NEW F, NEW base,
         NEW g, Folds(g, F, base, D), NEW h, Folds(h, F, base, C)
  PROVE  \A s \in SUBSET C : g[s] = h[s]
<1> DEFINE X == {s \in SUBSET C : g[s] = h[s]}
<1>1. IsFiniteSet(C)
  BY FS_Subset
<1>2. \A s \in SUBSET C : g[s] = IF s = {} THEN base ELSE F[<<Some(s), g[s \ {Some(s)}]>>]
  BY DEF Folds
<1>3. \A s \in SUBSET C : h[s] = IF s = {} THEN base ELSE F[<<Some(s), h[s \ {Some(s)}]>>]
  BY DEF Folds
<1>4. ASSUME NEW s \in SUBSET C, s # {}, s \ {Some(s)} \in X PROVE s \in X
  BY <1>2, <1>3, <1>4
<1>5. {} \in X /\ X \in SUBSET (SUBSET C)
  BY <1>2, <1>3
<1> HIDE DEF X
<1>6. X = SUBSET C
  BY <1>1, <1>4, <1>5, BySubsets
<1> QED
  BY <1>6 DEF X

LEMMA FoldsExist ==
  ASSUME NEW D, IsFiniteSet(D), NEW F, NEW base
  PROVE  \E g : Folds(g, F, base, D)
<1> DEFINE X == {s \in SUBSET D : ~ \E g : Folds(g, F, base, s)}
<1>1. SUFFICES ASSUME X # {} PROVE FALSE
  OBVIOUS
<1>2. PICK s \in X : \A u \in X : u \subseteq s => u = s
  <2>1. X \in SUBSET (SUBSET D)
    OBVIOUS
  <2> HIDE DEF X
  <2> QED
    BY <1>1, <2>1, SmallestSet
<1>3. s \in SUBSET D /\ IsFiniteSet(s) /\ ~ \E g : Folds(g, F, base, s)
  BY FS_Subset
<1> DEFINE Of(u) == CHOOSE g : Folds(g, F, base, u)
           G == [u \in SUBSET s |->
                  IF u = {} THEN base
                  ELSE F[<<Some(u), Of(u \ {Some(u)})[u \ {Some(u)}]>>]]
<1>4. ASSUME NEW u \in SUBSET s, u # s PROVE Folds(Of(u), F, base, u)
  <2>1. u \notin X
    BY <1>2, <1>4
  <2>2. \E g : Folds(g, F, base, u)
    BY <1>3, <2>1
  <2> QED
    BY <2>2
<1>5. ASSUME NEW u \in SUBSET s, u # s PROVE G[u] = Of(u)[u]
  <2>1. Folds(Of(u), F, base, u)
    BY <1>4, <1>5
  <2> HIDE DEF Of
  <2>2. Of(u)[u] = IF u = {} THEN base ELSE F[<<Some(u), Of(u)[u \ {Some(u)}]>>]
    BY <2>1 DEF Folds
  <2>3. CASE u = {}
    BY <2>2, <2>3
  <2>4. CASE u # {}
    <3>1. u \ {Some(u)} \in SUBSET s /\ u \ {Some(u)} # s /\ u \ {Some(u)} \subseteq u
      BY <2>4, SomeIn
    <3>2. Folds(Of(u \ {Some(u)}), F, base, u \ {Some(u)})
      BY <1>4, <3>1
    <3>3. IsFiniteSet(u)
      BY <1>3, FS_Subset
    <3>4. Of(u)[u \ {Some(u)}] = Of(u \ {Some(u)})[u \ {Some(u)}]
      BY <2>1, <3>1, <3>2, <3>3, FoldsAgree
    <3> QED
      BY <2>2, <2>4, <3>4
  <2> QED
    BY <2>3, <2>4
<1>6. \A u \in SUBSET s : G[u] = IF u = {} THEN base ELSE F[<<Some(u), G[u \ {Some(u)}]>>]
  <2> TAKE u \in SUBSET s
  <2>1. CASE u = {}
    BY <2>1
  <2>2. CASE u # {}
    <3>1. u \ {Some(u)} \in SUBSET s /\ u \ {Some(u)} # s
      BY <2>2, SomeIn
    <3>2. G[u \ {Some(u)}] = Of(u \ {Some(u)})[u \ {Some(u)}]
      BY <1>5, <3>1
    <3>3. G[u] = F[<<Some(u), Of(u \ {Some(u)})[u \ {Some(u)}]>>]
      BY <2>2
    <3> QED
      BY <2>2, <3>2, <3>3
  <2> QED
    BY <2>1, <2>2
<1>7. G = [u \in SUBSET s |-> G[u]]
  OBVIOUS
<1> HIDE DEF G
<1>8. Folds(G, F, base, s)
  BY <1>6, <1>7 DEF Folds
<1> QED
  BY <1>3, <1>8

LEMMA FoldsStep ==
  ASSUME NEW D, NEW F, NEW base, NEW g, Folds(g, F, base, D)
  PROVE  /\ g[{}] = base
         /\ \A s \in SUBSET D : s # {} =>
              /\ g[s] = F[<<Some(s), g[s \ {Some(s)}]>>]
              /\ Some(s) \in D /\ Some(s) \in s /\ s \ {Some(s)} \in SUBSET D
BY SomeIn DEF Folds

(* Numbers fold to numbers.                                                *)
LEMMA FoldsInt ==
  ASSUME NEW D, IsFiniteSet(D), NEW F \in [D \X Int -> Int], NEW base \in Int,
         NEW g, Folds(g, F, base, D)
  PROVE  \A s \in SUBSET D : g[s] \in Int
<1> DEFINE X == {s \in SUBSET D : g[s] \in Int}
<1>0. /\ g[{}] = base
      /\ \A s \in SUBSET D : s # {} =>
           g[s] = F[<<Some(s), g[s \ {Some(s)}]>>] /\ Some(s) \in D
  BY FoldsStep
<1>1. {} \in X
  BY <1>0
<1>2. ASSUME NEW s \in SUBSET D, s # {}, s \ {Some(s)} \in X PROVE s \in X
  <2>1. g[s \ {Some(s)}] \in Int
    BY <1>2
  <2> QED
    BY <1>0, <1>2, <2>1
<1>3. X \in SUBSET (SUBSET D)
  OBVIOUS
<1> HIDE DEF X
<1>4. X = SUBSET D
  BY <1>1, <1>2, <1>3, BySubsets
<1> QED
  BY <1>4 DEF X

Sums(g, f, D) ==
  g = [s \in SUBSET D |-> IF s = {} THEN 0 ELSE f[Some(s)] + g[s \ {Some(s)}]]

LEMMA SumsExist ==
  ASSUME NEW D, IsFiniteSet(D), NEW f, \A x \in D : f[x] \in Int
  PROVE  \E g : Sums(g, f, D)
<1> DEFINE F == [p \in D \X Int |-> f[p[1]] + p[2]]
<1>1. F \in [D \X Int -> Int]
  OBVIOUS
<1>2. \A x \in D, i \in Int : F[<<x, i>>] = f[x] + i
  OBVIOUS
<1> HIDE DEF F
<1>3. PICK g : Folds(g, F, 0, D)
  BY FoldsExist
<1>4. \A s \in SUBSET D : g[s] \in Int
  <2>1. 0 \in Int
    OBVIOUS
  <2> QED
    BY <1>1, <1>3, <2>1, FoldsInt
<1>5. ASSUME NEW s \in SUBSET D
      PROVE  g[s] = IF s = {} THEN 0 ELSE f[Some(s)] + g[s \ {Some(s)}]
  <2>1. /\ g[{}] = 0
        /\ s # {} => /\ g[s] = F[<<Some(s), g[s \ {Some(s)}]>>]
                     /\ Some(s) \in D /\ s \ {Some(s)} \in SUBSET D
    BY <1>3, FoldsStep
  <2> QED
    BY <1>2, <1>4, <2>1
<1>6. g = [s \in SUBSET D |-> g[s]]
  BY <1>3 DEF Folds
<1> QED
  BY <1>5, <1>6 DEF Sums

LEMMA TotalSums ==
  ASSUME NEW D, IsFiniteSet(D), NEW f, \A x \in D : f[x] \in Int
  PROVE  \E g : Sums(g, f, D) /\ Total(f, D) = g[D]
<1>1. Total(f, D) = (CHOOSE g : Sums(g, f, D))[D]
  BY DEF Total, MapThenSumSet, MapThenFoldSet, Sums, Some
<1> QED
  BY <1>1, SumsExist

LEMMA SumsStep ==
  ASSUME NEW D, NEW f, NEW g, Sums(g, f, D)
  PROVE  /\ g[{}] = 0
         /\ \A s \in SUBSET D : s # {} =>
              /\ g[s] = f[Some(s)] + g[s \ {Some(s)}]
              /\ Some(s) \in D /\ Some(s) \in s /\ s \ {Some(s)} \in SUBSET D
BY SomeIn DEF Sums

LEMMA SumsInt ==
  ASSUME NEW D, IsFiniteSet(D), NEW f, \A x \in D : f[x] \in Int, NEW g, Sums(g, f, D)
  PROVE  \A s \in SUBSET D : g[s] \in Int
<1> DEFINE X == {s \in SUBSET D : g[s] \in Int}
<1>1. {} \in X
  BY SumsStep
<1>2. ASSUME NEW s \in SUBSET D, s # {}, s \ {Some(s)} \in X PROVE s \in X
  BY <1>2, SumsStep
<1>3. X \in SUBSET (SUBSET D)
  OBVIOUS
<1> HIDE DEF X
<1>4. X = SUBSET D
  BY <1>1, <1>2, <1>3, BySubsets
<1> QED
  BY <1>4 DEF X

(* A sum of as many numbers as a set has, each within bounds.              *)
LEMMA TotalBounded ==
  ASSUME NEW D, IsFiniteSet(D), NEW f, NEW lo \in Int, NEW hi \in Int,
         \A x \in D : f[x] \in Int /\ lo <= f[x] /\ f[x] <= hi
  PROVE  /\ Total(f, D) \in Int /\ Cardinality(D) \in Nat
         /\ lo * Cardinality(D) <= Total(f, D) /\ Total(f, D) <= hi * Cardinality(D)
<1>1. PICK g : Sums(g, f, D) /\ Total(f, D) = g[D]
  BY TotalSums
<1>2. \A s \in SUBSET D : g[s] \in Int
  BY <1>1, SumsInt
<1>3. \A s \in SUBSET D : IsFiniteSet(s) /\ Cardinality(s) \in Nat
  BY FS_Subset, FS_CardinalityType
<1> DEFINE X == {s \in SUBSET D : lo * Cardinality(s) <= g[s] /\ g[s] <= hi * Cardinality(s)}
<1>4. {} \in X
  <2>1. Cardinality({}) = 0
    BY FS_EmptySet
  <2>2. g[{}] = 0
    BY <1>1, SumsStep
  <2> QED
    BY <2>1, <2>2
<1>5. ASSUME NEW s \in SUBSET D, s # {}, s \ {Some(s)} \in X PROVE s \in X
  <2> DEFINE r == s \ {Some(s)}
  <2>1. /\ g[s] = f[Some(s)] + g[r]
        /\ Some(s) \in D /\ Some(s) \in s /\ r \in SUBSET D
    BY <1>1, <1>5, SumsStep
  <2>2. Cardinality(r) = Cardinality(s) - 1
    BY <1>3, <2>1, FS_RemoveElement
  <2>3. Cardinality(s) = Cardinality(r) + 1 /\ Cardinality(r) \in Nat /\ g[r] \in Int
    BY <1>2, <1>3, <2>1, <2>2
  <2>4. lo * Cardinality(r) <= g[r] /\ g[r] <= hi * Cardinality(r)
    BY <1>5
  <2>5. \A c \in Nat : lo * (c + 1) = lo * c + lo /\ hi * (c + 1) = hi * c + hi
    OBVIOUS
  <2>6. \A c \in Nat : lo * c \in Int /\ hi * c \in Int
    OBVIOUS
  <2>7. f[Some(s)] \in Int /\ lo <= f[Some(s)] /\ f[Some(s)] <= hi
    BY <2>1
  <2> HIDE DEF r
  <2> QED
    BY <2>1, <2>3, <2>4, <2>5, <2>6, <2>7
<1>6. X \in SUBSET (SUBSET D)
  OBVIOUS
<1> HIDE DEF X
<1>7. X = SUBSET D
  BY <1>4, <1>5, <1>6, BySubsets
<1> QED
  BY <1>1, <1>2, <1>3, <1>7 DEF X

(* The sum of products with a number in bounds.                            *)
LEMMA TotalWeighted ==
  ASSUME NEW D, IsFiniteSet(D), NEW f, NEW w, NEW lo \in Int, NEW hi \in Int,
         \A x \in D : f[x] \in Int /\ w[x] \in Int /\ lo * w[x] <= f[x] /\ f[x] <= hi * w[x]
  PROVE  /\ Total(f, D) \in Int /\ Total(w, D) \in Int
         /\ lo * Total(w, D) <= Total(f, D) /\ Total(f, D) <= hi * Total(w, D)
<1>1. PICK g : Sums(g, f, D) /\ Total(f, D) = g[D]
  BY TotalSums
<1>2. PICK h : Sums(h, w, D) /\ Total(w, D) = h[D]
  BY TotalSums
<1>3. \A s \in SUBSET D : g[s] \in Int /\ h[s] \in Int
  BY <1>1, <1>2, SumsInt
<1> DEFINE X == {s \in SUBSET D : lo * h[s] <= g[s] /\ g[s] <= hi * h[s]}
<1>4. {} \in X
  <2>1. g[{}] = 0
    BY <1>1, SumsStep
  <2>2. h[{}] = 0
    BY <1>2, SumsStep
  <2> QED
    BY <2>1, <2>2
<1>5. ASSUME NEW s \in SUBSET D, s # {}, s \ {Some(s)} \in X PROVE s \in X
  <2> DEFINE r == s \ {Some(s)}
             x == Some(s)
  <2>0. lo * h[r] <= g[r] /\ g[r] <= hi * h[r] /\ s \in SUBSET D /\ s # {}
    BY <1>5
  <2> HIDE DEF X
  <2>1. g[s] = f[x] + g[r] /\ x \in D /\ r \in SUBSET D
    BY <1>1, <2>0, SumsStep
  <2>2. h[s] = w[x] + h[r]
    BY <1>2, <2>0, SumsStep
  <2>3. h[r] \in Int /\ g[r] \in Int /\ w[x] \in Int /\ f[x] \in Int
    BY <1>3, <2>1
  <2>4. lo * h[r] <= g[r] /\ g[r] <= hi * h[r] /\ lo * w[x] <= f[x] /\ f[x] <= hi * w[x]
    BY <2>0, <2>1
  <2>5. \A a, b \in Int : /\ lo * (a + b) = lo * a + lo * b /\ hi * (a + b) = hi * a + hi * b
                          /\ lo * a \in Int /\ hi * a \in Int
    OBVIOUS
  <2> HIDE DEF r, x
  <2>6. /\ lo * h[s] = lo * w[x] + lo * h[r] /\ hi * h[s] = hi * w[x] + hi * h[r]
        /\ lo * w[x] \in Int /\ lo * h[r] \in Int /\ hi * w[x] \in Int /\ hi * h[r] \in Int
    BY <2>2, <2>3, <2>5
  <2>7. lo * h[s] <= g[s] /\ g[s] <= hi * h[s]
    BY <2>1, <2>3, <2>4, <2>6
  <2> QED
    BY <2>7 DEF X
<1>6. X \in SUBSET (SUBSET D)
  OBVIOUS
<1> HIDE DEF X
<1>7. X = SUBSET D
  BY <1>4, <1>5, <1>6, BySubsets
<1> QED
  BY <1>1, <1>2, <1>3, <1>7 DEF X

LEMMA ImageFinite ==
  ASSUME NEW D, IsFiniteSet(D), NEW f
  PROVE  IsFiniteSet({f[x] : x \in D})
<1> DEFINE X == {s \in SUBSET D : IsFiniteSet({f[x] : x \in s})}
<1>1. {} \in X
  <2>1. {f[x] : x \in {}} = {}
    OBVIOUS
  <2> QED
    BY <2>1, FS_EmptySet
<1>2. ASSUME NEW s \in SUBSET D, s # {}, s \ {Some(s)} \in X PROVE s \in X
  <2> DEFINE a == Some(s)
             r == s \ {a}
             I(u) == {f[x] : x \in u}
  <2>1. s = r \cup {a} /\ IsFiniteSet(I(r))
    BY <1>2, SomeIn
  <2> HIDE DEF a, r
  <2>2. I(s) = I(r) \cup {f[a]}
    BY <2>1
  <2> HIDE DEF I
  <2>3. IsFiniteSet(I(r) \cup {f[a]})
    BY <2>1, FS_AddElement
  <2>4. IsFiniteSet(I(s))
    BY <2>2, <2>3
  <2> QED
    BY <2>4 DEF I
<1>3. X \in SUBSET (SUBSET D)
  OBVIOUS
<1> HIDE DEF X
<1>4. X = SUBSET D
  BY <1>1, <1>2, <1>3, BySubsets
<1> QED
  BY <1>4 DEF X

(* Finite sets of numbers have a least and a greatest member.              *)
LEMMA LeastGreatest ==
  ASSUME NEW D, IsFiniteSet(D), D \subseteq Int, D # {}
  PROVE  /\ Min(D) \in D /\ \A y \in D : Min(D) <= y
         /\ Max(D) \in D /\ \A y \in D : Max(D) >= y
<1> DEFINE Ends(s) == /\ \E x \in s : \A y \in s : x <= y
                      /\ \E x \in s : \A y \in s : x >= y
           X == {s \in SUBSET D : s # {} => Ends(s)}
<1>1. ASSUME NEW s \in SUBSET D, s # {}, s \ {Some(s)} \in X PROVE s \in X
  <2> DEFINE a == Some(s)
             r == s \ {a}
  <2>1. a \in s /\ s = r \cup {a}
    BY <1>1, SomeIn
  <2>2. r # {} => Ends(r)
    BY <1>1
  <2>3. a \in Int /\ r \subseteq Int
    BY <2>1
  <2> HIDE DEF a, r
  <2>4. CASE r = {}
    BY <2>1, <2>3, <2>4
  <2>5. CASE r # {}
    <3>1. PICK x \in r : \A y \in r : x <= y
      BY <2>2, <2>5
    <3>2. PICK z \in r : \A y \in r : z >= y
      BY <2>2, <2>5
    <3>3. \E b \in s : \A y \in s : b <= y
      <4>1. CASE a <= x
        BY <2>1, <2>3, <3>1, <4>1
      <4>2. CASE ~(a <= x)
        BY <2>1, <2>3, <3>1, <4>2
      <4> QED
        BY <4>1, <4>2
    <3>4. \E b \in s : \A y \in s : b >= y
      <4>1. CASE a >= z
        BY <2>1, <2>3, <3>2, <4>1
      <4>2. CASE ~(a >= z)
        BY <2>1, <2>3, <3>2, <4>2
      <4> QED
        BY <4>1, <4>2
    <3> QED
      BY <3>3, <3>4
  <2> QED
    BY <2>4, <2>5
<1>2. X \in SUBSET (SUBSET D) /\ {} \in X
  OBVIOUS
<1> HIDE DEF X
<1>3. X = SUBSET D
  BY <1>1, <1>2, BySubsets
<1>4. Ends(D)
  BY <1>3 DEF X
<1> QED
  BY <1>4 DEF Min, Max

LEMMA OfTwo ==
  ASSUME NEW a \in Int, NEW b \in Int
  PROVE  /\ Max({a, b}) \in {a, b} /\ Max({a, b}) >= a /\ Max({a, b}) >= b
         /\ Min({a, b}) \in {a, b} /\ Min({a, b}) <= a /\ Min({a, b}) <= b
<1>1. IsFiniteSet({a}) /\ IsFiniteSet({b})
  BY FS_Singleton
<1>2. IsFiniteSet({a} \cup {b})
  BY <1>1, FS_Union
<1>3. {a} \cup {b} = {a, b}
  OBVIOUS
<1>4. IsFiniteSet({a, b}) /\ {a, b} \subseteq Int /\ {a, b} # {}
  BY <1>2, <1>3
<1> QED
  BY <1>4, LeastGreatest

(* Quotients.                                                              *)
LEMMA Quotient ==
  ASSUME NEW a \in Int, NEW b \in Nat \ {0}
  PROVE  a \div b \in Int /\ b * (a \div b) <= a /\ a < b * (a \div b) + b
OBVIOUS

LEMMA QuotientBounded ==
  ASSUME NEW a \in Int, NEW b \in Nat \ {0}, NEW lo \in Int, NEW hi \in Int,
         lo * b <= a, a <= hi * b
  PROVE  lo <= a \div b /\ a \div b <= hi
<1>1. a \div b \in Int /\ b * (a \div b) <= a /\ a < b * (a \div b) + b
  BY Quotient
<1> DEFINE d == a \div b
<1>2. d \in Int /\ b * d <= hi * b /\ lo * b < b * d + b
  BY <1>1
<1> HIDE DEF d
<1>3. \A x, y \in Int : b * x < b * y => x < y
  OBVIOUS
<1>4. \A x, y \in Int : x * b < b * y + b => x < y + 1
  OBVIOUS
<1>5. ~(hi < d)
  BY <1>2
<1> QED
  BY <1>2, <1>4, <1>5 DEF d

(* A product of positive numbers is none of them exceeds.                  *)
Products(g, D) ==
  g = [s \in SUBSET D |-> IF s = {} THEN 1 ELSE Some(s) * g[s \ {Some(s)}]]

LEMMA ProductsExist ==
  ASSUME NEW D, IsFiniteSet(D), D \subseteq Nat \ {0}
  PROVE  \E g : Products(g, D)
<1> DEFINE F == [p \in D \X Int |-> p[1] * p[2]]
<1>1. F \in [D \X Int -> Int]
  <2>1. \A x \in D, i \in Int : x * i \in Int
    OBVIOUS
  <2> QED
    BY <2>1
<1>2. \A x \in D, i \in Int : F[<<x, i>>] = x * i
  OBVIOUS
<1> HIDE DEF F
<1>3. PICK g : Folds(g, F, 1, D)
  BY FoldsExist
<1>4. \A s \in SUBSET D : g[s] \in Int
  <2>1. 1 \in Int
    OBVIOUS
  <2> QED
    BY <1>1, <1>3, <2>1, FoldsInt
<1>5. ASSUME NEW s \in SUBSET D
      PROVE  g[s] = IF s = {} THEN 1 ELSE Some(s) * g[s \ {Some(s)}]
  <2>1. s = {} => g[s] = 1
    BY <1>3 DEF Folds
  <2>2. s # {} => g[s] = F[<<Some(s), g[s \ {Some(s)}]>>]
    BY <1>3 DEF Folds
  <2>3. s # {} => Some(s) \in D /\ s \ {Some(s)} \in SUBSET D
    BY SomeIn
  <2> QED
    BY <1>2, <1>4, <2>1, <2>2, <2>3
<1>6. g = [s \in SUBSET D |-> g[s]]
  BY <1>3 DEF Folds
<1> QED
  BY <1>5, <1>6 DEF Products

LEMMA ProductBounds ==
  ASSUME NEW D, IsFiniteSet(D), D \subseteq Nat \ {0}
  PROVE  ProductSet(D) \in Nat /\ ProductSet(D) >= 1 /\ \A x \in D : x <= ProductSet(D)
<1>1. ProductSet(D) = (CHOOSE g : Products(g, D))[D]
  BY DEF ProductSet, FoldSet, MapThenFoldSet, Products, Some
<1>2. PICK g : Products(g, D) /\ ProductSet(D) = g[D]
  BY <1>1, ProductsExist
<1>3. \A s \in SUBSET D : g[s] = IF s = {} THEN 1 ELSE Some(s) * g[s \ {Some(s)}]
  BY <1>2 DEF Products
<1> DEFINE X == {s \in SUBSET D : g[s] \in Nat /\ g[s] >= 1 /\ \A x \in s : x <= g[s]}
<1>4. {} \in X
  <2>1. g[{}] = 1
    BY <1>3
  <2> QED
    BY <2>1
<1>5. ASSUME NEW s \in SUBSET D, s # {}, s \ {Some(s)} \in X PROVE s \in X
  <2> DEFINE a == Some(s)
             r == s \ {a}
  <2>1. a \in s /\ g[s] = a * g[r] /\ s = r \cup {a} /\ a \in D /\ r \subseteq D
    BY <1>3, <1>5, SomeIn
  <2>2. g[r] \in Nat /\ g[r] >= 1 /\ \A x \in r : x <= g[r]
    BY <1>5
  <2> HIDE DEF a, r, X
  <2>3. a \in Nat /\ a >= 1 /\ r \subseteq Nat
    <3>1. a \in Nat \ {0} /\ r \subseteq Nat
      BY <2>1
    <3> QED
      BY <3>1
  <2>4. \A c, d \in Nat : c >= 1 /\ d >= 1 => c * d \in Nat /\ c * d >= 1 /\ c <= c * d /\ d <= c * d
    <3> TAKE c \in Nat, d \in Nat
    <3> HAVE c >= 1 /\ d >= 1
    <3>1. \A x, y \in Nat : x >= 1 => x * y \in Nat /\ y <= x * y
      OBVIOUS
    <3>2. c * d = d * c /\ c * d \in Nat /\ d <= c * d
      BY <3>1
    <3>3. c <= d * c
      BY <3>1
    <3> QED
      BY <3>2, <3>3
  <2>5. g[s] \in Nat /\ g[s] >= 1 /\ a <= g[s] /\ g[r] <= g[s]
    BY <2>1, <2>2, <2>3, <2>4
  <2>6. \A x \in s : x <= g[s]
    <3>1. \A x \in r : x \in Nat /\ x <= g[r]
      BY <2>2, <2>3
    <3> QED
      BY <2>1, <2>2, <2>3, <2>5, <3>1
  <2> QED
    BY <2>5, <2>6 DEF X
<1>6. X \in SUBSET (SUBSET D)
  OBVIOUS
<1>7. \A s \in SUBSET D : s # {} /\ s \ {Some(s)} \in X => s \in X
  BY <1>5
<1> HIDE DEF X
<1>8. X = SUBSET D
  BY <1>4, <1>6, <1>7, BySubsets, Zenon
<1> QED
  BY <1>2, <1>8 DEF X

LEMMA RoundedBounded ==
  ASSUME NEW a \in Int, NEW b \in Nat \ {0}, NEW lo \in Int, NEW hi \in Int,
         lo * b <= a, a <= hi * b
  PROVE  RoundedDiv(a, b) \in lo..hi
<1> DEFINE d == (2 * a + b) \div (2 * b)
<1>1. 2 * b \in Nat \ {0} /\ 2 * a + b \in Int
  OBVIOUS
<1>2. d \in Int /\ (2 * b) * d <= 2 * a + b /\ 2 * a + b < (2 * b) * d + 2 * b
  BY <1>1, Quotient
<1> HIDE DEF d
<1>3. b * (2 * d) < b * (2 * hi + 2) /\ b * (2 * lo) < b * (2 * d + 2)
  BY <1>2
<1>4. \A x, y \in Int : b * x < b * y => x < y
  OBVIOUS
<1>5. 2 * d < 2 * hi + 2 /\ 2 * lo < 2 * d + 2
  BY <1>2, <1>3, <1>4
<1> QED
  BY <1>2, <1>5 DEF RoundedDiv, d

-----------------------------------------------------------------------------
(* Buckets: each has a middle of its own, and they are in order.           *)
InputOK ==
  /\ n \in Nat \ {0} /\ t \in 1..n
  /\ score \in [Queries -> Scores] /\ conv \in [Queries -> Nat]

LEMMA Chunks ==
  ASSUME n \in Nat \ {0}
  PROVE  /\ NumQueries \in Nat /\ Chunk \in Nat /\ n * Chunk <= NumQueries
         /\ n <= NumQueries => Chunk >= 1
<1>1. NumQueries \in Nat \ {0}
  BY Parameters
<1>2. Chunk \in Int /\ n * Chunk <= NumQueries /\ NumQueries < n * Chunk + n
  BY <1>1, Quotient DEF Chunk
<1>3. Chunk >= 0
  <2>1. ASSUME Chunk < 0 PROVE FALSE
    <3>1. n * Chunk <= n * (-1)
      BY <1>2, <2>1
    <3> QED
      BY <1>1, <1>2, <3>1
  <2> QED
    BY <1>2, <2>1
<1>4. ASSUME n <= NumQueries, Chunk = 0 PROVE FALSE
  <2>1. n * Chunk = 0
    BY <1>4
  <2> QED
    BY <1>1, <1>2, <1>4, <2>1
<1> QED
  BY <1>1, <1>2, <1>3, <1>4

LEMMA Buckets ==
  ASSUME n \in Nat \ {0}, NEW b \in 1..n
  PROVE  /\ First(b) \in Nat /\ End(b) \in Nat /\ End(b) <= NumQueries
         /\ First(b) <= End(b)
         /\ Bucket(b) \subseteq Queries /\ IsFiniteSet(Bucket(b))
         /\ n <= NumQueries => First(b) < End(b)
<1>1. /\ NumQueries \in Nat /\ Chunk \in Nat /\ n * Chunk <= NumQueries
      /\ n <= NumQueries => Chunk >= 1
  BY Chunks
<1>2. b \in Nat /\ b >= 1 /\ b <= n /\ b - 1 \in Nat
  OBVIOUS
<1>3. /\ (b - 1) * Chunk \in Nat /\ b * Chunk \in Nat /\ n * Chunk \in Nat
      /\ b * Chunk = (b - 1) * Chunk + Chunk
  BY <1>1, <1>2
<1>4. b * Chunk <= n * Chunk
  BY <1>1, <1>2
<1>5. /\ First(b) \in Nat /\ End(b) \in Nat /\ End(b) <= NumQueries
      /\ First(b) <= End(b) /\ (n <= NumQueries => First(b) < End(b))
  BY <1>1, <1>3, <1>4 DEF First, End
<1>6. Bucket(b) \subseteq Queries
  BY <1>1, <1>5 DEF Bucket, Queries
<1>7. IsFiniteSet(Bucket(b))
  <2>1. First(b) + 1 \in Int /\ End(b) \in Int
    BY <1>5
  <2> QED
    BY <2>1, FS_Interval DEF Bucket
<1> QED
  BY <1>5, <1>6, <1>7

LEMMA BucketsInOrder ==
  ASSUME n \in Nat \ {0}, NEW a \in 1..n, NEW b \in 1..n, a < b
  PROVE  End(a) <= First(b)
<1>1. Chunk \in Nat
  BY Chunks
<1>2. a \in Nat /\ b - 1 \in Nat /\ a <= b - 1 /\ a # n
  OBVIOUS
<1>3. \A x, y \in Nat : x <= y => x * Chunk <= y * Chunk
  BY <1>1
<1>4. a * Chunk <= (b - 1) * Chunk
  BY <1>2, <1>3
<1> QED
  BY <1>2, <1>4 DEF First, End

Middle(b) == (First(b) + End(b)) \div 2 + 1
LEMMA Middles ==
  ASSUME n \in Nat \ {0}, n <= NumQueries, NEW b \in 1..n
  PROVE  Center(b) = conv[Middle(b)] /\ Middle(b) \in Bucket(b)
<1>1. First(b) \in Nat /\ End(b) \in Nat /\ First(b) < End(b)
  BY Buckets
<1>2. \A x, y \in Nat : x < y => (x + y) \div 2 + 1 \in x + 1 .. y
  OBVIOUS
<1> QED
  BY <1>1, <1>2 DEF Middle, Center, Bucket

(* The training queries of a bucket, each with a convergence of its own,   *)
(* are served from the table they trained.                                 *)
LEMMA Served ==
  ASSUME InputOK PROVE ServedByOwnBucket
<1> SUFFICES ASSUME n <= NumQueries, \A p, q \in Queries : p < q => conv[p] < conv[q],
                    NEW b \in 1..n, NEW q \in Bucket(b)
             PROVE  b \in {Bracket(conv[q])[1], Bracket(conv[q])[2]}
  BY DEF ServedByOwnBucket
<1>1. n \in Nat /\ n # 0 /\ conv \in [Queries -> Nat] /\ q \in Queries /\ NumQueries \in Nat
  BY Buckets, Chunks DEF InputOK
<1>2. \A a \in 1..n : Center(a) = conv[Middle(a)] /\ Middle(a) \in Bucket(a) /\ Middle(a) \in Queries
  BY <1>1, Middles, Buckets
<1>3. \A p, r \in Queries : conv[p] <= conv[r] <=> p <= r
  BY <1>1 DEF Queries
<1>4. \A a \in 1..n : conv[q] <= Center(a) <=> q <= Middle(a)
  BY <1>1, <1>2, <1>3
<1>5. \A a \in 1..n : Center(a) <= conv[q] <=> Middle(a) <= q
  BY <1>1, <1>2, <1>3
<1>6. ASSUME NEW a \in 1..n, NEW c \in 1..n, a < c, NEW x \in Bucket(a), NEW y \in Bucket(c)
      PROVE  x < y
  <2>1. End(a) <= First(c) /\ End(a) \in Nat /\ First(c) \in Nat
    BY <1>1, <1>6, BucketsInOrder, Buckets
  <2>2. x \in Int /\ y \in Int /\ x <= End(a) /\ First(c) + 1 <= y
    BY <1>1, Buckets DEF Bucket
  <2> QED
    BY <2>1, <2>2
<1>7. \A a \in 1..n : (a < b => Middle(a) < q) /\ (b < a => q < Middle(a))
  BY <1>2, <1>6
<1>8. CASE conv[q] <= Center(1)
  <2>1. q <= Middle(1) /\ 1 \in 1..n /\ q \in Int /\ Middle(1) \in Int
    BY <1>1, <1>2, <1>4, <1>8 DEF Queries
  <2>2. b = 1
    BY <1>7, <2>1
  <2> QED
    BY <1>8, <2>2 DEF Bracket
<1>9. CASE ~(conv[q] <= Center(1)) /\ conv[q] >= Center(n)
  <2>1. Middle(n) <= q /\ n \in 1..n /\ q \in Int /\ Middle(n) \in Int
    BY <1>1, <1>2, <1>5, <1>9 DEF Queries
  <2>2. b = n
    BY <1>7, <2>1
  <2> QED
    BY <1>9, <2>2 DEF Bracket
<1>10. CASE ~(conv[q] <= Center(1)) /\ ~(conv[q] >= Center(n))
  <2> DEFINE S == {a \in 2..n : conv[q] <= Center(a)}
  <2>1. 1 \in 1..n /\ n \in 1..n /\ conv[q] \in Nat /\ Center(n) \in Nat /\ Center(1) \in Nat
    BY <1>1, <1>2
  <2>2. n \in S
    BY <1>10, <2>1
  <2>3. IsFiniteSet(S) /\ S \subseteq Int
    <3>1. 2 \in Int /\ n \in Int
      BY <1>1
    <3>2. IsFiniteSet(2..n)
      BY <3>1, FS_Interval
    <3>3. S \subseteq 2..n
      OBVIOUS
    <3> HIDE DEF S
    <3>4. IsFiniteSet(S)
      BY <3>2, <3>3, FS_Subset
    <3>5. 2..n \subseteq Int
      BY <3>1
    <3> QED
      BY <3>3, <3>4, <3>5
  <2>4. Min(S) \in S /\ \A y \in S : Min(S) <= y
    BY <2>2, <2>3, LeastGreatest
  <2>5. Bracket(conv[q]) = <<Min(S) - 1, Min(S)>>
    BY <1>10 DEF Bracket
  <2> DEFINE a == Min(S)
  <2>6. a \in 2..n /\ a \in 1..n /\ q <= Middle(a) /\ a - 1 \in 1..n
    BY <1>1, <1>4, <2>4
  <2>7. \A c \in 1..n : c < a => Middle(c) < q
    <3>1. ASSUME NEW c \in 1..n, c < a, ~(Middle(c) < q) PROVE FALSE
      <4>1. Middle(c) \in Int /\ q \in Int
        BY <1>1, <1>2 DEF Queries
      <4>2. conv[q] <= Center(c)
        BY <1>4, <3>1, <4>1
      <4>3. c # 1
        BY <1>10, <4>2
      <4>4. c \in S
        BY <1>1, <3>1, <4>2, <4>3
      <4> QED
        BY <1>1, <2>4, <2>6, <3>1, <4>4
    <3> QED
      BY <3>1
  <2> HIDE DEF S
  <2>8. b = a \/ b = a - 1
    <3>1. \A c \in 1..n : Middle(c) \in Int /\ q \in Int
      BY <1>1, <1>2 DEF Queries
    <3>2. ~(a < b)
      <4>1. ASSUME a < b PROVE FALSE
        BY <1>1, <1>7, <2>6, <3>1, <4>1
      <4> QED
        BY <4>1
    <3>3. ~(b < a - 1)
      <4>1. ASSUME b < a - 1 PROVE FALSE
        <5>1. q < Middle(a - 1)
          BY <1>7, <2>6, <4>1
        <5>2. Middle(a - 1) < q
          BY <2>6, <2>7
        <5> QED
          BY <2>6, <3>1, <5>1, <5>2
      <4> QED
        BY <4>1
    <3> QED
      BY <1>1, <2>6, <3>2, <3>3
  <2> QED
    BY <2>5, <2>8
<1> QED
  BY <1>8, <1>9, <1>10

-----------------------------------------------------------------------------
(* Recalls are numbers.                                                    *)
LEMMA EfRange ==
  /\ K \in Efs /\ SecondEf \in Efs /\ EfUpper \in Efs
  /\ Efs \subseteq Nat /\ IsFiniteSet(Efs) /\ K <= SecondEf
  /\ \A e \in Int : e >= 0 /\ e <= EfUpper => e \in Efs
<1>1. K \in Nat \ {0} /\ EfUpper \in Nat
  BY Parameters
<1>2. SecondEf \in Nat /\ K <= SecondEf
  BY <1>1 DEF SecondEf
<1> DEFINE E == Max({EfUpper, SecondEf})
<1>3. E \in {EfUpper, SecondEf} /\ E >= EfUpper /\ E >= SecondEf
  BY <1>1, <1>2, OfTwo
<1>4. Efs = 0..E
  BY DEF Efs
<1> HIDE DEF E
<1>5. E \in Nat
  BY <1>1, <1>2, <1>3
<1>6. IsFiniteSet(Efs)
  <2>1. 0 \in Int /\ E \in Int
    BY <1>5
  <2> QED
    BY <1>4, <2>1, FS_Interval
<1> QED
  BY <1>1, <1>2, <1>3, <1>4, <1>5, <1>6

LEMMA Targets ==
  ASSUME NEW b
  PROVE  Target(b) \in Nat /\ Target(b) <= Unit /\ Unit \in Nat
BY Parameters DEF Target

LEMMA GroupsExist ==
  ASSUME InputOK
  PROVE  /\ Groups \subseteq Scores /\ IsFiniteSet(Groups) /\ Groups \subseteq Int
         /\ \A s \in Groups : /\ Group(s) # {} /\ Group(s) \subseteq Queries
                              /\ IsFiniteSet(Group(s))
                              /\ Cardinality(Group(s)) \in Nat \ {0}
<1>1. Groups \subseteq Scores
  BY DEF Groups
<1>2. IsFiniteSet(Scores) /\ Scores \subseteq Int
  <2>1. 0 \in Int /\ MaxScore \in Int
    BY Parameters
  <2> QED
    BY <2>1, FS_Interval DEF Scores
<1>3. IsFiniteSet(Groups) /\ Groups \subseteq Int
  BY <1>1, <1>2, FS_Subset
<1>4. ASSUME NEW s \in Groups
      PROVE  /\ Group(s) # {} /\ Group(s) \subseteq Queries
             /\ IsFiniteSet(Group(s))
             /\ Cardinality(Group(s)) \in Nat \ {0}
  <2>1. Group(s) # {}
    BY DEF Groups
  <2>2. Group(s) \subseteq Bucket(t)
    BY DEF Group
  <2>3. Bucket(t) \subseteq Queries /\ IsFiniteSet(Bucket(t))
    BY Buckets DEF InputOK
  <2>4. IsFiniteSet(Group(s))
    BY <2>2, <2>3, FS_Subset
  <2>5. Cardinality(Group(s)) \in Nat
    BY <2>4, FS_CardinalityType
  <2>6. Cardinality(Group(s)) # 0
    BY <2>1, <2>4, FS_EmptySet
  <2> QED
    BY <2>1, <2>2, <2>3, <2>4, <2>5, <2>6
<1> QED
  BY <1>1, <1>3, <1>4

LEMMA RecallRange ==
  ASSUME NEW hits \in Outcomes, NEW q \in Queries
  PROVE  hits[q] \in 0..K /\ RecallOf(hits, q) \in 0..Unit
<1>1. hits[q] \in 0..K /\ K \in Nat \ {0} /\ Unit \in Nat
  BY Parameters
<1>2. \A h \in 0..K : h * Unit \in Int /\ 0 <= h * Unit /\ h * Unit <= Unit * K
  BY <1>1
<1>3. 0 <= (hits[q] * Unit) \div K /\ (hits[q] * Unit) \div K <= Unit
  <2>1. 0 * K <= hits[q] * Unit
    BY <1>1, <1>2
  <2> QED
    BY <1>1, <1>2, <2>1, QuotientBounded
<1>4. (hits[q] * Unit) \div K \in Int
  BY <1>1, <1>2, Quotient
<1> QED
  BY <1>1, <1>3, <1>4 DEF RecallOf

LEMMA TotalTyped ==
  ASSUME NEW D, IsFiniteSet(D), NEW f, \A x \in D : f[x] \in Int
  PROVE  Total(f, D) \in Int
<1> DEFINE V == {f[x] : x \in D}
<1>1. CASE D = {}
  <2>1. 0 \in Int
    OBVIOUS
  <2> QED
    BY <1>1, <2>1, TotalBounded
<1>2. CASE D # {}
  <2>1. IsFiniteSet(V) /\ V \subseteq Int /\ V # {}
    <3>1. IsFiniteSet(V)
      BY ImageFinite
    <3> QED
      BY <1>2, <3>1
  <2>2. \A x \in D : f[x] \in V
    OBVIOUS
  <2> HIDE DEF V
  <2>3. /\ Min(V) \in Int /\ Max(V) \in Int
        /\ \A x \in D : f[x] \in Int /\ Min(V) <= f[x] /\ f[x] <= Max(V)
    BY <2>1, <2>2, LeastGreatest
  <2> QED
    BY <2>3, TotalBounded
<1> QED
  BY <1>1, <1>2

LEMMA GroupAverageRange ==
  ASSUME InputOK, NEW s \in Groups, NEW hits \in Outcomes, NEW junk \in Junk
  PROVE  GroupAverage(s, hits, junk) \in Int
<1> DEFINE f == [q \in Group(s) |-> ReadRecall(hits, q, junk)]
           c == Cardinality(Group(s))
<1>1. /\ Group(s) # {} /\ Group(s) \subseteq Queries /\ IsFiniteSet(Group(s))
      /\ c \in Nat \ {0} /\ NaN \in Int
  BY GroupsExist, Parameters
<1>2. ASSUME NEW q \in Group(s) PROVE ReadRecall(hits, q, junk) \in Int
  <2> DEFINE there == Recalls(hits, q - First(t))
  <2>1. CASE there = {}
    BY <1>1, <2>1, Parameters DEF ReadRecall
  <2>2. CASE there # {}
    <3>1. (CHOOSE r \in there : TRUE) \in there
      BY <2>2
    <3>2. there \subseteq Queries
      BY Buckets DEF InputOK, Recalls
    <3>3. RecallOf(hits, CHOOSE r \in there : TRUE) \in 0..Unit
      BY <3>1, <3>2, RecallRange
    <3> QED
      BY <2>2, <3>3 DEF ReadRecall
  <2> QED
    BY <2>1, <2>2
<1>3. \A q \in Group(s) : f[q] \in Int
  BY <1>2
<1>4. GroupAverage(s, hits, junk) =
        IF \E q \in Group(s) : f[q] = NaN THEN NaN ELSE Total(f, Group(s)) \div c
  BY DEF GroupAverage
<1> HIDE DEF f, c
<1>5. Total(f, Group(s)) \in Int
  BY <1>1, <1>3, TotalTyped
<1>6. Total(f, Group(s)) \div c \in Int
  BY <1>1, <1>5, Quotient
<1> QED
  BY <1>1, <1>4, <1>6

LEMMA AverageRange ==
  ASSUME InputOK, NEW s \in Groups, NEW hits \in Outcomes
  PROVE  Average(s, hits) \in {NaN} \cup 0..Unit /\ NaN \in Int /\ NaN < 0
<1> DEFINE found == {q \in Group(s) : hits[q] > 0}
           c == Cardinality(found)
           total == Total(hits, found)
<1>1. Group(s) \subseteq Queries /\ IsFiniteSet(Group(s)) /\ Unit \in Nat /\ K \in Nat \ {0}
      /\ NaN \in Int /\ NaN < 0
  BY GroupsExist, Parameters
<1>2. CASE found = {}
  BY <1>1, <1>2 DEF Average
<1>3. CASE found # {}
  <2>1. IsFiniteSet(found) /\ found \subseteq Queries
    BY <1>1, FS_Subset
  <2>2. \A q \in found : hits[q] \in Int /\ 0 <= hits[q] /\ hits[q] <= K
    BY <1>1, <2>1, RecallRange
  <2>3. c \in Nat /\ c # 0
    BY <1>3, <2>1, FS_CardinalityType, FS_EmptySet
  <2>4. total \in Int /\ 0 * c <= total /\ total <= K * c
    <3>1. 0 \in Int /\ K \in Int
      BY <1>1
    <3> HIDE DEF found
    <3> QED
      BY <2>1, <2>2, <3>1, TotalBounded
  <2>5. Average(s, hits) = (total * Unit) \div (K * c)
    BY <1>3 DEF Average
  <2> HIDE DEF found, c, total
  <2>6. K * c \in Nat \ {0} /\ total * Unit \in Int
    BY <1>1, <2>3, <2>4
  <2>7. 0 <= total /\ 0 <= total * Unit
    BY <1>1, <2>3, <2>4
  <2>8. total * Unit <= Unit * (K * c)
    <3>1. \A x, y \in Int : x <= y => x * Unit <= Unit * y
      BY <1>1
    <3> QED
      BY <2>4, <2>6, <3>1
  <2>9. 0 * (K * c) <= total * Unit
    BY <2>6, <2>7
  <2>10. 0 <= (total * Unit) \div (K * c) /\ (total * Unit) \div (K * c) <= Unit
    BY <1>1, <2>6, <2>8, <2>9, QuotientBounded
  <2>11. (total * Unit) \div (K * c) \in Int
    BY <2>6, Quotient
  <2> QED
    BY <1>1, <2>5, <2>10, <2>11
<1> QED
  BY <1>2, <1>3

LEMMA PairRange ==
  ASSUME NEW p \in Pairs
  PROVE  p.ef \in Efs /\ p.ef \in Nat /\ p.recall \in Int
<1>1. p.ef \in Efs /\ p.recall \in Int
  BY DEF Pairs
<1> QED
  BY <1>1, EfRange

(* The differences that a step is computed from.                           *)
Diffs == [ef : Int, recall : {NaN} \cup (Nat \ {0})]

LEMMA RiseRange ==
  ASSUME NEW a \in Int, NEW b \in Int
  PROVE  Rise(a, b) \in {NaN} \cup (Nat \ {0}) /\ Eps \in Nat \ {0}
<1> DEFINE d == b - a
<1>1. Eps \in Nat \ {0} /\ Eps \in Int /\ d \in Int
  BY Parameters
<1>2. Rise(a, b) = IF NaN \in {a, b} THEN NaN ELSE Max({d, Eps})
  BY DEF Rise
<1> HIDE DEF d
<1>3. Max({d, Eps}) \in {d, Eps} /\ Max({d, Eps}) >= Eps
  BY <1>1, OfTwo
<1> QED
  BY <1>1, <1>2, <1>3

LEMMA ConvertedInt ==
  ASSUME NEW x \in Int
  PROVE  Converted(x) \in Int
BY Parameters DEF Converted

(* Where the last pair is short of the recall, ef grows or is at its bound.*)
LEMMA StepRange ==
  ASSUME NEW latest \in Pairs, ~InReach(latest), diff \in Diffs
  PROVE  /\ Step(latest) \in Nat /\ NextEf(latest) \in Efs
         /\ K <= EfUpper /\ K <= latest.ef => K <= NextEf(latest)
         /\ ~Reaches(latest, t) /\ latest.recall \in Int /\ latest.recall # NaN
         /\ \A r \in Int : ~(r - latest.recall >= Eps) => ~(r >= Target(t))
<1>1. /\ latest.ef \in Nat /\ latest.recall \in Int
      /\ diff.ef \in Int /\ (diff.recall = NaN \/ diff.recall \in Nat \ {0})
  BY PairRange DEF Diffs
<1>2. /\ Target(t) \in Nat /\ Eps \in Nat \ {0} /\ K \in Nat \ {0} /\ EfUpper \in Nat
  BY Targets, Parameters
<1>3. latest.recall # NaN /\ Target(t) - latest.recall > Eps
  BY <1>1, <1>2 DEF InReach
<1>4. Step(latest) \in Nat
  <2>1. K \div 2 \in Nat
    BY <1>2
  <2>2. CASE diff.recall = NaN
    BY <2>1, <2>2 DEF Step
  <2>3. CASE diff.recall # NaN
    <3> DEFINE q == (diff.ef * (Target(t) - latest.recall)) \div diff.recall
               x == Converted(q)
    <3>1. diff.ef * (Target(t) - latest.recall) \in Int /\ diff.recall \in Nat \ {0}
      BY <1>1, <1>2, <2>3
    <3>2. q \in Int
      BY <3>1, Quotient
    <3>3. Step(latest) = Max({x, K \div 2})
      BY <2>3 DEF Step
    <3> HIDE DEF q
    <3>4. x \in Int
      BY <3>2, ConvertedInt
    <3> HIDE DEF x
    <3>5. Step(latest) \in {x, K \div 2} /\ Step(latest) >= K \div 2
      <4>1. K \div 2 \in Int
        BY <2>1
      <4> QED
        BY <3>3, <3>4, <4>1, OfTwo
    <3> QED
      BY <2>1, <3>4, <3>5
  <2> QED
    BY <2>2, <2>3
<1>5. NextEf(latest) \in {latest.ef + Step(latest), EfUpper} /\ NextEf(latest) <= EfUpper
  <2>1. latest.ef + Step(latest) \in Int /\ EfUpper \in Int
    BY <1>1, <1>2, <1>4
  <2> QED
    BY <2>1, OfTwo DEF NextEf
<1>6. NextEf(latest) \in Efs
  BY <1>1, <1>2, <1>4, <1>5, EfRange
<1>7. K <= EfUpper /\ K <= latest.ef => K <= NextEf(latest)
  BY <1>1, <1>2, <1>4, <1>5
<1>8. ~Reaches(latest, t)
  BY <1>1, <1>2, <1>3 DEF Reaches
<1>9. \A r \in Int : ~(r - latest.recall >= Eps) => ~(r >= Target(t))
  BY <1>1, <1>2, <1>3
<1> QED
  BY <1>1, <1>3, <1>4, <1>6, <1>7, <1>8, <1>9

-----------------------------------------------------------------------------
(* What is known of a group while ef is raised: only the first and the last*)
(* pair of its list can reach the recall, and no search that was dropped.  *)
Traced(s) ==
  /\ Len(list[s]) >= 1 /\ list[s][1].ef = K
  /\ \A p \in tried[s] :
       /\ K <= EfUpper => K <= p.ef
       /\ Reaches(p, t) => p = list[s][1] \/ p = LastOf(list[s])
  /\ \A i \in 1..Len(list[s]) :
       /\ list[s][i] \in tried[s]
       /\ Reaches(list[s][i], t) => i = 1 \/ i = Len(list[s])

ListsOK ==
  /\ list \in [Groups -> Seq(Pairs)] /\ tried \in [Groups -> SUBSET Pairs]
  /\ \A s \in Groups : Traced(s)

TablesOK ==
  /\ tables \in Seq([Scores -> Efs])
  /\ Len(tables) = IF pc = "done" THEN n ELSE t - 1

CInv ==
  /\ InputOK /\ n \in BucketCounts /\ score \in ScoreLists /\ conv \in ConvLists
  /\ pc \in {"first", "second", "raise", "fill", "done"}
  /\ todo \subseteq Groups /\ (pc = "raise" <=> todo # {})
  /\ diff \in Diffs
  /\ pc \in {"second", "raise", "fill"} => ListsOK
  /\ pc = "second" => \A s \in Groups : Len(list[s]) = 1
  /\ pc \in {"raise", "fill"} => \A s \in Groups : Len(list[s]) >= 2
  /\ TablesOK

LEMMA SameGroups ==
  ASSUME UNCHANGED <<n, score, conv, t>>
  PROVE  /\ Groups' = Groups /\ \A s : Group(s)' = Group(s)
         /\ (InputOK <=> InputOK') /\ Target(t)' = Target(t)
         /\ \A p : Reaches(p, t)' <=> Reaches(p, t)
BY DEF Groups, Group, Bucket, First, End, Chunk, InputOK, Reaches, Target, Center, ConvP20

LEMMA CalibrationStarts == Init => CInv
<1> SUFFICES ASSUME Init PROVE CInv
  OBVIOUS
<1>1. /\ n \in Nat \ {0} /\ score \in [Queries -> Scores] /\ conv \in [Queries -> Nat]
      /\ t = 1 /\ pc = "first" /\ todo = {} /\ diff = Pair(0, Eps) /\ tables = <<>>
      /\ Eps \in Nat \ {0}
  BY Parameters DEF Init
<1>2. InputOK
  BY <1>1 DEF InputOK
<1>3. TablesOK
  BY <1>1 DEF TablesOK
<1> QED
  BY <1>1, <1>2, <1>3 DEF CInv, Init, Pair, Diffs

LEMMA FirstEstimated ==
  ASSUME CInv, EstimateFirst PROVE CInv'
<1>1. UNCHANGED <<n, score, conv, t, todo, diff, tables>> /\ pc = "first" /\ pc' = "second"
  BY DEF EstimateFirst, input
<1>2. Groups' = Groups /\ InputOK' /\ InputOK
  BY <1>1, SameGroups DEF CInv
<1>3. PICK hits \in Outcomes, junk \in Junk :
        /\ list' = [s \in Groups |-> <<Pair(K, GroupAverage(s, hits, junk))>>]
        /\ tried' = [s \in Groups |-> {Pair(K, GroupAverage(s, hits, junk))}]
  BY DEF EstimateFirst
<1> DEFINE p(s) == Pair(K, GroupAverage(s, hits, junk))
<1>4. \A s \in Groups : p(s) \in Pairs /\ p(s).ef = K
  <2> TAKE s \in Groups
  <2>1. GroupAverage(s, hits, junk) \in Int
    BY <1>2, GroupAverageRange
  <2> QED
    BY <2>1, EfRange DEF Pair, Pairs
<1>5. \A s \in Groups : list'[s] = <<p(s)>> /\ tried'[s] = {p(s)}
  BY <1>3
<1>6. list' \in [Groups -> Seq(Pairs)] /\ tried' \in [Groups -> SUBSET Pairs]
  BY <1>3, <1>4
<1> HIDE DEF p
<1>7. \A s \in Groups : Traced(s)'
  <2> TAKE s \in Groups
  <2>1. K \in Nat
    BY Parameters
  <2> QED
    BY <1>4, <1>5, <2>1 DEF Traced, LastOf
<1>8. ListsOK'
  BY <1>2, <1>6, <1>7 DEF ListsOK
<1>9. TablesOK'
  BY <1>1 DEF CInv, TablesOK
<1>10. \A s \in Groups' : Len(list'[s]) = 1
  BY <1>2, <1>5
<1> QED
  BY <1>1, <1>2, <1>8, <1>9, <1>10 DEF CInv

(* Going on to the next group, or to the filling of the table.             *)
LEMMA Entered ==
  ASSUME CInv, UNCHANGED <<n, score, conv, t, tables>>, ListsOK',
         \A s \in Groups : Len(list'[s]) >= 2, pc # "done",
         NEW rest \in SUBSET Groups, Enter(rest, list')
  PROVE  CInv'
<1>1. Groups' = Groups /\ InputOK' /\ InputOK
  BY SameGroups DEF CInv
<1>2. todo' = rest /\ pc' = IF rest = {} THEN "fill" ELSE "raise"
  BY DEF Enter
<1>3. diff' \in Diffs
  <2>1. CASE rest = {}
    BY <2>1, Parameters DEF Enter, Pair, Diffs
  <2>2. CASE rest # {}
    <3> DEFINE s == Min(rest)
    <3>1. s \in Groups
      <4>1. IsFiniteSet(rest) /\ rest \subseteq Int
        BY <1>1, GroupsExist, FS_Subset
      <4> QED
        BY <2>2, <4>1, LeastGreatest
    <3>2. list'[s] \in Seq(Pairs) /\ Len(list'[s]) >= 2
      BY <1>1, <3>1 DEF ListsOK
    <3>3. list'[s][1] \in Pairs /\ list'[s][2] \in Pairs
      BY <3>2
    <3>4. \A p \in Pairs : p.ef \in Int /\ p.recall \in Int
      BY PairRange
    <3>5. diff' = FirstDiff(list', s)
      BY <2>2 DEF Enter
    <3> HIDE DEF s
    <3>6. Rise(list'[s][1].recall, list'[s][2].recall) \in {NaN} \cup (Nat \ {0})
      BY <3>3, <3>4, RiseRange
    <3> QED
      BY <3>3, <3>4, <3>5, <3>6 DEF FirstDiff, Pair, Diffs
  <2> QED
    BY <2>1, <2>2
<1>4. TablesOK'
  BY <1>2 DEF CInv, TablesOK
<1> QED
  BY <1>1, <1>2, <1>3, <1>4 DEF CInv

(* A pair tried is appended to the list of a group, which until then ended *)
(* in its first pair or in one short of the recall.                        *)
LEMMA Appended ==
  ASSUME CInv, UNCHANGED <<n, score, conv, t>>, NEW s \in Groups, Traced(s),
         list[s] \in Seq(Pairs), tried[s] \subseteq Pairs,
         NEW pair \in Pairs, K <= EfUpper => K <= pair.ef,
         Len(list[s]) = 1 \/ ~Reaches(LastOf(list[s]), t),
         list'[s] = Append(list[s], pair), tried'[s] = tried[s] \cup {pair}
  PROVE  /\ Traced(s)' /\ list'[s] \in Seq(Pairs) /\ tried'[s] \subseteq Pairs
         /\ Len(list'[s]) = Len(list[s]) + 1
<1> DEFINE old == list[s]
           new == list'[s]
           len == Len(old)
<1>1. len \in Nat /\ len >= 1 /\ old \in Seq(Pairs)
  BY DEF Traced
<1>2. /\ new \in Seq(Pairs) /\ Len(new) = len + 1 /\ new[len + 1] = pair
      /\ \A i \in 1..len : new[i] = old[i]
  BY <1>1
<1>3. \A p : Reaches(p, t)' <=> Reaches(p, t)
  BY SameGroups
<1>4. LastOf(old) = old[len] /\ LastOf(new) = pair
  BY <1>2 DEF LastOf
<1>5. len = 1 \/ ~Reaches(old[len], t)
  BY <1>4
<1>6. new[1] = old[1] /\ old[1].ef = K /\ Len(new) >= 1
  BY <1>1, <1>2 DEF Traced
<1>7. ASSUME NEW p \in tried'[s]
      PROVE  (K <= EfUpper => K <= p.ef) /\ (Reaches(p, t) => p = new[1] \/ p = LastOf(new))
  <2>1. CASE p = pair
    BY <1>4, <2>1
  <2>2. CASE p \in tried[s]
    <3>1. (K <= EfUpper => K <= p.ef) /\ (Reaches(p, t) => p = old[1] \/ p = old[len])
      BY <1>4, <2>2 DEF Traced
    <3>2. Reaches(p, t) => p = old[1]
      BY <1>5, <3>1
    <3> QED
      BY <1>6, <3>1, <3>2
  <2> QED
    BY <2>1, <2>2
<1>8. ASSUME NEW i \in 1..Len(new)
      PROVE  new[i] \in tried'[s] /\ (Reaches(new[i], t) => i = 1 \/ i = Len(new))
  <2>1. CASE i = len + 1
    BY <1>2, <2>1
  <2>2. CASE i # len + 1
    <3>1. i \in 1..len /\ new[i] = old[i]
      BY <1>1, <1>2, <2>2
    <3>2. old[i] \in tried[s] /\ (Reaches(old[i], t) => i = 1 \/ i = len)
      BY <3>1 DEF Traced
    <3>3. Reaches(old[i], t) => i = 1
      BY <1>5, <3>2
    <3> QED
      BY <3>1, <3>2, <3>3
  <2> QED
    BY <1>1, <1>2, <2>1, <2>2
<1>9. tried'[s] \subseteq Pairs
  OBVIOUS
<1> HIDE DEF old, new, len
<1>10. Traced(s)'
  BY <1>3, <1>6, <1>7, <1>8 DEF Traced, new
<1> QED
  BY <1>2, <1>9, <1>10 DEF old, new, len

LEMMA SecondEstimated ==
  ASSUME CInv, EstimateSecond PROVE CInv'
<1>1. UNCHANGED <<n, score, conv, t, tables>> /\ pc = "second"
  BY DEF EstimateSecond, input
<1>2. Groups' = Groups /\ InputOK /\ ListsOK
  BY <1>1, SameGroups DEF CInv
<1>3. PICK hits \in Outcomes, junk \in Junk :
        /\ list' = [s \in Groups |-> Append(list[s], Pair(SecondEf, GroupAverage(s, hits, junk)))]
        /\ tried' = [s \in Groups |-> tried[s] \cup {Pair(SecondEf, GroupAverage(s, hits, junk))}]
        /\ Enter(Groups, list')
  BY DEF EstimateSecond
<1> DEFINE p(s) == Pair(SecondEf, GroupAverage(s, hits, junk))
<1>4. \A s \in Groups : p(s) \in Pairs /\ p(s).ef = SecondEf
  <2> TAKE s \in Groups
  <2>1. GroupAverage(s, hits, junk) \in Int
    BY <1>2, GroupAverageRange
  <2> QED
    BY <2>1, EfRange DEF Pair, Pairs
<1>5. \A s \in Groups : list'[s] = Append(list[s], p(s)) /\ tried'[s] = tried[s] \cup {p(s)}
  BY <1>3
<1>6. list' = [s \in Groups |-> list'[s]] /\ tried' = [s \in Groups |-> tried'[s]]
  BY <1>3
<1> HIDE DEF p
<1>7. ASSUME NEW s \in Groups
      PROVE  Traced(s)' /\ list'[s] \in Seq(Pairs) /\ tried'[s] \subseteq Pairs /\ Len(list'[s]) >= 2
  <2>1. Traced(s) /\ list[s] \in Seq(Pairs) /\ tried[s] \subseteq Pairs /\ Len(list[s]) >= 1
    BY <1>2 DEF ListsOK, Traced
  <2>2. Len(list[s]) = 1
    BY <1>1 DEF CInv
  <2> QED
    BY <1>1, <1>4, <1>5, <2>1, <2>2, Appended, EfRange
<1>8. ListsOK'
  BY <1>2, <1>6, <1>7 DEF ListsOK
<1> QED
  BY <1>1, <1>3, <1>7, <1>8, Entered

(* A group keeps its list; what it tried besides fell short of the recall. *)
LEMMA Kept ==
  ASSUME UNCHANGED <<n, score, conv, t>>, NEW s, Traced(s), list'[s] = list[s],
         NEW pair, tried'[s] = tried[s] \cup {pair},
         K <= EfUpper => K <= pair.ef, ~Reaches(pair, t)
  PROVE  Traced(s)'
<1>1. \A p : Reaches(p, t)' <=> Reaches(p, t)
  BY SameGroups
<1> QED
  BY <1>1 DEF Traced

LEMMA Untouched ==
  ASSUME UNCHANGED <<n, score, conv, t>>, NEW s, Traced(s),
         list'[s] = list[s], tried'[s] = tried[s]
  PROVE  Traced(s)'
<1>1. \A p : Reaches(p, t)' <=> Reaches(p, t)
  BY SameGroups
<1> QED
  BY <1>1 DEF Traced

LEMMA Raised ==
  ASSUME CInv, Raise PROVE CInv'
<1>1. /\ UNCHANGED <<n, score, conv, t, tables>> /\ pc = "raise"
      /\ todo # {} /\ todo \subseteq Groups
  BY DEF Raise, input, CInv
<1>2. /\ Groups' = Groups /\ InputOK /\ InputOK' /\ ListsOK
      /\ \A r \in Groups : Len(list[r]) >= 2
  BY <1>1, SameGroups DEF CInv
<1>3. PICK s \in todo : s = Min(todo)
  <2>1. IsFiniteSet(todo) /\ todo \subseteq Int
    BY <1>1, <1>2, GroupsExist, FS_Subset
  <2> QED
    BY <1>1, <2>1, LeastGreatest
<1>4. PICK latest : latest = LastOf(list[s])
  OBVIOUS
<1>5. ~InReach(latest)
  BY <1>3, <1>4 DEF Raise
<1>6. PICK hits \in Outcomes :
        LET pair == Pair(NextEf(latest), Average(s, hits))
            lists == IF Grown(pair, latest) THEN [list EXCEPT ![s] = Append(@, pair)]
                     ELSE list
        IN  /\ tried' = [tried EXCEPT ![s] = @ \cup {pair}]
            /\ list' = lists
            /\ IF Leaves(pair, latest) THEN Enter(todo \ {s}, lists)
               ELSE /\ diff' = Pair(Step(latest), Rise(latest.recall, pair.recall))
                    /\ UNCHANGED <<todo, pc>>
  BY <1>3, <1>4, Zenon DEF Raise
<1>7. PICK pair : pair = Pair(NextEf(latest), Average(s, hits))
  OBVIOUS
<1>8. /\ tried' = [tried EXCEPT ![s] = @ \cup {pair}]
      /\ Grown(pair, latest) => list' = [list EXCEPT ![s] = Append(@, pair)]
      /\ ~Grown(pair, latest) => list' = list
      /\ Leaves(pair, latest) => Enter(todo \ {s}, list')
      /\ ~Leaves(pair, latest) => /\ diff' = Pair(Step(latest), Rise(latest.recall, pair.recall))
                                  /\ UNCHANGED <<todo, pc>>
  <2>1. /\ tried' = [tried EXCEPT ![s] = @ \cup {pair}]
        /\ list' = IF Grown(pair, latest) THEN [list EXCEPT ![s] = Append(@, pair)] ELSE list
    BY <1>6, <1>7
  <2>2. Leaves(pair, latest) => Enter(todo \ {s}, list')
    BY <1>6, <1>7
  <2>3. ~Leaves(pair, latest) => /\ diff' = Pair(Step(latest), Rise(latest.recall, pair.recall))
                                 /\ UNCHANGED <<todo, pc>>
    BY <1>6, <1>7
  <2> QED
    BY <2>1, <2>2, <2>3
<1>9. /\ list[s] \in Seq(Pairs) /\ tried[s] \subseteq Pairs /\ Traced(s)
      /\ Len(list[s]) >= 2 /\ s \in Groups
  BY <1>1, <1>2, <1>3 DEF ListsOK
<1>10. latest \in Pairs /\ latest \in tried[s]
  BY <1>4, <1>9 DEF Traced, LastOf
<1>11. /\ Step(latest) \in Nat /\ NextEf(latest) \in Efs
       /\ K <= EfUpper /\ K <= latest.ef => K <= NextEf(latest)
       /\ ~Reaches(latest, t) /\ latest.recall \in Int /\ latest.recall # NaN
       /\ \A r \in Int : ~(r - latest.recall >= Eps) => ~(r >= Target(t))
  <2>1. diff \in Diffs
    BY DEF CInv
  <2> QED
    BY <1>5, <1>10, <2>1, StepRange
<1>12. /\ pair \in Pairs /\ pair.ef = NextEf(latest) /\ pair.recall = Average(s, hits)
       /\ pair.recall \in Int
  <2>1. Average(s, hits) \in {NaN} \cup 0..Unit /\ NaN \in Int
    BY <1>2, <1>9, AverageRange
  <2> QED
    BY <1>7, <1>11, <2>1 DEF Pair, Pairs
<1>13. K <= EfUpper => K <= pair.ef
  BY <1>9, <1>10, <1>11, <1>12 DEF Traced
<1>14. ~Grown(pair, latest) => ~Reaches(pair, t)
  BY <1>11, <1>12 DEF Grown, Reaches
<1>15. tried'[s] = tried[s] \cup {pair} /\ \A r \in Groups : r # s => tried'[r] = tried[r]
  BY <1>2, <1>8, <1>9 DEF ListsOK
<1>16. ASSUME NEW r \in Groups, r # s
       PROVE  /\ Traced(r)' /\ list'[r] = list[r] /\ tried'[r] = tried[r]
  <2>1. list'[r] = list[r]
    BY <1>2, <1>8, <1>16 DEF ListsOK
  <2>2. Traced(r)
    BY <1>2 DEF ListsOK
  <2>3. tried'[r] = tried[r]
    BY <1>15, <1>16
  <2> QED
    BY <1>1, <2>1, <2>2, <2>3, Untouched
<1>17. Traced(s)' /\ list'[s] \in Seq(Pairs) /\ tried'[s] \subseteq Pairs /\ Len(list'[s]) >= 2
  <2>1. CASE Grown(pair, latest)
    <3>1. list'[s] = Append(list[s], pair)
      BY <1>2, <1>8, <1>9, <2>1 DEF ListsOK
    <3>2. ~Reaches(LastOf(list[s]), t)
      BY <1>4, <1>11
    <3> QED
      BY <1>1, <1>9, <1>12, <1>13, <1>15, <3>1, <3>2, Appended
  <2>2. CASE ~Grown(pair, latest)
    <3>1. list'[s] = list[s]
      BY <1>8, <2>2
    <3>2. Traced(s)'
      BY <1>1, <1>9, <1>13, <1>14, <1>15, <2>2, <3>1, Kept
    <3> QED
      BY <1>9, <1>12, <1>15, <3>1, <3>2
  <2> QED
    BY <2>1, <2>2
<1>18. \A r \in Groups : /\ Traced(r)' /\ list'[r] \in Seq(Pairs) /\ tried'[r] \subseteq Pairs
                         /\ Len(list'[r]) >= 2
  BY <1>2, <1>16, <1>17 DEF ListsOK
<1>19. list' = [r \in Groups |-> list'[r]] /\ tried' = [r \in Groups |-> tried'[r]]
  BY <1>2, <1>8 DEF ListsOK
<1>20. ListsOK'
  BY <1>2, <1>18, <1>19 DEF ListsOK
<1>21. CASE Leaves(pair, latest)
  <2>1. todo \ {s} \in SUBSET Groups /\ pc # "done"
    BY <1>1
  <2> QED
    BY <1>1, <1>8, <1>18, <1>20, <1>21, <2>1, Entered
<1>22. CASE ~Leaves(pair, latest)
  <2>1. UNCHANGED <<todo, pc>> /\ diff' \in Diffs
    <3>1. Rise(latest.recall, pair.recall) \in {NaN} \cup (Nat \ {0})
      BY <1>11, <1>12, RiseRange
    <3> QED
      BY <1>8, <1>11, <1>22, <3>1 DEF Pair, Diffs
  <2>2. TablesOK'
    BY <1>1, <2>1 DEF CInv, TablesOK
  <2> QED
    BY <1>1, <1>2, <1>18, <1>20, <2>1, <2>2 DEF CInv
<1> QED
  BY <1>21, <1>22

LEMMA Settled ==
  ASSUME CInv, Settle PROVE CInv'
<1>1. /\ UNCHANGED <<n, score, conv, t, tables, list, tried>> /\ pc = "raise"
      /\ Enter(todo \ {Min(todo)}, list') /\ todo \ {Min(todo)} \in SUBSET Groups
  BY DEF Settle, input, CInv
<1>2. Groups' = Groups /\ ListsOK /\ \A r \in Groups : Len(list'[r]) >= 2
  BY <1>1, SameGroups DEF CInv
<1>3. \A r \in Groups : Traced(r)'
  <2> TAKE r \in Groups
  <2>1. Traced(r)
    BY <1>2 DEF ListsOK
  <2> QED
    BY <1>1, <2>1, Untouched
<1>4. ListsOK'
  BY <1>1, <1>2, <1>3 DEF ListsOK
<1> QED
  BY <1>1, <1>2, <1>4, Entered

-----------------------------------------------------------------------------
(* The filling of a table: averages stay within what they average.         *)
LEMMA TotalPositive ==
  ASSUME NEW D, IsFiniteSet(D), D # {}, NEW w, \A x \in D : w[x] \in Nat \ {0}
  PROVE  Total(w, D) \in Nat \ {0}
<1> DEFINE W == {w[x] : x \in D}
<1>1. IsFiniteSet(W) /\ W \subseteq Int /\ W # {}
  <2>1. IsFiniteSet(W)
    BY ImageFinite
  <2>2. W # {}
    OBVIOUS
  <2> QED
    BY <2>1, <2>2
<1>2. Max(W) \in W /\ \A y \in W : Max(W) >= y
  <2> HIDE DEF W
  <2> QED
    BY <1>1, LeastGreatest
<1>3. \A x \in D : w[x] \in Int /\ 1 <= w[x] /\ w[x] <= Max(W)
  BY <1>1, <1>2
<1>4. Max(W) \in Int /\ 1 \in Int
  BY <1>1, <1>2
<1> HIDE DEF W
<1>5. /\ Total(w, D) \in Int /\ Cardinality(D) \in Nat
      /\ 1 * Cardinality(D) <= Total(w, D)
  BY <1>3, <1>4, TotalBounded
<1>6. Cardinality(D) # 0
  BY FS_EmptySet
<1> QED
  BY <1>5, <1>6

LEMMA WeightedWithin ==
  ASSUME NEW D, IsFiniteSet(D), D # {}, NEW w, \A x \in D : w[x] \in Nat \ {0},
         NEW f, NEW efs, \A x \in D : efs[x] \in Int /\ f[x] = w[x] * efs[x],
         NEW lo \in Int, NEW hi \in Int, \A x \in D : lo <= efs[x] /\ efs[x] <= hi
  PROVE  RoundedDiv(Total(f, D), Total(w, D)) \in lo..hi
<1>1. \A c \in Nat \ {0}, e \in Int :
        lo <= e /\ e <= hi => c * e \in Int /\ lo * c <= c * e /\ c * e <= hi * c
  OBVIOUS
<1>2. \A x \in D : f[x] \in Int /\ w[x] \in Int /\ lo * w[x] <= f[x] /\ f[x] <= hi * w[x]
  BY <1>1
<1>3. /\ Total(f, D) \in Int
      /\ lo * Total(w, D) <= Total(f, D) /\ Total(f, D) <= hi * Total(w, D)
  BY <1>2, TotalWeighted
<1>4. Total(w, D) \in Nat \ {0}
  BY TotalPositive
<1> QED
  BY <1>3, <1>4, RoundedBounded

LEMMA MeanWithin ==
  ASSUME InputOK, NEW scores \in SUBSET Groups, NEW efs, NEW lo \in Int, NEW hi \in Int,
         \A s \in scores : efs[s] \in Int /\ lo <= efs[s] /\ efs[s] <= hi,
         NEW default \in Int, scores = {} => lo <= default /\ default <= hi
  PROVE  MeanEf(efs, scores, default) \in lo..hi
<1>1. CASE scores = {}
  BY <1>1 DEF MeanEf
<1>2. CASE scores # {}
  <2> DEFINE f == [s \in scores |-> efs[s] * Cardinality(Group(s))]
             w == [s \in scores |-> Cardinality(Group(s))]
  <2>1. IsFiniteSet(scores) /\ \A s \in scores : w[s] \in Nat \ {0}
    BY GroupsExist, FS_Subset
  <2>2. \A s \in scores : efs[s] \in Int /\ f[s] = w[s] * efs[s]
    <3>1. \A s \in scores : f[s] = efs[s] * w[s]
      OBVIOUS
    <3> HIDE DEF f, w
    <3> QED
      BY <2>1, <3>1
  <2>3. MeanEf(efs, scores, default) = RoundedDiv(Total(f, scores), Total(w, scores))
    BY <1>2 DEF MeanEf
  <2> HIDE DEF f, w
  <2> QED
    BY <1>2, <2>1, <2>2, <2>3, WeightedWithin
<1> QED
  BY <1>1, <1>2

LEMMA InterpolatedWithin ==
  ASSUME NEW D, IsFiniteSet(D), D # {}, D \subseteq Int, NEW efs, DOMAIN efs = D,
         NEW s \in Int, s \notin D, NEW lo \in Int, NEW hi \in Int,
         \A g \in D : efs[g] \in Int /\ lo <= efs[g] /\ efs[g] <= hi
  PROVE  Interpolated(efs, s) \in lo..hi
<1> DEFINE Square(g) == Distance(s, g) * Distance(s, g)
           P == ProductSet({Square(h) : h \in DOMAIN efs})
           w == [g \in DOMAIN efs |-> P \div Square(g)]
           f == [g \in DOMAIN efs |-> w[g] * efs[g]]
<1>1. Interpolated(efs, s) = RoundedDiv(Total(f, D), Total(w, D))
  BY DEF Interpolated
<1>2. \A g \in D : Square(g) \in Nat \ {0}
  <2> TAKE g \in D
  <2>1. Distance(s, g) \in Nat \ {0}
    BY DEF Distance
  <2> QED
    BY <2>1
<1> HIDE DEF Square
<1>3. P \in Nat /\ \A g \in D : Square(g) <= P
  <2> DEFINE S == {Square(h) : h \in D}
  <2>1. IsFiniteSet(S)
    <3> DEFINE sq == [h \in D |-> Square(h)]
    <3>1. S = {sq[h] : h \in D}
      OBVIOUS
    <3> HIDE DEF S, sq
    <3> QED
      BY <3>1, ImageFinite
  <2>2. S \subseteq Nat \ {0} /\ \A g \in D : Square(g) \in S
    BY <1>2
  <2>3. P = ProductSet(S)
    OBVIOUS
  <2> HIDE DEF S, P
  <2> QED
    BY <2>1, <2>2, <2>3, ProductBounds
<1> HIDE DEF P
<1>4. ASSUME NEW g \in D PROVE w[g] \in Nat \ {0}
  <2> DEFINE a == Square(g)
             d == P \div a
  <2>1. a \in Nat \ {0} /\ a <= P /\ P \in Int
    BY <1>2, <1>3
  <2> HIDE DEF a
  <2>2. d \in Int /\ P < a * d + a
    BY <2>1, Quotient
  <2> HIDE DEF d
  <2>3. ~(1 <= d) => a * d <= 0
    BY <2>1, <2>2
  <2>4. a * d \in Int
    BY <2>1, <2>2
  <2>5. 1 <= d
    BY <2>1, <2>2, <2>3, <2>4
  <2>6. w[g] = d
    BY DEF a, d
  <2> QED
    BY <2>2, <2>5, <2>6
<1>5. \A g \in D : efs[g] \in Int /\ f[g] = w[g] * efs[g]
  <2> HIDE DEF w
  <2> QED
    OBVIOUS
<1> HIDE DEF w, f
<1>6. \A g \in D : w[g] \in Nat \ {0} /\ lo <= efs[g] /\ efs[g] <= hi
  BY <1>4
<1>7. RoundedDiv(Total(f, D), Total(w, D)) \in lo..hi
  BY <1>5, <1>6, WeightedWithin
<1> QED
  BY <1>1, <1>7

LEMMA OfThree ==
  ASSUME NEW a \in Int, NEW b \in Int, NEW c \in Int
  PROVE  /\ Max({a, b, c}) \in {a, b, c} /\ Max({a, b, c}) >= a
         /\ Min({a, b, c}) \in {a, b, c} /\ Min({a, b, c}) <= a
<1>1. IsFiniteSet({a, b, c})
  <2>1. IsFiniteSet({a}) /\ IsFiniteSet({b}) /\ IsFiniteSet({c})
    BY FS_Singleton
  <2>2. IsFiniteSet(({a} \cup {b}) \cup {c})
    BY <2>1, FS_Union
  <2>3. ({a} \cup {b}) \cup {c} = {a, b, c}
    OBVIOUS
  <2> QED
    BY <2>2, <2>3
<1>2. {a, b, c} \subseteq Int /\ {a, b, c} # {}
  OBVIOUS
<1> QED
  BY <1>1, <1>2, LeastGreatest

(* The longest run of scores exists.                                       *)
LEMMA BlockExists ==
  ASSUME NEW G, IsFiniteSet(G), G \subseteq Int, G # {}
  PROVE  Block(G) \subseteq G /\ Block(G) # {}
<1> DEFINE Run(r) == r[1] <= r[2] /\ r[1]..r[2] \subseteq G
           Best(r) == Run(r) /\ \A q \in G \X G :
             Run(q) => q[2] - q[1] < r[2] - r[1] \/ (q[2] - q[1] = r[2] - r[1] /\ r[1] <= q[1])
           block == CHOOSE r \in G \X G : Best(r)
           R == {r \in G \X G : Run(r)}
           Length(r) == r[2] - r[1]
           Lengths == {Length(r) : r \in R}
<1>1. R # {} /\ IsFiniteSet(R)
  <2>1. PICK x \in G : TRUE
    OBVIOUS
  <2>2. x..x \subseteq G
    <3>1. x \in Int
      OBVIOUS
    <3>2. \A y \in x..x : y = x
      BY <3>1
    <3> QED
      BY <3>2
  <2>3. <<x, x>> \in R
    BY <2>2
  <2>4. IsFiniteSet(G \X G)
    BY FS_Product
  <2>5. IsFiniteSet(R)
    BY <2>4, FS_Subset
  <2> QED
    BY <2>3, <2>5
<1>2. \A r \in G \X G : r[1] \in Int /\ r[2] \in Int /\ Length(r) \in Int
  <2> TAKE r \in G \X G
  <2>1. r[1] \in Int /\ r[2] \in Int
    OBVIOUS
  <2> QED
    BY <2>1
<1>3. PICK most \in Lengths : \A y \in Lengths : most >= y
  <2>1. IsFiniteSet(Lengths) /\ Lengths \subseteq Int /\ Lengths # {}
    <3> DEFINE f == [r \in R |-> Length(r)]
    <3>1. Lengths = {f[r] : r \in R}
      OBVIOUS
    <3>2. \A r \in R : Length(r) \in Int
      BY <1>2
    <3>3. Lengths \subseteq Int /\ Lengths # {}
      BY <1>1, <3>2
    <3> HIDE DEF Lengths, R, f
    <3>4. IsFiniteSet(Lengths)
      BY <1>1, <3>1, ImageFinite
    <3> QED
      BY <3>3, <3>4
  <2> HIDE DEF Lengths
  <2> QED
    BY <2>1, LeastGreatest
<1> DEFINE Longest == {r \in R : Length(r) = most}
           Starts == {r[1] : r \in Longest}
<1>4. PICK start \in Starts : \A y \in Starts : start <= y
  <2>1. Longest # {} /\ IsFiniteSet(Longest)
    <3> HIDE DEF R, Length
    <3> QED
      BY <1>1, <1>3, FS_Subset
  <2>2. IsFiniteSet(Starts) /\ Starts \subseteq Int /\ Starts # {}
    <3> DEFINE f == [r \in Longest |-> r[1]]
    <3>1. Starts = {f[r] : r \in Longest}
      OBVIOUS
    <3>2. \A r \in Longest : r[1] \in Int
      BY <1>2
    <3>3. Starts \subseteq Int /\ Starts # {}
      BY <2>1, <3>2
    <3> HIDE DEF Starts, Longest, f
    <3>4. IsFiniteSet(Starts)
      BY <2>1, <3>1, ImageFinite
    <3> QED
      BY <3>3, <3>4
  <2> HIDE DEF Starts
  <2> QED
    BY <2>2, LeastGreatest
<1>5. PICK r \in Longest : r[1] = start
  BY <1>4
<1>6. r \in R /\ Length(r) = most
  OBVIOUS
<1>7. ASSUME NEW q \in R
      PROVE  Length(q) < Length(r) \/ (Length(q) = Length(r) /\ r[1] <= q[1])
  <2>1. Length(q) \in Int /\ Length(r) \in Int /\ Length(q) <= Length(r)
    <3>1. Length(q) \in Lengths /\ q \in G \X G /\ r \in G \X G
      BY <1>6
    <3> HIDE DEF Length, R, Lengths
    <3> QED
      BY <1>2, <1>3, <1>6, <3>1
  <2>2. CASE Length(q) = Length(r)
    <3>1. q[1] \in Starts
      BY <1>6, <2>2
    <3> HIDE DEF Starts
    <3> QED
      BY <1>4, <1>5, <2>2, <3>1
  <2> HIDE DEF Length
  <2> QED
    BY <2>1, <2>2
<1>8. \E b \in G \X G : Best(b)
  BY <1>6, <1>7
<1>9. block \in G \X G /\ Best(block)
  <2> HIDE DEF Best
  <2> QED
    BY <1>8
<1>10. Block(G) = IF block[2] - block[1] >= 2 THEN block[1] + 1 .. block[2] - 1
                  ELSE block[1]..block[2]
  BY DEF Block
<1>11. /\ block[1] \in Int /\ block[2] \in Int /\ block[1] <= block[2]
       /\ block[1]..block[2] \subseteq G
  <2>1. block \in G \X G /\ Run(block)
    <3> HIDE DEF Run, block
    <3> QED
      BY <1>9
  <2> HIDE DEF block
  <2> QED
    BY <1>2, <2>1
<1> HIDE DEF block
<1>12. CASE block[2] - block[1] >= 2
  <2>1. Block(G) = block[1] + 1 .. block[2] - 1
    BY <1>10, <1>12
  <2>2. /\ block[1] + 1 \in block[1] + 1 .. block[2] - 1
        /\ block[1] + 1 .. block[2] - 1 \subseteq block[1]..block[2]
    BY <1>11, <1>12
  <2> QED
    BY <1>11, <2>1, <2>2
<1>13. CASE ~(block[2] - block[1] >= 2)
  <2>1. Block(G) = block[1]..block[2]
    BY <1>10, <1>13
  <2> QED
    BY <1>11, <1>13, <2>1
<1> QED
  BY <1>12, <1>13

(* What is spread over the scores stays within what was chosen for the     *)
(* groups; between the ends it is kept, at the ends it is on the safe side. *)
LEMMA FilledWithin ==
  ASSUME InputOK, Groups # {}, NEW efs, DOMAIN efs = Groups,
         NEW lo \in Int, NEW hi \in Int,
         \A s \in Groups : efs[s] \in Int /\ lo <= efs[s] /\ efs[s] <= hi,
         NEW s \in Scores
  PROVE  LET table == Filled(efs, Block(Groups)) IN
           /\ table[s] \in lo..hi
           /\ s <= Min(Groups) => table[s] >= efs[Min(Groups)]
           /\ s \in Groups /\ s # Min(Groups) =>
                IF s = Max(Groups) THEN table[s] <= efs[s] ELSE table[s] = efs[s]
<1> DEFINE low == Min(Groups)
           high == Max(Groups)
           block == Block(Groups)
           middle == MeanEf(efs, block, 0)
           left == MeanEf(efs, {r \in Groups : r < Min(block)}, efs[low])
           right == MeanEf(efs, {r \in Groups : r > Max(block)}, efs[high])
           table == Filled(efs, block)
<1>1. /\ Groups \subseteq Scores /\ IsFiniteSet(Groups) /\ Groups \subseteq Int
      /\ s \in Int
  <2>1. s \in Int
    BY Parameters DEF Scores
  <2> QED
    BY <2>1, GroupsExist
<1>2. /\ low \in Groups /\ \A y \in Groups : low <= y
      /\ high \in Groups /\ \A y \in Groups : high >= y
  BY <1>1, LeastGreatest
<1>3. efs[low] \in lo..hi /\ efs[high] \in lo..hi
  BY <1>2
<1>4. table[s] = IF s <= low THEN LeftEnd(efs[low], left, middle)
                 ELSE IF s >= high THEN RightEnd(efs[high], right, middle)
                 ELSE IF s \in Groups THEN efs[s]
                 ELSE Interpolated(efs, s)
  BY DEF Filled
<1> HIDE DEF low, high, table
<1>5. middle \in lo..hi
  <2>1. block \subseteq Groups /\ block # {}
    BY <1>1, BlockExists, Zenon
  <2>2. \A r \in block : efs[r] \in Int /\ lo <= efs[r] /\ efs[r] <= hi
    BY <2>1
  <2>3. block \in SUBSET Groups /\ 0 \in Int
    BY <2>1
  <2> HIDE DEF block
  <2> QED
    BY <2>1, <2>2, <2>3, MeanWithin
<1>6. left \in lo..hi
  <2> DEFINE S == {r \in Groups : r < Min(block)}
  <2>1. /\ S \in SUBSET Groups /\ efs[low] \in Int /\ lo <= efs[low] /\ efs[low] <= hi
        /\ \A r \in S : efs[r] \in Int /\ lo <= efs[r] /\ efs[r] <= hi
    BY <1>3
  <2> HIDE DEF S
  <2>2. MeanEf(efs, S, efs[low]) \in lo..hi
    BY <2>1, MeanWithin
  <2> QED
    BY <2>2 DEF S
<1>7. right \in lo..hi
  <2> DEFINE S == {r \in Groups : r > Max(block)}
  <2>1. /\ S \in SUBSET Groups /\ efs[high] \in Int /\ lo <= efs[high] /\ efs[high] <= hi
        /\ \A r \in S : efs[r] \in Int /\ lo <= efs[r] /\ efs[r] <= hi
    BY <1>3
  <2> HIDE DEF S
  <2>2. MeanEf(efs, S, efs[high]) \in lo..hi
    BY <2>1, MeanWithin
  <2> QED
    BY <2>2 DEF S
<1> HIDE DEF left, right, middle, block
<1>8. /\ LeftEnd(efs[low], left, middle) \in lo..hi
      /\ LeftEnd(efs[low], left, middle) >= efs[low]
      /\ RightEnd(efs[high], right, middle) \in lo..hi
      /\ RightEnd(efs[high], right, middle) <= efs[high]
  <2>1. /\ efs[low] \in Int /\ efs[high] \in Int
        /\ left \in Int /\ middle \in Int /\ right \in Int
    BY <1>3, <1>5, <1>6, <1>7
  <2>2. /\ LeftEnd(efs[low], left, middle) \in {efs[low], left, middle}
        /\ LeftEnd(efs[low], left, middle) >= efs[low]
    BY <2>1, OfThree DEF LeftEnd
  <2>3. /\ RightEnd(efs[high], right, middle) \in {efs[high], right, middle}
        /\ RightEnd(efs[high], right, middle) <= efs[high]
    BY <2>1, OfThree DEF RightEnd
  <2> QED
    BY <1>3, <1>5, <1>6, <1>7, <2>2, <2>3
<1>9. s \notin Groups => Interpolated(efs, s) \in lo..hi
  <2> HAVE s \notin Groups
  <2> QED
    BY <1>1, InterpolatedWithin
<1>10. table[s] \in lo..hi
  BY <1>4, <1>8, <1>9
<1>11. s <= low => table[s] >= efs[low]
  BY <1>4, <1>8
<1>12. ASSUME s \in Groups, s # low
       PROVE  IF s = high THEN table[s] <= efs[s] ELSE table[s] = efs[s]
  <2>1. ~(s <= low) /\ (s >= high <=> s = high)
    BY <1>1, <1>2, <1>12
  <2> QED
    BY <1>4, <1>8, <1>12, <2>1
<1> QED
  BY <1>10, <1>11, <1>12 DEF low, high, table, block

(* What is chosen for a group is the ef of one of its pairs.               *)
LEMMA ChosenRange ==
  ASSUME ListsOK, NEW s \in Groups
  PROVE  LET good == {i \in DOMAIN list[s] : Reaches(list[s][i], t)} IN
           /\ Chosen(s) \in Efs
           /\ good = {} => Chosen(s) = LastOf(list[s]).ef
           /\ good # {} => /\ Chosen(s) = list[s][Min(good)].ef
                           /\ Min(good) \in good /\ \A i \in good : Min(good) <= i
<1> DEFINE good == {i \in DOMAIN list[s] : Reaches(list[s][i], t)}
<1>1. list[s] \in Seq(Pairs) /\ Len(list[s]) >= 1 /\ Len(list[s]) \in Nat
  BY DEF ListsOK, Traced
<1>2. DOMAIN list[s] = 1..Len(list[s])
  BY <1>1
<1>3. IsFiniteSet(good) /\ good \subseteq Int
  <2>1. 1 \in Int /\ Len(list[s]) \in Int
    BY <1>1
  <2>2. IsFiniteSet(1..Len(list[s]))
    BY <2>1, FS_Interval
  <2>3. good \subseteq 1..Len(list[s]) /\ 1..Len(list[s]) \subseteq Int
    BY <1>2, <2>1
  <2> HIDE DEF good
  <2> QED
    BY <2>2, <2>3, FS_Subset
<1>4. \A i \in DOMAIN list[s] : list[s][i] \in Pairs /\ list[s][i].ef \in Efs
  BY <1>1, PairRange
<1>5. LastOf(list[s]).ef \in Efs
  BY <1>1, <1>2, <1>4 DEF LastOf
<1>6. good # {} => Min(good) \in good /\ \A i \in good : Min(good) <= i
  <2> HIDE DEF good
  <2> QED
    BY <1>3, LeastGreatest
<1>7. Chosen(s) = IF good = {} THEN LastOf(list[s]).ef ELSE list[s][Min(good)].ef
  BY DEF Chosen
<1>8. good \subseteq DOMAIN list[s]
  OBVIOUS
<1> HIDE DEF good
<1>9. Chosen(s) \in Efs
  BY <1>4, <1>5, <1>6, <1>7, <1>8
<1> QED
  BY <1>6, <1>7, <1>9 DEF good

LEMMA TableFilled ==
  ASSUME CInv, Fill PROVE CInv'
<1>1. /\ pc = "fill" /\ UNCHANGED <<n, score, conv, todo, diff>>
      /\ tables' = Append(tables, Filled(ChosenEfs, Block(Groups)))
      /\ IF t < n THEN t' = t + 1 /\ pc' = "first" ELSE pc' = "done" /\ t' = t
  BY DEF Fill, input
<1>2. InputOK /\ ListsOK /\ TablesOK /\ todo = {} /\ n \in Nat /\ t \in 1..n
  BY <1>1 DEF CInv, InputOK
<1>3. InputOK'
  <2>1. t' \in 1..n
    BY <1>1, <1>2
  <2> QED
    BY <1>1, <1>2, <2>1 DEF InputOK
<1> DEFINE efs == ChosenEfs
           table == Filled(efs, Block(Groups))
<1>4. DOMAIN efs = Groups /\ \A s \in Groups : efs[s] \in Efs
  BY <1>2, ChosenRange DEF ChosenEfs
<1>5. \A s \in Scores : table[s] \in Efs
  <2> TAKE s \in Scores
  <2>1. CASE Groups = {}
    <3>1. table[s] = 0
      BY <1>4, <2>1 DEF Filled
    <3>2. 0 \in Int /\ 0 <= EfUpper
      BY Parameters
    <3> QED
      BY <3>1, <3>2, EfRange
  <2>2. CASE Groups # {}
    <3>1. PICK top : top = Max({EfUpper, SecondEf})
      OBVIOUS
    <3>2. Efs = 0..top /\ top \in Int
      <4>1. EfUpper \in Int /\ SecondEf \in Int
        BY EfRange
      <4> QED
        BY <3>1, <4>1, OfTwo DEF Efs
    <3>3. \A r \in Groups : efs[r] \in Int /\ 0 <= efs[r] /\ efs[r] <= top
      BY <1>4, <3>2
    <3> HIDE DEF efs
    <3>4. 0 \in Int
      OBVIOUS
    <3>5. table[s] \in 0..top
      BY <1>2, <1>4, <2>2, <3>2, <3>3, <3>4, FilledWithin
    <3> QED
      BY <3>2, <3>5
  <2> QED
    BY <2>1, <2>2
<1>6. table = [s \in Scores |-> table[s]]
  BY DEF Filled
<1> HIDE DEF table
<1>7. table \in [Scores -> Efs]
  BY <1>5, <1>6
<1>8. tables' \in Seq([Scores -> Efs]) /\ Len(tables') = t
  <2>1. tables \in Seq([Scores -> Efs]) /\ Len(tables) = t - 1
    BY <1>1, <1>2 DEF TablesOK
  <2> QED
    BY <1>1, <1>2, <1>7, <2>1 DEF table, efs
<1>9. TablesOK'
  BY <1>1, <1>2, <1>8 DEF TablesOK
<1> QED
  BY <1>1, <1>2, <1>3, <1>9 DEF CInv

LEMMA EveryStep == CInv /\ [Next]_vars => CInv'
<1> SUFFICES ASSUME CInv, [Next]_vars PROVE CInv'
  OBVIOUS
<1>1. CASE UNCHANGED vars
  <2>1. UNCHANGED <<n, score, conv, t, pc, todo, list, diff, tables, tried>>
    BY <1>1 DEF vars
  <2>2. Groups' = Groups /\ InputOK'
    BY <2>1, SameGroups DEF CInv
  <2>3. ListsOK => ListsOK'
    <3> HAVE ListsOK
    <3>1. \A s \in Groups : Traced(s)'
      BY <2>1, Untouched DEF ListsOK
    <3> QED
      BY <2>1, <2>2, <3>1 DEF ListsOK
  <2>4. TablesOK'
    BY <2>1 DEF CInv, TablesOK
  <2> QED
    BY <2>1, <2>2, <2>3, <2>4 DEF CInv
<1> QED
  BY <1>1, FirstEstimated, SecondEstimated, Raised, Settled, TableFilled DEF Next

(* What is known of the groups while ef is raised holds always.             *)
THEOREM Invariance == Spec => []CInv
<1> QED
  BY CalibrationStarts, EveryStep, PTL DEF Spec

-----------------------------------------------------------------------------
(* The pairs, the tables and the history stay typed, whatever is read as a *)
(* recall: no ef tried, and none in a table, passes ef_upper_bound and 1.5 k.*)
THEOREM TypeCorrect == Spec => []TypeOK
<1>1. CInv => TypeOK
  <2> SUFFICES ASSUME CInv PROVE TypeOK
    OBVIOUS
  <2>1. pc \notin {"first", "done"} =>
          \A s \in Groups : list[s] \in Seq(Pairs) /\ tried[s] \subseteq Pairs
    BY DEF CInv, ListsOK
  <2>2. \A b \in DOMAIN tables : tables[b] \in [Scores -> Efs]
    BY DEF CInv, TablesOK
  <2> QED
    BY <2>1, <2>2 DEF CInv, InputOK, TypeOK
<1> QED
  BY <1>1, Invariance, PTL

(* The queries of a bucket are served from the table they trained, for any *)
(* number of queries and buckets.                                          *)
THEOREM ServedByOwnBucketHolds == Spec => []ServedByOwnBucket
<1>1. CInv => ServedByOwnBucket
  BY Served DEF CInv
<1> QED
  BY <1>1, Invariance, PTL

LEMMA IsLeast ==
  ASSUME NEW S, S \subseteq Int, NEW m \in S, \A y \in S : m <= y
  PROVE  Min(S) = m
<1>1. Min(S) \in S /\ \A y \in S : Min(S) <= y
  BY DEF Min
<1>2. Min(S) \in Int /\ m \in Int /\ Min(S) <= m /\ m <= Min(S)
  BY <1>1
<1> QED
  BY <1>2

(* The ef chosen is the least that reached the recall in any search, as    *)
(* long as the first ef tried, k, is within the bound for ef.              *)
THEOREM LeastEfChosenHolds ==
  ASSUME K <= EfUpper PROVE Spec => []LeastEfChosen
<1>1. CInv => LeastEfChosen
  <2> SUFFICES ASSUME CInv, pc = "fill", NEW s \in Groups,
                      {pair \in tried[s] : Reaches(pair, t)} # {}
               PROVE  Chosen(s) = Min({pair.ef : pair \in {p \in tried[s] : Reaches(p, t)}})
    BY DEF LeastEfChosen
  <2> DEFINE G == {i \in DOMAIN list[s] : Reaches(list[s][i], t)}
             A == {pair.ef : pair \in {p \in tried[s] : Reaches(p, t)}}
             len == Len(list[s])
  <2>1. /\ ListsOK /\ Traced(s) /\ list[s] \in Seq(Pairs) /\ tried[s] \subseteq Pairs
        /\ len \in Nat /\ len >= 1 /\ DOMAIN list[s] = 1..len
    BY DEF CInv, ListsOK, Traced
  <2>2. /\ Chosen(s) \in Efs
        /\ G # {} => /\ Chosen(s) = list[s][Min(G)].ef
                     /\ Min(G) \in G /\ \A i \in G : Min(G) <= i
    BY <2>1, ChosenRange
  <2>3. A \subseteq Int
    BY <2>1, PairRange
  <2>4. PICK p \in tried[s] : Reaches(p, t)
    OBVIOUS
  <2>5. /\ list[s][1].ef = K /\ LastOf(list[s]) = list[s][len]
        /\ \A r \in tried[s] :
             K <= r.ef /\ (Reaches(r, t) => r = list[s][1] \/ r = list[s][len])
        /\ \A i \in 1..len : list[s][i] \in tried[s] /\ (Reaches(list[s][i], t) => i = 1 \/ i = len)
    BY <2>1 DEF Traced, LastOf
  <2>6. G # {} /\ (Reaches(list[s][1], t) => 1 \in G) /\ (Reaches(list[s][len], t) => len \in G)
    BY <2>1, <2>4, <2>5
  <2>7. CASE Reaches(list[s][1], t)
    <3>1. Min(G) = 1
      <4>1. Min(G) \in G /\ Min(G) <= 1
        BY <2>2, <2>6, <2>7
      <4>2. Min(G) \in 1..len
        BY <2>1, <4>1
      <4> QED
        BY <4>1, <4>2
    <3>2. Chosen(s) = K /\ K \in A
      BY <2>1, <2>2, <2>5, <2>6, <2>7, <3>1
    <3>3. \A y \in A : K <= y
      BY <2>5
    <3> HIDE DEF A
    <3>4. Min(A) = K
      BY <2>3, <3>2, <3>3, IsLeast
    <3> QED
      BY <3>2, <3>4 DEF A
  <2>8. CASE ~Reaches(list[s][1], t)
    <3>1. Min(G) = len /\ Reaches(list[s][len], t)
      BY <2>1, <2>2, <2>5, <2>6, <2>8
    <3>2. Chosen(s) = list[s][len].ef /\ list[s][len].ef \in A
      BY <2>1, <2>2, <2>5, <2>6, <3>1
    <3>3. \A y \in A : y = list[s][len].ef
      BY <2>5, <2>8
    <3> HIDE DEF A
    <3>4. Min(A) = list[s][len].ef
      <4>1. \A y \in A : list[s][len].ef <= y
        BY <2>3, <3>3
      <4> QED
        BY <2>3, <3>2, <4>1, IsLeast
    <3> QED
      BY <3>2, <3>4 DEF A
  <2> QED
    BY <2>7, <2>8
<1> QED
  BY <1>1, Invariance, PTL

(* Filling the table stays within what was chosen and is cautious at the   *)
(* ends, for any scores, groups and numbers of queries.                    *)
THEOREM FilledFromGroupsHolds == Spec => []FilledFromGroups
<1>1. CInv => FilledFromGroups
  <2> SUFFICES ASSUME CInv, pc = "fill", Groups # {} PROVE FilledFromGroups
    BY DEF FilledFromGroups
  <2> DEFINE efs == ChosenEfs
             range == {efs[s] : s \in DOMAIN efs}
  <2>1. InputOK /\ ListsOK
    BY DEF CInv
  <2>2. DOMAIN efs = Groups /\ \A s \in Groups : efs[s] \in Efs
    BY <2>1, ChosenRange DEF ChosenEfs
  <2> HIDE DEF efs
  <2>3. range \subseteq Efs /\ range # {} /\ \A s \in Groups : efs[s] \in range
    BY <2>2
  <2> HIDE DEF range
  <2>4. IsFiniteSet(range) /\ range \subseteq Int
    <3>1. IsFiniteSet(Efs) /\ Efs \subseteq Nat
      BY EfRange
    <3>2. IsFiniteSet(range)
      BY <2>3, <3>1, FS_Subset
    <3> QED
      BY <2>3, <3>1, <3>2
  <2>5. /\ Min(range) \in Int /\ Max(range) \in Int
        /\ \A s \in Groups : efs[s] \in Int /\ Min(range) <= efs[s] /\ efs[s] <= Max(range)
    BY <2>3, <2>4, LeastGreatest
  <2>6. \A s \in Scores : LET table == Filled(efs, Block(Groups)) IN
          /\ table[s] \in Min(range)..Max(range)
          /\ s <= Min(Groups) => table[s] >= efs[Min(Groups)]
          /\ s \in Groups /\ s # Min(Groups) =>
               IF s = Max(Groups) THEN table[s] <= efs[s] ELSE table[s] = efs[s]
    BY <2>1, <2>2, <2>5, FilledWithin
  <2> QED
    BY <2>6 DEF FilledFromGroups, range, efs
<1> QED
  BY <1>1, Invariance, PTL

-----------------------------------------------------------------------------
(* Looking up: the center of a bucket, even of an empty one, is that of a   *)
(* query, and the two centers around a convergence differ.                 *)
LEMMA CenterExists ==
  ASSUME n \in Nat \ {0}, conv \in [Queries -> Nat], NEW b \in 1..n
  PROVE  Center(b) \in Nat
<1>1. /\ First(b) \in Nat /\ End(b) \in Nat /\ End(b) <= NumQueries /\ First(b) <= End(b)
      /\ NumQueries \in Nat \ {0}
  BY Buckets, Parameters
<1>2. /\ Chunk \in Nat /\ n * Chunk <= NumQueries /\ NumQueries < n * Chunk + n
  BY <1>1, Chunks, Quotient DEF Chunk
<1>3. Middle(b) \in Queries
  <2>1. CASE First(b) < NumQueries
    <3>1. \A x, y, m \in Nat : x <= y /\ y <= m /\ x < m => (x + y) \div 2 + 1 \in 1..m
      OBVIOUS
    <3> QED
      BY <1>1, <2>1, <3>1 DEF Middle, Queries
  <2>2. CASE ~(First(b) < NumQueries)
    <3>1. (b - 1) * Chunk >= NumQueries
      BY <1>1, <2>2 DEF First
    <3>2. b \in Nat /\ b <= n /\ n \in Nat
      OBVIOUS
    <3>3. (b - 1) * Chunk + Chunk <= n * Chunk
      BY <1>2, <3>2
    <3>4. (b - 1) * Chunk \in Int /\ n * Chunk \in Int
      BY <1>2, <3>2
    <3>5. Chunk = 0
      BY <1>2, <1>1, <3>1, <3>3, <3>4
    <3>6. (b - 1) * Chunk = 0
      BY <3>2, <3>5
    <3> QED
      BY <1>1, <3>1, <3>6
  <2> QED
    BY <2>1, <2>2
<1>4. Center(b) = conv[Middle(b)]
  BY DEF Center, Middle
<1> QED
  BY <1>3, <1>4

LEMMA BracketEncloses ==
  ASSUME n \in Nat \ {0}, conv \in [Queries -> Nat], NEW c \in Nat
  PROVE  \E i, j \in 1..n : /\ Bracket(c) = <<i, j>>
                            /\ i # j => Center(i) < c /\ c <= Center(j)
<1>1. \A b \in 1..n : Center(b) \in Nat
  BY CenterExists
<1>2. 1 \in 1..n /\ n \in 1..n
  OBVIOUS
<1>3. CASE c <= Center(1)
  BY <1>2, <1>3 DEF Bracket
<1>4. CASE ~(c <= Center(1)) /\ c >= Center(n)
  BY <1>2, <1>4 DEF Bracket
<1>5. CASE ~(c <= Center(1)) /\ ~(c >= Center(n))
  <2> DEFINE S == {b \in 2..n : c <= Center(b)}
  <2>1. Center(1) < c /\ c <= Center(n) /\ n # 1
    BY <1>1, <1>2, <1>5
  <2>2. n \in S
    BY <2>1
  <2>3. S \subseteq 2..n /\ 2..n \subseteq Int /\ IsFiniteSet(2..n)
    <3>1. 2 \in Int /\ n \in Int
      OBVIOUS
    <3> QED
      BY <3>1, FS_Interval
  <2>4. Bracket(c) = <<Min(S) - 1, Min(S)>>
    BY <1>5 DEF Bracket
  <2>5. Min(S) \in S /\ \A y \in S : Min(S) <= y
    <3> HIDE DEF S
    <3>1. IsFiniteSet(S) /\ S \subseteq Int /\ S # {}
      BY <2>2, <2>3, FS_Subset
    <3> QED
      BY <3>1, LeastGreatest
  <2> DEFINE a == Min(S)
  <2>6. a \in 2..n /\ c <= Center(a)
    BY <2>5
  <2>7. a - 1 \in 1..n /\ a \in 1..n
    BY <2>6
  <2>8. Center(a - 1) < c
    <3>1. CASE a - 1 = 1
      BY <2>1, <3>1
    <3>2. CASE a - 1 # 1
      <4>1. a - 1 \in 2..n
        BY <2>7, <3>2
      <4>2. a - 1 \notin S
        <5> HIDE DEF S
        <5> QED
          BY <2>5, <2>7
      <4>3. ~(c <= Center(a - 1))
        BY <4>1, <4>2
      <4> QED
        BY <1>1, <2>7, <4>3
    <3> QED
      BY <3>1, <3>2
  <2> HIDE DEF S
  <2> QED
    BY <2>4, <2>6, <2>7, <2>8
<1> QED
  BY <1>3, <1>4, <1>5

LEMMA SmoothedWithin ==
  ASSUME NEW b, NEW s \in Scores, NEW lo \in Int, NEW hi \in Int,
         \A r \in Scores : Distance(r, s) <= 1 =>
           tables[b][r] \in Int /\ lo <= tables[b][r] /\ tables[b][r] <= hi
  PROVE  Smoothed(b, s) \in Int /\ lo <= Smoothed(b, s) /\ Smoothed(b, s) <= hi
<1>1. s \in Int /\ MaxScore \in Nat /\ \A r : r \in Scores <=> r \in Int /\ 0 <= r /\ r <= MaxScore
  BY Parameters DEF Scores
<1>2. CASE s < 1 \/ s >= MaxScore
  <2>1. Distance(s, s) <= 1
    BY <1>1 DEF Distance
  <2> QED
    BY <1>2, <2>1 DEF Smoothed
<1>3. CASE ~(s < 1 \/ s >= MaxScore)
  <2> DEFINE x == tables[b][s]
             y == tables[b][s - 1]
             z == tables[b][s + 1]
  <2>1. s - 1 \in Scores /\ s + 1 \in Scores
    BY <1>1, <1>3
  <2>2. Distance(s, s) <= 1 /\ Distance(s - 1, s) <= 1 /\ Distance(s + 1, s) <= 1
    BY <1>1 DEF Distance
  <2>3. /\ x \in Int /\ lo <= x /\ x <= hi
        /\ y \in Int /\ lo <= y /\ y <= hi
        /\ z \in Int /\ lo <= z /\ z <= hi
    BY <2>1, <2>2
  <2>4. Smoothed(b, s) = (x + y + z) \div 3
    BY <1>3 DEF Smoothed
  <2> HIDE DEF x, y, z
  <2>5. x + y + z \in Int /\ lo * 3 <= x + y + z /\ x + y + z <= hi * 3 /\ 3 \in Nat \ {0}
    BY <2>3
  <2> QED
    BY <2>4, <2>5, Quotient, QuotientBounded
<1> QED
  BY <1>2, <1>3

LEMMA EstimateWithin ==
  ASSUME n \in Nat \ {0}, conv \in [Queries -> Nat], NEW c \in Nat, NEW s \in Scores,
         NEW i \in 1..n, NEW j \in 1..n, Bracket(c) = <<i, j>>,
         i # j => Center(i) < c /\ c <= Center(j),
         NEW lo \in Int, NEW hi \in Int,
         \A b \in {i, j}, r \in Scores : Distance(r, s) <= 1 =>
           tables[b][r] \in Int /\ lo <= tables[b][r] /\ tables[b][r] <= hi
  PROVE  EstimateEf(s, c) \in lo..hi
<1> DEFINE x == Smoothed(i, s)
           y == Smoothed(j, s)
<1>1. /\ x \in Int /\ lo <= x /\ x <= hi
      /\ y \in Int /\ lo <= y /\ y <= hi
  BY SmoothedWithin
<1> HIDE DEF x, y
<1>2. CASE i = j
  <2>1. EstimateEf(s, c) = x
    BY <1>2 DEF EstimateEf, x
  <2> QED
    BY <1>1, <2>1
<1>3. CASE i # j
  <2> DEFINE w == Center(j) - Center(i)
             d == c - Center(i)
  <2>1. Center(i) \in Nat /\ Center(j) \in Nat
    BY CenterExists
  <2>2. w \in Nat \ {0} /\ d \in Nat /\ d <= w
    BY <1>3, <2>1
  <2>3. EstimateEf(s, c) = RoundedDiv(x * (w - d) + y * d, w)
    BY <1>3 DEF EstimateEf, x, y
  <2> HIDE DEF w, d
  <2> DEFINE u == w - d
  <2>4. u \in Nat /\ w = u + d
    BY <2>2
  <2> HIDE DEF u
  <2>5. \A p, q \in Int, m \in Nat : p <= q => p * m <= q * m
    OBVIOUS
  <2>6. lo * u <= x * u /\ x * u <= hi * u /\ lo * d <= y * d /\ y * d <= hi * d
    BY <1>1, <2>2, <2>4, <2>5
  <2>7. lo * w = lo * u + lo * d /\ hi * w = hi * u + hi * d
    BY <2>2, <2>4
  <2>8. /\ x * u \in Int /\ y * d \in Int /\ lo * u \in Int /\ lo * d \in Int
        /\ hi * u \in Int /\ hi * d \in Int
    BY <1>1, <2>2, <2>4
  <2>9. x * u + y * d \in Int /\ lo * w <= x * u + y * d /\ x * u + y * d <= hi * w
    BY <2>6, <2>7, <2>8
  <2>10. RoundedDiv(x * u + y * d, w) \in lo..hi
    BY <2>2, <2>9, RoundedBounded
  <2> QED
    BY <2>3, <2>10 DEF u
<1> QED
  BY <1>2, <1>3

(* Every lookup is defined, and between the ef of the two buckets for the  *)
(* score and its neighbours, for any number of buckets and queries.        *)
THEOREM EstimateEnclosedHolds == Spec => []EstimateEnclosed
<1>1. CInv => EstimateEnclosed
  <2> SUFFICES ASSUME CInv, pc = "done", NEW s \in Scores, NEW q \in Queries
               PROVE  LET b == Bracket(conv[q])
                          near == {tables[b[i]][r] : i \in {1, 2},
                                                     r \in {p \in Scores : Distance(p, s) <= 1}}
                      IN /\ b[1] # b[2] => Center(b[1]) < Center(b[2])
                         /\ EstimateEf(s, conv[q]) \in Min(near)..Max(near)
    BY DEF EstimateEnclosed
  <2>1. /\ n \in Nat \ {0} /\ conv \in [Queries -> Nat] /\ conv[q] \in Nat
        /\ \A b \in 1..n : tables[b] \in [Scores -> Efs]
    BY DEF CInv, InputOK, TablesOK
  <2>2. PICK i, j \in 1..n : /\ Bracket(conv[q]) = <<i, j>>
                             /\ i # j => Center(i) < conv[q] /\ conv[q] <= Center(j)
    BY <2>1, BracketEncloses
  <2> DEFINE b == Bracket(conv[q])
             near == {tables[b[k]][r] : k \in {1, 2}, r \in {p \in Scores : Distance(p, s) <= 1}}
  <2>3. b[1] = i /\ b[2] = j
    BY <2>2
  <2>4. Center(i) \in Nat /\ Center(j) \in Nat
    BY <2>1, CenterExists
  <2>5. i # j => Center(i) < Center(j)
    BY <2>1, <2>2, <2>4
  <2>6. /\ near \subseteq Efs
        /\ \A e \in {i, j}, r \in Scores : Distance(r, s) <= 1 => tables[e][r] \in near
    BY <2>1, <2>3
  <2>7. near # {}
    <3>1. Distance(s, s) <= 1
      <4>1. s \in Int
        BY Parameters DEF Scores
      <4> QED
        BY <4>1 DEF Distance
    <3> HIDE DEF near
    <3>2. tables[i][s] \in near
      BY <2>6, <3>1
    <3> QED
      BY <3>2
  <2> HIDE DEF near
  <2>8. IsFiniteSet(near) /\ near \subseteq Int
    <3>1. IsFiniteSet(Efs) /\ Efs \subseteq Nat
      BY EfRange
    <3>2. IsFiniteSet(near)
      BY <2>6, <3>1, FS_Subset
    <3> QED
      BY <2>6, <3>1, <3>2
  <2>9. Min(near) \in Int /\ Max(near) \in Int /\ \A e \in near : Min(near) <= e /\ e <= Max(near)
    BY <2>7, <2>8, LeastGreatest
  <2>10. \A e \in {i, j}, r \in Scores : Distance(r, s) <= 1 =>
           /\ tables[e][r] \in Int
           /\ Min(near) <= tables[e][r] /\ tables[e][r] <= Max(near)
    BY <2>6, <2>8, <2>9
  <2>11. EstimateEf(s, conv[q]) \in Min(near)..Max(near)
    BY <2>1, <2>2, <2>9, <2>10, EstimateWithin
  <2> QED
    BY <2>3, <2>5, <2>11 DEF near
<1> QED
  BY <1>1, Invariance, PTL

-----------------------------------------------------------------------------
(* What is left to do: every bucket passes through its phases once, every  *)
(* group is left once, and a group stays only while its recall grows, or   *)
(* has a last batch that found nothing.  That ef grows is not needed.      *)
Gap(pair) ==
  IF pair.recall = NaN \/ pair.recall > Unit THEN 0
  ELSE IF pair.recall < 0 THEN Unit + 2 ELSE Unit + 1 - pair.recall
Full == (MaxScore + 1) * (Unit + 3) + (Unit + 3)
BucketLeft ==
  IF pc = "first" THEN Full + 3 ELSE IF pc = "second" THEN Full + 2
  ELSE IF pc = "raise" THEN Cardinality(todo) * (Unit + 3) + Gap(LastOf(list[Min(todo)])) + 1
  ELSE IF pc = "fill" THEN 1 ELSE 0
Left == (n - t) * (Full + 3) + BucketLeft

(* Every step of the calibration brings it nearer to its end.              *)
Progress == [][Left' < Left]_vars

LEMMA GapRange ==
  ASSUME NEW p \in Pairs
  PROVE  Gap(p) \in Nat /\ Gap(p) <= Unit + 2 /\ Unit \in Nat
<1>1. p.recall \in Int
  BY PairRange
<1>2. Unit \in Nat
  BY Parameters
<1> QED
  BY <1>1, <1>2 DEF Gap

LEMMA SomeGroups ==
  ASSUME InputOK, NEW S \in SUBSET Groups
  PROVE  /\ Cardinality(S) \in Nat /\ Cardinality(S) <= MaxScore + 1 /\ MaxScore \in Nat
         /\ S = {} => Cardinality(S) = 0
         /\ S # {} => /\ Min(S) \in S
                      /\ Cardinality(S \ {Min(S)}) = Cardinality(S) - 1
<1>1. MaxScore \in Nat /\ IsFiniteSet(Scores) /\ Cardinality(Scores) = MaxScore + 1
  <2>1. 0 \in Int /\ MaxScore \in Int /\ MaxScore \in Nat
    BY Parameters
  <2>2. /\ IsFiniteSet(0..MaxScore)
        /\ Cardinality(0..MaxScore) = IF 0 > MaxScore THEN 0 ELSE MaxScore - 0 + 1
    BY <2>1, FS_Interval
  <2> QED
    BY <2>1, <2>2 DEF Scores
<1>2. S \subseteq Scores /\ S \subseteq Int
  BY GroupsExist
<1>3. IsFiniteSet(S) /\ Cardinality(S) <= MaxScore + 1
  BY <1>1, <1>2, FS_Subset
<1>4. Cardinality(S) \in Nat /\ (S = {} => Cardinality(S) = 0)
  BY <1>3, FS_CardinalityType, FS_EmptySet
<1>5. ASSUME S # {} PROVE Min(S) \in S /\ Cardinality(S \ {Min(S)}) = Cardinality(S) - 1
  <2>1. Min(S) \in S
    BY <1>2, <1>3, <1>5, LeastGreatest
  <2> QED
    BY <1>3, <2>1, FS_RemoveElement
<1> QED
  BY <1>1, <1>3, <1>4, <1>5

(* The last pair of a group's list.                                        *)
LEMMA LastPair ==
  ASSUME NEW L \in Seq(Pairs), Len(L) >= 1
  PROVE  LastOf(L) \in Pairs
BY DEF LastOf

(* With some groups left, no more rounds are left than these allow.        *)
LEMMA EnterLeaves ==
  ASSUME InputOK, UNCHANGED <<n, score, conv, t>>, ListsOK',
         \A s \in Groups : Len(list'[s]) >= 2,
         NEW rest \in SUBSET Groups, Enter(rest, list')
  PROVE  BucketLeft' \in Nat /\ BucketLeft' <= Cardinality(rest) * (Unit + 3) + (Unit + 3)
<1>1. Groups' = Groups /\ todo' = rest /\ Unit \in Nat
  BY SameGroups, Parameters DEF Enter
<1> DEFINE c == Cardinality(rest)
<1>2. c \in Nat /\ c * (Unit + 3) \in Nat
  <2>1. c \in Nat
    BY SomeGroups
  <2> HIDE DEF c
  <2> QED
    BY <1>1, <2>1
<1>3. CASE rest = {}
  <2>1. BucketLeft' = 1
    BY <1>3 DEF Enter, BucketLeft
  <2> HIDE DEF c
  <2> QED
    BY <1>1, <1>2, <2>1 DEF c
<1>4. CASE rest # {}
  <2>1. PICK s \in Groups : s = Min(rest)
    BY <1>4, SomeGroups
  <2>2. list'[s] \in Seq(Pairs) /\ Len(list'[s]) >= 2
    BY <1>1 DEF ListsOK
  <2>3. LastOf(list'[s]) \in Pairs
    BY <2>2, LastPair
  <2> DEFINE g == Gap(LastOf(list'[s]))
  <2>4. g \in Nat /\ g <= Unit + 2
    BY <2>3, GapRange
  <2>5. BucketLeft' = c * (Unit + 3) + g + 1
    BY <1>1, <1>4, <2>1 DEF Enter, BucketLeft, Gap, LastOf
  <2> DEFINE m == c * (Unit + 3)
             b == BucketLeft'
  <2>6. m \in Nat /\ b = m + g + 1 /\ Unit \in Nat
    BY <1>1, <1>2, <2>5
  <2> HIDE DEF m, b, g
  <2>7. b \in Nat /\ b <= m + (Unit + 3)
    BY <2>4, <2>6
  <2> QED
    BY <2>7 DEF m, b
<1> QED
  BY <1>3, <1>4

(* What a bucket has left before it is left, and when a group is at work.  *)
LEMMA Unfinished ==
  ASSUME CInv
  PROVE  /\ Full \in Nat /\ BucketLeft \in Nat /\ Unit \in Nat
         /\ n \in Nat /\ t \in Nat /\ n - t \in Nat /\ (n - t) * (Full + 3) \in Nat
<1>1. Unit \in Nat /\ MaxScore \in Nat
  BY Parameters
<1>2. Full \in Nat
  <2>1. (MaxScore + 1) * (Unit + 3) \in Nat
    BY <1>1
  <2> QED
    BY <1>1, <2>1 DEF Full
<1>3. n \in Nat /\ t \in Nat /\ n - t \in Nat
  BY DEF CInv, InputOK
<1>4. (n - t) * (Full + 3) \in Nat
  BY <1>2, <1>3
<1>5. CASE pc = "raise"
  <2>1. InputOK /\ todo \in SUBSET Groups /\ todo # {}
    BY <1>5 DEF CInv
  <2>2. Min(todo) \in Groups
    BY <2>1, SomeGroups
  <2>3. list[Min(todo)] \in Seq(Pairs) /\ Len(list[Min(todo)]) >= 1
    BY <1>5, <2>2 DEF CInv, ListsOK, Traced
  <2> DEFINE g == Gap(LastOf(list[Min(todo)]))
             c == Cardinality(todo)
  <2>4. g \in Nat
    BY <2>3, LastPair, GapRange
  <2>5. c \in Nat
    BY <2>1, SomeGroups
  <2>6. BucketLeft = c * (Unit + 3) + g + 1
    BY <1>5 DEF BucketLeft
  <2> HIDE DEF c, g
  <2>7. c * (Unit + 3) \in Nat
    BY <1>1, <2>5
  <2> QED
    BY <1>1, <1>2, <1>3, <1>4, <2>4, <2>6, <2>7
<1>6. CASE pc # "raise"
  <2>1. BucketLeft \in Nat
    BY <1>2, <1>6 DEF BucketLeft
  <2> QED
    BY <1>1, <1>2, <1>3, <1>4, <2>1
<1> QED
  BY <1>5, <1>6

LEMMA SameBucket ==
  ASSUME CInv, UNCHANGED <<n, t>>, BucketLeft' \in Nat, BucketLeft' < BucketLeft
  PROVE  Left' < Left
<1> DEFINE m == (n - t) * (Full + 3)
           a == BucketLeft
           b == BucketLeft'
<1>1. m \in Nat /\ a \in Nat /\ b \in Nat /\ b < a
  BY Unfinished
<1>2. Left = m + a
  BY DEF Left
<1>3. Left' = m + b
  BY DEF Left, Full
<1> HIDE DEF m, a, b
<1> QED
  BY <1>1, <1>2, <1>3

LEMMA EstimatesLeft ==
  ASSUME CInv, CInv', EstimateFirst \/ EstimateSecond
  PROVE  Left' < Left
<1>1. UNCHANGED <<n, score, conv, t>>
  BY DEF EstimateFirst, EstimateSecond, input
<1>2. Full \in Nat /\ Unit \in Nat
  BY Unfinished
<1>3. CASE EstimateFirst
  <2>1. BucketLeft = Full + 3 /\ BucketLeft' = Full + 2
    BY <1>3 DEF EstimateFirst, BucketLeft, Full
  <2> QED
    BY <1>1, <1>2, <2>1, SameBucket
<1>4. CASE EstimateSecond
  <2>1. BucketLeft = Full + 2
    BY <1>4 DEF EstimateSecond, BucketLeft
  <2>2. Enter(Groups, list') /\ InputOK /\ Groups' = Groups
    BY <1>1, <1>4, SameGroups DEF EstimateSecond, CInv
  <2>3. ListsOK' /\ \A s \in Groups : Len(list'[s]) >= 2
    <3>1. pc' \in {"raise", "fill"}
      BY <2>2 DEF Enter
    <3> QED
      BY <2>2, <3>1 DEF CInv
  <2>4. /\ BucketLeft' \in Nat
        /\ BucketLeft' <= Cardinality(Groups) * (Unit + 3) + (Unit + 3)
    BY <1>1, <2>2, <2>3, EnterLeaves
  <2> DEFINE c == Cardinality(Groups)
             b == BucketLeft'
             M == MaxScore + 1
             U == Unit + 3
  <2>5. c \in Nat /\ c <= M /\ M \in Nat /\ U \in Nat
    <3>1. c \in Nat /\ c <= MaxScore + 1 /\ MaxScore \in Nat
      <4>1. Groups \in SUBSET Groups
        OBVIOUS
      <4> QED
        BY <2>2, <4>1, SomeGroups
    <3> QED
      BY <1>2, <3>1
  <2>6. Full = M * U + U /\ b \in Nat /\ b <= c * U + U
    BY <2>4 DEF Full
  <2> HIDE DEF c, b, M, U
  <2>7. c * U <= M * U /\ c * U \in Nat /\ M * U \in Nat
    <3>1. (M - c) \in Nat
      BY <2>5
    <3>2. (M - c) * U \in Nat
      BY <2>5, <3>1
    <3> QED
      BY <2>5, <3>2
  <2>8. b \in Nat /\ b < Full + 2
    BY <2>5, <2>6, <2>7
  <2>9. BucketLeft' \in Nat /\ BucketLeft' < BucketLeft
    BY <2>1, <2>8 DEF b
  <2> QED
    BY <1>1, <2>9, SameBucket
<1> QED
  BY <1>3, <1>4

(* A group is left, for the next one or for the table.                     *)
LEMMA GroupLeft ==
  ASSUME CInv, CInv', pc = "raise", UNCHANGED <<n, score, conv, t>>,
         Enter(todo \ {Min(todo)}, list')
  PROVE  Left' < Left
<1>1. InputOK /\ todo \in SUBSET Groups /\ todo # {} /\ Groups' = Groups
  BY SameGroups DEF CInv
<1> DEFINE rest == todo \ {Min(todo)}
           c == Cardinality(todo)
           d == Cardinality(rest)
           g == Gap(LastOf(list[Min(todo)]))
           U == Unit + 3
           b == BucketLeft'
<1>2. c \in Nat /\ d = c - 1 /\ Min(todo) \in Groups /\ rest \in SUBSET Groups
  BY <1>1, SomeGroups
<1>3. ListsOK' /\ \A s \in Groups : Len(list'[s]) >= 2
  <2>1. pc' \in {"raise", "fill"}
    BY DEF Enter
  <2> QED
    BY <1>1, <2>1 DEF CInv
<1>4. b \in Nat /\ b <= d * U + U
  BY <1>1, <1>2, <1>3, EnterLeaves
<1>5. g \in Nat
  <2>1. list[Min(todo)] \in Seq(Pairs) /\ Len(list[Min(todo)]) >= 1
    BY <1>2 DEF CInv, ListsOK, Traced
  <2> QED
    BY <2>1, LastPair, GapRange
<1>6. BucketLeft = c * U + g + 1 /\ U \in Nat
  BY Unfinished DEF BucketLeft
<1> HIDE DEF rest, c, d, g, U, b
<1>7. d * U + U = c * U /\ c * U \in Nat
  BY <1>2, <1>6
<1>8. b < BucketLeft
  BY <1>4, <1>5, <1>6, <1>7
<1> QED
  BY <1>4, <1>8, SameBucket DEF b

LEMMA RaiseLeft ==
  ASSUME CInv, CInv', Raise
  PROVE  Left' < Left
<1>1. /\ UNCHANGED <<n, score, conv, t>> /\ pc = "raise"
      /\ todo # {} /\ todo \in SUBSET Groups /\ InputOK /\ ListsOK
  BY DEF Raise, input, CInv
<1>2. PICK s \in todo : s = Min(todo)
  BY <1>1, SomeGroups
<1>3. PICK latest : latest = LastOf(list[s])
  OBVIOUS
<1>4. ~InReach(latest)
  BY <1>2, <1>3 DEF Raise
<1>5. PICK hits \in Outcomes :
        LET pair == Pair(NextEf(latest), Average(s, hits))
            lists == IF Grown(pair, latest) THEN [list EXCEPT ![s] = Append(@, pair)]
                     ELSE list
        IN  /\ list' = lists
            /\ IF Leaves(pair, latest) THEN Enter(todo \ {s}, lists)
               ELSE UNCHANGED <<todo, pc>>
  BY <1>2, <1>3, Zenon DEF Raise
<1>6. PICK pair : pair = Pair(NextEf(latest), Average(s, hits))
  OBVIOUS
<1>7. CASE Leaves(pair, latest)
  <2>1. Enter(todo \ {Min(todo)}, list')
    BY <1>2, <1>5, <1>6, <1>7
  <2> QED
    BY <1>1, <2>1, GroupLeft
<1>8. CASE ~Leaves(pair, latest)
  <2>1. Grown(pair, latest) /\ UNCHANGED <<todo, pc>>
        /\ list' = [list EXCEPT ![s] = Append(@, pair)]
    BY <1>5, <1>6, <1>8 DEF Leaves
  <2>2. s \in Groups /\ list[s] \in Seq(Pairs) /\ Len(list[s]) >= 1
    BY <1>1 DEF ListsOK, Traced
  <2>3. latest \in Pairs
    BY <1>3, <2>2, LastPair
  <2>4. list'[s] = Append(list[s], pair)
    BY <1>1, <2>1, <2>2 DEF ListsOK
  <2>5. LastOf(list'[s]) = pair
    BY <2>2, <2>4 DEF LastOf
  <2>6. pair.recall \in {NaN} \cup 0..Unit /\ NaN \in Int
    <3>1. Average(s, hits) \in {NaN} \cup 0..Unit /\ NaN \in Int
      BY <1>1, <2>2, AverageRange
    <3> QED
      BY <1>6, <3>1 DEF Pair
  <2>7. /\ latest.recall \in Int /\ latest.recall # NaN /\ latest.recall <= Unit
        /\ Unit \in Nat /\ Eps \in Nat \ {0}
    <3>1. /\ latest.recall \in Int /\ Unit \in Nat /\ Eps \in Nat \ {0}
          /\ Target(t) \in Nat /\ Target(t) <= Unit
      BY <2>3, PairRange, Targets, Parameters
    <3>2. latest.recall # NaN /\ Target(t) - latest.recall > Eps
      BY <1>4, <3>1 DEF InReach
    <3> QED
      BY <3>1, <3>2
  <2>8. Gap(pair) \in Nat /\ Gap(latest) \in Nat /\ Gap(pair) < Gap(latest)
    <3>1. Gap(latest) \in Nat /\ Gap(latest) > 0
      BY <2>7 DEF Gap
    <3>2. CASE pair.recall = NaN
      BY <3>1, <3>2 DEF Gap
    <3>3. CASE pair.recall # NaN
      <4>1. pair.recall \in 0..Unit /\ pair.recall - latest.recall >= Eps
        BY <2>1, <2>6, <3>3 DEF Grown
      <4>2. Gap(pair) = Unit + 1 - pair.recall
        BY <2>7, <3>3, <4>1 DEF Gap
      <4>3. CASE latest.recall < 0
        <5>1. Gap(latest) = Unit + 2
          BY <2>7, <4>3 DEF Gap
        <5> QED
          BY <2>7, <4>1, <4>2, <5>1
      <4>4. CASE ~(latest.recall < 0)
        <5>1. Gap(latest) = Unit + 1 - latest.recall
          BY <2>7, <4>4 DEF Gap
        <5> QED
          BY <2>7, <4>1, <4>2, <4>4, <5>1
      <4> QED
        BY <4>3, <4>4
    <3> QED
      BY <3>2, <3>3
  <2> DEFINE m == Cardinality(todo) * (Unit + 3)
             g == Gap(latest)
             h == Gap(pair)
  <2>9. BucketLeft = m + g + 1 /\ BucketLeft' = m + h + 1
    BY <1>1, <1>2, <1>3, <2>1, <2>5 DEF BucketLeft, Gap, LastOf
  <2>10. m \in Nat
    <3> DEFINE c == Cardinality(todo)
    <3>1. c \in Nat
      BY <1>1, SomeGroups
    <3> HIDE DEF c
    <3>2. c * (Unit + 3) \in Nat
      BY <2>7, <3>1
    <3> QED
      BY <3>2 DEF c
  <2> HIDE DEF m, g, h
  <2>11. BucketLeft' \in Nat /\ BucketLeft' < BucketLeft
    BY <2>8, <2>9, <2>10 DEF g, h
  <2> QED
    BY <1>1, <2>11, SameBucket
<1> QED
  BY <1>7, <1>8

LEMMA FillLeft ==
  ASSUME CInv, CInv', Fill
  PROVE  Left' < Left
<1>1. pc = "fill" /\ n' = n /\ IF t < n THEN t' = t + 1 /\ pc' = "first" ELSE pc' = "done" /\ t' = t
  BY DEF Fill, input
<1>2. Full \in Nat /\ n \in Nat /\ t \in Nat /\ (n - t) * (Full + 3) \in Nat
  BY Unfinished
<1>3. Left = (n - t) * (Full + 3) + 1
  BY <1>1 DEF Left, BucketLeft
<1>4. CASE t < n
  <2>1. Left' = (n - (t + 1)) * (Full + 3) + (Full + 3)
    BY <1>1, <1>4 DEF Left, BucketLeft, Full
  <2>2. (n - (t + 1)) * (Full + 3) = (n - t) * (Full + 3) - (Full + 3)
    BY <1>2
  <2> QED
    BY <1>2, <1>3, <2>1, <2>2
<1>5. CASE ~(t < n)
  <2>1. Left' = (n - t) * (Full + 3) + 0
    BY <1>1, <1>5 DEF Left, BucketLeft, Full
  <2> QED
    BY <1>2, <1>3, <2>1
<1> QED
  BY <1>4, <1>5

(* A calibration is bounded: each of its steps lowers a natural number. It *)
(* is the recall that has to grow from round to round, since ef need not:  *)
(* with k = 1 the step may be zero.                                        *)
THEOREM ProgressHolds == Spec => [](Left \in Nat) /\ Progress
<1>1. ASSUME CInv PROVE Left \in Nat
  <2> DEFINE m == (n - t) * (Full + 3)
  <2>1. m \in Nat /\ BucketLeft \in Nat
    BY <1>1, Unfinished
  <2>2. Left = m + BucketLeft
    BY DEF Left
  <2> HIDE DEF m
  <2> QED
    BY <2>1, <2>2
<1>2. ASSUME CInv, CInv', [Next]_vars PROVE [Left' < Left]_vars
  <2>1. ASSUME Settle PROVE Left' < Left
    <3>1. /\ UNCHANGED <<n, score, conv, t, list>> /\ pc = "raise"
          /\ Enter(todo \ {Min(todo)}, list')
      BY <2>1 DEF Settle, input
    <3> QED
      BY <1>2, <3>1, GroupLeft
  <2> QED
    BY <1>2, <2>1, EstimatesLeft, RaiseLeft, FillLeft DEF Next
<1> QED
  BY <1>1, <1>2, Invariance, PTL DEF Spec, Progress
=============================================================================
