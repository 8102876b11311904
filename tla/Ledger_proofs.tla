---------------------------- MODULE Ledger_proofs ----------------------------
(***************************************************************************)
(* Proofs about Ledger: why a balance that is kept by adding and taking    *)
(* away, in writes with awaits in between, is what adding everything up    *)
(* gives unless a named cause has upset it.  The invariant gives every     *)
(* request the plan it has still to write and says what that plan owes     *)
(* each account: a balance is off by what all the requests together owe it *)
(* (Settled).  A clean request's write moves the balance and what it owes  *)
(* alike; a write of another one makes it stale or leaves what it owes     *)
(* alone; and a stale or wrong request is not counted on (its accounts are *)
(* doubted when it writes).  What a balance is meant to be is a sum over   *)
(* all transactions, so the proof begins with sums over any finite set.    *)
(***************************************************************************)
EXTENDS Ledger, FiniteSetTheorems, WellFoundedInduction, SequenceTheorems, TLAPS

-----------------------------------------------------------------------------
(* Sums over a finite set. *)

(* A set of natural numbers that is not empty has a least member. *)
LEMMA Least ==
    ASSUME NEW S \in SUBSET Nat, S # {}
    PROVE  \E x \in S : \A y \in S : x <= y
PROOF
<1>1. \E x \in S : \A y \in S : <<y, x>> \notin OpToRel(<, Nat)
  BY WFMin, NatLessThanWellFounded, Zenon
<1>2. \A x, y \in S : <<y, x>> \notin OpToRel(<, Nat) => x <= y
  BY DEF OpToRel
<1> QED
  BY <1>1, <1>2

(* Induction on a finite set: what holds of a subset whenever it holds of *)
(* each subset with one member less holds of all of them.                 *)
LEMMA SubsetInduction ==
    ASSUME NEW D, IsFiniteSet(D), NEW P \in SUBSET (SUBSET D),
           \A s \in SUBSET D : (\A x \in s : s \ {x} \in P) => s \in P
    PROVE  P = SUBSET D
PROOF
<1> SUFFICES ASSUME NEW s \in SUBSET D, s \notin P PROVE FALSE
  OBVIOUS
<1>1. \A q \in SUBSET D : Cardinality(q) \in Nat
  BY FS_Subset, FS_CardinalityType
<1>2. PICK N : N = {Cardinality(q) : q \in (SUBSET D) \ P}
  OBVIOUS
<1>01. s \in (SUBSET D) \ P
  OBVIOUS
<1>02. Cardinality(s) \in N
  BY <1>2, <1>01
<1>03. N \in SUBSET Nat
  BY <1>1, <1>2
<1>0. N \in SUBSET Nat /\ N # {}
  BY <1>02, <1>03
<1>3. PICK n \in N : \A m \in N : n <= m
  BY <1>0, Least
<1>4. PICK q \in SUBSET D : q \notin P /\ Cardinality(q) = n
  BY <1>2, <1>3
<1>5. PICK x \in q : q \ {x} \notin P
  BY <1>4
<1>6. IsFiniteSet(q)
  BY FS_Subset
<1>7. Cardinality(q \ {x}) = Cardinality(q) - 1
  BY <1>5, <1>6, FS_RemoveElement
<1>8. q \ {x} \in SUBSET D
  BY <1>4
<1>9. Cardinality(q \ {x}) \in N
  BY <1>2, <1>5, <1>8
<1>10. Cardinality(q) \in Nat
  BY <1>1
<1> QED
  BY <1>3, <1>4, <1>7, <1>9, <1>10

(* F adds up f over each subset of D, one chosen member after the other. *)
Adds(F, f, D) == F = [s \in SUBSET D |-> IF s = {} THEN 0
                     ELSE LET x == CHOOSE x \in s : TRUE IN f[x] + F[s \ {x}]]

(* The function that does. *)
Adder(f, D) == CHOOSE F : Adds(F, f, D)

(* SumFunction is the community module's fold: the adder's value at the   *)
(* whole domain.                                                          *)
LEMMA SumUnfold ==
    ASSUME NEW D, NEW f, DOMAIN f = D
    PROVE  SumFunction(f) = Adder(f, D)[D]
PROOF
  BY DEF SumFunction, SumFunctionOnSet, FoldFunctionOnSet, MapThenFoldSet, Adder, Adds

(* The value at s, given those of the smaller sets. *)
Following(f, s, F) ==
    IF s = {} THEN 0
    ELSE f[CHOOSE x \in s : TRUE] + F[s \ {CHOOSE x \in s : TRUE}]

(* Taking out the chosen member of a finite set leaves a subset with one  *)
(* member less.                                                           *)
LEMMA Taken ==
    ASSUME NEW D, IsFiniteSet(D), NEW s \in SUBSET D, s # {}
    PROVE  \E x \in s : /\ x = CHOOSE y \in s : TRUE
                        /\ s \ {x} \in SUBSET D
                        /\ Cardinality(s \ {x}) = Cardinality(s) - 1
                        /\ Cardinality(s) \in Nat /\ Cardinality(s \ {x}) \in Nat
PROOF
<1>1. PICK x : x = CHOOSE y \in s : TRUE
  OBVIOUS
<1>2. x \in s
  BY <1>1
<1>3. IsFiniteSet(s) /\ IsFiniteSet(s \ {x})
  BY FS_Subset
<1>4. Cardinality(s \ {x}) = Cardinality(s) - 1
  BY <1>2, <1>3, FS_RemoveElement
<1>5. Cardinality(s) \in Nat /\ Cardinality(s \ {x}) \in Nat
  BY <1>3, FS_CardinalityType
<1> QED
  BY <1>1, <1>2, <1>4, <1>5

(* Each next value is a number when the ones before it are. *)
LEMMA FollowingType ==
    ASSUME NEW D, IsFiniteSet(D), NEW f \in [D -> Int], NEW F \in [SUBSET D -> Int],
           NEW s \in SUBSET D
    PROVE  Following(f, s, F) \in Int
PROOF
<1>1. CASE s = {}
  BY <1>1 DEF Following
<1>2. CASE s # {}
  <2>1. PICK x \in s : x = CHOOSE y \in s : TRUE
    BY <1>2
  <2>2. f[x] \in Int /\ F[s \ {x}] \in Int
    OBVIOUS
  <2>3. Following(f, s, F) = f[x] + F[s \ {x}]
    BY <1>2, <2>1 DEF Following
  <2> QED
    BY <2>2, <2>3
<1> QED
  BY <1>1, <1>2

(* There is an adder: it is defined by recursion on the subsets of a      *)
(* finite set.                                                            *)
LEMMA AdderExists ==
    ASSUME NEW D, IsFiniteSet(D), NEW f \in [D -> Int]
    PROVE  \E F \in [SUBSET D -> Int] : Adds(F, f, D)
PROOF
<1> DEFINE Upto(n) == \E F \in [SUBSET D -> Int] :
                       \A s \in SUBSET D : Cardinality(s) <= n
                                           => F[s] = Following(f, s, F)
<1>0. \A s \in SUBSET D : Cardinality(s) \in Nat /\ (Cardinality(s) = 0 => s = {})
  BY FS_EmptySet, FS_Subset, FS_CardinalityType
<1>1. Upto(0)
  <2>1. PICK F : F = [s \in SUBSET D |-> 0]
    OBVIOUS
  <2>2. F \in [SUBSET D -> Int]
    BY <2>1
  <2>3. ASSUME NEW s \in SUBSET D, Cardinality(s) <= 0 PROVE F[s] = Following(f, s, F)
    <3>1. s = {}
      BY <1>0, <2>3
    <3> QED
      BY <2>1, <3>1 DEF Following
  <2> QED BY <2>2, <2>3
<1>2. ASSUME NEW n \in Nat, Upto(n) PROVE Upto(n + 1)
  <2>1. PICK F \in [SUBSET D -> Int] :
             \A s \in SUBSET D : Cardinality(s) <= n => F[s] = Following(f, s, F)
    BY <1>2
  <2>2. PICK G : G = [s \in SUBSET D |-> Following(f, s, F)]
    OBVIOUS
  <2>3. G \in [SUBSET D -> Int]
    BY <2>1, <2>2, FollowingType
  <2>4. ASSUME NEW s \in SUBSET D, Cardinality(s) <= n + 1
        PROVE  G[s] = Following(f, s, G)
    <3>1. CASE s = {}
      BY <2>2, <3>1 DEF Following
    <3>2. CASE s # {}
      <4>1. PICK x \in s : /\ x = CHOOSE y \in s : TRUE
                          /\ s \ {x} \in SUBSET D
                          /\ Cardinality(s \ {x}) = Cardinality(s) - 1
                          /\ Cardinality(s) \in Nat /\ Cardinality(s \ {x}) \in Nat
        BY <3>2, Taken
      <4>2. Cardinality(s \ {x}) <= n
        BY <2>4, <4>1
      <4>3. G[s \ {x}] = F[s \ {x}]
        BY <2>1, <2>2, <4>1, <4>2
      <4> QED BY <2>2, <3>2, <4>1, <4>3 DEF Following
    <3> QED BY <3>1, <3>2
  <2> QED BY <2>3, <2>4
<1>3. \A n \in Nat : Upto(n)
  <2> DEFINE Bad == {n \in Nat : ~Upto(n)}
  <2> SUFFICES ASSUME Bad # {} PROVE FALSE
    BY Zenon
  <2>1. PICK n \in Bad : \A m \in Bad : n <= m
    <3>1. Bad \in SUBSET Nat
      BY Zenon
    <3> HIDE DEF Bad
    <3> QED BY <3>1, Least
  <2>2. n \in Nat /\ ~Upto(n)
    BY <2>1, Zenon
  <2> HIDE DEF Upto
  <2>3. n # 0
    BY <1>1, <2>2
  <2>4. n - 1 \in Nat
    BY <2>2, <2>3
  <2>5. n - 1 \notin Bad
    <3> HIDE DEF Bad
    <3> QED BY <2>1, <2>2, <2>4
  <2>6. Upto(n - 1)
    BY <2>4, <2>5, Zenon
  <2>7. Upto((n - 1) + 1)
    BY <1>2, <2>4, <2>6, Zenon
  <2>8. (n - 1) + 1 = n
    BY <2>2
  <2> QED
    BY <2>2, <2>7, <2>8, Zenon
<1>4. PICK F \in [SUBSET D -> Int] :
           \A s \in SUBSET D : Cardinality(s) <= Cardinality(D)
                               => F[s] = Following(f, s, F)
  <2>1. Cardinality(D) \in Nat
    BY <1>0
  <2> QED
    BY <1>3, <2>1, Zenon
<1>5. \A s \in SUBSET D : F[s] = Following(f, s, F)
  BY <1>4, FS_Subset
<1>6. F = [s \in SUBSET D |-> F[s]]
  BY <1>4
<1>7. F = [s \in SUBSET D |-> Following(f, s, F)]
  BY <1>5, <1>6
<1>8. Adds(F, f, D)
  BY <1>7 DEF Adds, Following
<1> QED
  BY <1>8

(* So the chosen one is an adder, and its values are numbers. *)
LEMMA AdderFacts ==
    ASSUME NEW D, IsFiniteSet(D), NEW f \in [D -> Int]
    PROVE  /\ Adder(f, D) \in [SUBSET D -> Int]
           /\ Adds(Adder(f, D), f, D)
PROOF
<1>1. PICK F \in [SUBSET D -> Int] : Adds(F, f, D)
  BY AdderExists
<1>2. Adds(Adder(f, D), f, D)
  BY <1>1, Zenon DEF Adder
<1>3. PICK A : A = Adder(f, D)
  OBVIOUS
<1>4. A = [s \in SUBSET D |-> Following(f, s, A)]
  BY <1>2, <1>3 DEF Adds, Following
<1>5. \A s \in SUBSET D : A[s] = Following(f, s, A)
  BY <1>4, Zenon
<1>6. PICK P : P = {s \in SUBSET D : A[s] \in Int}
  OBVIOUS
<1>7. ASSUME NEW s \in SUBSET D, \A x \in s : s \ {x} \in P PROVE s \in P
  <2>1. CASE s = {}
    <3>1. A[s] = 0
      BY <1>5, <2>1 DEF Following
    <3> QED
      BY <1>6, <3>1
  <2>2. CASE s # {}
    <3>1. PICK x \in s : x = CHOOSE y \in s : TRUE
      BY <2>2
    <3>2. A[s] = f[x] + A[s \ {x}]
      BY <1>5, <2>2, <3>1 DEF Following
    <3>3. f[x] \in Int /\ A[s \ {x}] \in Int
      BY <1>6, <1>7
    <3>4. A[s] \in Int
      BY <3>2, <3>3
    <3> QED
      BY <1>6, <3>4
  <2> QED
    BY <2>1, <2>2
<1>8. P = SUBSET D
  <2>1. P \in SUBSET (SUBSET D)
    BY <1>6
  <2> QED
    BY <1>7, <2>1, SubsetInduction
<1>9. A \in [SUBSET D -> Int]
  BY <1>4, <1>6, <1>8
<1> QED
  BY <1>2, <1>3, <1>9

(* The sum over a subset is a term plus the sum over what is left. *)
LEMMA SumOfPart ==
    ASSUME NEW D, IsFiniteSet(D), NEW f \in [D -> Int], NEW s \in SUBSET D
    PROVE  \/ s = {} /\ Adder(f, D)[s] = 0
           \/ s # {} /\ \E x \in s : /\ x = CHOOSE y \in s : TRUE
                                   /\ Adder(f, D)[s] = f[x] + Adder(f, D)[s \ {x}]
PROOF
<1>3. PICK A : A = Adder(f, D)
  OBVIOUS
<1>4. A = [q \in SUBSET D |-> Following(f, q, A)]
  <2>1. Adds(A, f, D)
    BY AdderFacts, <1>3
  <2> QED
    BY <2>1 DEF Adds, Following
<1>5. A[s] = Following(f, s, A)
  BY <1>4, Zenon
<1>1. CASE s = {}
  BY <1>1, <1>3, <1>5 DEF Following
<1>2. CASE s # {}
  <2>1. PICK x \in s : x = CHOOSE y \in s : TRUE
    BY <1>2
  <2>2. A[s] = f[x] + A[s \ {x}]
    BY <1>2, <1>5, <2>1 DEF Following
  <2> QED
    BY <1>2, <1>3, <2>1, <2>2
<1> QED
  BY <1>1, <1>2

(* The sum is a number. *)
LEMMA SumType ==
    ASSUME NEW D, IsFiniteSet(D), NEW f \in [D -> Int]
    PROVE  SumFunction(f) \in Int
PROOF
<1>1. SumFunction(f) = Adder(f, D)[D]
  BY SumUnfold
<1>2. Adder(f, D) \in [SUBSET D -> Int]
  BY AdderFacts
<1>3. PICK A \in [SUBSET D -> Int] : A = Adder(f, D)
  BY <1>2
<1> QED
  BY <1>1, <1>3

(* A sum changes by as much as the one term that changes. *)
LEMMA SumChange ==
    ASSUME NEW D, IsFiniteSet(D), NEW f \in [D -> Int], NEW g \in [D -> Int],
           NEW x \in D, \A y \in D : y # x => g[y] = f[y]
    PROVE  SumFunction(g) = SumFunction(f) + g[x] - f[x]
PROOF
<1>1. PICK A : A = Adder(f, D)
  OBVIOUS
<1>2. PICK B : B = Adder(g, D)
  OBVIOUS
<1>3. A \in [SUBSET D -> Int] /\ B \in [SUBSET D -> Int]
  BY <1>1, <1>2, AdderFacts
<1>4. PICK P : P = {s \in SUBSET D : B[s] = A[s] + (IF x \in s THEN g[x] - f[x] ELSE 0)}
  OBVIOUS
<1>5. ASSUME NEW s \in SUBSET D, \A y \in s : s \ {y} \in P PROVE s \in P
  <2>1. CASE s = {}
    <3>1. A[s] = 0 /\ B[s] = 0
      BY <1>1, <1>2, <2>1, SumOfPart
    <3> QED
      BY <1>4, <2>1, <3>1
  <2>2. CASE s # {}
    <3>1. PICK y \in s : /\ y = CHOOSE z \in s : TRUE
                        /\ A[s] = f[y] + A[s \ {y}]
      BY <1>1, <2>2, SumOfPart
    <3>2. PICK z \in s : /\ z = CHOOSE w \in s : TRUE
                        /\ B[s] = g[z] + B[s \ {z}]
      BY <1>2, <2>2, SumOfPart
    <3>3. z = y
      BY <3>1, <3>2
    <3>4. s \ {y} \in P /\ s \ {y} \in SUBSET D
      BY <1>5
    <3>5. f[y] \in Int /\ g[y] \in Int /\ A[s \ {y}] \in Int /\ f[x] \in Int /\ g[x] \in Int
      BY <1>3, <3>4
    <3>6. B[s \ {y}] = A[s \ {y}] + (IF x \in s \ {y} THEN g[x] - f[x] ELSE 0)
      BY <1>4, <3>4
    <3>7. CASE y = x
      <4>1. x \notin s \ {y} /\ x \in s
        BY <3>7
      <4>2. B[s \ {y}] = A[s \ {y}]
        BY <3>5, <3>6, <4>1
      <4>3. B[s] = g[x] + A[s \ {y}] /\ A[s] = f[x] + A[s \ {y}]
        BY <3>1, <3>2, <3>3, <3>7, <4>2
      <4>4. B[s] = A[s] + (g[x] - f[x])
        BY <3>5, <4>3
      <4> QED
        BY <1>4, <4>1, <4>4
    <3>8. CASE y # x
      <4>1. (x \in s \ {y}) <=> (x \in s)
        BY <3>8
      <4>2. g[y] = f[y]
        BY <3>8
      <4>3. B[s] = A[s] + (IF x \in s THEN g[x] - f[x] ELSE 0)
        BY <3>1, <3>2, <3>3, <3>5, <3>6, <4>1, <4>2
      <4> QED
        BY <1>4, <4>3
    <3> QED BY <3>7, <3>8
  <2> QED
    BY <2>1, <2>2
<1>6. P = SUBSET D
  <2>1. P \in SUBSET (SUBSET D)
    BY <1>4
  <2> QED
    BY <1>5, <2>1, SubsetInduction
<1>7. B[D] = A[D] + (g[x] - f[x])
  BY <1>4, <1>6
<1>8. SumFunction(f) = A[D] /\ SumFunction(g) = B[D]
  BY <1>1, <1>2, SumUnfold
<1>9. A[D] \in Int /\ g[x] \in Int /\ f[x] \in Int
  BY <1>3
<1> QED
  BY <1>7, <1>8, <1>9

(* A sum of zeros is zero. *)
LEMMA SumZero ==
    ASSUME NEW D, IsFiniteSet(D), NEW f \in [D -> Int], \A x \in D : f[x] = 0
    PROVE  SumFunction(f) = 0
PROOF
<1>1. PICK A : A = Adder(f, D)
  OBVIOUS
<1>4. PICK P : P = {s \in SUBSET D : A[s] = 0}
  OBVIOUS
<1>5. ASSUME NEW s \in SUBSET D, \A y \in s : s \ {y} \in P PROVE s \in P
  <2>1. CASE s = {}
    BY <1>1, <1>4, <2>1, SumOfPart
  <2>2. CASE s # {}
    <3>1. PICK y \in s : A[s] = f[y] + A[s \ {y}]
      BY <1>1, <2>2, SumOfPart
    <3>2. A[s \ {y}] = 0
      BY <1>4, <1>5
    <3>3. f[y] = 0
      OBVIOUS
    <3>4. A[s] = 0
      BY <3>1, <3>2, <3>3
    <3> QED
      BY <1>4, <3>4
  <2> QED
    BY <2>1, <2>2
<1>6. P = SUBSET D
  <2>1. P \in SUBSET (SUBSET D)
    BY <1>4
  <2> QED
    BY <1>5, <2>1, SubsetInduction
<1>7. A[D] = 0
  BY <1>4, <1>6
<1> QED
  BY <1>1, <1>7, SumUnfold

(* One term is the whole sum, and two are. *)
LEMMA SumOne ==
    ASSUME NEW D, IsFiniteSet(D), NEW f \in [D -> Int], NEW x \in D,
           \A y \in D : y # x => f[y] = 0
    PROVE  SumFunction(f) = f[x]
PROOF
<1>1. PICK z : z = [y \in D |-> 0]
  OBVIOUS
<1>2. z \in [D -> Int] /\ \A y \in D : z[y] = 0
  BY <1>1
<1>3. SumFunction(z) = 0
  BY <1>2, SumZero
<1>4. \A y \in D : y # x => f[y] = z[y]
  BY <1>2
<1>5. SumFunction(f) = SumFunction(z) + f[x] - z[x]
  BY <1>2, <1>4, SumChange
<1>6. f[x] \in Int /\ z[x] = 0
  BY <1>2
<1> QED
  BY <1>3, <1>5, <1>6

(* Two terms are the whole sum when the others are zero. *)
LEMMA SumTwo ==
    ASSUME NEW D, IsFiniteSet(D), NEW f \in [D -> Int],
           NEW x \in D, NEW y \in D, x # y,
           \A z \in D : z # x /\ z # y => f[z] = 0
    PROVE  SumFunction(f) = f[x] + f[y]
PROOF
<1>1. PICK g : g = [f EXCEPT ![y] = 0]
  OBVIOUS
<1>2. g \in [D -> Int] /\ g[y] = 0 /\ \A z \in D : z # y => g[z] = f[z]
  BY <1>1
<1>3. \A z \in D : z # x => g[z] = 0
  BY <1>2
<1>4. SumFunction(g) = g[x]
  BY <1>2, <1>3, SumOne
<1>5. \A z \in D : z # y => f[z] = g[z]
  BY <1>2
<1>6. SumFunction(f) = SumFunction(g) + f[y] - g[y]
  BY <1>2, <1>5, SumChange
<1>7. g[x] = f[x] /\ g[y] = 0 /\ f[x] \in Int /\ f[y] \in Int
  BY <1>2
<1> QED
  BY <1>4, <1>6, <1>7

(* The sum of differences is the difference of the sums. *)
LEMMA SumMinus ==
    ASSUME NEW D, IsFiniteSet(D), NEW f \in [D -> Int], NEW g \in [D -> Int],
           NEW h \in [D -> Int], \A x \in D : h[x] = f[x] - g[x]
    PROVE  SumFunction(h) = SumFunction(f) - SumFunction(g)
PROOF
<1>1. PICK A : A = Adder(f, D)
  OBVIOUS
<1>2. PICK B : B = Adder(g, D)
  OBVIOUS
<1>2a. PICK C : C = Adder(h, D)
  OBVIOUS
<1>3. A \in [SUBSET D -> Int] /\ B \in [SUBSET D -> Int] /\ C \in [SUBSET D -> Int]
  BY <1>1, <1>2, <1>2a, AdderFacts
<1>4. PICK P : P = {s \in SUBSET D : C[s] = A[s] - B[s]}
  OBVIOUS
<1>5. ASSUME NEW s \in SUBSET D, \A y \in s : s \ {y} \in P PROVE s \in P
  <2>1. CASE s = {}
    <3>1. A[s] = 0 /\ B[s] = 0 /\ C[s] = 0
      BY <1>1, <1>2, <1>2a, <2>1, SumOfPart
    <3> QED
      BY <1>4, <3>1
  <2>2. CASE s # {}
    <3>1. PICK y \in s : /\ y = CHOOSE z \in s : TRUE
                        /\ A[s] = f[y] + A[s \ {y}]
      BY <1>1, <2>2, SumOfPart
    <3>2. PICK z \in s : /\ z = CHOOSE w \in s : TRUE
                        /\ B[s] = g[z] + B[s \ {z}]
      BY <1>2, <2>2, SumOfPart
    <3>2a. PICK z1 \in s : /\ z1 = CHOOSE w \in s : TRUE
                         /\ C[s] = h[z1] + C[s \ {z1}]
      BY <1>2a, <2>2, SumOfPart
    <3>3. z = y /\ z1 = y
      BY <3>1, <3>2, <3>2a
    <3>4. s \ {y} \in P /\ s \ {y} \in SUBSET D /\ y \in D
      BY <1>5
    <3>5. /\ f[y] \in Int /\ g[y] \in Int /\ h[y] = f[y] - g[y]
          /\ A[s \ {y}] \in Int /\ B[s \ {y}] \in Int
      BY <1>3, <3>4
    <3>6. C[s \ {y}] = A[s \ {y}] - B[s \ {y}]
      BY <1>4, <3>4
    <3>7. C[s] = A[s] - B[s]
      BY <3>1, <3>2, <3>2a, <3>3, <3>5, <3>6
    <3> QED
      BY <1>4, <3>7
  <2> QED
    BY <2>1, <2>2
<1>6. P = SUBSET D
  <2>1. P \in SUBSET (SUBSET D)
    BY <1>4
  <2> QED
    BY <1>5, <2>1, SubsetInduction
<1>7. C[D] = A[D] - B[D]
  BY <1>4, <1>6
<1> QED
  BY <1>1, <1>2, <1>2a, <1>7, SumUnfold

-----------------------------------------------------------------------------
(* The inductive invariant. *)

(* The four kinds of writes, and what a request is. *)
InsertSteps == [do : {"insert"}, tx : Txs, entry : Entries]
ChangeSteps == [do : {"change"}, tx : Txs, from : Entries, to : Entries]
BurySteps == [do : {"bury"}, txs : SUBSET Txs]
PutSteps == [do : {"put"}, acc : Accounts, bal : Int]
Steps == InsertSteps \cup ChangeSteps \cup BurySteps \cup PutSteps
Writers == {"create", "import", "draft", "transfer", "write", "touched"}

(* What a request in progress may be: TypeOK says nothing of its fields'  *)
(* own shape, the proofs need it.                                         *)
RequestDocs ==
    [op : {"none", "read", "edit", "recompute"} \cup Loads \cup Writers,
     todo : Seq(Steps), tx : Txs \cup {NoTx}, loaded : SUBSET (Entries \cup AccountDocs),
     rest : SUBSET (Txs \X Entries), holds : SUBSET (Txs \cup Accounts),
     on : SUBSET Accounts, wrote : BOOLEAN, moved : BOOLEAN, stale : BOOLEAN,
     wrong : BOOLEAN]

(* TypeOK with the shape of the requests. *)
Typed == TypeOK /\ request \in [Requests -> RequestDocs]

(* What hiding a transaction makes of it. *)
Buried(e) == [e EXCEPT !.state = IF @ = "live" THEN "gone" ELSE @]

(* The transactions a write touches. *)
Targets(s) == IF s.do \in {"insert", "change"} THEN {s.tx}
              ELSE IF s.do = "bury" THEN s.txs ELSE {}

(* The transaction t that was e, after the write s. *)
Applied(s, t, e) ==
    IF t \notin Targets(s) THEN e
    ELSE IF s.do = "insert" THEN s.entry
    ELSE IF s.do = "change" THEN Merged(e, s.from, s.to)
    ELSE Buried(e)

(* The balance of a that was bal, after the write s. *)
Paid(s, a, bal) == IF s.do = "put" /\ s.acc = a THEN s.bal ELSE bal

(* The i-th write of todo, if there is one. *)
AppliedAt(todo, i, t, e) == IF i <= Len(todo) THEN Applied(todo[i], t, e) ELSE e

(* The same of a balance. *)
PaidAt(todo, i, a, bal) == IF i <= Len(todo) THEN Paid(todo[i], a, bal) ELSE bal

(* The transaction t that is e, once all of todo (at most five writes) is *)
(* written.                                                               *)
After(todo, t, e) ==
    AppliedAt(todo, 5, t, AppliedAt(todo, 4, t, AppliedAt(todo, 3, t,
        AppliedAt(todo, 2, t, AppliedAt(todo, 1, t, e)))))

(* The balance of a that is bal, once all of todo is written. *)
Final(todo, a, bal) ==
    PaidAt(todo, 5, a, PaidAt(todo, 4, a, PaidAt(todo, 3, a,
        PaidAt(todo, 2, a, PaidAt(todo, 1, a, bal)))))

(* What each transaction of the book counts in the balance of a. *)
Shares(doc, a, book) == [t \in Txs |-> Share(a, doc, book[t])]

(* By how much todo changes what each transaction counts. *)
Gains(doc, a, book, todo) ==
    [t \in Txs |-> Share(a, doc, After(todo, t, book[t])) - Share(a, doc, book[t])]

(* By how much todo moves the balance of a more than what the             *)
(* transactions count in it.                                              *)
NetOf(doc, a, book, todo) ==
    Final(todo, a, doc.bal) - doc.bal - SumFunction(Gains(doc, a, book, todo))

(* By how much the balance of a differs from what the book says. *)
DriftOf(doc, a, book) == doc.bal - doc.opening - SumFunction(Shares(doc, a, book))

(* What request's plan todo still owes the account a, in the present      *)
(* state.                                                                 *)
Net(a, todo) == NetOf(account[a], a, tx, todo)

(* How far the balance of a is off, in the present state. *)
Drift(a) == DriftOf(account[a], a, tx)

(* Nothing the request has loaded has been overwritten by another, and    *)
(* its own arithmetic is right.                                           *)
Clean(r) == ~request[r].stale /\ ~request[r].wrong

(* What r owes a: a request that is stale, wrong or a recompute is not    *)
(* counted on.                                                            *)
Term(r, a) ==
    IF Clean(r) /\ request[r].op # "recompute" THEN Net(a, request[r].todo) ELSE 0
(* A request that has begun to write and will have its accounts doubted.   *)
Doomed(r) ==
    /\ Torn(r)
    /\ \/ request[r].stale \/ request[r].wrong
       \/ request[r].op \in {"read", "recompute"}

(* The balance of a is off by exactly what the requests in progress still *)
(* owe it, unless a is doubted or is about to be.                         *)
Settled(a) ==
    \/ a \in doubted
    \/ \E r \in Requests : Doomed(r) /\ a \in request[r].on
    \/ Drift(a) + SumFunction([r \in Requests |-> Term(r, a)]) = 0

(* The fields of an account its balance is computed from. *)
Money(doc) == <<doc.bal, doc.opening, doc.cut, doc.type>>

(* The transaction exists and is no leg of a transfer, so it may change   *)
(* its account and kind.                                                  *)
Firm(t) == tx[t].state # "none" /\ ~IsLeg(tx[t])

(* A loaded copy e of t: it was live, and only what is no leg is          *)
(* recurring.                                                             *)
Held(e, t) ==
    e.state = "live" /\ (~IsLeg(e) => Firm(t)) /\ (e.recurring => ~IsLeg(e))

(* A request that has loaded its transaction, and has not decided yet:    *)
(* its copy is the transaction unless it is stale.                        *)
OkOpened(r) ==
    LET q == request[r] IN
    q.op \in Loads =>
      /\ q.todo = <<>> /\ ~q.wrote /\ ~q.wrong
      /\ q.tx \in q.holds /\ q.holds \subseteq Txs
      /\ \E e \in Entries :
            /\ q.loaded = {e} /\ Held(e, q.tx) /\ q.on = {e.acc}
            /\ ~q.stale => tx[q.tx] = e
            /\ \A p \in q.rest : p[1] # q.tx /\ (Paired(e) => p[1] # e.pair)

(* A request that has loaded its account: its copy has the account's      *)
(* balance, and for a read its money fields, unless it is stale.          *)
OkAccount(r) ==
    LET q == request[r] IN
    q.op \in {"read", "edit"} =>
      /\ q.todo = <<>> /\ ~q.wrong /\ q.rest = {} /\ (q.op = "edit" => ~q.wrote)
      /\ \E a \in Accounts : \E doc \in AccountDocs :
            /\ q.on = {a} /\ q.holds = {a} /\ q.loaded = {doc}
            /\ ~q.stale => doc.bal = account[a].bal
            /\ ~q.stale /\ q.op = "read" => Money(doc) = Money(account[a])

(* A recompute that is to save its sum: the sum is right when nothing has *)
(* changed in between.                                                    *)
OkRecompute(r) ==
    LET q == request[r] IN
    q.op = "recompute" =>
      /\ q.rest = {}
      /\ \E a \in Accounts :
            /\ q.on = {a} /\ q.holds = Txs \cup {a}
            /\ Len(q.todo) = 1 /\ q.todo[1].do = "put" /\ q.todo[1].acc = a
            /\ Clean(r) => q.todo[1].bal = Truth(a)

(* An insert of a plan: into a free place, of a live transaction in an    *)
(* account the request is on.                                             *)
OkInsert(r, s) ==
    LET q == request[r] IN
    /\ s.tx \in q.holds /\ s.entry.acc \in q.on /\ s.entry.state = "live"
    /\ ~q.stale => tx[s.tx].state = "none"
    /\ s.entry.recurring => ~IsLeg(s.entry)
    /\ q.op # "transfer" => ~IsLeg(s.entry)

(* A change of a plan: it changes the account, the kind or the state of   *)
(* what is no leg only, and the pairing only in a transfer.               *)
OkChange(r, s) ==
    LET q == request[r] IN
    /\ s.tx \in q.holds /\ s.to.acc \in q.on
    /\ s.to.state \in {s.from.state, "gone"}
    /\ s.to.state # s.from.state => Firm(s.tx)
    /\ s.to.acc # s.from.acc => Firm(s.tx)
    /\ s.to.kind # s.from.kind => Firm(s.tx) /\ ~IsLeg(s.to)
    /\ s.to.pair # s.from.pair => q.op = "transfer"
    /\ s.to.recurring = s.from.recurring

(* A write of a plan: the accounts and transactions it touches are held   *)
(* and in the accounts the request is on.                                 *)
OkStep(r, s) ==
    LET q == request[r] IN
    /\ s.do = "put" => s.acc \in q.on /\ s.acc \in q.holds
    /\ s.do = "insert" => OkInsert(r, s)
    /\ s.do = "change" => OkChange(r, s)
    /\ Clean(r) => Targets(s) \subseteq q.holds
    /\ ~q.stale => \A p \in q.rest : p[1] \notin Targets(s)
    /\ Clean(r) => \A t \in Targets(s) : tx[t].state = "none" \/ tx[t].acc \in q.on
(* Only the last write hides a transaction. *)
Lasting(todo) ==
    \A i \in 1..Len(todo) : i < Len(todo) =>
       /\ todo[i].do # "bury"
       /\ todo[i].do = "change" => todo[i].to.state = todo[i].from.state
(* Whatever the account a is like, the request leaves it alone. *)
Neutral(r, a) ==
    LET todo == request[r].todo IN
    /\ \A i \in 1..Len(todo) : todo[i].do = "put" => todo[i].acc # a
    /\ \A t \in Txs : \A doc \in AccountDocs :
          Share(a, doc, After(todo, t, tx[t])) = Share(a, doc, tx[t])

(* A request with a plan of writes: at most five, each as above, no two   *)
(* inserts into one place, and nothing it does not hold is moved.         *)
OkWriter(r) ==
    LET q == request[r] IN
    q.op \in Writers =>
      /\ Len(q.todo) <= 5
      /\ \A i \in 1..Len(q.todo) : OkStep(r, q.todo[i])
      /\ \A i, j \in 1..Len(q.todo) :
            i # j /\ q.todo[i].do = "insert" /\ q.todo[j].do = "insert"
            => q.todo[i].tx # q.todo[j].tx
      /\ Lasting(q.todo)
      /\ q.wrote \/ Len(q.todo) >= 2 => q.on \subseteq q.holds
      /\ Clean(r) => \A a \in Accounts \ q.holds : Neutral(r, a)
      /\ q.op = "touched" => /\ ~q.wrote /\ ~q.wrong /\ Len(q.todo) = 1
                             /\ q.todo[1].do = "change"
                             /\ q.todo[1].from = q.todo[1].to

(* The transactions a bulk delete has yet to come to: held, and as loaded *)
(* unless it is stale.                                                    *)
OkRest(r) ==
    LET q == request[r] IN
    /\ q.rest # {} => q.op \in {"write", "touched"} \cup Loads
    /\ \A p \in q.rest : /\ p[1] \in q.holds /\ Held(p[2], p[1])
                         /\ ~q.stale => tx[p[1]] = p[2]

(* What is left of t when the transfer r fails: the legs it made are      *)
(* deleted again.                                                         *)
Left(r, t) == IF t \in Made(r) THEN [tx[t] EXCEPT !.state = "none"] ELSE tx[t]

(* By how much the rest of the plan changes what t counts in a, beside    *)
(* what the failed transfer would leave.                                  *)
Takes(a, r) ==
    [t \in Txs |-> Share(a, account[a], After(request[r].todo, t, tx[t]))
                   - Share(a, account[a], Left(r, t))]

(* The transaction t is a leg of this kind in the account a. *)
Leg(t, kind, a) == tx[t].state # "none" /\ tx[t].kind = kind /\ tx[t].acc = a

(* From the place k on the plan puts balances. *)
PutsFrom(todo, k) ==
    /\ Len(todo) >= k - 1
    /\ \A i \in 1..Len(todo) : i >= k => todo[i].do = "put"

(* The write inserts the outbound leg t in the account a. *)
IsOut(s, t, a) ==
    /\ s.do = "insert" /\ s.tx = t
    /\ s.entry.kind = "out" /\ s.entry.acc = a /\ s.entry.pair = NoTx

(* The write inserts the inbound leg u in the account b, paired with t. *)
IsIn(s, t, u, b) ==
    /\ s.do = "insert" /\ s.tx = u
    /\ s.entry.kind = "in" /\ s.entry.acc = b /\ s.entry.pair = t

(* The write points the outbound leg t at the inbound leg u. *)
IsBack(s, t, u, a) ==
    /\ s.do = "change" /\ s.tx = t
    /\ s.from.kind = "out" /\ s.from.acc = a /\ s.from.pair = NoTx
    /\ s.to = [s.from EXCEPT !.pair = u]

(* The first leg is to be inserted; then the second one, then the first   *)
(* is pointed back at it, then the balances are put.                      *)
FirstLeg(r, t, u, a, b) ==
    LET todo == request[r].todo IN
    /\ PutsFrom(todo, 4)
    /\ IsOut(todo[1], t, a) /\ IsIn(todo[2], t, u, b) /\ IsBack(todo[3], t, u, a)
    /\ ~request[r].wrote /\ ~request[r].moved

(* The second leg is to be inserted. *)
SecondLeg(r, t, u, a, b) ==
    LET todo == request[r].todo IN
    /\ PutsFrom(todo, 3) /\ IsIn(todo[1], t, u, b) /\ IsBack(todo[2], t, u, a)
    /\ request[r].wrote /\ ~request[r].moved /\ Leg(t, "out", a)

(* The first leg is to be pointed back. *)
PointsBack(r, t, u, a, b) ==
    LET todo == request[r].todo IN
    /\ PutsFrom(todo, 2) /\ IsBack(todo[1], t, u, a)
    /\ request[r].wrote /\ ~request[r].moved /\ Leg(t, "out", a) /\ Leg(u, "in", b)

(* Only balances are to be put. *)
Pays(r, t, u, a, b) ==
    LET todo == request[r].todo IN
    /\ PutsFrom(todo, 1) /\ todo # <<>>
    /\ request[r].wrote /\ Leg(t, "out", a) /\ Leg(u, "in", b)

(* How far a transfer has come. *)
Stage(r, t, u, a, b) ==
    \/ FirstLeg(r, t, u, a, b) \/ SecondLeg(r, t, u, a, b)
    \/ PointsBack(r, t, u, a, b) \/ Pays(r, t, u, a, b)

(* A transfer is at one of its stages, and while no balance has moved its *)
(* plan puts each balance up by what its legs will count.                 *)
OkTransfer(r) ==
    LET q == request[r] IN
    q.op = "transfer" =>
      /\ \E t, u \in Txs : \E a, b \in Accounts :
         /\ t # u /\ a # b
         /\ q.holds \cap Txs = {t, u} /\ q.on = {a, b}
         /\ Stage(r, t, u, a, b)
      /\ Clean(r) /\ ~q.moved =>
            \A a \in q.on : Final(q.todo, a, account[a].bal) - account[a].bal
                             = SumFunction(Takes(a, r))

(* Between two rows an import has put the balance each row needs: an      *)
(* import can stop after any row.                                         *)
Rows(a, todo) ==
    /\ Len(todo) >= 2 /\ todo[1].do = "insert" /\ todo[2].do = "insert"
       => Share(a, account[a], todo[1].entry) = 0
    /\ \A i \in 1..Len(todo) : todo[i].do = "put" /\ i < Len(todo) =>
          /\ todo[i + 1].do = "insert"
          /\ i + 1 = Len(todo) => Share(a, account[a], todo[i + 1].entry) = 0
          /\ i + 1 < Len(todo) =>
                /\ i + 2 = Len(todo) /\ todo[i + 2].do = "put"
                /\ todo[i + 2].bal - todo[i].bal
                   = Share(a, account[a], todo[i + 1].entry)
    /\ \A i \in 1..Len(todo) : i >= 3 /\ todo[i].do = "insert" => todo[i - 1].do = "put"

(* An import only inserts rows of one account and puts its balance. *)
OkImport(r) ==
    LET q == request[r] IN
    q.op = "import" =>
      \E a \in Accounts :
        /\ q.on = {a} /\ a \in q.holds
        /\ \A i \in 1..Len(q.todo) : q.todo[i].do \in {"insert", "put"}
        /\ Clean(r) => Rows(a, q.todo)

(* What holds of every request, whatever the others do: its parts, and    *)
(* that a clean request that would leave nothing torn if it stopped here  *)
(* owes no account anything.                                              *)
Req(r) ==
    LET q == request[r] IN
    /\ q.op = "none" => q = Idle
    /\ q.holds \cap Accounts \subseteq q.on
    /\ OkOpened(r) /\ OkAccount(r) /\ OkRecompute(r) /\ OkWriter(r) /\ OkRest(r)
    /\ OkTransfer(r) /\ OkImport(r)
    /\ Clean(r) /\ q.op # "recompute" /\ ~Torn(r)
          => \A a \in Accounts : Net(a, q.todo) = 0
    /\ q.wrong /\ q.wrote /\ ~q.stale /\ q.op # "recompute" => q.on \subseteq doubted

(* The two legs of a transfer point at each other, no two transfers make  *)
(* the same leg, and a leg is paired with one that is still being made by *)
(* its own transfer only.                                                 *)
Legs ==
    /\ WellPaired(tx)
    /\ \A r, q \in Requests : r # q => Made(r) \cap Made(q) = {}
    /\ \A r \in Requests : \A t \in Txs :
          tx[t].state # "none" /\ Paired(tx[t]) /\ tx[t].pair \in Made(r) => t \in Made(r)

(* The inductive invariant: the types, what holds of each request, the    *)
(* legs, and the balance of each account.                                 *)
IInv ==
    /\ Typed
    /\ \A r \in Requests : Req(r)
    /\ Legs
    /\ \A a \in Accounts : Settled(a)

(* What a transaction counts is a number. *)
LEMMA DeltaType ==
    ASSUME NEW doc \in AccountDocs, NEW e \in Entries
    PROVE  Delta(doc, e) \in Int
PROOF
<1>0. e.amount \in Amounts
  BY DEF Entries
<1>1. e.amount \in Nat \ {0}
  BY <1>0, AmountsAssumption
<1>2. Sign(e.kind, doc.type) \in {-1, 1}
  BY DEF Sign
<1>3. Sign(e.kind, doc.type) * e.amount \in Int
  BY <1>1, <1>2
<1> QED
  BY <1>3 DEF Delta

(* What a transaction counts in an account is a number. *)
LEMMA ShareType ==
    ASSUME NEW a, NEW doc \in AccountDocs, NEW e \in Entries
    PROVE  Share(a, doc, e) \in Int
PROOF
  BY DeltaType DEF Share

(* Writing the fields that changed on a transaction gives a transaction. *)
LEMMA MergedType ==
    ASSUME NEW e \in Entries, NEW from \in Entries, NEW to \in Entries
    PROVE  Merged(e, from, to) \in Entries
PROOF
  BY DEF Merged, Saved, Entries

(* On the copy they were changed on they give the new one. *)
LEMMA MergedSame ==
    ASSUME NEW e \in Entries, NEW to \in Entries
    PROVE  Merged(e, e, to) = to
PROOF
  BY DEF Merged, Saved, Entries

(* With no field changed nothing is written. *)
LEMMA MergedNothing ==
    ASSUME NEW e \in Entries, NEW from \in Entries
    PROVE  Merged(e, from, from) = e
PROOF
  BY DEF Merged, Saved, Entries

(* What a write makes of a transaction is a transaction. *)
LEMMA AppliedType ==
    ASSUME NEW s \in Steps, NEW t \in Txs, NEW e \in Entries
    PROVE  Applied(s, t, e) \in Entries
PROOF
<1>1. CASE s \in InsertSteps
  BY <1>1 DEF InsertSteps, Applied
<1>2. CASE s \in ChangeSteps
  BY <1>2, MergedType DEF ChangeSteps, Applied
<1>3. CASE s \in BurySteps
  <2>1. Buried(e) \in Entries
    BY DEF Buried, Entries
  <2> QED
    BY <1>3, <2>1 DEF BurySteps, Applied
<1>4. CASE s \in PutSteps
  BY <1>4 DEF PutSteps, Applied, Targets
<1> QED
  BY <1>1, <1>2, <1>3, <1>4 DEF Steps

(* What a write makes of a balance is a number. *)
LEMMA PaidType ==
    ASSUME NEW s \in Steps, NEW a, NEW bal \in Int
    PROVE  Paid(s, a, bal) \in Int
PROOF
  BY DEF Paid, Steps, InsertSteps, ChangeSteps, BurySteps, PutSteps

(* What a plan makes of a transaction is a transaction. *)
LEMMA AfterType ==
    ASSUME NEW todo \in Seq(Steps), NEW t \in Txs, NEW e \in Entries
    PROVE  After(todo, t, e) \in Entries
PROOF
<1>1. \A i \in 1..5 : \A x \in Entries : AppliedAt(todo, i, t, x) \in Entries
  BY AppliedType DEF AppliedAt
<1> QED
  BY <1>1 DEF After

(* What a plan makes of a balance is a number. *)
LEMMA FinalType ==
    ASSUME NEW todo \in Seq(Steps), NEW a, NEW bal \in Int
    PROVE  Final(todo, a, bal) \in Int
PROOF
<1>1. \A i \in 1..5 : \A x \in Int : PaidAt(todo, i, a, x) \in Int
  BY PaidType DEF PaidAt
<1>2. 1 \in 1..5 /\ 2 \in 1..5 /\ 3 \in 1..5 /\ 4 \in 1..5 /\ 5 \in 1..5
  OBVIOUS
<1> QED
  BY <1>1, <1>2, Zenon DEF Final

(* The head and the tail of a sequence that is not empty. *)
LEMMA TailFacts ==
    ASSUME NEW S, NEW todo \in Seq(S), todo # <<>>
    PROVE  /\ Len(todo) \in Nat \ {0} /\ Head(todo) = todo[1] /\ Head(todo) \in S
           /\ Tail(todo) \in Seq(S) /\ Len(Tail(todo)) = Len(todo) - 1
           /\ \A i \in 1..Len(Tail(todo)) : i + 1 \in 1..Len(todo) /\ Tail(todo)[i] = todo[i + 1]
           /\ Len(todo) = 1 => Tail(todo) = <<>>
PROOF
<1>1. /\ Head(todo) \in S /\ Tail(todo) \in Seq(S) /\ Len(Tail(todo)) = Len(todo) - 1
      /\ \A i \in 1..Len(Tail(todo)) : Tail(todo)[i] = todo[i + 1]
  BY HeadTailProperties
<1>2. Len(todo) \in Nat
  OBVIOUS
<1>3. Len(todo) # 0
  BY EmptySeq
<1>4. Head(todo) = todo[1]
  OBVIOUS
<1>5. Len(todo) = 1 => Tail(todo) = <<>>
  <2>1. Tail(todo) # <<>> => Len(Tail(todo)) \in Nat \ {0}
    BY <1>1, EmptySeq
  <2> QED
    BY <1>1, <2>1
<1> QED
  BY <1>1, <1>2, <1>3, <1>4, <1>5

(* To a transaction, writing the head and then the tail is writing all. *)
LEMMA AfterTail ==
    ASSUME NEW todo \in Seq(Steps), todo # <<>>, Len(todo) <= 5, NEW t, NEW e
    PROVE  After(Tail(todo), t, Applied(Head(todo), t, e)) = After(todo, t, e)
PROOF
<1>0. /\ Len(todo) \in Nat \ {0} /\ Head(todo) = todo[1]
      /\ Len(Tail(todo)) = Len(todo) - 1
      /\ \A i \in 1..Len(Tail(todo)) : Tail(todo)[i] = todo[i + 1]
  BY TailFacts
<1>1. /\ Len(Tail(todo)) = Len(todo) - 1 /\ Len(todo) \in 1..5 /\ Head(todo) = todo[1]
      /\ \A i \in 1..Len(Tail(todo)) : Tail(todo)[i] = todo[i + 1]
  BY <1>0
<1>2. \A x : AppliedAt(todo, 1, t, x) = Applied(Head(todo), t, x)
  BY <1>1 DEF AppliedAt
<1>3. \A i \in 1..4 : \A x : AppliedAt(Tail(todo), i, t, x) = AppliedAt(todo, i + 1, t, x)
  BY <1>1 DEF AppliedAt
<1>4. \A x : AppliedAt(Tail(todo), 5, t, x) = x
  BY <1>1 DEF AppliedAt
<1>5. /\ \A x : AppliedAt(Tail(todo), 1, t, x) = AppliedAt(todo, 2, t, x)
      /\ \A x : AppliedAt(Tail(todo), 2, t, x) = AppliedAt(todo, 3, t, x)
      /\ \A x : AppliedAt(Tail(todo), 3, t, x) = AppliedAt(todo, 4, t, x)
      /\ \A x : AppliedAt(Tail(todo), 4, t, x) = AppliedAt(todo, 5, t, x)
  BY <1>3
<1>6. AppliedAt(todo, 1, t, e) = Applied(Head(todo), t, e)
  BY <1>2
<1> QED
  BY <1>4, <1>5, <1>6 DEF After

(* To a balance, writing the head and then the tail is writing all. *)
LEMMA FinalTail ==
    ASSUME NEW todo \in Seq(Steps), todo # <<>>, Len(todo) <= 5, NEW a, NEW bal
    PROVE  Final(Tail(todo), a, Paid(Head(todo), a, bal)) = Final(todo, a, bal)
PROOF
<1>0. /\ Len(todo) \in Nat \ {0} /\ Head(todo) = todo[1]
      /\ Len(Tail(todo)) = Len(todo) - 1
      /\ \A i \in 1..Len(Tail(todo)) : Tail(todo)[i] = todo[i + 1]
  BY TailFacts
<1>1. /\ Len(Tail(todo)) = Len(todo) - 1 /\ Len(todo) \in 1..5 /\ Head(todo) = todo[1]
      /\ \A i \in 1..Len(Tail(todo)) : Tail(todo)[i] = todo[i + 1]
  BY <1>0
<1>2. \A x : PaidAt(todo, 1, a, x) = Paid(Head(todo), a, x)
  BY <1>1 DEF PaidAt
<1>3. \A i \in 1..4 : \A x : PaidAt(Tail(todo), i, a, x) = PaidAt(todo, i + 1, a, x)
  BY <1>1 DEF PaidAt
<1>4. \A x : PaidAt(Tail(todo), 5, a, x) = x
  BY <1>1 DEF PaidAt
<1>5. /\ \A x : PaidAt(Tail(todo), 1, a, x) = PaidAt(todo, 2, a, x)
      /\ \A x : PaidAt(Tail(todo), 2, a, x) = PaidAt(todo, 3, a, x)
      /\ \A x : PaidAt(Tail(todo), 3, a, x) = PaidAt(todo, 4, a, x)
      /\ \A x : PaidAt(Tail(todo), 4, a, x) = PaidAt(todo, 5, a, x)
  BY <1>3
<1>6. PaidAt(todo, 1, a, bal) = Paid(Head(todo), a, bal)
  BY <1>2
<1> QED
  BY <1>4, <1>5, <1>6 DEF Final

(* A transaction that no write of a plan touches stays as it is. *)
LEMMA AfterOut ==
    ASSUME NEW todo \in Seq(Steps), NEW t, \A i \in 1..Len(todo) : t \notin Targets(todo[i]),
           NEW e
    PROVE  After(todo, t, e) = e
PROOF
<1>1. \A i \in 1..5 : \A x : AppliedAt(todo, i, t, x) = x
  BY DEF AppliedAt, Applied
<1>2. /\ \A x : AppliedAt(todo, 1, t, x) = x /\ AppliedAt(todo, 2, t, x) = x
      /\ \A x : AppliedAt(todo, 3, t, x) = x /\ AppliedAt(todo, 4, t, x) = x
      /\ \A x : AppliedAt(todo, 5, t, x) = x
  BY <1>1
<1> QED
  BY <1>2, Zenon DEF After

(* A balance that no write of a plan puts stays as it is. *)
LEMMA FinalOut ==
    ASSUME NEW todo \in Seq(Steps), NEW a,
           \A i \in 1..Len(todo) : todo[i].do = "put" => todo[i].acc # a, NEW bal
    PROVE  Final(todo, a, bal) = bal
PROOF
<1>1. \A i \in 1..5 : \A x : PaidAt(todo, i, a, x) = x
  BY DEF PaidAt, Paid
<1>2. /\ \A x : PaidAt(todo, 1, a, x) = x /\ PaidAt(todo, 2, a, x) = x
      /\ \A x : PaidAt(todo, 3, a, x) = x /\ PaidAt(todo, 4, a, x) = x
      /\ \A x : PaidAt(todo, 5, a, x) = x
  BY <1>1
<1> QED
  BY <1>2, Zenon DEF Final

-----------------------------------------------------------------------------
(* What a plan owes and how far an account is off. *)

(* The shares of the transactions in an account are numbers. *)
LEMMA SharesType ==
    ASSUME NEW doc \in AccountDocs, NEW a, NEW book \in [Txs -> Entries]
    PROVE  Shares(doc, a, book) \in [Txs -> Int]
PROOF
<1>1. \A t \in Txs : Share(a, doc, book[t]) \in Int
  BY ShareType
<1> QED
  BY <1>1 DEF Shares

(* What a plan adds to each share is a number. *)
LEMMA GainsType ==
    ASSUME NEW doc \in AccountDocs, NEW a, NEW book \in [Txs -> Entries],
           NEW todo \in Seq(Steps)
    PROVE  Gains(doc, a, book, todo) \in [Txs -> Int]
PROOF
<1>1. \A t \in Txs : Share(a, doc, book[t]) \in Int
  BY ShareType
<1>2. \A t \in Txs : Share(a, doc, After(todo, t, book[t])) \in Int
  BY ShareType, AfterType
<1> QED
  BY <1>1, <1>2 DEF Gains

(* What a plan owes an account is a number. *)
LEMMA NetType ==
    ASSUME NEW doc \in AccountDocs, NEW a, NEW book \in [Txs -> Entries],
           NEW todo \in Seq(Steps)
    PROVE  NetOf(doc, a, book, todo) \in Int
PROOF
<1>1. doc.bal \in Int
  BY DEF AccountDocs
<1>2. Final(todo, a, doc.bal) \in Int
  BY <1>1, FinalType
<1>3. SumFunction(Gains(doc, a, book, todo)) \in Int
  BY GainsType, SumType, FiniteAssumption
<1> QED
  BY <1>1, <1>2, <1>3 DEF NetOf

(* How far an account is off is a number. *)
LEMMA DriftType ==
    ASSUME NEW doc \in AccountDocs, NEW a, NEW book \in [Txs -> Entries]
    PROVE  DriftOf(doc, a, book) \in Int
PROOF
<1>1. doc.bal \in Int /\ doc.opening \in Int
  BY DEF AccountDocs
<1>2. SumFunction(Shares(doc, a, book)) \in Int
  BY SharesType, SumType, FiniteAssumption
<1> QED
  BY <1>1, <1>2 DEF DriftOf

(* The sum of differences over all transactions (SumMinus for the set     *)
(* Txs, which FiniteAssumption makes finite).                             *)
LEMMA MinusOfTxs ==
    \A f, g, h \in [Txs -> Int] :
        (\A t \in Txs : h[t] = f[t] - g[t])
        => SumFunction(h) = SumFunction(f) - SumFunction(g)
PROOF
<1> SUFFICES ASSUME NEW f \in [Txs -> Int], NEW g \in [Txs -> Int],
                    NEW h \in [Txs -> Int], \A t \in Txs : h[t] = f[t] - g[t]
             PROVE  SumFunction(h) = SumFunction(f) - SumFunction(g)
  BY Zenon
<1>1. IsFiniteSet(Txs)
  BY FiniteAssumption
<1> QED
  BY <1>1, SumMinus

(* What a plan owes and how far the account is off add up to how far it   *)
(* will be off when all is written.                                       *)
LEMMA NetDrift ==
    ASSUME NEW doc \in AccountDocs, NEW a, NEW book \in [Txs -> Entries],
           NEW todo \in Seq(Steps),
           NEW book2 \in [Txs -> Entries],
           \A t \in Txs : book2[t] = After(todo, t, book[t])
    PROVE  NetOf(doc, a, book, todo) + DriftOf(doc, a, book)
           = Final(todo, a, doc.bal) - doc.opening - SumFunction(Shares(doc, a, book2))
PROOF
<1>1. doc.bal \in Int /\ doc.opening \in Int
  BY DEF AccountDocs
<1>2. Final(todo, a, doc.bal) \in Int
  BY <1>1, FinalType
<1>3. PICK f \in [Txs -> Int] : f = Shares(doc, a, book)
  BY SharesType
<1>4. PICK g \in [Txs -> Int] : g = Shares(doc, a, book2)
  BY SharesType
<1>5. PICK h \in [Txs -> Int] : h = Gains(doc, a, book, todo)
  BY GainsType
<1>6. \A t \in Txs : h[t] = g[t] - f[t]
  BY <1>3, <1>4, <1>5 DEF Gains, Shares
<1>7. SumFunction(h) = SumFunction(g) - SumFunction(f)
  BY <1>6, MinusOfTxs, Zenon
<1>8. SumFunction(f) \in Int /\ SumFunction(g) \in Int
  BY SumType, FiniteAssumption
<1> QED
  BY <1>1, <1>2, <1>3, <1>4, <1>5, <1>7, <1>8 DEF NetOf, DriftOf

(* What a request writes it has planned: a balance is off by as much less  *)
(* as the request still moves it less.                                     *)
LEMMA StepKeeps ==
    ASSUME NEW doc \in AccountDocs, NEW a, NEW book \in [Txs -> Entries],
           NEW todo \in Seq(Steps), todo # <<>>, Len(todo) <= 5,
           NEW doc2 \in AccountDocs, NEW book2 \in [Txs -> Entries],
           doc2.bal = Paid(Head(todo), a, doc.bal), doc2.opening = doc.opening,
           doc2.cut = doc.cut, doc2.type = doc.type,
           \A t \in Txs : book2[t] = Applied(Head(todo), t, book[t])
    PROVE  NetOf(doc2, a, book2, Tail(todo)) + DriftOf(doc2, a, book2)
           = NetOf(doc, a, book, todo) + DriftOf(doc, a, book)
PROOF
<1>1. Tail(todo) \in Seq(Steps)
  BY TailFacts
<1>2. PICK book3 : book3 = [t \in Txs |-> After(todo, t, book[t])]
  OBVIOUS
<1>3. book3 \in [Txs -> Entries]
  BY <1>2, AfterType
<1>4. \A t \in Txs : book3[t] = After(todo, t, book[t])
  BY <1>2
<1>5. \A t \in Txs : book3[t] = After(Tail(todo), t, book2[t])
  BY <1>4, AfterTail
<1>6. Final(Tail(todo), a, doc2.bal) = Final(todo, a, doc.bal)
  BY FinalTail
<1>7. Shares(doc2, a, book3) = Shares(doc, a, book3)
  BY DEF Shares, Share, Delta
<1>8. NetOf(doc2, a, book2, Tail(todo)) + DriftOf(doc2, a, book2)
      = Final(Tail(todo), a, doc2.bal) - doc2.opening - SumFunction(Shares(doc2, a, book3))
  BY <1>1, <1>3, <1>5, NetDrift
<1>9. NetOf(doc, a, book, todo) + DriftOf(doc, a, book)
      = Final(todo, a, doc.bal) - doc.opening - SumFunction(Shares(doc, a, book3))
  BY <1>3, <1>4, NetDrift
<1> QED
  BY <1>6, <1>7, <1>8, <1>9

(* A plan owes what it owed while the account's money and the             *)
(* transactions it touches are as they were.                              *)
LEMMA NetSame ==
    ASSUME NEW doc \in AccountDocs, NEW a, NEW book \in [Txs -> Entries],
           NEW todo \in Seq(Steps),
           NEW doc2 \in AccountDocs, NEW book2 \in [Txs -> Entries],
           Money(doc2) = Money(doc),
           \A t \in Txs : book2[t] = book[t] \/ \A i \in 1..Len(todo) : t \notin Targets(todo[i])
    PROVE  NetOf(doc2, a, book2, todo) = NetOf(doc, a, book, todo)
PROOF
<1>1. doc2.bal = doc.bal /\ doc2.cut = doc.cut /\ doc2.type = doc.type
  BY DEF Money
<1>2. \A e : Share(a, doc2, e) = Share(a, doc, e)
  BY <1>1 DEF Share, Delta
<1>3. doc.bal \in Int
  BY DEF AccountDocs
<1>4. ASSUME NEW t \in Txs
      PROVE  Gains(doc2, a, book2, todo)[t] = Gains(doc, a, book, todo)[t]
  <2>1. CASE book2[t] = book[t]
    BY <1>2, <2>1 DEF Gains
  <2>2. CASE \A i \in 1..Len(todo) : t \notin Targets(todo[i])
    <3>1. After(todo, t, book2[t]) = book2[t] /\ After(todo, t, book[t]) = book[t]
      BY <2>2, AfterOut
    <3>2. Share(a, doc, book[t]) \in Int /\ Share(a, doc2, book2[t]) \in Int
      BY ShareType
    <3>3. Gains(doc2, a, book2, todo)[t] = 0 /\ Gains(doc, a, book, todo)[t] = 0
      BY <3>1, <3>2 DEF Gains
    <3> QED
      BY <3>3
  <2> QED
    BY <2>1, <2>2
<1>5. Gains(doc2, a, book2, todo) = Gains(doc, a, book, todo)
  BY <1>4, GainsType, SMTT(30)
<1> QED
  BY <1>1, <1>5 DEF NetOf

(* A plan that puts no balance of a and changes no share in a owes a      *)
(* nothing.                                                               *)
LEMMA NetNothing ==
    ASSUME NEW doc \in AccountDocs, NEW a, NEW book \in [Txs -> Entries],
           NEW todo \in Seq(Steps),
           \A i \in 1..Len(todo) : todo[i].do = "put" => todo[i].acc # a,
           \A t \in Txs : Share(a, doc, After(todo, t, book[t])) = Share(a, doc, book[t])
    PROVE  NetOf(doc, a, book, todo) = 0
PROOF
<1>1. Final(todo, a, doc.bal) = doc.bal
  BY FinalOut
<1>2. \A t \in Txs : Share(a, doc, book[t]) \in Int
  BY ShareType
<1>3. \A t \in Txs : Gains(doc, a, book, todo)[t] = 0
  BY <1>2 DEF Gains
<1>4. SumFunction(Gains(doc, a, book, todo)) = 0
  BY <1>3, GainsType, SumZero, FiniteAssumption
<1>5. doc.bal \in Int
  BY DEF AccountDocs
<1> QED
  BY <1>1, <1>4, <1>5 DEF NetOf

(* An empty plan owes nothing. *)
LEMMA NetNil ==
    ASSUME NEW doc \in AccountDocs, NEW a, NEW book \in [Txs -> Entries]
    PROVE  NetOf(doc, a, book, <<>>) = 0
PROOF
<1>1. <<>> \in Seq(Steps) /\ \A i \in 1..Len(<<>>) : FALSE
  OBVIOUS
<1>2. \A t \in Txs : After(<<>>, t, book[t]) = book[t]
  BY <1>1, AfterOut
<1> QED
  BY <1>1, <1>2, NetNothing

(* An account with the same balance and the same shares is off by as much *)
(* as before.                                                             *)
LEMMA DriftSame ==
    ASSUME NEW doc \in AccountDocs, NEW a, NEW book \in [Txs -> Entries],
           NEW doc2 \in AccountDocs, NEW book2 \in [Txs -> Entries],
           doc2.bal = doc.bal, doc2.opening = doc.opening,
           \A t \in Txs : Share(a, doc2, book2[t]) = Share(a, doc, book[t])
    PROVE  DriftOf(doc2, a, book2) = DriftOf(doc, a, book)
PROOF
<1>1. Shares(doc2, a, book2) = Shares(doc, a, book)
  BY DEF Shares
<1> QED
  BY <1>1 DEF DriftOf

(* What a plan owes that touches one transaction. *)
LEMMA NetOne ==
    ASSUME NEW doc \in AccountDocs, NEW a, NEW book \in [Txs -> Entries],
           NEW todo \in Seq(Steps), NEW t \in Txs,
           \A u \in Txs : u # t =>
              Share(a, doc, After(todo, u, book[u])) = Share(a, doc, book[u])
    PROVE  NetOf(doc, a, book, todo)
           = Final(todo, a, doc.bal) - doc.bal
             - (Share(a, doc, After(todo, t, book[t])) - Share(a, doc, book[t]))
PROOF
<1>1. \A u \in Txs : Share(a, doc, book[u]) \in Int
  BY ShareType
<1>2. PICK f \in [Txs -> Int] : f = Gains(doc, a, book, todo)
  BY GainsType
<1>3. \A u \in Txs : u # t => f[u] = 0
  BY <1>1, <1>2 DEF Gains
<1>4. SumFunction(f) = f[t]
  BY <1>3, SumOne, FiniteAssumption
<1> QED
  BY <1>2, <1>4 DEF NetOf, Gains

(* What a plan owes that touches two. *)
LEMMA NetTwo ==
    ASSUME NEW doc \in AccountDocs, NEW a, NEW book \in [Txs -> Entries],
           NEW todo \in Seq(Steps), NEW t \in Txs, NEW u \in Txs, t # u,
           \A v \in Txs : v # t /\ v # u =>
              Share(a, doc, After(todo, v, book[v])) = Share(a, doc, book[v])
    PROVE  NetOf(doc, a, book, todo)
           = Final(todo, a, doc.bal) - doc.bal
             - ((Share(a, doc, After(todo, t, book[t])) - Share(a, doc, book[t]))
                + (Share(a, doc, After(todo, u, book[u])) - Share(a, doc, book[u])))
PROOF
<1>1. \A v \in Txs : Share(a, doc, book[v]) \in Int
  BY ShareType
<1>2. PICK f \in [Txs -> Int] : f = Gains(doc, a, book, todo)
  BY GainsType
<1>3. \A v \in Txs : v # t /\ v # u => f[v] = 0
  BY <1>1, <1>2 DEF Gains
<1>4. SumFunction(f) = f[t] + f[u]
  BY <1>3, SumTwo, FiniteAssumption
<1> QED
  BY <1>2, <1>4 DEF NetOf, Gains

-----------------------------------------------------------------------------
(* The requests, and the step of one of them. *)

(* The legs a transfer that is q has inserted and still means to use. *)
MadeOf(q) ==
    {t \in q.holds \cap Txs :
        \A i \in 1..Len(q.todo) : q.todo[i].do = "insert" => q.todo[i].tx # t}

(* The fields of a request have their types. *)
LEMMA RequestFacts ==
    ASSUME Typed, NEW r \in Requests
    PROVE  /\ request[r] \in RequestDocs
           /\ request[r].op \in {"none", "read", "edit", "recompute"} \cup Loads \cup Writers
           /\ request[r].todo \in Seq(Steps)
           /\ request[r].tx \in Txs \cup {NoTx}
           /\ request[r].loaded \subseteq Entries \cup AccountDocs
           /\ request[r].rest \subseteq Txs \X Entries
           /\ request[r].holds \subseteq Txs \cup Accounts
           /\ request[r].on \subseteq Accounts
           /\ request[r].wrote \in BOOLEAN /\ request[r].moved \in BOOLEAN
           /\ request[r].stale \in BOOLEAN /\ request[r].wrong \in BOOLEAN
PROOF
<1>1. request[r] \in RequestDocs
  BY DEF Typed
<1> QED
  BY <1>1 DEF RequestDocs

(* The transactions and the accounts have their types. *)
LEMMA DocFacts ==
    ASSUME Typed
    PROVE  /\ \A t \in Txs : tx[t] \in Entries
           /\ \A a \in Accounts : account[a] \in AccountDocs
           /\ tx \in [Txs -> Entries] /\ account \in [Accounts -> AccountDocs]
           /\ doubted \subseteq Accounts
PROOF
  BY DEF Typed, TypeOK

(* Each write of a plan is a write. *)
LEMMA StepFacts ==
    ASSUME NEW todo \in Seq(Steps), NEW i \in 1..Len(todo)
    PROVE  todo[i] \in Steps
PROOF
  OBVIOUS

(* The legs a request made are those its own record tells. *)
LEMMA MadeFacts ==
    ASSUME Typed, NEW r \in Requests
    PROVE  Made(r) = IF request[r].op = "transfer" THEN MadeOf(request[r]) ELSE {}
PROOF
<1>1. request[r].todo \in Seq(Steps)
  BY RequestFacts
<1>2. DOMAIN request[r].todo = 1..Len(request[r].todo)
  BY <1>1, LenProperties
<1> QED
  BY <1>2 DEF Made, MadeOf, Range

(* What a request owes is a number. *)
LEMMA TermType ==
    ASSUME Typed, NEW r \in Requests, NEW a \in Accounts
    PROVE  Term(r, a) \in Int
PROOF
<1>1. request[r].todo \in Seq(Steps)
  BY RequestFacts
<1>2. NetOf(account[a], a, tx, request[r].todo) \in Int
  BY <1>1, NetType, DocFacts
<1> QED
  BY <1>2 DEF Term, Net

(* What a request owes in the next state is a number. *)
LEMMA NextTermType ==
    ASSUME Typed', NEW r \in Requests, NEW a \in Accounts
    PROVE  Term(r, a)' \in Int
PROOF
<1>1. request'[r].todo \in Seq(Steps)
  BY DEF Typed, RequestDocs
<1>2. account'[a] \in AccountDocs /\ tx' \in [Txs -> Entries]
  BY DEF Typed, TypeOK
<1>3. NetOf(account'[a], a, tx', request'[r].todo) \in Int
  BY <1>1, <1>2, NetType
<1> QED
  BY <1>3 DEF Term, Net

(* The sum over the requests changes by as much as the one term that      *)
(* changes (Requests is finite by FiniteAssumption).                      *)
LEMMA SumOfRequests ==
    \A f, g \in [Requests -> Int] : \A r \in Requests :
        (\A q \in Requests : q # r => g[q] = f[q])
        => SumFunction(g) = SumFunction(f) + g[r] - f[r]
PROOF
<1> SUFFICES ASSUME NEW f \in [Requests -> Int], NEW g \in [Requests -> Int],
                    NEW r \in Requests, \A q \in Requests : q # r => g[q] = f[q]
             PROVE  SumFunction(g) = SumFunction(f) + g[r] - f[r]
  BY Zenon
<1>1. IsFiniteSet(Requests)
  BY FiniteAssumption
<1> QED
  BY <1>1, SumChange

(* A step of r leaves the books of b balanced when it takes from what b    *)
(* is off as much as r owes b less.                                        *)
LEMMA StaysSettled ==
    ASSUME Typed, Typed', NEW b \in Accounts, Settled(b), NEW r \in Requests,
           b \in doubted => b \in doubted',
           Doomed(r) /\ b \in request[r].on
              => b \in doubted' \/ (Doomed(r)' /\ b \in request'[r].on),
           \A q \in Requests \ {r} :
              /\ Doomed(q) /\ b \in request[q].on => Doomed(q)' /\ b \in request'[q].on
              /\ Term(q, b)' = Term(q, b) \/ (Doomed(q)' /\ b \in request'[q].on),
           Drift(b)' + Term(r, b)' = Drift(b) + Term(r, b)
    PROVE  Settled(b)'
PROOF
<1>1. CASE b \in doubted
  BY <1>1 DEF Settled
<1>2. CASE \E q \in Requests : Doomed(q) /\ b \in request[q].on
  <2>1. PICK q \in Requests : Doomed(q) /\ b \in request[q].on
    BY <1>2
  <2>2. CASE q = r
    BY <2>1, <2>2 DEF Settled
  <2>3. CASE q # r
    BY <2>1, <2>3 DEF Settled
  <2> QED
    BY <2>2, <2>3
<1>3. CASE Drift(b) + SumFunction([q \in Requests |-> Term(q, b)]) = 0
  <2>1. CASE \E q \in Requests \ {r} : Doomed(q)' /\ b \in request'[q].on
    BY <2>1 DEF Settled
  <2>2. CASE \A q \in Requests \ {r} : Term(q, b)' = Term(q, b)
    <3>1. PICK f : f = [q \in Requests |-> Term(q, b)]
      OBVIOUS
    <3>2. PICK g : g = [q \in Requests |-> Term(q, b)']
      OBVIOUS
    <3>3. f \in [Requests -> Int] /\ g \in [Requests -> Int]
      BY <3>1, <3>2, TermType, NextTermType
    <3>4. \A q \in Requests : q # r => g[q] = f[q]
      BY <2>2, <3>1, <3>2
    <3>5. SumFunction(g) = SumFunction(f) + g[r] - f[r]
      BY <3>3, <3>4, SumOfRequests
    <3>6. g[r] = Term(r, b)' /\ f[r] = Term(r, b)
      BY <3>1, <3>2
    <3>7. g[r] \in Int /\ f[r] \in Int
      BY <3>3
    <3>8. SumFunction(f) \in Int /\ SumFunction(g) \in Int
      BY <3>3, SumType, FiniteAssumption
    <3>9. Drift(b) \in Int
      BY DriftType, DocFacts DEF Drift
    <3>10. Drift(b)' \in Int
      <4>1. account'[b] \in AccountDocs /\ tx' \in [Txs -> Entries]
        BY DEF Typed, TypeOK
      <4>2. DriftOf(account'[b], b, tx') \in Int
        BY <4>1, DriftType
      <4> QED
        BY <4>2 DEF Drift
    <3>11. Drift(b) + SumFunction(f) = 0
      BY <1>3, <3>1
    <3>12. Drift(b)' + g[r] = Drift(b) + f[r]
      BY <3>6
    <3>13. Drift(b)' + SumFunction(g) = 0
      BY <3>5, <3>7, <3>8, <3>9, <3>10, <3>11, <3>12
    <3> QED
      BY <3>2, <3>13 DEF Settled
  <2> QED
    BY <2>1, <2>2
<1> QED
  BY <1>1, <1>2, <1>3 DEF Settled

-----------------------------------------------------------------------------
(* Beside a request: what another one's write leaves as it was. *)

(* A step of another request that writes what is in written. *)
Beside(q, written) ==
    /\ request'[q] = [request[q] EXCEPT !.stale = @ \/ request[q].holds \cap written # {}]
    /\ \A t \in Txs \ written : tx'[t] = tx[t]
    /\ \A a \in Accounts \ written : Money(account'[a]) = Money(account[a])
    /\ \A t \in Txs : Firm(t) => Firm(t)'
    /\ \A t \in Made(q) : \A kind, a : Leg(t, kind, a) => Leg(t, kind, a)'
    /\ \A a \in request[q].on : a \in doubted => a \in doubted' \/ a \in written

(* The other request is as it was, but that it may have become stale. *)
LEMMA BesideFields ==
    ASSUME Typed, Typed', NEW q \in Requests, NEW written, Beside(q, written)
    PROVE  /\ request'[q].op = request[q].op /\ request'[q].todo = request[q].todo
           /\ request'[q].tx = request[q].tx /\ request'[q].loaded = request[q].loaded
           /\ request'[q].rest = request[q].rest /\ request'[q].holds = request[q].holds
           /\ request'[q].on = request[q].on /\ request'[q].wrote = request[q].wrote
           /\ request'[q].moved = request[q].moved /\ request'[q].wrong = request[q].wrong
           /\ request[q].stale => request'[q].stale
           /\ ~request'[q].stale => ~request[q].stale /\ request[q].holds \cap written = {}
PROOF
<1>1. request[q] \in RequestDocs
  BY RequestFacts
<1>2. request'[q] = [request[q] EXCEPT
                     !.stale = request[q].stale \/ request[q].holds \cap written # {}]
  BY DEF Beside
<1> QED
  BY <1>1, <1>2 DEF RequestDocs

(* What it holds is as it was unless it has become stale. *)
LEMMA BesideHeld ==
    ASSUME Typed, Typed', NEW q \in Requests, NEW written, Beside(q, written),
           ~request'[q].stale
    PROVE  /\ \A t \in Txs : t \in request[q].holds => tx'[t] = tx[t]
           /\ \A a \in Accounts : a \in request[q].holds =>
                 /\ Money(account'[a]) = Money(account[a])
                 /\ account'[a].bal = account[a].bal /\ account'[a].opening = account[a].opening
                 /\ account'[a].cut = account[a].cut /\ account'[a].type = account[a].type
                 /\ \A e : Share(a, account'[a], e) = Share(a, account[a], e)
PROOF
<1>1. request[q].holds \cap written = {}
  BY BesideFields
<1>2. \A t \in Txs : t \in request[q].holds => tx'[t] = tx[t]
  BY <1>1 DEF Beside
<1>3. ASSUME NEW a \in Accounts, a \in request[q].holds
      PROVE  Money(account'[a]) = Money(account[a])
  BY <1>1, <1>3 DEF Beside
<1>4. ASSUME NEW a \in Accounts, a \in request[q].holds
      PROVE  /\ account'[a].bal = account[a].bal /\ account'[a].opening = account[a].opening
             /\ account'[a].cut = account[a].cut /\ account'[a].type = account[a].type
  BY <1>3, <1>4 DEF Money
<1>5. ASSUME NEW a \in Accounts, a \in request[q].holds, NEW e
      PROVE  Share(a, account'[a], e) = Share(a, account[a], e)
  BY <1>4, <1>5 DEF Share, Delta
<1> QED
  BY <1>2, <1>3, <1>4, <1>5

(* What another request loaded of a transaction stays so: its copy is     *)
(* right, or it is stale.                                                 *)
LEMMA BesideOpened ==
    ASSUME Typed, Typed', NEW q \in Requests, NEW written, Beside(q, written), OkOpened(q)
    PROVE  OkOpened(q)'
PROOF
<1> SUFFICES ASSUME request[q].op \in Loads
             PROVE  OkOpened(q)'
  BY BesideFields DEF OkOpened
<1>1. PICK e \in Entries :
         /\ request[q].loaded = {e} /\ Held(e, request[q].tx) /\ request[q].on = {e.acc}
         /\ ~request[q].stale => tx[request[q].tx] = e
         /\ \A p \in request[q].rest : p[1] # request[q].tx /\ (Paired(e) => p[1] # e.pair)
  BY DEF OkOpened
<1>2. /\ request[q].todo = <<>> /\ ~request[q].wrote /\ ~request[q].wrong
      /\ request[q].tx \in request[q].holds /\ request[q].holds \subseteq Txs
  BY DEF OkOpened
<1>5. PICK t \in Txs : t = request[q].tx
  BY <1>2
<1>3. Held(e, t)'
  <2>1. Firm(t) => Firm(t)'
    BY DEF Beside
  <2> QED
    BY <1>1, <1>5, <2>1 DEF Held
<1>4. ~request'[q].stale => tx'[request[q].tx] = e
  BY <1>1, <1>2, BesideFields, BesideHeld
<1> QED
  BY <1>1, <1>2, <1>3, <1>4, <1>5, BesideFields DEF OkOpened, Held, Firm

(* What another request loaded of an account stays so: its copy is right, *)
(* or it is stale.                                                        *)
LEMMA BesideAccount ==
    ASSUME Typed, Typed', NEW q \in Requests, NEW written, Beside(q, written), OkAccount(q)
    PROVE  OkAccount(q)'
PROOF
<1> SUFFICES ASSUME request[q].op \in {"read", "edit"}
             PROVE  OkAccount(q)'
  BY BesideFields DEF OkAccount
<1>1. PICK a \in Accounts, doc \in AccountDocs :
            /\ request[q].on = {a} /\ request[q].holds = {a} /\ request[q].loaded = {doc}
            /\ ~request[q].stale => doc.bal = account[a].bal
            /\ ~request[q].stale /\ request[q].op = "read" => Money(doc) = Money(account[a])
  BY DEF OkAccount
<1>2. /\ ~request'[q].stale => doc.bal = account'[a].bal
      /\ ~request'[q].stale /\ request[q].op = "read" => Money(doc) = Money(account'[a])
  BY <1>1, BesideFields, BesideHeld
<1> QED
  BY <1>1, <1>2, BesideFields DEF OkAccount

(* What the transactions say of an account is the same when they and the  *)
(* account's money are.                                                   *)
LEMMA BesideTruth ==
    ASSUME Typed, Typed', NEW a \in Accounts,
           \A t \in Txs : tx'[t] = tx[t], Money(account'[a]) = Money(account[a])
    PROVE  Truth(a)' = Truth(a)
PROOF
<1>1. account'[a].opening = account[a].opening
  BY DEF Money
<1>2. account'[a].cut = account[a].cut /\ account'[a].type = account[a].type
  BY DEF Money
<1>3. \A e : Share(a, account'[a], e) = Share(a, account[a], e)
  BY <1>2 DEF Share, Delta
<1>4. [t \in Txs |-> Share(a, account'[a], tx'[t])] = [t \in Txs |-> Share(a, account[a], tx[t])]
  BY <1>3
<1> QED
  BY <1>1, <1>4 DEF Truth

(* A recompute of another request keeps its sum right, or is stale. *)
LEMMA BesideRecompute ==
    ASSUME Typed, Typed', NEW q \in Requests, NEW written, Beside(q, written), OkRecompute(q)
    PROVE  OkRecompute(q)'
PROOF
<1> SUFFICES ASSUME request[q].op = "recompute"
             PROVE  OkRecompute(q)'
  BY BesideFields DEF OkRecompute
<1>1. PICK a \in Accounts :
            /\ request[q].on = {a} /\ request[q].holds = Txs \cup {a}
            /\ Len(request[q].todo) = 1 /\ request[q].todo[1].do = "put"
            /\ request[q].todo[1].acc = a
            /\ Clean(q) => request[q].todo[1].bal = Truth(a)
  BY DEF OkRecompute
<1>2. ASSUME Clean(q)' PROVE request[q].todo[1].bal = Truth(a)'
  <2>1. ~request'[q].stale /\ Clean(q)
    BY <1>2, BesideFields DEF Clean
  <2>2. \A t \in Txs : tx'[t] = tx[t]
    BY <1>1, <2>1, BesideHeld
  <2>3. Money(account'[a]) = Money(account[a])
    BY <1>1, <2>1, BesideHeld
  <2> QED
    BY <1>1, <2>1, <2>2, <2>3, BesideTruth
<1> QED
  BY <1>1, <1>2, BesideFields DEF OkRecompute

(* A write that another request has planned may still be planned. *)
LEMMA BesideStep ==
    ASSUME Typed, Typed', NEW q \in Requests, NEW written, Beside(q, written),
           NEW s \in Steps, OkStep(q, s)
    PROVE  OkStep(q, s)'
PROOF
<1>0. \A t \in Targets(s) : t \in Txs
  BY DEF Targets, Steps, InsertSteps, ChangeSteps, BurySteps, PutSteps
<1>1. s.do = "insert" => OkInsert(q, s)'
  <2> SUFFICES ASSUME s.do = "insert" PROVE OkInsert(q, s)'
    OBVIOUS
  <2>1. OkInsert(q, s)
    BY DEF OkStep
  <2>2. s.tx \in Txs
    BY <1>0 DEF Targets
  <2>3. ~request'[q].stale => tx'[s.tx].state = "none"
    BY <2>1, <2>2, BesideFields, BesideHeld DEF OkInsert
  <2> QED
    BY <2>1, <2>3, BesideFields DEF OkInsert
<1>2. s.do = "change" => OkChange(q, s)'
  <2> SUFFICES ASSUME s.do = "change" PROVE OkChange(q, s)'
    OBVIOUS
  <2>1. OkChange(q, s)
    BY DEF OkStep
  <2>2. s.tx \in Txs
    BY <1>0 DEF Targets
  <2>3. Firm(s.tx) => Firm(s.tx)'
    BY <2>2 DEF Beside
  <2> QED
    BY <2>1, <2>3, BesideFields DEF OkChange
<1>3. ASSUME Clean(q)', NEW t \in Targets(s)
      PROVE  tx'[t].state = "none" \/ tx'[t].acc \in request'[q].on
  <2>1. Clean(q) /\ ~request'[q].stale
    BY <1>3, BesideFields DEF Clean
  <2>2. t \in request[q].holds
    BY <1>3, <2>1 DEF OkStep
  <2>3. tx'[t] = tx[t]
    BY <1>0, <2>1, <2>2, BesideHeld
  <2>4. tx[t].state = "none" \/ tx[t].acc \in request[q].on
    BY <2>1 DEF OkStep
  <2> QED
    BY <2>3, <2>4, BesideFields
<1>4. Clean(q)' => Clean(q)
  BY BesideFields DEF Clean
<1> QED
  BY <1>1, <1>2, <1>3, <1>4, BesideFields DEF OkStep

(* A request owes nothing to an account it leaves alone. *)
LEMMA NeutralNet ==
    ASSUME Typed, NEW r \in Requests, NEW a \in Accounts, Neutral(r, a)
    PROVE  Net(a, request[r].todo) = 0
PROOF
<1>1. /\ request[r].todo \in Seq(Steps) /\ account[a] \in AccountDocs
      /\ tx \in [Txs -> Entries]
  BY RequestFacts, DocFacts
<1>2. /\ \A i \in 1..Len(request[r].todo) :
            request[r].todo[i].do = "put" => request[r].todo[i].acc # a
      /\ \A t \in Txs : Share(a, account[a], After(request[r].todo, t, tx[t]))
                        = Share(a, account[a], tx[t])
  BY <1>1 DEF Neutral
<1> QED
  BY <1>1, <1>2, NetNothing DEF Net

(* A request owes nothing in the next state to an account it leaves alone *)
(* then.                                                                  *)
LEMMA NextNeutralNet ==
    ASSUME Typed', NEW r \in Requests, NEW a \in Accounts, Neutral(r, a)'
    PROVE  Net(a, request[r].todo)' = 0
PROOF
<1>1. /\ request'[r].todo \in Seq(Steps) /\ account'[a] \in AccountDocs
      /\ tx' \in [Txs -> Entries]
  BY DEF Typed, TypeOK, RequestDocs
<1>2. /\ \A i \in 1..Len(request'[r].todo) :
            request'[r].todo[i].do = "put" => request'[r].todo[i].acc # a
      /\ \A t \in Txs : Share(a, account'[a], After(request'[r].todo, t, tx'[t]))
                        = Share(a, account'[a], tx'[t])
  BY <1>1 DEF Neutral
<1>3. NetOf(account'[a], a, tx', request'[r].todo) = 0
  BY <1>1, <1>2, NetNothing
<1> QED
  BY <1>3 DEF Net

(* It leaves alone what it does not hold, before and after another one's  *)
(* write.                                                                 *)
LEMMA BesideNeutral ==
    ASSUME Typed, Typed', NEW q \in Requests, NEW written, Beside(q, written),
           OkWriter(q), request[q].op \in Writers, Clean(q)',
           NEW a \in Accounts \ request[q].holds
    PROVE  Neutral(q, a) /\ Neutral(q, a)'
PROOF
<1>1. Clean(q) /\ ~request'[q].stale
  BY BesideFields DEF Clean
<1>2. PICK todo \in Seq(Steps) : todo = request[q].todo
  BY RequestFacts
<1>3. \A i \in 1..Len(todo) : Targets(todo[i]) \subseteq request[q].holds
  BY <1>1, <1>2 DEF OkWriter, OkStep
<1>4. Neutral(q, a)
  BY <1>1 DEF OkWriter
<1>5. ASSUME NEW t \in Txs, NEW doc \in AccountDocs
      PROVE  Share(a, doc, After(todo, t, tx'[t])) = Share(a, doc, tx'[t])
  <2>1. CASE t \in request[q].holds
    <3>1. tx'[t] = tx[t]
      BY <1>1, <2>1, BesideHeld
    <3>2. Share(a, doc, After(todo, t, tx[t])) = Share(a, doc, tx[t])
      BY <1>2, <1>4 DEF Neutral
    <3> QED
      BY <3>1, <3>2
  <2>2. CASE t \notin request[q].holds
    <3>1. \A i \in 1..Len(todo) : t \notin Targets(todo[i])
      BY <1>3, <2>2
    <3>2. After(todo, t, tx'[t]) = tx'[t]
      BY <3>1, AfterOut
    <3> QED
      BY <3>2
  <2> QED
    BY <2>1, <2>2
<1>6. \A i \in 1..Len(todo) : todo[i].do = "put" => todo[i].acc # a
  BY <1>2, <1>4 DEF Neutral
<1>7. request'[q].todo = todo
  BY <1>2, BesideFields
<1>8. Neutral(q, a)'
  BY <1>5, <1>6, <1>7 DEF Neutral
<1> QED
  BY <1>4, <1>8

(* Only a request with a plan and a recompute have something to write. *)
LEMMA TodoOf ==
    ASSUME Typed, NEW q \in Requests, Req(q)
    PROVE  request[q].op \in Writers \cup {"recompute"} \/ request[q].todo = <<>>
PROOF
<1>1. request[q].op \in {"none", "read", "edit", "recompute"} \cup Loads \cup Writers
  BY RequestFacts
<1>2. request[q].op = "none" => request[q].todo = <<>>
  BY DEF Req, Idle
<1>3. request[q].op \in {"read", "edit"} => request[q].todo = <<>>
  BY DEF Req, OkAccount
<1>4. request[q].op \in Loads => request[q].todo = <<>>
  BY DEF Req, OkOpened
<1> QED
  BY <1>1, <1>2, <1>3, <1>4

(* What a request owes that is still clean is the same after another      *)
(* one's write.                                                           *)
LEMMA BesideNet ==
    ASSUME Typed, Typed', NEW q \in Requests, NEW written, Beside(q, written),
           Req(q), request[q].op # "recompute", Clean(q)', NEW a \in Accounts
    PROVE  Net(a, request[q].todo)' = Net(a, request[q].todo)
PROOF
<1>1. Clean(q) /\ ~request'[q].stale
  BY BesideFields DEF Clean
<1>2. PICK todo \in Seq(Steps) : todo = request[q].todo
  BY RequestFacts
<1>3. request'[q].todo = todo
  BY <1>2, BesideFields
<1>4. /\ account[a] \in AccountDocs /\ account'[a] \in AccountDocs
      /\ tx \in [Txs -> Entries] /\ tx' \in [Txs -> Entries]
  BY DEF Typed, TypeOK
<1>5. CASE todo = <<>>
  <2>1. NetOf(account[a], a, tx, <<>>) = 0 /\ NetOf(account'[a], a, tx', <<>>) = 0
    BY <1>4, NetNil
  <2> QED
    BY <1>2, <1>3, <1>5, <2>1 DEF Net
<1>6. CASE request[q].op \in Writers
  <2>0. OkWriter(q)
    BY DEF Req
  <2>1. CASE a \in request[q].holds
    <3>1. Money(account'[a]) = Money(account[a])
      BY <1>1, <2>1, BesideHeld
    <3>2. ASSUME NEW t \in Txs
          PROVE  tx'[t] = tx[t] \/ \A i \in 1..Len(todo) : t \notin Targets(todo[i])
      <4>1. \A i \in 1..Len(todo) : Targets(todo[i]) \subseteq request[q].holds
        BY <1>1, <1>2, <1>6, <2>0 DEF OkWriter, OkStep
      <4>2. t \in request[q].holds => tx'[t] = tx[t]
        BY <1>1, BesideHeld
      <4> QED
        BY <4>1, <4>2
    <3>3. NetOf(account'[a], a, tx', todo) = NetOf(account[a], a, tx, todo)
      BY <1>4, <3>1, <3>2, NetSame
    <3> QED
      BY <1>2, <1>3, <3>3 DEF Net
  <2>2. CASE a \notin request[q].holds
    <3>1. Neutral(q, a) /\ Neutral(q, a)'
      BY <1>6, <2>0, <2>2, BesideNeutral
    <3> QED
      BY <3>1, NeutralNet, NextNeutralNet
  <2> QED
    BY <2>1, <2>2
<1> QED
  BY <1>2, <1>5, <1>6, TodoOf

(* A plan stays a plan when another request writes. *)
LEMMA BesideWriter ==
    ASSUME Typed, Typed', NEW q \in Requests, NEW written, Beside(q, written), OkWriter(q)
    PROVE  OkWriter(q)'
PROOF
<1> SUFFICES ASSUME request[q].op \in Writers
             PROVE  OkWriter(q)'
  BY BesideFields DEF OkWriter
<1>1. PICK todo \in Seq(Steps) : todo = request[q].todo
  BY RequestFacts
<1>2. request'[q].todo = todo
  BY <1>1, BesideFields
<1>3. ASSUME NEW i \in 1..Len(todo) PROVE OkStep(q, todo[i])'
  <2>1. todo[i] \in Steps
    BY StepFacts
  <2>2. OkStep(q, todo[i])
    BY <1>1 DEF OkWriter
  <2>3. PICK s \in Steps : s = todo[i]
    BY <2>1
  <2>4. OkStep(q, s)'
    BY <2>2, <2>3, BesideStep
  <2> QED
    BY <2>3, <2>4
<1>4. Clean(q)' => \A a \in Accounts \ request[q].holds : Neutral(q, a)'
  BY BesideNeutral
<1>5. /\ Len(todo) <= 5
      /\ \A i, j \in 1..Len(todo) :
            i # j /\ todo[i].do = "insert" /\ todo[j].do = "insert"
            => todo[i].tx # todo[j].tx
      /\ Lasting(todo)
      /\ request[q].wrote \/ Len(todo) >= 2 => request[q].on \subseteq request[q].holds
      /\ request[q].op = "touched" => /\ ~request[q].wrote /\ ~request[q].wrong /\ Len(todo) = 1
                             /\ todo[1].do = "change"
                             /\ todo[1].from = todo[1].to
  BY <1>1 DEF OkWriter
<1> QED
  BY <1>2, <1>3, <1>4, <1>5, BesideFields DEF OkWriter

(* The rest of a bulk delete stays as loaded, or the request is stale. *)
LEMMA BesideRest ==
    ASSUME Typed, Typed', NEW q \in Requests, NEW written, Beside(q, written), OkRest(q)
    PROVE  OkRest(q)'
PROOF
<1>1. request'[q].rest # {} => request'[q].op \in {"write", "touched"} \cup Loads
  BY BesideFields DEF OkRest
<1>2. ASSUME NEW p \in request[q].rest
      PROVE  /\ p[1] \in request'[q].holds /\ Held(p[2], p[1])'
             /\ ~request'[q].stale => tx'[p[1]] = p[2]
  <2>1. p \in Txs \X Entries
    BY RequestFacts
  <2>2. PICK t \in Txs, e \in Entries : p = <<t, e>>
    BY <2>1
  <2>3. t \in request[q].holds /\ Held(e, t) /\ (~request[q].stale => tx[t] = e)
    BY <2>2 DEF OkRest
  <2>4. Firm(t) => Firm(t)'
    BY DEF Beside
  <2>5. Held(e, t)'
    BY <2>3, <2>4 DEF Held
  <2>6. ~request'[q].stale => tx'[t] = e
    BY <2>3, BesideFields, BesideHeld
  <2> QED
    BY <2>2, <2>3, <2>5, <2>6, BesideFields
<1> QED
  BY <1>1, <1>2, BesideFields DEF OkRest

(* The legs made at each stage of a transfer. *)
LEMMA StageMade ==
    ASSUME Typed, NEW r \in Requests, request[r].op = "transfer",
           NEW t \in Txs, NEW u \in Txs, NEW a \in Accounts, NEW b \in Accounts,
           t # u, request[r].holds \cap Txs = {t, u}
    PROVE  /\ FirstLeg(r, t, u, a, b) => Made(r) = {}
           /\ SecondLeg(r, t, u, a, b) => Made(r) = {t}
           /\ PointsBack(r, t, u, a, b) => Made(r) = {t, u}
           /\ Pays(r, t, u, a, b) => Made(r) = {t, u}
PROOF
<1>1. PICK todo \in Seq(Steps) : todo = request[r].todo
  BY RequestFacts
<1>2. \A v : v \in Made(r) <=> /\ v \in {t, u}
                               /\ \A i \in 1..Len(todo) : todo[i].do = "insert" => todo[i].tx # v
  BY <1>1, MadeFacts DEF MadeOf
<1>3. Len(todo) \in Nat
  OBVIOUS
<1>4. ASSUME FirstLeg(r, t, u, a, b) PROVE Made(r) = {}
  <2>1. /\ Len(todo) >= 3 /\ todo[1].do = "insert" /\ todo[1].tx = t
        /\ todo[2].do = "insert" /\ todo[2].tx = u
    BY <1>1, <1>3, <1>4 DEF FirstLeg, PutsFrom, IsOut, IsIn
  <2>2. 1 \in 1..Len(todo) /\ 2 \in 1..Len(todo)
    BY <1>3, <2>1
  <2>3. t \notin Made(r) /\ u \notin Made(r)
    BY <1>2, <2>1, <2>2
  <2> QED
    BY <1>2, <2>3
<1>5. ASSUME SecondLeg(r, t, u, a, b) PROVE Made(r) = {t}
  <2>1. /\ Len(todo) >= 2 /\ todo[1].do = "insert" /\ todo[1].tx = u
        /\ todo[2].do = "change" /\ \A i \in 1..Len(todo) : i >= 3 => todo[i].do = "put"
    BY <1>1, <1>3, <1>5 DEF SecondLeg, PutsFrom, IsBack, IsIn
  <2>2. 1 \in 1..Len(todo)
    BY <1>3, <2>1
  <2>3. u \notin Made(r)
    BY <1>2, <2>1, <2>2
  <2>4. \A i \in 1..Len(todo) : todo[i].do = "insert" => i = 1
    BY <1>3, <2>1
  <2>5. t \in Made(r)
    BY <1>2, <2>1, <2>4
  <2> QED
    BY <1>2, <2>3, <2>5
<1>6. ASSUME PointsBack(r, t, u, a, b) PROVE Made(r) = {t, u}
  <2>1. /\ Len(todo) >= 1
        /\ todo[1].do = "change" /\ \A i \in 1..Len(todo) : i >= 2 => todo[i].do = "put"
    BY <1>1, <1>3, <1>6 DEF PointsBack, PutsFrom, IsBack
  <2>2. \A i \in 1..Len(todo) : todo[i].do # "insert"
    BY <1>3, <2>1
  <2> QED
    BY <1>2, <2>2
<1>7. ASSUME Pays(r, t, u, a, b) PROVE Made(r) = {t, u}
  <2>1. \A i \in 1..Len(todo) : i >= 1 => todo[i].do = "put"
    BY <1>1, <1>7 DEF Pays, PutsFrom
  <2>2. \A i \in 1..Len(todo) : todo[i].do # "insert"
    BY <1>3, <2>1
  <2> QED
    BY <1>2, <2>2
<1> QED
  BY <1>4, <1>5, <1>6, <1>7

(* Another one's write makes and takes back no leg of the request. *)
LEMMA BesideMade ==
    ASSUME Typed, Typed', NEW q \in Requests, NEW written, Beside(q, written)
    PROVE  Made(q)' = Made(q)
PROOF
<1>1. /\ request'[q].op = request[q].op /\ request'[q].holds = request[q].holds
      /\ request'[q].todo = request[q].todo
  BY BesideFields
<1> QED
  BY <1>1 DEF Made

(* A transfer stays at its stage when another request writes. *)
LEMMA BesideStage ==
    ASSUME Typed, Typed', NEW q \in Requests, NEW written, Beside(q, written),
           request[q].op = "transfer",
           NEW t \in Txs, NEW u \in Txs, NEW a \in Accounts, NEW b \in Accounts,
           t # u, request[q].holds \cap Txs = {t, u}, Stage(q, t, u, a, b)
    PROVE  Stage(q, t, u, a, b)'
PROOF
<1>1. /\ request'[q].todo = request[q].todo /\ request'[q].wrote = request[q].wrote
      /\ request'[q].moved = request[q].moved
  BY BesideFields
<1>2. \A v \in Made(q) : \A kind, c : Leg(v, kind, c) => Leg(v, kind, c)'
  BY DEF Beside
<1>3. ASSUME FirstLeg(q, t, u, a, b) PROVE FirstLeg(q, t, u, a, b)'
  BY <1>1, <1>3 DEF FirstLeg
<1>4. ASSUME SecondLeg(q, t, u, a, b) PROVE SecondLeg(q, t, u, a, b)'
  <2>1. t \in Made(q)
    BY <1>4, StageMade
  <2>2. Leg(t, "out", a) => Leg(t, "out", a)'
    BY <1>2, <2>1
  <2> QED
    BY <1>1, <1>4, <2>2 DEF SecondLeg
<1>5. ASSUME PointsBack(q, t, u, a, b) PROVE PointsBack(q, t, u, a, b)'
  <2>1. t \in Made(q) /\ u \in Made(q)
    BY <1>5, StageMade
  <2>2. /\ Leg(t, "out", a) => Leg(t, "out", a)'
        /\ Leg(u, "in", b) => Leg(u, "in", b)'
    BY <1>2, <2>1
  <2> QED
    BY <1>1, <1>5, <2>2 DEF PointsBack
<1>6. ASSUME Pays(q, t, u, a, b) PROVE Pays(q, t, u, a, b)'
  <2>1. t \in Made(q) /\ u \in Made(q)
    BY <1>6, StageMade
  <2>2. /\ Leg(t, "out", a) => Leg(t, "out", a)'
        /\ Leg(u, "in", b) => Leg(u, "in", b)'
    BY <1>2, <2>1
  <2> QED
    BY <1>1, <1>6, <2>2 DEF Pays
<1> QED
  BY <1>3, <1>4, <1>5, <1>6 DEF Stage

(* What its legs will count stays the same while it is clean. *)
LEMMA BesideTakes ==
    ASSUME Typed, Typed', NEW q \in Requests, NEW written, Beside(q, written),
           OkWriter(q), request[q].op = "transfer", Clean(q)',
           NEW a \in Accounts, a \in request[q].holds
    PROVE  /\ Takes(a, q)' = Takes(a, q)
           /\ account'[a].bal = account[a].bal
PROOF
<1>1. Clean(q) /\ ~request'[q].stale
  BY BesideFields DEF Clean
<1>2. PICK todo \in Seq(Steps) : todo = request[q].todo
  BY RequestFacts
<1>3. request'[q].todo = todo /\ Made(q)' = Made(q)
  BY <1>2, BesideFields, BesideMade
<1>4. \A e : Share(a, account'[a], e) = Share(a, account[a], e)
  BY <1>1, BesideHeld
<1>5. ASSUME NEW t \in Txs
      PROVE  Share(a, account'[a], After(todo, t, tx'[t])) - Share(a, account'[a], Left(q, t)')
             = Share(a, account[a], After(todo, t, tx[t])) - Share(a, account[a], Left(q, t))
  <2>1. CASE t \in request[q].holds
    <3>1. tx'[t] = tx[t]
      BY <1>1, <2>1, BesideHeld
    <3>2. Left(q, t)' = Left(q, t)
      BY <1>3, <3>1 DEF Left
    <3> QED
      BY <1>4, <3>1, <3>2
  <2>2. CASE t \notin request[q].holds
    <3>1. \A i \in 1..Len(todo) : t \notin Targets(todo[i])
      BY <1>1, <1>2, <2>2 DEF OkWriter, OkStep, Writers
    <3>2. After(todo, t, tx'[t]) = tx'[t] /\ After(todo, t, tx[t]) = tx[t]
      BY <3>1, AfterOut
    <3>3. t \notin Made(q)
      BY <2>2, MadeFacts DEF MadeOf
    <3>4. Left(q, t)' = tx'[t] /\ Left(q, t) = tx[t]
      BY <1>3, <3>3 DEF Left
    <3>5. Share(a, account[a], tx[t]) \in Int /\ Share(a, account'[a], tx'[t]) \in Int
      BY ShareType DEF Typed, TypeOK
    <3> QED
      BY <3>2, <3>4, <3>5
  <2> QED
    BY <2>1, <2>2
<1>6. Takes(a, q)' = Takes(a, q)
  BY <1>2, <1>3, <1>5 DEF Takes
<1> QED
  BY <1>1, <1>6, BesideHeld

(* A transfer holds both its accounts. *)
LEMMA TransferHolds ==
    ASSUME Typed, NEW q \in Requests, OkWriter(q), OkTransfer(q), request[q].op = "transfer"
    PROVE  request[q].on \subseteq request[q].holds
PROOF
<1>1. PICK t \in Txs, u \in Txs, a \in Accounts, b \in Accounts :
        /\ t # u /\ request[q].holds \cap Txs = {t, u} /\ request[q].on = {a, b}
        /\ Stage(q, t, u, a, b)
  BY DEF OkTransfer
<1>2. Len(request[q].todo) \in Nat
  BY RequestFacts, LenProperties
<1>3. request[q].wrote \/ Len(request[q].todo) >= 2
  BY <1>1, <1>2 DEF Stage, FirstLeg, SecondLeg, PointsBack, Pays, PutsFrom
<1> QED
  BY <1>3 DEF OkWriter, Writers

(* So a transfer's plan still puts the balances its legs need. *)
LEMMA BesideTransfer ==
    ASSUME Typed, Typed', NEW q \in Requests, NEW written, Beside(q, written),
           OkWriter(q), OkTransfer(q)
    PROVE  OkTransfer(q)'
PROOF
<1> SUFFICES ASSUME request[q].op = "transfer"
             PROVE  OkTransfer(q)'
  BY BesideFields DEF OkTransfer
<1>1. PICK t \in Txs, u \in Txs, a \in Accounts, b \in Accounts :
        /\ t # u /\ a # b /\ request[q].holds \cap Txs = {t, u} /\ request[q].on = {a, b}
        /\ Stage(q, t, u, a, b)
  BY DEF OkTransfer
<1>2. Stage(q, t, u, a, b)'
  BY <1>1, BesideStage
<1>3. request[q].on \subseteq Accounts /\ request[q].on \subseteq request[q].holds
  BY TransferHolds, RequestFacts
<1>4. ASSUME Clean(q)', ~request'[q].moved, NEW c \in request[q].on
      PROVE  Final(request'[q].todo, c, account'[c].bal) - account'[c].bal
             = SumFunction(Takes(c, q)')
  <2>1. Takes(c, q)' = Takes(c, q) /\ account'[c].bal = account[c].bal
    BY <1>3, <1>4, BesideTakes
  <2>2. Clean(q) /\ ~request[q].moved
    BY <1>4, BesideFields DEF Clean
  <2>3. Final(request[q].todo, c, account[c].bal) - account[c].bal = SumFunction(Takes(c, q))
    BY <2>2 DEF OkTransfer
  <2> QED
    BY <2>1, <2>3, BesideFields
<1>5. /\ request'[q].op = "transfer" /\ request'[q].on = request[q].on
      /\ request'[q].holds = request[q].holds
  BY BesideFields
<1> QED
  BY <1>1, <1>2, <1>4, <1>5 DEF OkTransfer

(* An import's plan puts the balance each of its rows needs when another  *)
(* request writes.                                                        *)
LEMMA BesideImport ==
    ASSUME Typed, Typed', NEW q \in Requests, NEW written, Beside(q, written),
           OkImport(q)
    PROVE  OkImport(q)'
PROOF
<1> SUFFICES ASSUME request[q].op = "import"
             PROVE  OkImport(q)'
  BY BesideFields DEF OkImport
<1>1. PICK a \in Accounts :
        /\ request[q].on = {a} /\ a \in request[q].holds
        /\ \A i \in 1..Len(request[q].todo) : request[q].todo[i].do \in {"insert", "put"}
        /\ Clean(q) => Rows(a, request[q].todo)
  BY DEF OkImport
<1>3. PICK todo : todo = request[q].todo
  OBVIOUS
<1>2. ASSUME Clean(q)' PROVE Rows(a, todo)'
  <2>1. Clean(q) /\ ~request'[q].stale
    BY <1>2, BesideFields DEF Clean
  <2>2. \A e : Share(a, account'[a], e) = Share(a, account[a], e)
    BY <1>1, <2>1, BesideHeld
  <2>3. Rows(a, todo)
    BY <1>1, <1>3, <2>1
  <2> QED
    BY <2>2, <2>3 DEF Rows
<1>4. request'[q].todo = todo
  BY <1>3, BesideFields
<1>5. Clean(q)' => Rows(a, request[q].todo)'
  BY <1>2, <1>4 DEF Rows
<1> QED
  BY <1>1, <1>5, <1>4, <1>3, BesideFields DEF OkImport

(* Whether a request is torn does not depend on what another one writes. *)
LEMMA BesideTorn ==
    ASSUME Typed, Typed', NEW q \in Requests, NEW written, Beside(q, written)
    PROVE  Torn(q)' <=> Torn(q)
PROOF
  BY BesideFields DEF Torn, Step

(* What holds of a request goes on to hold when another one writes.        *)
LEMMA BesideReq ==
    ASSUME Typed, Typed', NEW q \in Requests, NEW written, Beside(q, written), Req(q)
    PROVE  Req(q)'
PROOF
<1>1. /\ OkOpened(q)' /\ OkAccount(q)' /\ OkRecompute(q)' /\ OkWriter(q)' /\ OkRest(q)'
      /\ OkTransfer(q)' /\ OkImport(q)'
  <2>1. /\ OkOpened(q) /\ OkAccount(q) /\ OkRecompute(q) /\ OkWriter(q) /\ OkRest(q)
        /\ OkTransfer(q) /\ OkImport(q)
    BY DEF Req
  <2> QED
    BY <2>1, BesideOpened, BesideAccount, BesideRecompute, BesideWriter, BesideRest,
       BesideTransfer, BesideImport
<1>2. request'[q].op = "none" => request'[q] = Idle
  <2>1. ASSUME request[q].op = "none" PROVE request'[q] = Idle
    <3>1. request[q] = Idle
      BY <2>1 DEF Req
    <3>2. (request[q].stale \/ request[q].holds \cap written # {}) = FALSE
      BY <3>1 DEF Idle
    <3>3. request'[q] = [request[q] EXCEPT
                         !.stale = request[q].stale \/ request[q].holds \cap written # {}]
      BY DEF Beside
    <3>4. request'[q] = [Idle EXCEPT !.stale = FALSE]
      BY <3>1, <3>2, <3>3
    <3>5. [Idle EXCEPT !.stale = FALSE] = Idle
      <4>1. request[q] \in RequestDocs /\ request[q].stale = FALSE
        BY <3>1, RequestFacts DEF Idle
      <4>2. [request[q] EXCEPT !.stale = FALSE] = request[q]
        BY <4>1 DEF RequestDocs
      <4> QED
        BY <3>1, <4>2
    <3> QED
      BY <3>4, <3>5
  <2> QED
    BY <2>1, BesideFields
<1>3. request'[q].holds \cap Accounts \subseteq request'[q].on
  BY BesideFields DEF Req
<1>4. ASSUME Clean(q)', request'[q].op # "recompute", ~Torn(q)', NEW a \in Accounts
      PROVE  Net(a, request[q].todo)' = 0
  <2>1. Clean(q) /\ request[q].op # "recompute" /\ ~Torn(q)
    BY <1>4, BesideFields, BesideTorn DEF Clean
  <2>2. Net(a, request[q].todo) = 0
    BY <2>1 DEF Req
  <2> QED
    BY <1>4, <2>1, <2>2, BesideNet
<1>5. ASSUME request'[q].wrong, request'[q].wrote, ~request'[q].stale,
             request'[q].op # "recompute"
      PROVE  request'[q].on \subseteq doubted'
  <2>1. request[q].wrong /\ request[q].wrote /\ ~request[q].stale /\ request[q].op # "recompute"
        /\ request[q].holds \cap written = {}
    BY <1>5, BesideFields
  <2>2. request[q].on \subseteq doubted
    BY <2>1 DEF Req
  <2>3. request[q].op \in Writers
    <3>1. request[q].op \notin Loads \cup {"read", "edit"}
      BY <2>1 DEF Req, OkOpened, OkAccount
    <3>2. request[q].op # "none"
      BY <2>1 DEF Req, Idle
    <3> QED
      BY <2>1, <3>1, <3>2, RequestFacts
  <2>4. request[q].on \subseteq request[q].holds
    BY <2>1, <2>3 DEF Req, OkWriter
  <2>5. \A a \in request[q].on : a \in doubted => a \in doubted' \/ a \in written
    BY DEF Beside
  <2> QED
    BY <2>1, <2>2, <2>4, <2>5, BesideFields
<1> QED
  BY <1>1, <1>2, <1>3, <1>4, <1>5 DEF Req

(* And what it owes an account stays the same, or it is doomed. *)
LEMMA BesideTerm ==
    ASSUME Typed, Typed', NEW q \in Requests, NEW written, Beside(q, written), Req(q),
           NEW b \in Accounts
    PROVE  /\ Doomed(q) /\ b \in request[q].on => Doomed(q)' /\ b \in request'[q].on
           /\ Term(q, b)' = Term(q, b) \/ (Doomed(q)' /\ b \in request'[q].on)
PROOF
<1>1. Doomed(q) /\ b \in request[q].on => Doomed(q)' /\ b \in request'[q].on
  BY BesideFields, BesideTorn DEF Doomed
<1>2. CASE Clean(q)' /\ request[q].op # "recompute"
  <2>1. Clean(q)
    BY <1>2, BesideFields DEF Clean
  <2>2. Net(b, request[q].todo)' = Net(b, request[q].todo)
    BY <1>2, BesideNet
  <2> QED
    BY <1>1, <1>2, <2>1, <2>2, BesideFields DEF Term
<1>3. CASE ~Clean(q)' /\ Clean(q) /\ request[q].op # "recompute"
  <2>1. Term(q, b)' = 0 /\ Term(q, b) = Net(b, request[q].todo)
    BY <1>3, BesideFields DEF Term
  <2>2. CASE Net(b, request[q].todo) = 0
    BY <1>1, <2>1, <2>2
  <2>3. CASE Net(b, request[q].todo) # 0
    <3>1. Torn(q)
      BY <1>3, <2>3 DEF Req
    <3>2. request'[q].stale
      BY <1>3, BesideFields DEF Clean
    <3>3. Doomed(q)'
      BY <3>1, <3>2, BesideTorn DEF Doomed
    <3>4. b \in request[q].on
      <4> SUFFICES ASSUME b \notin request[q].on PROVE FALSE
        OBVIOUS
      <4>1. b \notin request[q].holds
        BY DEF Req
      <4>2. request[q].todo # <<>>
        <5>1. NetOf(account[b], b, tx, <<>>) = 0
          BY NetNil, DocFacts
        <5> QED
          BY <2>3, <5>1 DEF Net
      <4>3. request[q].op \in Writers
        BY <1>3, <4>2, TodoOf
      <4>4. Neutral(q, b)
        BY <1>3, <4>1, <4>3 DEF Req, OkWriter
      <4> QED
        BY <2>3, <4>4, NeutralNet
    <3> QED
      BY <1>1, <3>3, <3>4, BesideFields
  <2> QED
    BY <2>2, <2>3
<1>4. CASE (~Clean(q) /\ ~Clean(q)') \/ request[q].op = "recompute"
  BY <1>1, <1>4, BesideFields DEF Term
<1>5. Clean(q)' => Clean(q)
  BY BesideFields DEF Clean
<1> QED
  BY <1>2, <1>3, <1>4, <1>5

-----------------------------------------------------------------------------
(* Plans. *)

(* The write that puts a balance. *)
LEMMA PutTypes ==
    ASSUME NEW a \in Accounts, NEW v \in Int
    PROVE  /\ Put(a, v) \in Steps /\ Targets(Put(a, v)) = {}
           /\ Put(a, v).do = "put" /\ Put(a, v).acc = a /\ Put(a, v).bal = v
PROOF
<1>1. Put(a, v) \in PutSteps /\ Put(a, v).do = "put" /\ Put(a, v).acc = a /\ Put(a, v).bal = v
  BY DEF Put, PutSteps
<1> QED
  BY <1>1 DEF Targets, Steps

(* The write that inserts a transaction. *)
LEMMA InsertTypes ==
    ASSUME NEW t \in Txs, NEW e \in Entries
    PROVE  /\ Insert(t, e) \in Steps /\ Targets(Insert(t, e)) = {t}
           /\ Insert(t, e).do = "insert" /\ Insert(t, e).tx = t /\ Insert(t, e).entry = e
PROOF
<1>1. Insert(t, e) \in InsertSteps /\ Insert(t, e).do = "insert"
      /\ Insert(t, e).tx = t /\ Insert(t, e).entry = e
  BY DEF Insert, InsertSteps
<1> QED
  BY <1>1 DEF Targets, Steps

(* The write that saves a changed transaction. *)
LEMMA ChangeTypes ==
    ASSUME NEW t \in Txs, NEW from \in Entries, NEW to \in Entries
    PROVE  /\ Change(t, from, to) \in Steps /\ Targets(Change(t, from, to)) = {t}
           /\ Change(t, from, to).do = "change" /\ Change(t, from, to).tx = t
           /\ Change(t, from, to).from = from /\ Change(t, from, to).to = to
PROOF
<1>1. /\ Change(t, from, to) \in ChangeSteps /\ Change(t, from, to).do = "change"
      /\ Change(t, from, to).tx = t
      /\ Change(t, from, to).from = from /\ Change(t, from, to).to = to
  BY DEF Change, ChangeSteps
<1> QED
  BY <1>1 DEF Targets, Steps

(* The write that hides transactions. *)
LEMMA BuryTypes ==
    ASSUME NEW ts \in SUBSET Txs
    PROVE  /\ Bury(ts) \in Steps /\ Targets(Bury(ts)) = ts
           /\ Bury(ts).do = "bury" /\ Bury(ts).txs = ts
PROOF
<1>1. Bury(ts) \in BurySteps /\ Bury(ts).do = "bury" /\ Bury(ts).txs = ts
  BY DEF Bury, BurySteps
<1> QED
  BY <1>1 DEF Targets, Steps

(* One more write at the end. *)
LEMMA OneStep ==
    ASSUME NEW s \in Steps
    PROVE  /\ <<s>> \in Seq(Steps) /\ Len(<<s>>) = 1 /\ <<s>>[1] = s
           /\ \A t, e : After(<<s>>, t, e) = Applied(s, t, e)
           /\ \A a, bal : Final(<<s>>, a, bal) = Paid(s, a, bal)
PROOF
<1>1. <<s>> \in Seq(Steps) /\ Len(<<s>>) = 1 /\ <<s>>[1] = s
  OBVIOUS
<1>2. PICK todo \in Seq(Steps) : todo = <<s>>
  BY <1>1
<1>3. Len(todo) = 1 /\ todo[1] = s
  BY <1>1, <1>2
<1>4. ASSUME NEW t, NEW e PROVE After(todo, t, e) = Applied(s, t, e)
  BY <1>3 DEF After, AppliedAt
<1>5. ASSUME NEW a, NEW bal PROVE Final(todo, a, bal) = Paid(s, a, bal)
  BY <1>3 DEF Final, PaidAt
<1> QED
  BY <1>1, <1>2, <1>4, <1>5

(* A plan with one write more. *)
LEMMA MoreSteps ==
    ASSUME NEW todo \in Seq(Steps), Len(todo) <= 4, NEW s \in Steps
    PROVE  /\ todo \o <<s>> \in Seq(Steps) /\ Len(todo \o <<s>>) = Len(todo) + 1
           /\ \A i \in 1..Len(todo) : (todo \o <<s>>)[i] = todo[i]
           /\ (todo \o <<s>>)[Len(todo) + 1] = s
           /\ \A t, e : After(todo \o <<s>>, t, e) = Applied(s, t, After(todo, t, e))
           /\ \A a, bal : Final(todo \o <<s>>, a, bal) = Paid(s, a, Final(todo, a, bal))
PROOF
<1>1. /\ todo \o <<s>> \in Seq(Steps) /\ Len(todo \o <<s>>) = Len(todo) + 1
      /\ \A i \in 1..Len(todo) : (todo \o <<s>>)[i] = todo[i]
      /\ (todo \o <<s>>)[Len(todo) + 1] = s
  OBVIOUS
<1>2. PICK more \in Seq(Steps) : more = todo \o <<s>>
  BY <1>1
<1>3. PICK n \in 0..4 : n = Len(todo)
  <2>1. Len(todo) \in Nat
    BY LenProperties
  <2>0. \A n \in Nat : n <= 4 => n \in 0..4
    OBVIOUS
  <2>2. Len(todo) \in 0..4
    BY <2>0, <2>1, Zenon
  <2> QED
    BY <2>2, Zenon
<1>4. /\ Len(more) = n + 1 /\ more[n + 1] = s /\ \A i \in 1..n : more[i] = todo[i]
  BY <1>1, <1>2, <1>3
<1>5. ASSUME NEW t, NEW e PROVE After(more, t, e) = Applied(s, t, After(todo, t, e))
  <2>1. \A i \in 1..n : \A x : AppliedAt(more, i, t, x) = AppliedAt(todo, i, t, x)
    BY <1>3, <1>4 DEF AppliedAt
  <2>2. \A x : AppliedAt(more, n + 1, t, x) = Applied(s, t, x)
    BY <1>4 DEF AppliedAt
  <2>3. \A i \in (n + 2)..5 : \A x : AppliedAt(more, i, t, x) = x
    BY <1>4 DEF AppliedAt
  <2>4. \A i \in (n + 1)..5 : \A x : AppliedAt(todo, i, t, x) = x
    BY <1>3 DEF AppliedAt
  <2>5. CASE n = 0
    BY <2>2, <2>3, <2>4, <2>5 DEF After
  <2>6. CASE n = 1
    BY <2>1, <2>2, <2>3, <2>4, <2>6 DEF After
  <2>7. CASE n = 2
    BY <2>1, <2>2, <2>3, <2>4, <2>7 DEF After
  <2>8. CASE n = 3
    BY <2>1, <2>2, <2>3, <2>4, <2>8 DEF After
  <2>9. CASE n = 4
    BY <2>1, <2>2, <2>4, <2>9 DEF After
  <2> QED
    BY <2>5, <2>6, <2>7, <2>8, <2>9
<1>6. ASSUME NEW a, NEW bal PROVE Final(more, a, bal) = Paid(s, a, Final(todo, a, bal))
  <2>1. \A i \in 1..n : \A x : PaidAt(more, i, a, x) = PaidAt(todo, i, a, x)
    BY <1>3, <1>4 DEF PaidAt
  <2>2. \A x : PaidAt(more, n + 1, a, x) = Paid(s, a, x)
    BY <1>4 DEF PaidAt
  <2>3. \A i \in (n + 2)..5 : \A x : PaidAt(more, i, a, x) = x
    BY <1>4 DEF PaidAt
  <2>4. \A i \in (n + 1)..5 : \A x : PaidAt(todo, i, a, x) = x
    BY <1>3 DEF PaidAt
  <2>5. CASE n = 0
    BY <2>2, <2>3, <2>4, <2>5 DEF Final
  <2>6. CASE n = 1
    BY <2>1, <2>2, <2>3, <2>4, <2>6 DEF Final
  <2>7. CASE n = 2
    BY <2>1, <2>2, <2>3, <2>4, <2>7 DEF Final
  <2>8. CASE n = 3
    BY <2>1, <2>2, <2>3, <2>4, <2>8 DEF Final
  <2>9. CASE n = 4
    BY <2>1, <2>2, <2>4, <2>9 DEF Final
  <2> QED
    BY <2>5, <2>6, <2>7, <2>8, <2>9
<1> QED
  BY <1>1, <1>2, <1>5, <1>6

(* A plan with none. *)
LEMMA NoSteps ==
    /\ <<>> \in Seq(Steps) /\ Len(<<>>) = 0
    /\ \A t, e : After(<<>>, t, e) = e
    /\ \A a, bal : Final(<<>>, a, bal) = bal
PROOF
<1>1. PICK todo \in Seq(Steps) : todo = <<>>
  BY EmptySeq
<1>2. Len(todo) = 0
  BY <1>1, EmptySeq
<1>3. ASSUME NEW t, NEW e PROVE After(todo, t, e) = e
  BY <1>2 DEF After, AppliedAt
<1>4. ASSUME NEW a, NEW bal PROVE Final(todo, a, bal) = bal
  BY <1>2 DEF Final, PaidAt
<1> QED
  BY <1>1, <1>2, <1>3, <1>4

(* A balance is put unless it is what it was: with or without the write it *)
(* comes out as the value.                                                 *)
MoreOf(more, todo, a, before, value) ==
    /\ more \in Seq(Steps) /\ Len(more) \in {Len(todo), Len(todo) + 1}
    /\ \A i \in 1..Len(todo) : more[i] = todo[i]
    /\ Len(more) = Len(todo) + 1 =>
          /\ more[Len(more)] = Put(a, value) /\ more[Len(more)] \in Steps
          /\ more[Len(more)].do = "put" /\ more[Len(more)].acc = a
          /\ more[Len(more)].bal = value
          /\ Targets(more[Len(more)]) = {}
    /\ Len(more) = Len(todo) => value = before
    /\ \A t, e : After(more, t, e) = After(todo, t, e)
    /\ \A b, bal : b # a => Final(more, b, bal) = Final(todo, b, bal)
    /\ \A bal : Final(todo, a, bal) = before => Final(more, a, bal) = value

(* Appending what the code puts, or nothing when the balance would not    *)
(* change, comes out as MoreOf says.                                      *)
LEMMA MorePut ==
    ASSUME NEW todo \in Seq(Steps), Len(todo) <= 4, NEW a \in Accounts,
           NEW before \in Int, NEW value \in Int, NEW more,
           more = todo \o PutIfNew(a, before, value)
    PROVE  MoreOf(more, todo, a, before, value)
PROOF
<1>0. Len(todo) \in Nat
  OBVIOUS
<1>1. CASE value = before
  <2>1. more = todo
    BY <1>1 DEF PutIfNew
  <2>2. Len(more) = Len(todo) /\ Len(more) # Len(todo) + 1
    BY <1>0, <2>1
  <2>3. \A bal : Final(todo, a, bal) = before => Final(more, a, bal) = value
    BY <1>1, <2>1
  <2> QED
    BY <1>1, <2>1, <2>2, <2>3, Zenon DEF MoreOf
<1>2. CASE value # before
  <2>1. PICK s \in Steps : /\ s = Put(a, value) /\ s.do = "put" /\ s.acc = a /\ s.bal = value
                           /\ Targets(s) = {}
    BY PutTypes
  <2>2. more = todo \o <<s>>
    BY <1>2, <2>1 DEF PutIfNew
  <2>3. /\ more \in Seq(Steps) /\ Len(more) = Len(todo) + 1
        /\ \A i \in 1..Len(todo) : more[i] = todo[i]
        /\ more[Len(todo) + 1] = s
        /\ \A t, e : After(more, t, e) = Applied(s, t, After(todo, t, e))
        /\ \A b, bal : Final(more, b, bal) = Paid(s, b, Final(todo, b, bal))
    BY <2>2, MoreSteps
  <2>4. \A t, e : After(more, t, e) = After(todo, t, e)
    BY <2>1, <2>3 DEF Applied
  <2>5. /\ \A b, bal : b # a => Final(more, b, bal) = Final(todo, b, bal)
        /\ \A bal : Final(more, a, bal) = value
    BY <2>1, <2>3 DEF Paid
  <2>6. /\ Len(more) = Len(todo) + 1 =>
              /\ more[Len(more)] = Put(a, value) /\ more[Len(more)] \in Steps
              /\ more[Len(more)].do = "put" /\ more[Len(more)].acc = a
              /\ more[Len(more)].bal = value
              /\ Targets(more[Len(more)]) = {}
        /\ Len(more) \in {Len(todo), Len(todo) + 1} /\ Len(more) # Len(todo)
    BY <1>0, <2>1, <2>3
  <2>7. /\ more \in Seq(Steps)
        /\ \A i \in 1..Len(todo) : more[i] = todo[i]
    BY <2>3
  <2> QED
    BY <2>4, <2>5, <2>6, <2>7 DEF MoreOf
<1> QED
  BY <1>1, <1>2

(* A plan with a balance put after it, or nothing, is a plan. *)
LEMMA PutIfNewType ==
    ASSUME NEW todo \in Seq(Steps), NEW a \in Accounts, NEW before \in Int, NEW value \in Int
    PROVE  todo \o PutIfNew(a, before, value) \in Seq(Steps)
PROOF
<1>1. PutIfNew(a, before, value) \in Seq(Steps)
  <2>1. PICK s \in Steps : s = Put(a, value)
    BY PutTypes
  <2>2. <<s>> \in Seq(Steps) /\ <<>> \in Seq(Steps)
    BY OneStep, NoSteps
  <2> QED
    BY <2>1, <2>2 DEF PutIfNew
<1> QED
  BY <1>1

(* What is written is in the accounts on, or it is not live. *)
LEMMA AfterOn ==
    ASSUME NEW todo \in Seq(Steps), NEW on,
           \A i \in 1..Len(todo) :
              /\ todo[i].do = "insert" => todo[i].entry.acc \in on
              /\ todo[i].do = "change" => /\ todo[i].to.acc \in on
                                          /\ todo[i].to.state \in {todo[i].from.state, "gone"},
           NEW t \in Txs, NEW e \in Entries, e.state # "live" \/ e.acc \in on
    PROVE  After(todo, t, e).state # "live" \/ After(todo, t, e).acc \in on
PROOF
<1> DEFINE In(x) == x \in Entries /\ (x.state # "live" \/ x.acc \in on)
<1>1. ASSUME NEW i \in 1..5, NEW x, In(x)
      PROVE  In(AppliedAt(todo, i, t, x))
  <2>1. CASE i > Len(todo)
    BY <1>1, <2>1 DEF AppliedAt
  <2>2. CASE i <= Len(todo)
    <3>1. PICK s \in Steps : s = todo[i]
      BY <2>2
    <3>2. /\ s.do = "insert" => s.entry.acc \in on
          /\ s.do = "change" => s.to.acc \in on /\ s.to.state \in {s.from.state, "gone"}
      BY <2>2, <3>1
    <3>3. AppliedAt(todo, i, t, x) = Applied(s, t, x)
      BY <2>2, <3>1 DEF AppliedAt
    <3>4. Applied(s, t, x) \in Entries
      BY <1>1, AppliedType
    <3>5. Applied(s, t, x).state # "live" \/ Applied(s, t, x).acc \in on
      <4>1. CASE t \notin Targets(s)
        BY <1>1, <4>1 DEF Applied
      <4>2. CASE t \in Targets(s) /\ s.do = "insert"
        BY <3>2, <4>2 DEF Applied
      <4>3. CASE t \in Targets(s) /\ s.do = "change"
        BY <1>1, <3>2, <4>3 DEF Applied, Merged, Saved
      <4>4. CASE t \in Targets(s) /\ s.do = "bury"
        BY <1>1, <4>4 DEF Applied, Buried, Entries
      <4> QED
        BY <4>1, <4>2, <4>3, <4>4 DEF Targets
    <3> QED
      BY <3>3, <3>4, <3>5
  <2> QED
    BY <2>1, <2>2
<1>2. In(e)
  OBVIOUS
<1>3. In(AppliedAt(todo, 1, t, e))
  BY <1>1, <1>2
<1>4. In(AppliedAt(todo, 2, t, AppliedAt(todo, 1, t, e)))
  BY <1>1, <1>3
<1>5. In(AppliedAt(todo, 3, t, AppliedAt(todo, 2, t, AppliedAt(todo, 1, t, e))))
  BY <1>1, <1>4
<1>6. In(AppliedAt(todo, 4, t, AppliedAt(todo, 3, t, AppliedAt(todo, 2, t,
          AppliedAt(todo, 1, t, e)))))
  BY <1>1, <1>5
<1>7. In(After(todo, t, e))
  BY <1>1, <1>6 DEF After
<1> QED
  BY <1>7

(* A step in which one request decides what it is to do. *)
Alone(r) ==
    /\ tx' = tx /\ account' = account /\ doubted' = doubted
    /\ \A q \in Requests \ {r} : request'[q] = request[q]

(* What one request decides is a step beside all the others. *)
LEMMA AloneBeside ==
    ASSUME Typed, NEW r \in Requests, Alone(r), NEW q \in Requests \ {r}
    PROVE  Beside(q, {})
PROOF
<1>1. request[q] \in RequestDocs /\ request'[q] = request[q]
  BY RequestFacts DEF Alone
<1>2. request'[q] = [request[q] EXCEPT !.stale = @ \/ request[q].holds \cap {} # {}]
  <2>1. (request[q].stale \/ request[q].holds \cap {} # {}) = request[q].stale
    BY <1>1 DEF RequestDocs
  <2>2. [request[q] EXCEPT !.stale = request[q].stale] = request[q]
    BY <1>1 DEF RequestDocs
  <2> QED
    BY <1>1, <2>1, <2>2
<1>3. tx' = tx /\ account' = account /\ doubted' = doubted
  BY DEF Alone
<1> QED
  BY <1>2, <1>3 DEF Beside, Firm, Leg

(* When one request decides, the legs stay in order if it has made none. *)
LEMMA AloneLegs ==
    ASSUME Typed, Typed', Legs, NEW r \in Requests, Alone(r), Made(r)' = {}
    PROVE  Legs'
PROOF
<1>1. \A q \in Requests \ {r} : Made(q)' = Made(q)
  BY AloneBeside, BesideMade
<1>2. \A q \in Requests : Made(q)' \subseteq Made(q)
  BY <1>1
<1>3. WellPaired(tx)'
  BY DEF Legs, Alone
<1>4. \A x, q \in Requests : x # q => Made(x)' \cap Made(q)' = {}
  BY <1>2 DEF Legs
<1>5. ASSUME NEW q \in Requests, NEW t \in Txs,
             tx'[t].state # "none", Paired(tx'[t]), tx'[t].pair \in Made(q)'
      PROVE  t \in Made(q)'
  <2>1. Made(q)' = Made(q)
    BY <1>1, <1>5
  <2> QED
    BY <1>5, <2>1 DEF Legs, Alone
<1> QED
  BY <1>3, <1>4, <1>5 DEF Legs

(* A request that has nothing to write yet and goes on. *)
LEMMA AloneKeeps ==
    ASSUME IInv, Typed', NEW r \in Requests, Alone(r),
           request[r].todo = <<>>,
           \A b \in Accounts : Doomed(r) /\ b \in request[r].on
                               => Doomed(r)' /\ b \in request'[r].on,
           Req(r)', request'[r].op = "recompute" \/ ~Torn(r)', Made(r)' = {}
    PROVE  IInv'
PROOF
<1>1. Typed /\ Legs /\ (\A q \in Requests : Req(q)) /\ (\A a \in Accounts : Settled(a))
  BY DEF IInv
<1>2. \A q \in Requests \ {r} : Beside(q, {})
  BY <1>1, AloneBeside
<1>3. \A q \in Requests : Req(q)'
  <2>1. ASSUME NEW q \in Requests \ {r} PROVE Req(q)'
    BY <1>1, <1>2, BesideReq
  <2> QED
    BY <2>1
<1>4. Legs'
  BY <1>1, AloneLegs
<1>5. ASSUME NEW b \in Accounts PROVE Settled(b)'
  <2>1. \A q \in Requests \ {r} :
           /\ Doomed(q) /\ b \in request[q].on => Doomed(q)' /\ b \in request'[q].on
           /\ Term(q, b)' = Term(q, b) \/ (Doomed(q)' /\ b \in request'[q].on)
    BY <1>1, <1>2, BesideTerm
  <2>2. Term(r, b) = 0
    <3>1. Net(b, <<>>) = 0
      BY <1>1, NetNil, DocFacts DEF Net
    <3> QED
      BY <3>1 DEF Term
  <2>3. Term(r, b)' = 0
    <3>1. Clean(r)' /\ request'[r].op # "recompute" => Net(b, request[r].todo)' = 0
      BY DEF Req
    <3> QED
      BY <3>1 DEF Term
  <2>4. Drift(b)' = Drift(b)
    BY DEF Drift, Alone
  <2>5. Drift(b)' + Term(r, b)' = Drift(b) + Term(r, b)
    BY <2>2, <2>3, <2>4
  <2>6. b \in doubted => b \in doubted'
    BY DEF Alone
  <2> QED
    BY <1>1, <2>1, <2>5, <2>6, StaysSettled
<1> QED
  BY <1>3, <1>4, <1>5 DEF IInv

(* What a write must be to be planned by a request that is q.              *)
Fits(q, s) ==
    /\ s.do = "put" => s.acc \in q.on /\ s.acc \in q.holds
    /\ s.do = "insert" =>
          /\ s.tx \in q.holds /\ s.entry.acc \in q.on /\ s.entry.state = "live"
          /\ tx[s.tx].state = "none"
          /\ s.entry.recurring => ~IsLeg(s.entry)
          /\ q.op # "transfer" => ~IsLeg(s.entry)
    /\ s.do = "change" =>
          /\ s.tx \in q.holds /\ s.to.acc \in q.on
          /\ s.to.state \in {s.from.state, "gone"}
          /\ s.to.state # s.from.state => Firm(s.tx)
          /\ s.to.acc # s.from.acc => Firm(s.tx)
          /\ s.to.kind # s.from.kind => Firm(s.tx) /\ ~IsLeg(s.to)
          /\ s.to.pair # s.from.pair => q.op = "transfer"
          /\ s.to.recurring = s.from.recurring
    /\ ~q.stale => \A p \in q.rest : p[1] \notin Targets(s)
    /\ ~q.stale /\ ~q.wrong => /\ Targets(s) \subseteq q.holds
                               /\ \A t \in Targets(s) : tx[t].state = "none" \/ tx[t].acc \in q.on

(* What fits a request may be planned by it. *)
LEMMA FitsStep ==
    ASSUME tx' = tx, NEW r \in Requests, NEW q, request'[r] = q, NEW s, Fits(q, s)
    PROVE  OkStep(r, s)'
PROOF
<1>1. s.do = "insert" => OkInsert(r, s)'
  BY DEF OkInsert, Fits
<1>2. s.do = "change" => OkChange(r, s)'
  BY DEF OkChange, Fits, Firm
<1>3. Clean(r)' <=> ~q.stale /\ ~q.wrong
  BY DEF Clean
<1> QED
  BY <1>1, <1>2, <1>3 DEF OkStep, Fits

(* Off the accounts it is on a plan moves nothing. *)
LEMMA PlanOff ==
    ASSUME Typed, NEW q \in RequestDocs, \A i \in 1..Len(q.todo) : Fits(q, q.todo[i]),
           ~q.stale, ~q.wrong, NEW a \in Accounts \ q.on
    PROVE  /\ \A i \in 1..Len(q.todo) : q.todo[i].do = "put" => q.todo[i].acc # a
           /\ \A t \in Txs : \A doc \in AccountDocs :
                 Share(a, doc, After(q.todo, t, tx[t])) = Share(a, doc, tx[t])
PROOF
<1>1. PICK todo \in Seq(Steps) : todo = q.todo
  BY DEF RequestDocs
<1>2. \A i \in 1..Len(todo) : todo[i].do = "put" => todo[i].acc # a
  BY <1>1 DEF Fits
<1>3. ASSUME NEW t \in Txs, NEW doc \in AccountDocs
      PROVE  Share(a, doc, After(todo, t, tx[t])) = Share(a, doc, tx[t])
  <2>1. CASE \A i \in 1..Len(todo) : t \notin Targets(todo[i])
    BY <2>1, AfterOut
  <2>2. CASE \E i \in 1..Len(todo) : t \in Targets(todo[i])
    <3>1. tx[t] \in Entries /\ (tx[t].state # "live" \/ tx[t].acc \in q.on)
      BY <1>1, <2>2, DocFacts DEF Fits
    <3>2. \A i \in 1..Len(todo) :
              /\ todo[i].do = "insert" => todo[i].entry.acc \in q.on
              /\ todo[i].do = "change" => /\ todo[i].to.acc \in q.on
                                          /\ todo[i].to.state \in {todo[i].from.state, "gone"}
      BY <1>1 DEF Fits
    <3>3. After(todo, t, tx[t]).state # "live" \/ After(todo, t, tx[t]).acc \in q.on
      BY <3>1, <3>2, AfterOn
    <3> QED
      BY <3>1, <3>3 DEF Share, Booked
  <2> QED
    BY <2>1, <2>2
<1> QED
  BY <1>1, <1>2, <1>3

(* To write todo leaves a alone. *)
Spares(todo, a) ==
    /\ \A i \in 1..Len(todo) : todo[i].do = "put" => todo[i].acc # a
    /\ \A t \in Txs : \A doc \in AccountDocs :
          Share(a, doc, After(todo, t, tx[t])) = Share(a, doc, tx[t])

(* A plan: what a request that is q decides to write. *)
Plan(q) ==
    /\ q.op \in Writers /\ ~q.wrote
    /\ q.holds \cap Accounts \subseteq q.on
    /\ Len(q.todo) <= 5
    /\ Len(q.todo) >= 2 => q.on \subseteq q.holds
    /\ \A i \in 1..Len(q.todo) : Fits(q, q.todo[i])
    /\ \A i, j \in 1..Len(q.todo) :
          i # j /\ q.todo[i].do = "insert" /\ q.todo[j].do = "insert"
          => q.todo[i].tx # q.todo[j].tx
    /\ Lasting(q.todo)
    /\ ~q.stale /\ ~q.wrong =>
          \A a \in q.on : Net(a, q.todo) = 0 /\ (a \in q.holds \/ Spares(q.todo, a))
    /\ q.op = "touched" => /\ ~q.wrong /\ Len(q.todo) = 1
                           /\ q.todo[1].do = "change" /\ q.todo[1].from = q.todo[1].to
    /\ q.rest # {} => q.op \in {"write", "touched"}
    /\ \A p \in q.rest : /\ p[1] \in q.holds /\ Held(p[2], p[1])
                         /\ ~q.stale => tx[p[1]] = p[2]

(* A plan satisfies what is asked of a request with writes. *)
LEMMA PlanWriter ==
    ASSUME Typed, Typed', tx' = tx, account' = account, NEW r \in Requests,
           NEW q \in RequestDocs, request'[r] = q, Plan(q)
    PROVE  OkWriter(r)'
PROOF
<1>1. \A i \in 1..Len(q.todo) : OkStep(r, q.todo[i])'
  BY FitsStep DEF Plan
<1>2. ASSUME ~q.stale, ~q.wrong, NEW a \in Accounts \ q.holds
      PROVE  Neutral(r, a)'
  <2>1. Spares(q.todo, a)
    <3>1. CASE a \in q.on
      BY <1>2, <3>1 DEF Plan
    <3>2. CASE a \notin q.on
      BY <1>2, <3>2, PlanOff DEF Plan, Spares
    <3> QED
      BY <3>1, <3>2
  <2> QED
    BY <2>1 DEF Spares, Neutral
<1>3. Clean(r)' <=> ~q.stale /\ ~q.wrong
  BY DEF Clean
<1> QED
  BY <1>1, <1>2, <1>3 DEF Plan, OkWriter

(* A plan satisfies all that is asked of a request, once the transfers    *)
(* and the imports are looked after.                                      *)
LEMMA PlanReq ==
    ASSUME Typed, Typed', tx' = tx, account' = account, NEW r \in Requests,
           NEW q \in RequestDocs, request'[r] = q, Plan(q), OkTransfer(r)', OkImport(r)'
    PROVE  Req(r)'
PROOF
<1>1. OkWriter(r)'
  BY PlanWriter
<1>2. OkOpened(r)' /\ OkAccount(r)' /\ OkRecompute(r)' /\ q.op # "none"
  BY DEF Plan, Writers, Loads, OkOpened, OkAccount, OkRecompute
<1>3. OkRest(r)'
  <2>1. \A p \in q.rest : Held(p[2], p[1])'
    BY DEF Plan, Held, Firm
  <2> QED
    BY <2>1 DEF Plan, OkRest
<1>4. ASSUME ~q.stale, ~q.wrong, NEW a \in Accounts
      PROVE  Net(a, q.todo)' = 0
  <2>1. Net(a, q.todo) = 0
    <3>1. CASE a \in q.on
      BY <1>4, <3>1 DEF Plan
    <3>2. CASE a \notin q.on
      <4>1. q.todo \in Seq(Steps) /\ account[a] \in AccountDocs /\ tx \in [Txs -> Entries]
        BY DocFacts DEF RequestDocs
      <4>2. /\ \A i \in 1..Len(q.todo) : q.todo[i].do = "put" => q.todo[i].acc # a
            /\ \A t \in Txs : \A doc \in AccountDocs :
                 Share(a, doc, After(q.todo, t, tx[t])) = Share(a, doc, tx[t])
        BY <1>4, <3>2, PlanOff DEF Plan
      <4> QED
        BY <4>1, <4>2, NetNothing DEF Net
    <3> QED
      BY <3>1, <3>2
  <2> QED
    BY <2>1 DEF Net
<1>5. Clean(r)' => ~q.stale /\ ~q.wrong
  BY DEF Clean
<1>6. ~q.wrote /\ q.holds \cap Accounts \subseteq q.on
  BY DEF Plan
<1> QED
  BY <1>1, <1>2, <1>3, <1>4, <1>5, <1>6 DEF Req

(* A request may plan what is a plan. *)
LEMMA PlanKeeps ==
    ASSUME IInv, Typed', NEW r \in Requests, Alone(r),
           request[r].todo = <<>>, ~request[r].wrote,
           NEW q \in RequestDocs, request'[r] = q, Plan(q), OkTransfer(r)', OkImport(r)',
           Made(r)' = {}
    PROVE  IInv'
PROOF
<1>1. Req(r)'
  BY PlanReq DEF IInv, Alone
<1>2. ~Doomed(r) /\ ~Torn(r)'
  BY DEF Doomed, Torn, Plan
<1> QED
  BY <1>1, <1>2, AloneKeeps

(* The plans that are no transfer and no import. *)
LEMMA PlainPlan ==
    ASSUME IInv, Typed', NEW r \in Requests, Alone(r),
           request[r].todo = <<>>, ~request[r].wrote,
           NEW q \in RequestDocs, request'[r] = q, Plan(q), q.op \notin {"transfer", "import"}
    PROVE  IInv'
PROOF
<1>1. OkTransfer(r)' /\ OkImport(r)' /\ Made(r)' = {}
  BY DEF OkTransfer, OkImport, Made
<1> QED
  BY <1>1, PlanKeeps

(* A request that has not arrived is a request. *)
LEMMA IdleType == Idle \in RequestDocs
PROOF
<1>1. <<>> \in Seq(Steps)
  BY EmptySeq
<1> QED
  BY <1>1 DEF Idle, RequestDocs

(* A request that has just arrived and has its plan. *)
Begun(r, op, todo, holds, on, wrong) ==
    /\ Typed' /\ Alone(r) /\ request[r].todo = <<>> /\ ~request[r].wrote
    /\ \E q \in RequestDocs :
          /\ request'[r] = q /\ q.op = op /\ q.todo = todo /\ q.rest = {}
          /\ q.holds = holds /\ q.on = on /\ q.wrong = wrong
          /\ ~q.wrote /\ ~q.moved /\ ~q.stale

(* An arriving request that has decided what to write is as Begun says. *)
LEMMA BeginPlan ==
    ASSUME IInv, NEW r \in Requests, Begins(r),
           NEW op \in Writers, NEW todo \in Seq(Steps),
           NEW holds \in SUBSET (Txs \cup Accounts), NEW on \in SUBSET Accounts,
           NEW wrong \in BOOLEAN, Planned(r, Idle, op, todo, holds, on, wrong)
    PROVE  Begun(r, op, todo, holds, on, wrong)
PROOF
<1>1. Typed /\ request[r] = Idle
  BY DEF IInv, Req, Begins
<1>2. /\ request' \in [Requests -> RequestDocs]
      /\ \A q \in Requests \ {r} : request'[q] = request[q]
      /\ request'[r].op = op /\ request'[r].todo = todo
      /\ request'[r].rest = Idle.rest
      /\ request'[r].holds = Idle.holds \cup holds /\ request'[r].on = on
      /\ request'[r].wrote = Idle.wrote /\ request'[r].moved = Idle.moved
      /\ request'[r].stale = Idle.stale /\ request'[r].wrong = wrong
  <2>1. PICK old \in RequestDocs : old = Idle
    BY <1>1, IdleType
  <2>2. PICK q : q = [old EXCEPT !.op = op, !.todo = todo, !.holds = old.holds \cup holds,
                                 !.on = on, !.wrong = wrong, !.loaded = {}]
    OBVIOUS
  <2>3. /\ q \in RequestDocs
        /\ q.op = op /\ q.todo = todo
        /\ q.loaded = {} /\ q.rest = old.rest
        /\ q.holds = old.holds \cup holds /\ q.on = on
        /\ q.wrote = old.wrote /\ q.moved = old.moved
        /\ q.stale = old.stale /\ q.wrong = wrong
    BY <2>2 DEF RequestDocs
  <2>4. request' = [request EXCEPT ![r] = q]
    BY <2>1, <2>2 DEF Planned
  <2>5. request \in [Requests -> RequestDocs]
    BY <1>1 DEF Typed
  <2>6. request' \in [Requests -> RequestDocs] /\ request'[r] = q
        /\ \A x \in Requests \ {r} : request'[x] = request[x]
    BY <2>3, <2>4, <2>5
  <2> QED
    BY <2>1, <2>3, <2>6
<1>3. \A q \in Requests : request'[q].on \subseteq Accounts
  BY <1>2 DEF RequestDocs
<1>4. starts' \in 0..MaxStarts
  BY <1>1, StartsAssumption DEF Begins, Typed, TypeOK
<1>5. Typed'
  BY <1>1, <1>2, <1>3, <1>4 DEF Typed, TypeOK, Begins
<1>6. Alone(r)
  BY <1>2 DEF Alone, Begins
<1>7. PICK q \in RequestDocs : request'[r] = q
  BY <1>2
<1>8. /\ q.op = op /\ q.todo = todo /\ q.rest = {}
      /\ q.holds = holds /\ q.on = on /\ q.wrong = wrong
      /\ ~q.wrote /\ ~q.moved /\ ~q.stale
  BY <1>2, <1>7 DEF Idle
<1>9. request[r].todo = <<>> /\ ~request[r].wrote
  BY <1>1 DEF Idle
<1> QED
  BY <1>5, <1>6, <1>7, <1>8, <1>9 DEF Begun

(* What a request that has loaded its transaction knows of it. *)
LEMMA OpenedFacts ==
    ASSUME IInv, NEW r \in Requests, NEW op \in Loads, Opened(r, op)
    PROVE  /\ request[r].op = op /\ request[r].todo = <<>> /\ ~request[r].wrote
           /\ ~request[r].wrong /\ request[r].tx \in Txs
           /\ request[r].tx \in request[r].holds /\ request[r].holds \subseteq Txs
           /\ Copy(r) \in Entries /\ Held(Copy(r), request[r].tx)
           /\ request[r].on = {Copy(r).acc} /\ Copy(r).acc \in Accounts
           /\ ~request[r].stale => tx[request[r].tx] = Copy(r)
           /\ \A p \in request[r].rest :
                /\ p[1] # request[r].tx /\ (Paired(Copy(r)) => p[1] # Copy(r).pair)
                /\ p[1] \in request[r].holds /\ Held(p[2], p[1])
                /\ ~request[r].stale => tx[p[1]] = p[2]
PROOF
<1>1. OkOpened(r) /\ OkRest(r) /\ request[r].op = op
  BY DEF IInv, Req, Opened
<1>2. PICK e \in Entries :
        /\ request[r].loaded = {e} /\ Held(e, request[r].tx) /\ request[r].on = {e.acc}
        /\ ~request[r].stale => tx[request[r].tx] = e
        /\ \A p \in request[r].rest :
              p[1] # request[r].tx /\ (Paired(e) => p[1] # e.pair)
  BY <1>1 DEF OkOpened
<1>3. Copy(r) = e
  BY <1>2 DEF Copy
<1>4. e.acc \in Accounts
  BY DEF Entries
<1>5. \A p \in request[r].rest :
         /\ p[1] \in request[r].holds /\ Held(p[2], p[1])
         /\ ~request[r].stale => tx[p[1]] = p[2]
  BY <1>1 DEF OkRest
<1>6. /\ request[r].todo = <<>> /\ ~request[r].wrote
      /\ ~request[r].wrong
      /\ request[r].tx \in request[r].holds /\ request[r].holds \subseteq Txs
  BY <1>1 DEF OkOpened
<1> QED
  BY <1>1, <1>2, <1>3, <1>4, <1>5, <1>6

(* A request that makes its plan from what it has loaded. *)
GoesOn(r, op, todo, holds, on, wrong) ==
    /\ Typed' /\ Alone(r)
    /\ \E q \in RequestDocs :
          /\ request'[r] = q /\ q.op = op /\ q.todo = todo /\ q.rest = request[r].rest
          /\ q.holds = request[r].holds \cup holds /\ q.on = on /\ q.wrong = wrong
          /\ ~q.wrote /\ q.stale = request[r].stale

(* A request that decides on what it has loaded is as GoesOn says. *)
LEMMA GoPlan ==
    ASSUME IInv, NEW r \in Requests, NEW was \in Loads, Opened(r, was),
           NEW op \in Writers, NEW todo \in Seq(Steps),
           NEW holds \in SUBSET (Txs \cup Accounts), NEW on \in SUBSET Accounts,
           NEW wrong \in BOOLEAN, Planned(r, request[r], op, todo, holds, on, wrong),
           UNCHANGED <<account, tx, doubted, starts>>
    PROVE  GoesOn(r, op, todo, holds, on, wrong)
PROOF
<1>1. Typed /\ request[r] \in RequestDocs /\ ~request[r].wrote
  BY OpenedFacts, RequestFacts DEF IInv
<1>2. /\ request' \in [Requests -> RequestDocs]
      /\ \A q \in Requests \ {r} : request'[q] = request[q]
      /\ request'[r].op = op /\ request'[r].todo = todo
      /\ request'[r].rest = request[r].rest
      /\ request'[r].holds = request[r].holds \cup holds /\ request'[r].on = on
      /\ request'[r].wrote = request[r].wrote /\ request'[r].moved = request[r].moved
      /\ request'[r].stale = request[r].stale /\ request'[r].wrong = wrong
  <2>1. PICK old \in RequestDocs : old = request[r]
    BY <1>1
  <2>2. PICK q : q = [old EXCEPT !.op = op, !.todo = todo, !.holds = old.holds \cup holds,
                                 !.on = on, !.wrong = wrong, !.loaded = {}]
    OBVIOUS
  <2>3. /\ q \in RequestDocs
        /\ q.op = op /\ q.todo = todo
        /\ q.loaded = {} /\ q.rest = old.rest
        /\ q.holds = old.holds \cup holds /\ q.on = on
        /\ q.wrote = old.wrote /\ q.moved = old.moved
        /\ q.stale = old.stale /\ q.wrong = wrong
    BY <2>2 DEF RequestDocs
  <2>4. request' = [request EXCEPT ![r] = q]
    BY <2>1, <2>2 DEF Planned
  <2>5. request \in [Requests -> RequestDocs]
    BY <1>1 DEF Typed
  <2>6. request' \in [Requests -> RequestDocs] /\ request'[r] = q
        /\ \A x \in Requests \ {r} : request'[x] = request[x]
    BY <2>3, <2>4, <2>5
  <2> QED
    BY <2>1, <2>3, <2>6
<1>3. \A q \in Requests : request'[q].on \subseteq Accounts
  BY <1>2 DEF RequestDocs
<1>4. Typed'
  BY <1>1, <1>2, <1>3 DEF Typed, TypeOK
<1>5. Alone(r)
  BY <1>2 DEF Alone
<1>6. PICK q \in RequestDocs : request'[r] = q
  BY <1>2
<1> QED
  BY <1>1, <1>2, <1>4, <1>5, <1>6 DEF GoesOn

-----------------------------------------------------------------------------
(* The requests that arrive with a plan. *)

(* What a plan adds to the balance less the share of what it inserts. *)
LEMMA InsertNet ==
    ASSUME Typed, NEW todo \in Seq(Steps), NEW t \in Txs, NEW e \in Entries,
           \A u, x : After(todo, u, x) = Applied(Insert(t, e), u, x),
           tx[t].state = "none", NEW a \in Accounts
    PROVE  Net(a, todo) = Final(todo, a, account[a].bal) - account[a].bal
                          - Share(a, account[a], e)
PROOF
<1>1. account[a] \in AccountDocs /\ tx \in [Txs -> Entries] /\ tx[t] \in Entries
  BY DocFacts
<1>2. \A u \in Txs : u # t => After(todo, u, tx[u]) = tx[u]
  BY InsertTypes DEF Applied
<1>3. After(todo, t, tx[t]) = e
  BY InsertTypes DEF Applied
<1>4. NetOf(account[a], a, tx, todo)
        = Final(todo, a, account[a].bal) - account[a].bal
          - (Share(a, account[a], After(todo, t, tx[t])) - Share(a, account[a], tx[t]))
  BY <1>1, <1>2, NetOne
<1>5. Share(a, account[a], tx[t]) = 0
  BY DEF Share, Booked
<1>6. Share(a, account[a], e) \in Int
  BY <1>1, ShareType
<1> QED
  BY <1>3, <1>4, <1>5, <1>6 DEF Net

(* An insert and the balance it moves, put when it is new or always, is a *)
(* plan.                                                                  *)
LEMMA InsertPlan ==
    ASSUME Typed, NEW q \in RequestDocs, NEW t \in Txs, NEW e \in Entries, NEW v \in Int,
           \/ q.todo = <<Insert(t, e)>> \o PutIfNew(e.acc, account[e.acc].bal, v)
           \/ q.todo = <<Insert(t, e)>> \o <<Put(e.acc, v)>>,
           tx[t].state = "none", e.state = "live", ~IsLeg(e),
           q.op \in {"create", "write"}, q.on = {e.acc}, e.acc \in q.holds, t \in q.holds,
           q.holds \cap Accounts \subseteq q.on, ~q.wrote,
           ~q.stale /\ ~q.wrong => v = account[e.acc].bal + Share(e.acc, account[e.acc], e),
           q.rest # {} => q.op = "write",
           \A p \in q.rest : /\ p[1] \in q.holds /\ Held(p[2], p[1])
                             /\ ~q.stale => tx[p[1]] = p[2]
    PROVE  Plan(q)
PROOF
<1>1. PICK a \in Accounts : a = e.acc
  BY DEF Entries
<1>2. PICK todo \in Seq(Steps) : todo = q.todo
  BY DEF RequestDocs
<1>3. PICK s \in Steps : /\ s = Insert(t, e) /\ Targets(s) = {t} /\ s.do = "insert" /\ s.tx = t
                         /\ s.entry = e
  BY InsertTypes
<1>4. account[a] \in AccountDocs /\ account[a].bal \in Int
  BY DocFacts DEF AccountDocs
<1>5. /\ Len(todo) \in {1, 2} /\ todo[1] = s
      /\ Len(todo) = 2 => todo[2].do = "put" /\ todo[2].acc = a /\ Targets(todo[2]) = {}
      /\ \A u, x : After(todo, u, x) = Applied(s, u, x)
      /\ Final(todo, a, account[a].bal) = v
  <2>1. /\ <<s>> \in Seq(Steps) /\ Len(<<s>>) = 1 /\ <<s>>[1] = s
        /\ \A u, x : After(<<s>>, u, x) = Applied(s, u, x)
        /\ \A b, bal : Final(<<s>>, b, bal) = Paid(s, b, bal)
    BY OneStep
  <2>2. PICK one \in Seq(Steps) : one = <<s>>
    BY <2>1
  <2>3. /\ Len(one) = 1 /\ one[1] = s
        /\ \A u, x : After(one, u, x) = Applied(s, u, x)
        /\ \A b, bal : Final(one, b, bal) = bal
    BY <1>3, <2>1, <2>2 DEF Paid
  <2>4. CASE todo = one \o PutIfNew(a, account[a].bal, v)
    <3>1. MoreOf(todo, one, a, account[a].bal, v)
      <4>1. PICK before \in Int : before = account[a].bal
        BY <1>4
      <4>2. todo = one \o PutIfNew(a, before, v) /\ Len(one) <= 4
        BY <2>3, <2>4, <4>1
      <4> QED
        BY <4>1, <4>2, MorePut
    <3>2. Len(todo) \in {1, 2} /\ todo[1] = s
      BY <2>3, <3>1 DEF MoreOf
    <3>3. Final(todo, a, account[a].bal) = v
      BY <2>3, <3>1 DEF MoreOf
    <3>4. \A u, x : After(todo, u, x) = Applied(s, u, x)
      BY <2>3, <3>1 DEF MoreOf
    <3> QED
      BY <2>3, <3>1, <3>2, <3>3, <3>4, SMTT(30) DEF MoreOf
  <2>5. CASE todo = one \o <<Put(a, v)>>
    <3>1. PICK p \in Steps : /\ p = Put(a, v) /\ Targets(p) = {} /\ p.do = "put"
                             /\ p.acc = a /\ p.bal = v
      BY PutTypes
    <3>2. /\ Len(todo) = Len(one) + 1
          /\ \A i \in 1..Len(one) : todo[i] = one[i]
          /\ todo[Len(one) + 1] = p
          /\ \A u, x : After(todo, u, x) = Applied(p, u, After(one, u, x))
          /\ \A b, bal : Final(todo, b, bal) = Paid(p, b, Final(one, b, bal))
      BY <2>3, <2>5, <3>1, MoreSteps, SMTT(30)
    <3> QED
      BY <2>3, <3>1, <3>2 DEF Applied, Paid
  <2> QED
    BY <1>1, <1>2, <1>3, <2>2, <2>4, <2>5 DEF PutIfNew
<1>6. q.on = {a} /\ a \in q.holds
  BY <1>1
<1>7. \A p \in q.rest : ~q.stale => p[1] # t
  BY DEF Held
<1>8. \A i \in 1..Len(todo) : Fits(q, todo[i])
  <2>1. Fits(q, s)
    BY <1>1, <1>3, <1>6, <1>7 DEF Fits
  <2>2. ASSUME Len(todo) = 2 PROVE Fits(q, todo[2])
    BY <1>5, <1>6, <2>2 DEF Fits
  <2> QED
    BY <1>5, <2>1, <2>2
<1>9. Lasting(todo)
  BY <1>3, <1>5 DEF Lasting
<1>10. ASSUME ~q.stale, ~q.wrong PROVE Net(a, todo) = 0
  <2>1. Share(a, account[a], e) \in Int
    BY <1>4, ShareType
  <2>2. Net(a, todo) = Final(todo, a, account[a].bal) - account[a].bal
                       - Share(a, account[a], e)
    BY <1>3, <1>5, InsertNet
  <2>3. v = account[a].bal + Share(a, account[a], e)
    BY <1>1, <1>10
  <2> QED
    BY <1>4, <1>5, <2>1, <2>2, <2>3
<1>11. \A i, j \in 1..Len(todo) :
          i # j /\ todo[i].do = "insert" /\ todo[j].do = "insert" => todo[i].tx # todo[j].tx
  BY <1>5
<1> QED
  BY <1>2, <1>5, <1>6, <1>8, <1>9, <1>10, <1>11 DEF Plan, Writers

(* What a user enters is a live transaction of an account, paired with    *)
(* none.                                                                  *)
LEMMA PlainFacts ==
    ASSUME NEW e \in Entered
    PROVE  /\ e \in Entries /\ e.state = "live" /\ e.pair = NoTx /\ e.acc \in Accounts
           /\ e.amount \in Nat \ {0} /\ e.kind \in Kinds
PROOF
<1>1. e \in Entries /\ e.state = "live" /\ e.pair = NoTx
  BY EnteredAssumption
<1>2. e.acc \in Accounts /\ e.amount \in Amounts /\ e.kind \in Kinds
  BY <1>1 DEF Entries
<1> QED
  BY <1>1, <1>2, AmountsAssumption

(* A transaction created with its balance keeps the invariant. *)
LEMMA CreateKeeps ==
    ASSUME IInv, NEW r \in Requests, NEW t \in Txs, NEW e \in Plain, tx[t].state = "none",
           Create(r, t, e)
    PROVE  IInv'
PROOF
<1>1. Typed
  BY DEF IInv
<1>2. /\ e \in Entries /\ e.state = "live" /\ e.pair = NoTx /\ e.acc \in Accounts /\ ~IsLeg(e)
  BY PlainFacts DEF Plain, IsLeg
<1>3. PICK a \in Accounts : a = e.acc
  BY <1>2
<1>4. account[a] \in AccountDocs /\ account[a].bal \in Int /\ Delta(account[a], e) \in Int
  BY <1>1, <1>2, DocFacts, DeltaType DEF AccountDocs
<1>5. PICK v \in Int : v = account[a].bal + Delta(account[a], e)
  BY <1>4
<1>6. PICK todo \in Seq(Steps) : todo = <<Insert(t, e)>> \o PutIfNew(a, account[a].bal, v)
  <2>1. PICK one \in Seq(Steps) : one = <<Insert(t, e)>>
    BY <1>2, InsertTypes, OneStep
  <2>2. PICK before \in Int : before = account[a].bal
    BY <1>4
  <2>3. one \o PutIfNew(a, before, v) \in Seq(Steps)
    BY PutIfNewType
  <2> QED
    BY <2>1, <2>2, <2>3
<1>7. PICK wrong \in BOOLEAN : wrong <=> e.status = "draft"
  OBVIOUS
<1>8. Begun(r, "create", todo, {a, t}, {a}, wrong)
  <2>1. Planned(r, Idle, "create", todo, {a, t}, {a}, wrong) /\ Begins(r)
    BY <1>3, <1>5, <1>6, <1>7 DEF Create, PutIfMoved
  <2>2. "create" \in Writers
    BY DEF Writers
  <2>3. PICK holds \in SUBSET (Txs \cup Accounts), on \in SUBSET Accounts :
           holds = {a, t} /\ on = {a}
    OBVIOUS
  <2> QED
    BY <2>1, <2>2, <2>3, BeginPlan
<1>9. PICK q \in RequestDocs :
           /\ request'[r] = q /\ q.op = "create" /\ q.todo = todo /\ q.rest = {}
           /\ q.holds = {a, t} /\ q.on = {a} /\ q.wrong = wrong
           /\ ~q.wrote /\ ~q.moved /\ ~q.stale
  BY <1>8 DEF Begun
<1>10. ~q.wrong => v = account[a].bal + Share(a, account[a], e)
  <2>1. ASSUME e.status # "draft" PROVE Share(a, account[a], e) = Delta(account[a], e)
    BY <1>2, <1>3, <2>1 DEF Share, Booked, Entries
  <2> QED
    BY <1>5, <1>7, <1>9, <2>1
<1>11. Plan(q)
  <2>1. q.holds \cap Accounts \subseteq q.on
    BY <1>9, ApartAssumption
  <2> QED
    BY <1>1, <1>2, <1>3, <1>6, <1>9, <1>10, <2>1, InsertPlan, ZenonT(40)
<1> QED
  BY <1>8, <1>9, <1>11, PlainPlan DEF Begun

(* A signed amount is a number. *)
LEMMA SignType ==
    ASSUME NEW doc \in AccountDocs, NEW e \in Entries
    PROVE  Sign(e.kind, doc.type) * e.amount \in Int
PROOF
<1>1. e.amount \in Amounts
  BY DEF Entries
<1>2. e.amount \in Nat \ {0}
  BY <1>1, AmountsAssumption
<1>3. Sign(e.kind, doc.type) \in {-1, 1}
  BY DEF Sign
<1> QED
  BY <1>2, <1>3

(* Two writes, one after the other. *)
LEMMA Pair ==
    ASSUME NEW x \in Steps, NEW y \in Steps
    PROVE  <<x>> \o <<y>> = <<x, y>>
PROOF
<1>1. PICK both \in Seq(Steps) : both = <<x>> \o <<y>>
  <2>1. <<x>> \o <<y>> \in Seq(Steps)
    BY OneStep, MoreSteps
  <2> QED
    BY <2>1, Zenon
<1>2. PICK tuple \in Seq(Steps) : tuple = <<x, y>>
  <2>1. <<x, y>> \in Seq(Steps)
    OBVIOUS
  <2> QED
    BY <2>1, Zenon
<1>3. Len(both) = 2 /\ both[1] = x /\ both[2] = y
  BY <1>1
<1>4. Len(tuple) = 2 /\ tuple[1] = x /\ tuple[2] = y
  BY <1>2
<1>5. \A i \in 1..Len(both) : both[i] = tuple[i]
  BY <1>3, <1>4
<1>6. both = tuple
  BY <1>3, <1>4, <1>5, SeqEqual
<1> QED
  BY <1>1, <1>2, <1>6

(* A template applied keeps the invariant: it is marked wrong when the    *)
(* code ignores the date.                                                 *)
LEMMA ApplyTemplateKeeps ==
    ASSUME IInv, NEW r \in Requests, NEW t \in Txs, NEW e \in Plain, tx[t].state = "none",
           ApplyTemplate(r, t, e)
    PROVE  IInv'
PROOF
<1>1. Typed
  BY DEF IInv
<1>2. /\ e \in Entries /\ e.state = "live" /\ e.pair = NoTx /\ e.acc \in Accounts /\ ~IsLeg(e)
      /\ e.status = "posted"
  BY PlainFacts DEF Plain, IsLeg, ApplyTemplate
<1>3. PICK a \in Accounts : a = e.acc
  BY <1>2
<1>4. account[a] \in AccountDocs /\ account[a].bal \in Int
      /\ Sign(e.kind, account[a].type) * e.amount \in Int
  BY <1>1, <1>2, DocFacts, SignType DEF AccountDocs
<1>5. PICK v \in Int : v = account[a].bal + Sign(e.kind, account[a].type) * e.amount
  BY <1>4
<1>6. PICK todo \in Seq(Steps) : todo = <<Insert(t, e)>> \o <<Put(a, v)>>
  <2>1. Insert(t, e) \in Steps /\ Put(a, v) \in Steps
    BY <1>2, InsertTypes, PutTypes
  <2>2. PICK one \in Seq(Steps) : one = <<Insert(t, e)>>
    BY <2>1, OneStep
  <2>3. PICK more \in Seq(Steps) : more = <<Put(a, v)>>
    BY <2>1, OneStep
  <2>4. one \o more \in Seq(Steps)
    OBVIOUS
  <2> QED
    BY <2>2, <2>3, <2>4
<1>7. PICK wrong \in BOOLEAN : wrong <=> account[a].cut /\ e.early
  OBVIOUS
<1>8. Begun(r, "create", todo, {a, t}, {a}, wrong)
  <2>0. wrong = (account[a].cut /\ e.early)
    <3>1. account[a].cut \in BOOLEAN /\ e.early \in BOOLEAN
      BY <1>2, <1>4 DEF AccountDocs, Entries
    <3> QED
      BY <1>7, <3>1
  <2>1. Planned(r, Idle, "create", todo, {a, t}, {a}, wrong) /\ Begins(r)
    <3>1. todo = <<Insert(t, e), Put(a, v)>>
      BY <1>2, <1>6, InsertTypes, PutTypes, Pair
    <3> QED
      BY <1>3, <1>5, <2>0, <3>1 DEF ApplyTemplate
  <2>2. "create" \in Writers
    BY DEF Writers
  <2>3. PICK holds \in SUBSET (Txs \cup Accounts), on \in SUBSET Accounts :
           holds = {a, t} /\ on = {a}
    OBVIOUS
  <2> QED
    BY <2>1, <2>2, <2>3, BeginPlan
<1>9. PICK q \in RequestDocs :
           /\ request'[r] = q /\ q.op = "create" /\ q.todo = todo /\ q.rest = {}
           /\ q.holds = {a, t} /\ q.on = {a} /\ q.wrong = wrong
           /\ ~q.wrote /\ ~q.moved /\ ~q.stale
  BY <1>8 DEF Begun
<1>10. ~q.wrong => v = account[a].bal + Share(a, account[a], e)
  BY <1>2, <1>3, <1>5, <1>7, <1>9 DEF Share, Booked, Delta
<1>11. Plan(q)
  <2>1. q.holds \cap Accounts \subseteq q.on
    BY <1>9, ApartAssumption
  <2> QED
    BY <1>1, <1>2, <1>3, <1>6, <1>9, <1>10, <2>1, InsertPlan
<1> QED
  BY <1>8, <1>9, <1>11, PlainPlan DEF Begun

(* A draft that no balance counts keeps the invariant. *)
LEMMA NewDraftKeeps ==
    ASSUME IInv, NEW r \in Requests, NEW t \in Txs, NEW e \in Drafts, tx[t].state = "none",
           NewDraft(r, t, e)
    PROVE  IInv'
PROOF
<1>1. Typed
  BY DEF IInv
<1>2. /\ e \in Entries /\ e.state = "live" /\ e.acc \in Accounts /\ ~IsLeg(e)
      /\ e.status = "draft"
  BY PlainFacts DEF Drafts, NewDraft
<1>3. PICK a \in Accounts : a = e.acc
  BY <1>2
<1>4. PICK s \in Steps : /\ s = Insert(t, e) /\ Targets(s) = {t} /\ s.do = "insert" /\ s.tx = t
                         /\ s.entry = e
  BY <1>2, InsertTypes
<1>5. /\ <<s>> \in Seq(Steps) /\ Len(<<s>>) = 1 /\ <<s>>[1] = s
      /\ \A u, x : After(<<s>>, u, x) = Applied(s, u, x)
      /\ \A b, bal : Final(<<s>>, b, bal) = Paid(s, b, bal)
  BY OneStep
<1>6. PICK todo \in Seq(Steps) : todo = <<s>>
  BY <1>5
<1>7. Begun(r, "draft", todo, {t}, {a}, FALSE)
  <2>1. Planned(r, Idle, "draft", todo, {t}, {a}, FALSE) /\ Begins(r)
    BY <1>3, <1>4, <1>6 DEF NewDraft
  <2>2. "draft" \in Writers
    BY DEF Writers
  <2>3. PICK holds \in SUBSET (Txs \cup Accounts), on \in SUBSET Accounts :
           holds = {t} /\ on = {a}
    OBVIOUS
  <2> QED
    BY <2>1, <2>2, <2>3, BeginPlan
<1>8. PICK q \in RequestDocs :
           /\ request'[r] = q /\ q.op = "draft" /\ q.todo = todo /\ q.rest = {}
           /\ q.holds = {t} /\ q.on = {a} /\ q.wrong = FALSE
           /\ ~q.wrote /\ ~q.moved /\ ~q.stale
  BY <1>7 DEF Begun
<1>9. Plan(q)
  <2>1. q.holds \cap Accounts \subseteq q.on
    BY <1>8, ApartAssumption
  <2>2. Len(todo) = 1 /\ todo[1] = s
    BY <1>5, <1>6
  <2>3. Fits(q, s)
    BY <1>2, <1>3, <1>4, <1>8 DEF Fits
  <2>4. \A x \in Txs : \A doc \in AccountDocs :
           Share(a, doc, After(todo, x, tx[x])) = Share(a, doc, tx[x])
    <3>1. \A x : x # t => Applied(s, x, tx[x]) = tx[x]
      BY <1>4 DEF Applied
    <3>2. Applied(s, t, tx[t]) = e
      BY <1>4 DEF Applied
    <3>3. \A doc : Share(a, doc, e) = 0 /\ Share(a, doc, tx[t]) = 0
      BY <1>2 DEF Share, Booked
    <3> QED
      BY <1>5, <1>6, <3>1, <3>2, <3>3
  <2>5. Spares(todo, a)
    BY <1>4, <2>2, <2>4 DEF Spares
  <2>6. Net(a, todo) = 0
    <3>1. account[a] \in AccountDocs /\ tx \in [Txs -> Entries]
      BY <1>1, DocFacts
    <3>2. \A x \in Txs : Share(a, account[a], After(todo, x, tx[x])) = Share(a, account[a], tx[x])
      BY <2>4, <3>1
    <3>3. \A i \in 1..Len(todo) : todo[i].do = "put" => todo[i].acc # a
      BY <2>5 DEF Spares
    <3> QED
      BY <3>1, <3>2, <3>3, NetNothing DEF Net
  <2>7. Lasting(todo)
    BY <2>2 DEF Lasting
  <2> QED
    BY <1>8, <2>1, <2>2, <2>3, <2>5, <2>6, <2>7 DEF Plan, Writers
<1> QED
  BY <1>7, <1>8, <1>9, PlainPlan DEF Begun

(* A duplicate of a transaction keeps the invariant. *)
LEMMA DuplicateKeeps ==
    ASSUME IInv, NEW r \in Requests, NEW u \in Txs, tx[u].state = "none", Duplicate(r, u)
    PROVE  IInv'
PROOF
<1>1. Typed
  BY DEF IInv
<1>2. PICK old \in Entries : old = Copy(r)
  BY OpenedFacts DEF Duplicate, Loads
<1>3. PICK e \in Entries : e = [old EXCEPT !.early = FALSE, !.recurring = FALSE]
  BY DEF Entries
<1>4. /\ old.state = "live" /\ e.state = "live" /\ ~IsLeg(e) /\ e.acc = old.acc
      /\ e.acc \in Accounts /\ request[r].todo = <<>> /\ ~request[r].wrote
      /\ request[r].holds \subseteq Txs
      /\ \A p \in request[r].rest : /\ p[1] \in request[r].holds /\ Held(p[2], p[1])
                                    /\ ~request[r].stale => tx[p[1]] = p[2]
  <2>1. e.state = old.state /\ e.acc = old.acc /\ e.kind = old.kind /\ e.acc \in Accounts
    BY <1>3 DEF Entries
  <2>2. ~IsLeg(e)
    BY <1>2, <1>3 DEF Duplicate
  <2> QED
    BY <1>2, <2>1, <2>2, OpenedFacts DEF Held, Duplicate, Loads
<1>5. PICK a \in Accounts : a = e.acc
  BY <1>4
<1>6. account[a] \in AccountDocs /\ account[a].bal \in Int /\ Delta(account[a], e) \in Int
  BY <1>1, DocFacts, DeltaType DEF AccountDocs
<1>7. PICK v \in Int : v = account[a].bal + Delta(account[a], e)
  BY <1>6
<1>8. PICK todo \in Seq(Steps) : todo = <<Insert(u, e)>> \o PutIfNew(a, account[a].bal, v)
  <2>1. PICK one \in Seq(Steps) : one = <<Insert(u, e)>>
    BY InsertTypes, OneStep
  <2>2. PICK before \in Int : before = account[a].bal
    BY <1>6
  <2>3. one \o PutIfNew(a, before, v) \in Seq(Steps)
    BY PutIfNewType
  <2> QED
    BY <2>1, <2>2, <2>3
<1>9. PICK wrong \in BOOLEAN : wrong <=> e.status = "draft"
  OBVIOUS
<1>10. GoesOn(r, "write", todo, {a, u}, {a}, wrong)
  <2>1. Planned(r, request[r], "write", todo, {a, u}, {a}, wrong)
        /\ UNCHANGED <<account, tx, doubted, starts>> /\ Opened(r, "duplicate")
    BY <1>2, <1>3, <1>4, <1>5, <1>7, <1>8, <1>9 DEF Duplicate, PutIfMoved, Goes
  <2>2. "write" \in Writers /\ "duplicate" \in Loads
    BY DEF Writers, Loads
  <2>3. PICK holds \in SUBSET (Txs \cup Accounts), on \in SUBSET Accounts :
           holds = {a, u} /\ on = {a}
    OBVIOUS
  <2> QED
    BY <2>1, <2>2, <2>3, GoPlan
<1>11. PICK q \in RequestDocs :
          /\ request'[r] = q /\ q.op = "write" /\ q.todo = todo /\ q.rest = request[r].rest
          /\ q.holds = request[r].holds \cup {a, u} /\ q.on = {a} /\ q.wrong = wrong
          /\ ~q.wrote /\ q.stale = request[r].stale
  BY <1>10 DEF GoesOn
<1>12. ~q.wrong => v = account[a].bal + Share(a, account[a], e)
  <2>1. ASSUME e.status # "draft" PROVE Share(a, account[a], e) = Delta(account[a], e)
    BY <1>4, <1>5, <2>1 DEF Share, Booked, Entries
  <2> QED
    BY <1>7, <1>9, <1>11, <2>1
<1>13. Plan(q)
  <2>1. q.holds \cap Accounts \subseteq q.on
    BY <1>4, <1>11, ApartAssumption
  <2> QED
    BY <1>1, <1>4, <1>5, <1>8, <1>11, <1>12, <2>1, InsertPlan, ZenonT(60)
<1> QED
  BY <1>4, <1>10, <1>11, <1>13, PlainPlan DEF GoesOn

-----------------------------------------------------------------------------
(* The requests that plan on what they have loaded. *)

(* A plan of one write that moves no balance, or is wrong. *)
LEMMA OnePlan ==
    ASSUME Typed, NEW q \in RequestDocs, NEW s \in Steps, q.todo = <<s>>, Fits(q, s),
           q.op \in {"draft", "write", "touched"}, ~q.wrote,
           q.holds \cap Accounts \subseteq q.on,
           ~q.stale /\ ~q.wrong =>
              /\ s.do # "put"
              /\ \A a \in q.on : \A t \in Txs : \A doc \in AccountDocs :
                    Share(a, doc, Applied(s, t, tx[t])) = Share(a, doc, tx[t]),
           q.op = "touched" => ~q.wrong /\ s.do = "change" /\ s.from = s.to,
           q.rest # {} => q.op \in {"write", "touched"},
           \A p \in q.rest : /\ p[1] \in q.holds /\ Held(p[2], p[1])
                             /\ ~q.stale => tx[p[1]] = p[2]
    PROVE  Plan(q)
PROOF
<1>1. PICK todo \in Seq(Steps) : todo = q.todo
  BY DEF RequestDocs
<1>2. /\ Len(todo) = 1 /\ todo[1] = s
      /\ \A u, x : After(todo, u, x) = Applied(s, u, x)
  BY <1>1, OneStep
<1>3. ASSUME ~q.stale, ~q.wrong, NEW a \in q.on
      PROVE  Net(a, todo) = 0 /\ Spares(todo, a)
  <2>1. \A i \in 1..Len(todo) : todo[i].do # "put"
    BY <1>2, <1>3
  <2>2. \A t \in Txs : \A doc \in AccountDocs :
           Share(a, doc, After(todo, t, tx[t])) = Share(a, doc, tx[t])
    BY <1>2, <1>3
  <2>3. a \in Accounts /\ account[a] \in AccountDocs /\ tx \in [Txs -> Entries]
    BY DocFacts DEF RequestDocs
  <2>4. \A t \in Txs : Share(a, account[a], After(todo, t, tx[t])) = Share(a, account[a], tx[t])
    BY <2>2, <2>3
  <2>5. Net(a, todo) = 0
    BY <2>1, <2>3, <2>4, NetNothing DEF Net
  <2> QED
    BY <2>1, <2>2, <2>5 DEF Spares
<1>4. Lasting(todo)
  BY <1>2 DEF Lasting
<1> QED
  BY <1>1, <1>2, <1>3, <1>4 DEF Plan, Writers

(* A request that goes on with one write. *)
OneGoes(r, was, op, s, on, wrong) ==
    /\ Opened(r, was) /\ Planned(r, request[r], op, <<s>>, {}, on, wrong)
    /\ UNCHANGED <<account, tx, doubted, starts>>
    /\ \A q \in RequestDocs :
          /\ q.holds = request[r].holds /\ q.on = on /\ q.rest = request[r].rest
          /\ q.stale = request[r].stale /\ q.wrong = wrong /\ q.op = op
          => Fits(q, s)
    /\ ~request[r].stale /\ ~wrong =>
          /\ s.do # "put"
          /\ \A a \in on : \A t \in Txs : \A doc \in AccountDocs :
                Share(a, doc, Applied(s, t, tx[t])) = Share(a, doc, tx[t])
    /\ op = "touched" => ~wrong /\ s.do = "change" /\ s.from = s.to

(* A request that goes on with one write that moves no balance keeps the  *)
(* invariant.                                                             *)
LEMMA OneKeeps ==
    ASSUME IInv, NEW r \in Requests, NEW was \in Loads,
           NEW op \in {"write", "touched"}, NEW s \in Steps,
           NEW on \in SUBSET Accounts, NEW wrong \in BOOLEAN,
           OneGoes(r, was, op, s, on, wrong)
    PROVE  IInv'
PROOF
<1>0. Opened(r, was) /\ Planned(r, request[r], op, <<s>>, {}, on, wrong)
      /\ UNCHANGED <<account, tx, doubted, starts>>
  BY DEF OneGoes
<1>1. Typed
  BY DEF IInv
<1>2. PICK todo \in Seq(Steps) : todo = <<s>>
  BY OneStep
<1>3. PICK holds \in SUBSET (Txs \cup Accounts) : holds = {}
  OBVIOUS
<1>4. GoesOn(r, op, todo, holds, on, wrong)
  <2>1. op \in Writers
    BY DEF Writers
  <2>2. Planned(r, request[r], op, todo, holds, on, wrong)
    BY <1>0, <1>2, <1>3
  <2> QED
    BY <1>0, <2>1, <2>2, GoPlan
<1>5. PICK q \in RequestDocs :
         /\ request'[r] = q /\ q.op = op /\ q.todo = todo /\ q.rest = request[r].rest
         /\ q.holds = request[r].holds \cup holds /\ q.on = on /\ q.wrong = wrong
         /\ ~q.wrote /\ q.stale = request[r].stale
  BY <1>4 DEF GoesOn
<1>6. /\ request[r].todo = <<>> /\ ~request[r].wrote /\ request[r].holds \subseteq Txs
      /\ \A p \in request[r].rest : /\ p[1] \in request[r].holds /\ Held(p[2], p[1])
                                    /\ ~request[r].stale => tx[p[1]] = p[2]
  BY <1>0, OpenedFacts
<1>7. q.holds = request[r].holds /\ q.holds \cap Accounts \subseteq q.on
  BY <1>3, <1>5, <1>6, ApartAssumption
<1>8. Fits(q, s)
  BY <1>5, <1>7 DEF OneGoes
<1>9. Plan(q)
  <2>1. ~q.stale /\ ~q.wrong =>
          /\ s.do # "put"
          /\ \A a \in q.on : \A t \in Txs : \A doc \in AccountDocs :
                Share(a, doc, Applied(s, t, tx[t])) = Share(a, doc, tx[t])
    BY <1>5 DEF OneGoes
  <2>2. q.op = "touched" => ~q.wrong /\ s.do = "change" /\ s.from = s.to
    BY <1>5 DEF OneGoes
  <2> QED
    BY <1>1, <1>2, <1>5, <1>6, <1>7, <1>8, <2>1, <2>2, OnePlan
<1> QED
  BY <1>4, <1>5, <1>6, <1>9, PlainPlan DEF GoesOn

(* A draft dismissed keeps the invariant. *)
LEMMA DismissKeeps ==
    ASSUME IInv, NEW r \in Requests, Dismiss(r)
    PROVE  IInv'
PROOF
<1>0. Opened(r, "dismiss") /\ "dismiss" \in Loads
  BY DEF Dismiss, Loads
<1>1. PICK t \in Txs : t = request[r].tx
  BY <1>0, OpenedFacts
<1>2. PICK e \in Entries : e = Copy(r)
  BY <1>0, OpenedFacts
<1>3. PICK to \in Entries : to = [e EXCEPT !.state = "gone"]
  BY DEF Entries
<1>4. /\ to.state = "gone" /\ to.acc = e.acc /\ to.kind = e.kind /\ to.pair = e.pair
      /\ to.recurring = e.recurring /\ e.acc \in Accounts
  BY <1>3 DEF Entries
<1>5. /\ t \in request[r].holds /\ Held(e, t) /\ (~request[r].stale => tx[t] = e)
      /\ \A p \in request[r].rest : p[1] # t
  BY <1>0, <1>1, <1>2, OpenedFacts
<1>6. e.status = "draft" /\ e.recurring
  BY <1>2 DEF Dismiss
<1>7. Firm(t)
  BY <1>5, <1>6 DEF Held
<1>8. PICK s \in Steps : /\ s = Change(t, e, to) /\ Targets(s) = {t} /\ s.do = "change"
                         /\ s.tx = t /\ s.from = e /\ s.to = to
  BY ChangeTypes
<1>9. PICK on \in SUBSET Accounts : on = {e.acc}
  BY <1>4
<1>10. Planned(r, request[r], "write", <<s>>, {}, on, FALSE)
       /\ UNCHANGED <<account, tx, doubted, starts>>
  BY <1>1, <1>2, <1>3, <1>8, <1>9 DEF Dismiss, Goes
<1>11. ASSUME NEW q \in RequestDocs,
              q.holds = request[r].holds, q.on = on, q.rest = request[r].rest,
              q.stale = request[r].stale, q.wrong = FALSE, q.op = "write"
       PROVE  Fits(q, s)
  BY <1>4, <1>5, <1>7, <1>8, <1>9, <1>11 DEF Fits
<1>12. ASSUME ~request[r].stale, NEW a, NEW x \in Txs, NEW doc
       PROVE  Share(a, doc, Applied(s, x, tx[x])) = Share(a, doc, tx[x])
  <2>1. x # t => Applied(s, x, tx[x]) = tx[x]
    BY <1>8 DEF Applied
  <2>2. Applied(s, t, tx[t]) = to /\ tx[t] = e
    BY <1>5, <1>8, <1>12, MergedSame DEF Applied
  <2>3. Share(a, doc, e) = 0 /\ Share(a, doc, to) = 0
    BY <1>4, <1>6 DEF Share, Booked
  <2> QED
    BY <2>1, <2>2, <2>3
<1> QED
  <2>1. OneGoes(r, "dismiss", "write", s, on, FALSE)
    BY <1>0, <1>8, <1>10, <1>11, <1>12 DEF OneGoes
  <2> QED
    BY <1>0, <2>1, OneKeeps

(* A save of what no balance counts (a cleared status, a merged import    *)
(* row) keeps the invariant.                                              *)
LEMMA TouchKeeps ==
    ASSUME IInv, NEW r \in Requests, Touch(r)
    PROVE  IInv'
PROOF
<1>0. Opened(r, "touch") /\ "touch" \in Loads
  BY DEF Touch, Loads
<1>1. PICK t \in Txs : t = request[r].tx
  BY <1>0, OpenedFacts
<1>2. PICK e \in Entries : e = Copy(r)
  BY <1>0, OpenedFacts
<1>3. e.acc \in Accounts
  BY DEF Entries
<1>4. /\ t \in request[r].holds /\ (~request[r].stale => tx[t] = e)
      /\ \A p \in request[r].rest : p[1] # t
  BY <1>0, <1>1, <1>2, OpenedFacts
<1>5. PICK s \in Steps : /\ s = Change(t, e, e) /\ Targets(s) = {t} /\ s.do = "change"
                         /\ s.tx = t /\ s.from = e /\ s.to = e
  BY ChangeTypes
<1>6. PICK on \in SUBSET Accounts : on = {e.acc}
  BY <1>3
<1>7. Planned(r, request[r], "touched", <<s>>, {}, on, FALSE)
       /\ UNCHANGED <<account, tx, doubted, starts>>
  BY <1>1, <1>2, <1>5, <1>6 DEF Touch
<1>8. ASSUME NEW q \in RequestDocs,
             q.holds = request[r].holds, q.on = on, q.rest = request[r].rest,
             q.stale = request[r].stale, q.wrong = FALSE, q.op = "touched"
      PROVE  Fits(q, s)
  BY <1>4, <1>5, <1>6, <1>8 DEF Fits
<1>9. ASSUME NEW x \in Txs PROVE Applied(s, x, tx[x]) = tx[x]
  <2>1. tx[x] \in Entries
    BY DocFacts DEF IInv
  <2> QED
    BY <1>5, <2>1, MergedNothing DEF Applied
<1> QED
  <2>1. OneGoes(r, "touch", "touched", s, on, FALSE)
    BY <1>0, <1>5, <1>7, <1>8, <1>9 DEF OneGoes
  <2> QED
    BY <1>0, <2>1, OneKeeps

(* The sync's delete, which leaves the balance to the recompute, keeps    *)
(* the invariant.                                                         *)
LEMMA DeleteForOpKeeps ==
    ASSUME IInv, NEW r \in Requests, DeleteForOp(r)
    PROVE  IInv'
PROOF
<1>0. Opened(r, "deleteForOp") /\ "deleteForOp" \in Loads
  BY DEF DeleteForOp, Loads
<1>1. PICK t \in Txs : t = request[r].tx
  BY <1>0, OpenedFacts
<1>2. PICK e \in Entries : e = Copy(r)
  BY <1>0, OpenedFacts
<1>3. PICK both \in SUBSET Txs : both = {t} \cup (IF Paired(e) THEN {e.pair} ELSE {})
  BY DEF Paired, Entries
<1>4. \A p \in request[r].rest : p[1] # t /\ (Paired(e) => p[1] # e.pair)
  BY <1>0, <1>1, <1>2, OpenedFacts
<1>5. PICK s \in Steps : s = Bury(both) /\ Targets(s) = both /\ s.do = "bury"
  BY BuryTypes
<1>6. PICK on \in SUBSET Accounts : on = {tx[x].acc : x \in both}
  <2>1. \A x \in both : tx[x].acc \in Accounts
    BY DocFacts DEF IInv, Entries
  <2> QED
    BY <2>1
<1>7. Planned(r, request[r], "write", <<s>>, {}, on, TRUE)
       /\ UNCHANGED <<account, tx, doubted, starts>>
  BY <1>1, <1>2, <1>3, <1>5, <1>6 DEF DeleteForOp, Goes
<1>8. ASSUME NEW q \in RequestDocs,
             q.holds = request[r].holds, q.on = on, q.rest = request[r].rest,
             q.stale = request[r].stale, q.wrong = TRUE, q.op = "write"
      PROVE  Fits(q, s)
  BY <1>3, <1>4, <1>5, <1>8 DEF Fits
<1> QED
  <2>1. OneGoes(r, "deleteForOp", "write", s, on, TRUE)
    BY <1>0, <1>5, <1>7, <1>8 DEF OneGoes
  <2> QED
    BY <1>0, <2>1, OneKeeps

(* An edit changes no state, no pairing and no recurrence. *)
LEMMA EditsFacts ==
    ASSUME NEW old \in Entries, NEW e \in Edits(old)
    PROVE  /\ e \in Entries /\ e.state = old.state /\ e.pair = old.pair
           /\ e.recurring = old.recurring
PROOF
<1>1. PICK c : c = [kind |-> {"income", "expense"}, amount |-> Amounts,
                    acc |-> Accounts, early |-> BOOLEAN, status |-> {"posted", "draft"}]
  OBVIOUS
<1>2. DOMAIN c = {"kind", "amount", "acc", "early", "status"}
  BY <1>1
<1>3. e \in UNION {{[old EXCEPT ![f] = v] : v \in c[f]} : f \in DOMAIN c}
  BY <1>1 DEF Edits, Edited
<1>4. PICK f \in DOMAIN c : e \in {[old EXCEPT ![f] = v] : v \in c[f]}
  BY <1>3
<1>5. PICK v \in c[f] : e = [old EXCEPT ![f] = v]
  BY <1>4
<1>6. CASE f = "kind"
  <2>1. v \in {"income", "expense"} /\ e = [old EXCEPT !.kind = v]
    BY <1>1, <1>5, <1>6
  <2> QED
    BY <2>1 DEF Entries, Kinds
<1>7. CASE f = "amount"
  <2>1. v \in Amounts /\ e = [old EXCEPT !.amount = v]
    BY <1>1, <1>5, <1>7
  <2> QED
    BY <2>1 DEF Entries
<1>8. CASE f = "acc"
  <2>1. v \in Accounts /\ e = [old EXCEPT !.acc = v]
    BY <1>1, <1>5, <1>8
  <2> QED
    BY <2>1 DEF Entries
<1>9. CASE f = "early"
  <2>1. v \in BOOLEAN /\ e = [old EXCEPT !.early = v]
    BY <1>1, <1>5, <1>9
  <2> QED
    BY <2>1 DEF Entries
<1>10. CASE f = "status"
  <2>1. v \in {"posted", "draft"} /\ e = [old EXCEPT !.status = v]
    BY <1>1, <1>5, <1>10
  <2> QED
    BY <2>1 DEF Entries
<1> QED
  BY <1>2, <1>6, <1>7, <1>8, <1>9, <1>10

(* The sync's update, which leaves the balances to the recompute, keeps   *)
(* the invariant.                                                         *)
LEMMA UpdateForOpKeeps ==
    ASSUME IInv, NEW r \in Requests, Opened(r, "updateForOp"), NEW e \in Edits(Copy(r)),
           UpdateForOp(r, e)
    PROVE  IInv'
PROOF
<1>0. Opened(r, "updateForOp") /\ "updateForOp" \in Loads
  BY DEF Loads
<1>1. PICK t \in Txs : t = request[r].tx
  BY <1>0, OpenedFacts
<1>2. PICK old \in Entries : old = Copy(r)
  BY <1>0, OpenedFacts
<1>3. /\ e \in Entries /\ e.state = old.state /\ e.pair = old.pair
      /\ e.recurring = old.recurring /\ e.kind = old.kind /\ e.acc = old.acc
      /\ e.acc \in Accounts
  BY <1>2, EditsFacts DEF UpdateForOp, Entries
<1>4. t \in request[r].holds /\ \A p \in request[r].rest : p[1] # t
  BY <1>0, <1>1, <1>2, OpenedFacts
<1>5. PICK s \in Steps : /\ s = Change(t, old, e) /\ Targets(s) = {t} /\ s.do = "change"
                         /\ s.tx = t /\ s.from = old /\ s.to = e
  BY <1>3, ChangeTypes
<1>6. PICK on \in SUBSET Accounts : on = {e.acc}
  BY <1>3
<1>7. Planned(r, request[r], "write", <<s>>, {}, on, TRUE)
       /\ UNCHANGED <<account, tx, doubted, starts>>
  BY <1>1, <1>2, <1>5, <1>6 DEF UpdateForOp, Goes
<1>8. ASSUME NEW q \in RequestDocs,
             q.holds = request[r].holds, q.on = on, q.rest = request[r].rest,
             q.stale = request[r].stale, q.wrong = TRUE, q.op = "write"
      PROVE  Fits(q, s)
  BY <1>3, <1>4, <1>5, <1>6, <1>8 DEF Fits
<1> QED
  <2>1. OneGoes(r, "updateForOp", "write", s, on, TRUE)
    BY <1>0, <1>5, <1>7, <1>8 DEF OneGoes
  <2> QED
    BY <1>0, <2>1, OneKeeps

(* A plan that puts balances and writes transactions once, at place k.     *)
Mixed(q, k) ==
    /\ q.op = "write" /\ ~q.wrote /\ Len(q.todo) <= 5
    /\ \A i \in 1..Len(q.todo) : i # k => q.todo[i].do = "put" /\ q.todo[i].acc \in q.on
    /\ k \in 1..Len(q.todo) =>
          /\ Fits(q, q.todo[k]) /\ q.todo[k].do \in {"change", "bury"}
          /\ k < Len(q.todo) => /\ q.todo[k].do = "change"
                                /\ q.todo[k].to.state = q.todo[k].from.state
    /\ q.on \subseteq q.holds /\ q.holds \cap Accounts \subseteq q.on
    /\ ~q.stale /\ ~q.wrong => \A a \in q.on : Net(a, q.todo) = 0
    /\ \A p \in q.rest : /\ p[1] \in q.holds /\ Held(p[2], p[1])
                         /\ ~q.stale => tx[p[1]] = p[2]

(* A mixed plan fits each of its writes and is a plan. *)
LEMMA MixedPlan ==
    ASSUME NEW q \in RequestDocs, NEW k, Mixed(q, k)
    PROVE  Plan(q)
PROOF
<1>1. PICK todo \in Seq(Steps) : todo = q.todo
  BY DEF RequestDocs
<1>2. Len(todo) \in Nat
  OBVIOUS
<1>3. ASSUME NEW i \in 1..Len(todo) PROVE Fits(q, todo[i])
  <2>1. CASE i = k
    BY <1>1, <1>3, <2>1 DEF Mixed
  <2>2. CASE i # k
    <3>1. todo[i].do = "put" /\ todo[i].acc \in q.on /\ todo[i].acc \in q.holds
      BY <1>1, <2>2 DEF Mixed
    <3> QED
      BY <3>1 DEF Fits, Targets
  <2> QED
    BY <2>1, <2>2
<1>4. \A i \in 1..Len(todo) : todo[i].do # "insert"
  BY <1>1 DEF Mixed
<1>5. Lasting(todo)
  <2>1. ASSUME NEW i \in 1..Len(todo), i < Len(todo)
        PROVE  /\ todo[i].do # "bury"
               /\ todo[i].do = "change" => todo[i].to.state = todo[i].from.state
    <3>1. CASE i = k
      BY <1>1, <2>1, <3>1 DEF Mixed
    <3>2. CASE i # k
      BY <1>1, <2>1, <3>2 DEF Mixed
    <3> QED
      BY <3>1, <3>2
  <2> QED
    BY <2>1 DEF Lasting
<1> QED
  BY <1>1, <1>3, <1>4, <1>5 DEF Mixed, Plan, Writers

(* What a plan moves that touches one transaction. *)
LEMMA OneNet ==
    ASSUME Typed, NEW todo \in Seq(Steps), NEW t \in Txs, NEW y,
           \A u, x : u # t => After(todo, u, x) = x, After(todo, t, tx[t]) = y,
           NEW a \in Accounts
    PROVE  Net(a, todo) = Final(todo, a, account[a].bal) - account[a].bal
                          - (Share(a, account[a], y) - Share(a, account[a], tx[t]))
PROOF
<1>1. account[a] \in AccountDocs /\ tx \in [Txs -> Entries]
  BY DocFacts
<1>2. \A u \in Txs : u # t => Share(a, account[a], After(todo, u, tx[u]))
                              = Share(a, account[a], tx[u])
  OBVIOUS
<1>3. NetOf(account[a], a, tx, todo)
        = Final(todo, a, account[a].bal) - account[a].bal
          - (Share(a, account[a], After(todo, t, tx[t])) - Share(a, account[a], tx[t]))
  BY <1>1, <1>2, NetOne
<1> QED
  BY <1>3 DEF Net

(* Up to two balances put. *)
TwoOf(puts, a, x, v, b, y, w) ==
    /\ puts \in Seq(Steps) /\ Len(puts) \in {0, 1, 2}
    /\ \A i \in 1..Len(puts) : puts[i].do = "put" /\ puts[i].acc \in {a, b}
    /\ \A t, e : After(puts, t, e) = e
    /\ a # b => Final(puts, a, x) = v /\ Final(puts, b, y) = w
    /\ a = b /\ y = v => Final(puts, a, x) = w

(* One balance put, or none. *)
LEMMA FirstPut ==
    ASSUME NEW a \in Accounts, NEW before \in Int, NEW value \in Int,
           NEW puts, puts = PutIfNew(a, before, value)
    PROVE  MoreOf(puts, <<>>, a, before, value)
PROOF
<1>1. PICK none \in Seq(Steps) : none = <<>> /\ Len(none) <= 4
  <2>1. <<>> \in Seq(Steps) /\ Len(<<>>) = 0
    BY NoSteps
  <2>2. Len(<<>>) <= 4
    BY <2>1
  <2> QED
    BY <2>1, <2>2, Zenon
<1>2. puts \in Seq(Steps)
  BY PutTypes, OneStep, NoSteps DEF PutIfNew
<1>3. puts = none \o PutIfNew(a, before, value)
  BY <1>1, <1>2, ConcatEmptySeq
<1> QED
  BY <1>1, <1>3, MorePut

(* Two balances put one after the other come out as TwoOf says, for one   *)
(* account or two.                                                        *)
LEMMA TwoPuts ==
    ASSUME NEW a \in Accounts, NEW x \in Int, NEW v \in Int,
           NEW b \in Accounts, NEW y \in Int, NEW w \in Int,
           NEW puts, puts = PutIfNew(a, x, v) \o PutIfNew(b, y, w)
    PROVE  TwoOf(puts, a, x, v, b, y, w)
PROOF
<1>1. PICK one : one = PutIfNew(a, x, v)
  OBVIOUS
<1>2. MoreOf(one, <<>>, a, x, v)
  BY <1>1, FirstPut
<1>3. /\ one \in Seq(Steps) /\ Len(one) \in {0, 1}
      /\ Len(one) = 1 => one[1].do = "put" /\ one[1].acc = a
      /\ \A t, e : After(one, t, e) = e
      /\ \A c, bal : c # a => Final(one, c, bal) = bal
      /\ Final(one, a, x) = v
  BY <1>2, NoSteps DEF MoreOf
<1>4. puts = one \o PutIfNew(b, y, w) /\ Len(one) <= 4
  BY <1>1, <1>3
<1>5. MoreOf(puts, one, b, y, w)
  BY <1>3, <1>4, MorePut
<1>6. /\ puts \in Seq(Steps) /\ Len(puts) \in {Len(one), Len(one) + 1}
      /\ \A i \in 1..Len(one) : puts[i] = one[i]
      /\ Len(puts) = Len(one) + 1 => puts[Len(puts)].do = "put" /\ puts[Len(puts)].acc = b
      /\ \A t, e : After(puts, t, e) = After(one, t, e)
      /\ \A c, bal : c # b => Final(puts, c, bal) = Final(one, c, bal)
      /\ \A bal : Final(one, b, bal) = y => Final(puts, b, bal) = w
  BY <1>5 DEF MoreOf
<1>7. Len(puts) \in {0, 1, 2}
  <2>1. CASE Len(one) = 0
    BY <1>6, <2>1
  <2>2. CASE Len(one) = 1
    BY <1>6, <2>2
  <2> QED
    BY <1>3, <2>1, <2>2
<1>8. ASSUME NEW i \in 1..Len(puts)
      PROVE  puts[i].do = "put" /\ puts[i].acc \in {a, b}
  <2>1. CASE Len(puts) = Len(one) + 1 /\ i = Len(puts)
    BY <1>6, <2>1
  <2>2. CASE ~(Len(puts) = Len(one) + 1 /\ i = Len(puts))
    <3>1. i \in 1..Len(one)
      <4>1. CASE Len(one) = 0
        BY <1>6, <2>2, <4>1
      <4>2. CASE Len(one) = 1
        BY <1>6, <2>2, <4>2
      <4> QED
        BY <1>3, <4>1, <4>2
    <3>2. i = 1 /\ Len(one) = 1
      <4>1. CASE Len(one) = 0
        BY <3>1, <4>1
      <4>2. CASE Len(one) = 1
        BY <3>1, <4>2
      <4> QED
        BY <1>3, <4>1, <4>2
    <3> QED
      BY <1>3, <1>6, <3>1, <3>2
  <2> QED
    BY <2>1, <2>2
<1>9. a # b => Final(puts, a, x) = v /\ Final(puts, b, y) = w
  BY <1>3, <1>6
<1>10. a = b /\ y = v => Final(puts, a, x) = w
  BY <1>3, <1>6
<1> QED
  BY <1>3, <1>6, <1>7, <1>8, <1>9, <1>10 DEF TwoOf

(* And then one more write. *)
Ends(todo, puts, s) ==
    /\ todo \in Seq(Steps) /\ Len(todo) = Len(puts) + 1 /\ Len(todo) \in 1..5
    /\ \A i \in 1..Len(todo) : i # Len(todo) => i \in 1..Len(puts) /\ todo[i] = puts[i]
    /\ todo[Len(todo)] = s
    /\ \A t, e : After(todo, t, e) = Applied(s, t, After(puts, t, e))
    /\ \A a, bal : Final(todo, a, bal) = Paid(s, a, Final(puts, a, bal))

(* A plan of puts with a write after them ends in that write. *)
LEMMA EndsSo ==
    ASSUME NEW puts \in Seq(Steps), Len(puts) <= 4, NEW s \in Steps, NEW todo,
           todo = puts \o <<s>>
    PROVE  Ends(todo, puts, s)
PROOF
<1>1. /\ todo \in Seq(Steps) /\ Len(todo) = Len(puts) + 1
      /\ \A i \in 1..Len(puts) : todo[i] = puts[i]
      /\ todo[Len(puts) + 1] = s
      /\ \A t, e : After(todo, t, e) = Applied(s, t, After(puts, t, e))
      /\ \A a, bal : Final(todo, a, bal) = Paid(s, a, Final(puts, a, bal))
  BY MoreSteps
<1>2. PICK n \in Nat : n = Len(puts)
  BY LenProperties
<1>3. n <= 4
  BY <1>2
<1>4. Len(todo) = n + 1 /\ Len(todo) \in 1..5
  BY <1>1, <1>2, <1>3
<1>5. \A i \in 1..Len(todo) : i # Len(todo) => i \in 1..n
  BY <1>4
<1> QED
  BY <1>1, <1>2, <1>4, <1>5 DEF Ends

(* A request that goes on with a mixed plan keeps the invariant, if that  *)
(* plan owes nothing.                                                     *)
LEMMA GoesOnMixed ==
    ASSUME IInv, NEW r \in Requests, NEW was \in Loads, Opened(r, was),
           NEW q \in RequestDocs, request'[r] = q, Alone(r), Typed', NEW k, Mixed(q, k)
    PROVE  IInv'
PROOF
<1>1. request[r].todo = <<>> /\ ~request[r].wrote
  BY OpenedFacts
<1>2. Plan(q) /\ q.op \notin {"transfer", "import"}
  BY MixedPlan DEF Mixed
<1> QED
  BY <1>1, <1>2, PlainPlan

(* A draft confirmed, with the balance it moves when its date is due,     *)
(* keeps the invariant.                                                   *)
LEMMA ConfirmKeeps ==
    ASSUME IInv, NEW r \in Requests, Confirm(r)
    PROVE  IInv'
PROOF
<1>0. Opened(r, "confirm") /\ "confirm" \in Loads /\ Typed
  BY DEF Confirm, Loads, IInv
<1>1. PICK t \in Txs : t = request[r].tx
  BY <1>0, OpenedFacts
<1>2. PICK e \in Entries : e = Copy(r)
  BY <1>0, OpenedFacts
<1>3. PICK to \in Entries : to = [e EXCEPT !.status = "posted"]
  BY DEF Entries
<1>4. PICK a \in Accounts : a = e.acc
  BY DEF Entries
<1>5. /\ to.state = e.state /\ to.acc = e.acc /\ to.kind = e.kind /\ to.pair = e.pair
      /\ to.recurring = e.recurring /\ to.status = "posted" /\ to.amount = e.amount
      /\ to.early = e.early
  BY <1>3 DEF Entries
<1>6. /\ t \in request[r].holds /\ request[r].holds \subseteq Txs /\ Held(e, t)
      /\ (~request[r].stale => tx[t] = e)
      /\ \A p \in request[r].rest :
            /\ p[1] # t /\ p[1] \in request[r].holds /\ Held(p[2], p[1])
            /\ ~request[r].stale => tx[p[1]] = p[2]
  BY <1>0, <1>1, <1>2, OpenedFacts
<1>7. e.status = "draft" /\ e.recurring /\ e.state = "live"
  BY <1>2, <1>6 DEF Confirm, Held
<1>8. account[a] \in AccountDocs /\ account[a].bal \in Int /\ Delta(account[a], e) \in Int
  BY <1>0, DocFacts, DeltaType DEF AccountDocs
<1>9. PICK bal \in Int : bal = account[a].bal
  BY <1>8
<1>10. PICK v \in Int : v = bal + Delta(account[a], e)
  BY <1>8
<1>11. PICK s \in Steps : /\ s = Change(t, e, to) /\ Targets(s) = {t} /\ s.do = "change"
                          /\ s.tx = t /\ s.from = e /\ s.to = to
  BY ChangeTypes
<1>12. PICK one \in Seq(Steps) : one = <<s>>
  BY OneStep
<1>13. /\ Len(one) = 1 /\ one[1] = s
       /\ \A u, x : After(one, u, x) = Applied(s, u, x)
       /\ \A b, x : Final(one, b, x) = x
  BY <1>11, <1>12, OneStep DEF Paid
<1>14. PICK todo \in Seq(Steps) : todo = one \o PutIfNew(a, bal, v)
  <2>1. one \o PutIfNew(a, bal, v) \in Seq(Steps)
    BY PutIfNewType
  <2> QED
    BY <2>1, Zenon
<1>15. MoreOf(todo, one, a, bal, v)
  <2>1. Len(one) <= 4
    BY <1>13
  <2> QED
    BY <1>14, <2>1, MorePut
<1>16. /\ Len(todo) \in {1, 2} /\ todo[1] = s
       /\ Len(todo) = 2 => todo[2].do = "put" /\ todo[2].acc = a
       /\ \A u, x : After(todo, u, x) = Applied(s, u, x)
       /\ Final(todo, a, bal) = v
  BY <1>13, <1>15 DEF MoreOf
<1>17. GoesOn(r, "write", todo, {a}, {a}, FALSE)
  <2>1. Planned(r, request[r], "write", todo, {a}, {a}, FALSE)
        /\ UNCHANGED <<account, tx, doubted, starts>>
    BY <1>1, <1>2, <1>3, <1>4, <1>9, <1>10, <1>11, <1>12, <1>14 DEF Confirm, PutIfMoved, Goes
  <2>2. "write" \in Writers
    BY DEF Writers
  <2>3. PICK holds \in SUBSET (Txs \cup Accounts), on \in SUBSET Accounts :
           holds = {a} /\ on = {a}
    OBVIOUS
  <2> QED
    BY <1>0, <2>1, <2>2, <2>3, GoPlan
<1>18. PICK q \in RequestDocs :
          /\ request'[r] = q /\ q.op = "write" /\ q.todo = todo /\ q.rest = request[r].rest
          /\ q.holds = request[r].holds \cup {a} /\ q.on = {a} /\ q.wrong = FALSE
          /\ ~q.wrote /\ q.stale = request[r].stale
  BY <1>17 DEF GoesOn
<1>19. Mixed(q, 1)
  <2>1. Fits(q, s)
    BY <1>4, <1>5, <1>6, <1>11, <1>18 DEF Fits
  <2>2. ASSUME ~q.stale PROVE Net(a, todo) = 0
    <3>1. tx[t] = e
      BY <1>6, <1>18, <2>2
    <3>2. After(todo, t, tx[t]) = to
      BY <1>11, <1>16, <3>1, MergedSame DEF Applied
    <3>3. \A u, x : u # t => After(todo, u, x) = x
      BY <1>11, <1>16 DEF Applied
    <3>4. Net(a, todo) = Final(todo, a, account[a].bal) - account[a].bal
                         - (Share(a, account[a], to) - Share(a, account[a], tx[t]))
      BY <1>0, <3>2, <3>3, OneNet
    <3>5. Share(a, account[a], tx[t]) = 0
      BY <1>7, <3>1 DEF Share, Booked
    <3>6. Share(a, account[a], to) = Delta(account[a], e)
      BY <1>4, <1>5, <1>7 DEF Share, Booked, Delta
    <3> QED
      BY <1>8, <1>9, <1>10, <1>16, <3>4, <3>5, <3>6
  <2>3. q.holds \cap Accounts \subseteq q.on
    BY <1>6, <1>18, ApartAssumption
  <2>4. \A i \in 1..Len(todo) : i # 1 => todo[i].do = "put" /\ todo[i].acc = a
    BY <1>16
  <2>5. Fits(q, todo[1]) /\ todo[1].do = "change" /\ todo[1].to.state = todo[1].from.state
    BY <1>5, <1>11, <1>16, <2>1
  <2>0. Len(todo) \in {1, 2}
    BY <1>16
  <2>6. Len(todo) <= 5
    <3>1. \A n \in {1, 2} : n <= 5
      OBVIOUS
    <3> QED
      BY <2>0, <3>1, Zenon
  <2>7. \A p \in q.rest : /\ p[1] \in q.holds /\ Held(p[2], p[1])
                          /\ ~q.stale => tx[p[1]] = p[2]
    BY <1>6, <1>18
  <2>8. \A b \in q.on : ~q.stale => Net(b, q.todo) = 0
    BY <1>18, <2>2
  <2>9. /\ q.op = "write" /\ ~q.wrote /\ q.on \subseteq q.holds
        /\ \A i \in 1..Len(q.todo) : i # 1 => q.todo[i].do = "put" /\ q.todo[i].acc \in q.on
        /\ Fits(q, q.todo[1]) /\ q.todo[1].do = "change"
        /\ q.todo[1].to.state = q.todo[1].from.state /\ Len(q.todo) <= 5
    BY <1>18, <2>4, <2>5, <2>6
  <2> QED
    BY <2>3, <2>7, <2>8, <2>9 DEF Mixed
<1> QED
  BY <1>0, <1>17, <1>18, <1>19, GoesOnMixed DEF GoesOn

(* A transaction deleted with its balance reversed keeps the invariant. *)
LEMMA DeleteKeeps ==
    ASSUME IInv, NEW r \in Requests, Delete(r)
    PROVE  IInv'
PROOF
<1>0. Opened(r, "delete") /\ "delete" \in Loads /\ Typed
  BY DEF Delete, Loads, IInv
<1>1. PICK t \in Txs : t = request[r].tx
  BY <1>0, OpenedFacts
<1>2. PICK e \in Entries : e = Copy(r)
  BY <1>0, OpenedFacts
<1>3. PICK a \in Accounts : a = e.acc
  BY DEF Entries
<1>4. /\ t \in request[r].holds /\ request[r].holds \subseteq Txs /\ Held(e, t)
      /\ (~request[r].stale => tx[t] = e)
      /\ \A p \in request[r].rest :
            /\ p[1] # t /\ p[1] \in request[r].holds /\ Held(p[2], p[1])
            /\ ~request[r].stale => tx[p[1]] = p[2]
  BY <1>0, <1>1, <1>2, OpenedFacts
<1>5. e.state = "live"
  BY <1>4 DEF Held
<1>6. account[a] \in AccountDocs /\ account[a].bal \in Int /\ Delta(account[a], e) \in Int
  BY <1>0, DocFacts, DeltaType DEF AccountDocs
<1>7. PICK bal \in Int : bal = account[a].bal
  BY <1>6
<1>8. PICK v \in Int : v = bal - Delta(account[a], e)
  BY <1>6
<1>9. PICK s \in Steps : s = Bury({t}) /\ Targets(s) = {t} /\ s.do = "bury"
  BY BuryTypes
<1>10. PICK puts : puts = PutIfNew(a, bal, v)
  OBVIOUS
<1>11. MoreOf(puts, <<>>, a, bal, v)
  BY <1>10, FirstPut
<1>12. /\ puts \in Seq(Steps) /\ Len(puts) \in {0, 1}
       /\ Len(puts) = 1 => puts[1].do = "put" /\ puts[1].acc = a
       /\ \A u, x : After(puts, u, x) = x
       /\ Final(puts, a, bal) = v
  BY <1>11, NoSteps DEF MoreOf
<1>13. PICK todo : todo = puts \o <<s>>
  OBVIOUS
<1>14. Ends(todo, puts, s)
  <2>0. Len(puts) \in {0, 1}
    BY <1>12
  <2>1. Len(puts) <= 4
    BY <2>0
  <2> QED
    BY <1>12, <1>13, <2>1, EndsSo
<1>15. /\ todo \in Seq(Steps) /\ Len(todo) \in {1, 2} /\ todo[Len(todo)] = s
       /\ \A i \in 1..Len(todo) : i # Len(todo) => todo[i].do = "put" /\ todo[i].acc = a
       /\ \A u, x : After(todo, u, x) = Applied(s, u, x)
       /\ Final(todo, a, bal) = v
  <2>1. /\ todo \in Seq(Steps) /\ Len(todo) = Len(puts) + 1 /\ todo[Len(todo)] = s
        /\ \A i \in 1..Len(todo) : i # Len(todo) => i \in 1..Len(puts) /\ todo[i] = puts[i]
        /\ \A u, x : After(todo, u, x) = Applied(s, u, After(puts, u, x))
        /\ \A b, x : Final(todo, b, x) = Paid(s, b, Final(puts, b, x))
    BY <1>14 DEF Ends
  <2>2. \A u, x : After(todo, u, x) = Applied(s, u, x)
    BY <1>12, <2>1
  <2>3. Final(todo, a, bal) = v
    BY <1>9, <1>12, <2>1 DEF Paid
  <2>4. Len(todo) \in {1, 2}
    BY <1>12, <2>1
  <2>5. \A i \in 1..Len(puts) : puts[i].do = "put" /\ puts[i].acc = a
    <3>1. CASE Len(puts) = 0
      BY <3>1
    <3>2. CASE Len(puts) = 1
      BY <1>12, <3>2
    <3> QED
      BY <1>12, <3>1, <3>2
  <2> QED
    BY <2>1, <2>2, <2>3, <2>4, <2>5
<1>16. PICK wrong \in BOOLEAN : wrong <=> e.status = "draft"
  OBVIOUS
<1>17. GoesOn(r, "write", todo, {a}, {a}, wrong)
  <2>1. Planned(r, request[r], "write", todo, {a}, {a}, wrong)
        /\ UNCHANGED <<account, tx, doubted, starts>>
    BY <1>1, <1>2, <1>3, <1>7, <1>8, <1>9, <1>10, <1>13, <1>16 DEF Delete, PutIfMoved, Goes
  <2>2. "write" \in Writers
    BY DEF Writers
  <2>3. PICK holds \in SUBSET (Txs \cup Accounts), on \in SUBSET Accounts :
           holds = {a} /\ on = {a}
    OBVIOUS
  <2> QED
    BY <1>0, <1>15, <2>1, <2>2, <2>3, GoPlan
<1>18. PICK q \in RequestDocs :
          /\ request'[r] = q /\ q.op = "write" /\ q.todo = todo /\ q.rest = request[r].rest
          /\ q.holds = request[r].holds \cup {a} /\ q.on = {a} /\ q.wrong = wrong
          /\ ~q.wrote /\ q.stale = request[r].stale
  BY <1>17 DEF GoesOn
<1>19. Mixed(q, Len(todo))
  <2>1. Fits(q, s)
    BY <1>3, <1>4, <1>9, <1>18 DEF Fits
  <2>2. ASSUME ~q.stale, ~q.wrong PROVE Net(a, todo) = 0
    <3>1. tx[t] = e /\ e.status = "posted"
      BY <1>4, <1>16, <1>18, <2>2 DEF Entries
    <3>0. PICK gone : gone = Buried(e)
      OBVIOUS
    <3>2. gone \in Entries /\ gone = Buried(e) /\ gone.state = "gone"
      BY <1>5, <3>0 DEF Buried, Entries
    <3>3. After(todo, t, tx[t]) = gone
      BY <1>9, <1>15, <3>1, <3>2 DEF Applied
    <3>4. \A u, x : u # t => After(todo, u, x) = x
      BY <1>9, <1>15 DEF Applied
    <3>5. Net(a, todo) = Final(todo, a, account[a].bal) - account[a].bal
                         - (Share(a, account[a], gone) - Share(a, account[a], tx[t]))
      BY <1>0, <1>15, <3>3, <3>4, OneNet
    <3>6. Share(a, account[a], gone) = 0
      BY <3>2 DEF Share, Booked
    <3>7. Share(a, account[a], tx[t]) = Delta(account[a], e)
      BY <1>3, <1>5, <3>1 DEF Share, Booked
    <3> QED
      BY <1>6, <1>7, <1>8, <1>15, <3>5, <3>6, <3>7
  <2>3. q.holds \cap Accounts \subseteq q.on
    BY <1>4, <1>18, ApartAssumption
  <2>4. PICK k \in {1, 2} : k = Len(todo)
    BY <1>15
  <2>5. Fits(q, todo[k]) /\ todo[k].do = "bury" /\ Len(todo) <= 5 /\ ~(k < Len(todo))
    BY <1>9, <1>15, <2>1, <2>4
  <2>6. \A i \in 1..Len(todo) : i # k => todo[i].do = "put" /\ todo[i].acc = a
    BY <1>15, <2>4
  <2>7. \A p \in q.rest : /\ p[1] \in q.holds /\ Held(p[2], p[1])
                          /\ ~q.stale => tx[p[1]] = p[2]
    BY <1>4, <1>18
  <2>8. Mixed(q, k)
    <3>1. \A b \in q.on : ~q.stale /\ ~q.wrong => Net(b, q.todo) = 0
      BY <1>18, <2>2
    <3>2. /\ q.op = "write" /\ ~q.wrote /\ q.on \subseteq q.holds
          /\ \A i \in 1..Len(q.todo) : i # k => q.todo[i].do = "put" /\ q.todo[i].acc \in q.on
          /\ Fits(q, q.todo[k]) /\ q.todo[k].do = "bury" /\ ~(k < Len(q.todo))
          /\ Len(q.todo) <= 5
      BY <1>18, <2>5, <2>6
    <3> QED
      BY <2>3, <2>7, <3>1, <3>2 DEF Mixed
  <2> QED
    BY <2>4, <2>8
<1> QED
  BY <1>0, <1>17, <1>18, <1>19, GoesOnMixed DEF GoesOn

(* What an edit of old into e puts before it saves the transaction. *)
Moves(old, e) ==
    <<old.kind, old.amount, old.acc, old.early>> # <<e.kind, e.amount, e.acc, e.early>>

(* The balances an edit puts: the old account's back, the new account's   *)
(* up.                                                                    *)
PutsOf(old, e) ==
    LET a == old.acc
        b == e.acc
        back == account[a].bal - Delta(account[a], old)
    IN
    IF ~Moves(old, e) THEN <<>>
    ELSE IF a = b
    THEN PutIfMoved(a, back)
         \o (IF Delta(account[a], e) = 0 THEN <<>>
             ELSE <<Put(a, back + Delta(account[a], e))>>)
    ELSE PutIfMoved(a, back) \o PutIfMoved(b, account[b].bal + Delta(account[b], e))

(* The puts move each account by the new share less the old one. *)
Carried(puts, old, e, a, b) ==
    /\ puts \in Seq(Steps) /\ Len(puts) \in {0, 1, 2}
    /\ \A i \in 1..Len(puts) : puts[i].do = "put" /\ puts[i].acc \in {a, b}
    /\ \A u, x : After(puts, u, x) = x
    /\ a = b => Final(puts, a, account[a].bal)
                = account[a].bal - Delta(account[a], old) + Delta(account[a], e)
    /\ a # b => /\ Final(puts, a, account[a].bal)
                   = account[a].bal - Delta(account[a], old)
                /\ Final(puts, b, account[b].bal)
                   = account[b].bal + Delta(account[b], e)

(* The puts of an edit do so, whether or not the account stays the same. *)
LEMMA UpdatePuts ==
    ASSUME Typed, NEW old \in Entries, NEW e \in Entries
    PROVE  Carried(PutsOf(old, e), old, e, old.acc, e.acc)
PROOF
<1>a. PICK a, b : a = old.acc /\ b = e.acc
  OBVIOUS
<1>b. PICK changed \in BOOLEAN : changed <=> Moves(old, e)
  OBVIOUS
<1>c. PICK back : back = account[a].bal - Delta(account[a], old)
  OBVIOUS
<1>d. PICK puts : puts = PutsOf(old, e)
  OBVIOUS
<1>1. /\ a \in Accounts /\ b \in Accounts
      /\ account[a] \in AccountDocs /\ account[b] \in AccountDocs
      /\ account[a].bal \in Int /\ account[b].bal \in Int
  BY <1>a, DocFacts DEF Entries, AccountDocs
<1>2. /\ Delta(account[a], old) \in Int /\ Delta(account[a], e) \in Int
      /\ Delta(account[b], e) \in Int
  BY <1>1, DeltaType
<1>3. PICK x \in Int, y \in Int : x = account[a].bal /\ y = account[b].bal
  BY <1>1
<1>4. PICK d \in Int, g \in Int, h \in Int :
        d = Delta(account[a], old) /\ g = Delta(account[a], e) /\ h = Delta(account[b], e)
  BY <1>2
<1>5. CASE ~changed
  <2>1. a = b /\ d = g
    BY <1>a, <1>b, <1>4, <1>5 DEF Delta, Moves
  <2>2. puts = <<>>
    BY <1>b, <1>d, <1>5 DEF PutsOf
  <2>3. x - d + g = x
    BY <2>1
  <2>4. /\ puts \in Seq(Steps) /\ Len(puts) = 0 /\ \A u, z : After(puts, u, z) = z
        /\ \A c, z : Final(puts, c, z) = z
    BY <2>2, NoSteps, Zenon
  <2>5. \A i \in 1..Len(puts) : puts[i].do = "put" /\ puts[i].acc \in {a, b}
    BY <2>4
  <2>6. Final(puts, a, account[a].bal)
                = account[a].bal - Delta(account[a], old) + Delta(account[a], e)
    BY <1>3, <1>4, <2>3, <2>4
  <2> QED
    BY <1>a, <1>d, <2>1, <2>4, <2>5, <2>6 DEF Carried
<1>6. CASE changed /\ a = b
  <2>1. PICK v \in Int, w \in Int : v = x - d /\ w = x - d + g
    OBVIOUS
  <2>2. puts = PutIfNew(a, x, v) \o PutIfNew(a, v, w)
    <3>1. PutIfMoved(a, back) = PutIfNew(a, x, v)
      BY <1>c, <1>3, <1>4, <2>1 DEF PutIfMoved
    <3>2. w = v <=> g = 0
      BY <2>1
    <3>3. back + Delta(account[a], e) = w
      BY <1>c, <1>3, <1>4, <2>1
    <3>4. (IF Delta(account[a], e) = 0 THEN <<>> ELSE <<Put(a, back + Delta(account[a], e))>>)
          = PutIfNew(a, v, w)
      BY <1>4, <3>2, <3>3 DEF PutIfNew
    <3> QED
      BY <1>a, <1>b, <1>c, <1>d, <1>6, <3>1, <3>4 DEF PutsOf
  <2>3. TwoOf(puts, a, x, v, a, v, w)
    BY <1>1, <2>2, TwoPuts
  <2> QED
    BY <1>a, <1>d, <1>3, <1>4, <1>6, <2>1, <2>3 DEF TwoOf, Carried
<1>7. CASE changed /\ a # b
  <2>1. PICK v \in Int, w \in Int : v = x - d /\ w = y + h
    OBVIOUS
  <2>2. puts = PutIfNew(a, x, v) \o PutIfNew(b, y, w)
    BY <1>a, <1>b, <1>c, <1>d, <1>3, <1>4, <1>7, <2>1 DEF PutIfMoved, PutsOf
  <2>3. TwoOf(puts, a, x, v, b, y, w)
    BY <1>1, <2>2, TwoPuts
  <2> QED
    BY <1>a, <1>d, <1>3, <1>4, <1>7, <2>1, <2>3 DEF TwoOf, Carried
<1> QED
  BY <1>5, <1>6, <1>7

(* A transaction edited, with its balances moved first, keeps the         *)
(* invariant.                                                             *)
LEMMA UpdateKeeps ==
    ASSUME IInv, NEW r \in Requests, Opened(r, "update"), NEW e \in Edits(Copy(r)),
           Update(r, e)
    PROVE  IInv'
PROOF
<1>0. "update" \in Loads /\ Typed
  BY DEF Loads, IInv
<1>1. PICK t \in Txs : t = request[r].tx
  BY <1>0, OpenedFacts
<1>2. PICK old \in Entries : old = Copy(r)
  BY <1>0, OpenedFacts
<1>3. /\ e \in Entries /\ e.state = old.state /\ e.pair = old.pair
      /\ e.recurring = old.recurring /\ ~IsLeg(e) /\ ~IsLeg(old)
  BY <1>2, EditsFacts DEF Update, IsLeg
<1>4. /\ t \in request[r].holds /\ request[r].holds \subseteq Txs /\ Held(old, t)
      /\ (~request[r].stale => tx[t] = old)
      /\ \A p \in request[r].rest :
            /\ p[1] # t /\ p[1] \in request[r].holds /\ Held(p[2], p[1])
            /\ ~request[r].stale => tx[p[1]] = p[2]
  BY <1>0, <1>1, <1>2, OpenedFacts
<1>5. old.state = "live" /\ e.state = "live" /\ Firm(t)
  BY <1>3, <1>4 DEF Held
<1>6. PICK a \in Accounts, b \in Accounts : a = old.acc /\ b = e.acc
  BY <1>3 DEF Entries
<1>7. PICK changed \in BOOLEAN : changed <=> Moves(old, e)
  OBVIOUS
<1>9. PICK puts : puts = PutsOf(old, e)
  OBVIOUS
<1>10. Carried(puts, old, e, a, b)
  BY <1>0, <1>3, <1>6, <1>9, UpdatePuts
<1>11. PICK s \in Steps : /\ s = Change(t, old, e) /\ Targets(s) = {t} /\ s.do = "change"
                          /\ s.tx = t /\ s.from = old /\ s.to = e
  BY <1>3, ChangeTypes
<1>12. PICK todo : todo = puts \o <<s>>
  OBVIOUS
<1>13. Ends(todo, puts, s)
  <2>1. Len(puts) \in {0, 1, 2}
    BY <1>10 DEF Carried
  <2>2. \A n \in {0, 1, 2} : n <= 4
    OBVIOUS
  <2>3. Len(puts) <= 4
    BY <2>1, <2>2, Zenon
  <2>4. puts \in Seq(Steps)
    BY <1>10 DEF Carried
  <2> QED
    BY <1>12, <2>3, <2>4, EndsSo
<1>14. /\ todo \in Seq(Steps) /\ todo[Len(todo)] = s /\ Len(todo) \in 1..5
       /\ \A i \in 1..Len(todo) : i # Len(todo) => todo[i].do = "put" /\ todo[i].acc \in {a, b}
       /\ \A u, x : After(todo, u, x) = Applied(s, u, x)
       /\ \A c, x : Final(todo, c, x) = Final(puts, c, x)
  <2>1. /\ todo \in Seq(Steps) /\ todo[Len(todo)] = s /\ Len(todo) \in 1..5
        /\ \A i \in 1..Len(todo) : i # Len(todo) => i \in 1..Len(puts) /\ todo[i] = puts[i]
        /\ \A u, x : After(todo, u, x) = Applied(s, u, After(puts, u, x))
        /\ \A c, x : Final(todo, c, x) = Paid(s, c, Final(puts, c, x))
    BY <1>13 DEF Ends
  <2>2. \A u, x : After(todo, u, x) = Applied(s, u, x)
    BY <1>10, <2>1 DEF Carried
  <2>3. \A c, x : Final(todo, c, x) = Final(puts, c, x)
    BY <1>11, <2>1 DEF Paid
  <2> QED
    BY <1>10, <2>1, <2>2, <2>3 DEF Carried
<1>15. PICK wrong \in BOOLEAN :
          wrong <=> (changed /\ old.status = "draft") \/ e.status # old.status
  OBVIOUS
<1>16. GoesOn(r, "write", todo, {a, b}, {a, b}, wrong)
  <2>1. Planned(r, request[r], "write", todo, {a, b}, {a, b}, wrong)
        /\ UNCHANGED <<account, tx, doubted, starts>>
    BY <1>1, <1>2, <1>6, <1>7, <1>9, <1>11, <1>12, <1>15
       DEF Update, Goes, PutsOf, Moves
  <2>2. "write" \in Writers
    BY DEF Writers
  <2>3. PICK holds \in SUBSET (Txs \cup Accounts), on \in SUBSET Accounts :
           holds = {a, b} /\ on = {a, b}
    OBVIOUS
  <2> QED
    BY <1>0, <1>14, <2>1, <2>2, <2>3, GoPlan
<1>17. PICK q \in RequestDocs :
          /\ request'[r] = q /\ q.op = "write" /\ q.todo = todo /\ q.rest = request[r].rest
          /\ q.holds = request[r].holds \cup {a, b} /\ q.on = {a, b} /\ q.wrong = wrong
          /\ ~q.wrote /\ q.stale = request[r].stale
  BY <1>16 DEF GoesOn
<1>18. Fits(q, s)
  <2>1. /\ s.to.acc \in q.on /\ s.to.state = s.from.state /\ s.to.pair = s.from.pair
        /\ s.to.recurring = s.from.recurring /\ ~IsLeg(s.to) /\ Firm(s.tx)
        /\ s.tx \in q.holds
    BY <1>3, <1>4, <1>5, <1>6, <1>11, <1>17
  <2>2. ~q.stale => \A p \in q.rest : p[1] \notin Targets(s)
    BY <1>4, <1>11, <1>17
  <2>3. ~q.stale => \A x \in Targets(s) : tx[x].acc \in q.on
    BY <1>4, <1>6, <1>11, <1>17
  <2>4. Targets(s) \subseteq q.holds
    BY <1>4, <1>11, <1>17
  <2> QED
    BY <1>11, <2>1, <2>2, <2>3, <2>4 DEF Fits
<1>19. ASSUME ~q.stale, ~q.wrong, NEW c \in q.on
       PROVE  Net(c, todo) = 0
  <2>1. tx[t] = old /\ e.status = old.status /\ (changed => old.status = "posted")
    BY <1>4, <1>15, <1>17, <1>19 DEF Entries
  <2>2. After(todo, t, tx[t]) = e
    BY <1>3, <1>11, <1>14, <2>1, MergedSame DEF Applied
  <2>3. \A u, x : u # t => After(todo, u, x) = x
    BY <1>11, <1>14 DEF Applied
  <2>4. Net(c, todo) = Final(puts, c, account[c].bal) - account[c].bal
                       - (Share(c, account[c], e) - Share(c, account[c], old))
    BY <1>0, <1>14, <1>17, <2>1, <2>2, <2>3, OneNet
  <2>5. /\ account[c].bal \in Int /\ Delta(account[c], old) \in Int
        /\ Delta(account[c], e) \in Int
    BY <1>0, <1>3, <1>17, DocFacts, DeltaType DEF AccountDocs
  <2>6. CASE ~changed
    <3>1. /\ old.kind = e.kind /\ old.amount = e.amount /\ old.acc = e.acc
          /\ old.early = e.early
      BY <1>7, <2>6 DEF Moves
    <3>2. Share(c, account[c], e) = Share(c, account[c], old)
      BY <1>5, <2>1, <3>1 DEF Share, Booked, Delta
    <3>3. puts = <<>>
      BY <1>7, <1>9, <2>6 DEF PutsOf
    <3>4. Final(puts, c, account[c].bal) = account[c].bal
      BY <3>3, NoSteps, Zenon
    <3>5. Share(c, account[c], old) \in Int
      BY <2>5 DEF Share
    <3> QED
      BY <2>4, <2>5, <3>2, <3>4, <3>5
  <2>7. CASE changed /\ a = b
    <3>1. c = a
      BY <1>17, <2>7
    <3>2. /\ Share(c, account[c], e) = Delta(account[c], e)
          /\ Share(c, account[c], old) = Delta(account[c], old)
      BY <1>5, <1>6, <2>1, <2>7, <3>1 DEF Share, Booked
    <3>3. Final(puts, c, account[c].bal)
          = account[c].bal - Delta(account[c], old) + Delta(account[c], e)
      BY <1>10, <2>7, <3>1 DEF Carried
    <3> QED
      BY <2>4, <2>5, <3>2, <3>3
  <2>8. CASE changed /\ a # b /\ c = a
    <3>1. /\ Share(c, account[c], e) = 0
          /\ Share(c, account[c], old) = Delta(account[c], old)
      BY <1>5, <1>6, <2>1, <2>8 DEF Share, Booked
    <3>2. Final(puts, c, account[c].bal) = account[c].bal - Delta(account[c], old)
      BY <1>10, <2>8 DEF Carried
    <3> QED
      BY <2>4, <2>5, <3>1, <3>2
  <2>9. CASE changed /\ a # b /\ c = b
    <3>1. /\ Share(c, account[c], e) = Delta(account[c], e)
          /\ Share(c, account[c], old) = 0
      BY <1>5, <1>6, <2>1, <2>9 DEF Share, Booked
    <3>2. Final(puts, c, account[c].bal) = account[c].bal + Delta(account[c], e)
      BY <1>10, <2>9 DEF Carried
    <3> QED
      BY <2>4, <2>5, <3>1, <3>2
  <2> QED
    BY <1>17, <2>6, <2>7, <2>8, <2>9
<1>20. Mixed(q, Len(todo))
  <2>1. q.holds \cap Accounts \subseteq q.on
    BY <1>4, <1>17, ApartAssumption
  <2>2. PICK k \in 1..5 : k = Len(todo)
    BY <1>14
  <2>3. /\ q.op = "write" /\ ~q.wrote /\ q.on \subseteq q.holds
        /\ \A i \in 1..Len(q.todo) : i # k => q.todo[i].do = "put" /\ q.todo[i].acc \in q.on
        /\ Fits(q, q.todo[k]) /\ q.todo[k].do = "change" /\ ~(k < Len(q.todo))
        /\ Len(q.todo) <= 5
    BY <1>11, <1>14, <1>17, <1>18, <2>2
  <2>4. \A c \in q.on : ~q.stale /\ ~q.wrong => Net(c, q.todo) = 0
    BY <1>17, <1>19
  <2>5. \A p \in q.rest : /\ p[1] \in q.holds /\ Held(p[2], p[1])
                          /\ ~q.stale => tx[p[1]] = p[2]
    BY <1>4, <1>17
  <2>6. Mixed(q, k)
    BY <2>1, <2>3, <2>4, <2>5 DEF Mixed
  <2> QED
    BY <2>2, <2>6
<1> QED
  BY <1>0, <1>16, <1>17, <1>20, GoesOnMixed DEF GoesOn

(* What a plan owes that makes y of t and z of u. *)
LEMMA TwoNet ==
    ASSUME Typed, NEW todo \in Seq(Steps), NEW t \in Txs, NEW u \in Txs, t # u, NEW y, NEW z,
           \A v, x : v # t /\ v # u => After(todo, v, x) = x,
           After(todo, t, tx[t]) = y, After(todo, u, tx[u]) = z, NEW a \in Accounts
    PROVE  Net(a, todo) = Final(todo, a, account[a].bal) - account[a].bal
                          - ((Share(a, account[a], y) - Share(a, account[a], tx[t]))
                             + (Share(a, account[a], z) - Share(a, account[a], tx[u])))
PROOF
<1>1. account[a] \in AccountDocs /\ tx \in [Txs -> Entries]
  BY DocFacts
<1>2. \A v \in Txs : v # t /\ v # u => Share(a, account[a], After(todo, v, tx[v]))
                                       = Share(a, account[a], tx[v])
  OBVIOUS
<1>3. NetOf(account[a], a, tx, todo)
        = Final(todo, a, account[a].bal) - account[a].bal
          - ((Share(a, account[a], After(todo, t, tx[t])) - Share(a, account[a], tx[t]))
             + (Share(a, account[a], After(todo, u, tx[u])) - Share(a, account[a], tx[u])))
  BY <1>1, <1>2, NetTwo
<1> QED
  BY <1>3 DEF Net

(* The legs a delete takes for the outbound and the inbound one are the    *)
(* outbound and the inbound one, unless it is to be wrong.                 *)
LEMMA LegsTold ==
    ASSUME IInv, NEW t \in Txs, NEW e \in Entries, tx[t] = e, e.state = "live", Paired(e),
           NEW u, u = e.pair, tx[u].state = "live",
           ~(e.tied /\ e.kind = "in"), NEW out, NEW in,
           out = IF e.kind = "out" \/ e.tied THEN e ELSE tx[u],
           in = IF out = e THEN tx[u] ELSE e
    PROVE  /\ u \in Txs /\ t # u /\ out.acc # in.acc
           /\ out.kind = "out" /\ in.kind = "in" /\ {out, in} = {e, tx[u]}
PROOF
<1>1. u \in Txs
  BY DEF Paired, Entries
<1>2. Twin(e, tx[u])
  BY DEF IInv, Legs, WellPaired
<1>3. /\ tx[u].acc # e.acc /\ (e.kind = "out" \/ e.kind = "in")
      /\ e.kind = "out" => tx[u].kind = "in"
      /\ e.kind = "in" => tx[u].kind = "out"
  <2>1. {e.kind, tx[u].kind} = {"out", "in"}
    BY <1>2 DEF Twin
  <2>2. "out" # "in"
    OBVIOUS
  <2>3. /\ e.kind = "out" \/ e.kind = "in"
        /\ e.kind = "out" => tx[u].kind = "in"
        /\ e.kind = "in" => tx[u].kind = "out"
    BY <2>1, <2>2
  <2> QED
    BY <1>2, <2>3 DEF Twin
<1>4. CASE e.kind = "out"
  BY <1>1, <1>3, <1>4
<1>5. CASE e.kind = "in"
  BY <1>1, <1>3, <1>5
<1> QED
  BY <1>3, <1>4, <1>5

(* A transfer deleted, both legs and both balances, keeps the invariant. *)
LEMMA DeleteTransferKeeps ==
    ASSUME IInv, NEW r \in Requests, NEW own \in BOOLEAN, DeleteTransfer(r, own)
    PROVE  IInv'
PROOF
<1>0. Opened(r, "delete") /\ "delete" \in Loads /\ Typed
  BY DEF DeleteTransfer, Loads, IInv
<1>1. PICK t \in Txs : t = request[r].tx
  BY <1>0, OpenedFacts
<1>2. PICK e \in Entries : e = Copy(r)
  BY <1>0, OpenedFacts
<1>3. PICK u \in Txs : u = e.pair
  <2>1. Paired(e)
    BY <1>2 DEF DeleteTransfer
  <2> QED
    BY <2>1 DEF Paired, Entries
<1>4. /\ t \in request[r].holds /\ request[r].holds \subseteq Txs /\ Held(e, t)
      /\ (~request[r].stale => tx[t] = e)
      /\ \A p \in request[r].rest :
            /\ p[1] # t /\ (Paired(e) => p[1] # u) /\ p[1] \in request[r].holds
            /\ Held(p[2], p[1])
            /\ ~request[r].stale => tx[p[1]] = p[2]
  BY <1>0, <1>1, <1>2, <1>3, OpenedFacts, SMTT(30)
<1>5. e.state = "live" /\ Paired(e) /\ tx[u].state = "live" /\ tx[u] \in Entries
  BY <1>0, <1>2, <1>3, <1>4, DocFacts DEF DeleteTransfer, Held
<1>6. PICK out \in Entries : out = IF e.kind = "out" \/ e.tied THEN e ELSE tx[u]
  BY <1>5
<1>7. PICK in \in Entries : in = IF out = e THEN tx[u] ELSE e
  BY <1>5
<1>8. PICK a \in Accounts, b \in Accounts : a = out.acc /\ b = in.acc
  BY DEF Entries
<1>9. PICK sent \in Entries : sent = [e EXCEPT !.kind = "out"]
  BY DEF Entries, Kinds
<1>10. PICK got \in Entries : got = [e EXCEPT !.kind = "in"]
  BY DEF Entries, Kinds
<1>11. /\ account[a] \in AccountDocs /\ account[b] \in AccountDocs
       /\ account[a].bal \in Int /\ account[b].bal \in Int
       /\ Delta(account[a], sent) \in Int /\ Delta(account[b], got) \in Int
  BY <1>0, DocFacts, DeltaType DEF AccountDocs
<1>12. PICK x \in Int, v \in Int : x = account[a].bal /\ v = x - Delta(account[a], sent)
  BY <1>11
<1>13. PICK y \in Int, w \in Int : y = account[b].bal /\ w = y - Delta(account[b], got)
  BY <1>11
<1>14. PICK puts : puts = PutIfNew(a, x, v) \o PutIfNew(b, y, w)
  OBVIOUS
<1>15. TwoOf(puts, a, x, v, b, y, w)
  BY <1>14, TwoPuts
<1>16. PICK s \in Steps : s = Bury({t, u}) /\ Targets(s) = {t, u} /\ s.do = "bury"
  BY BuryTypes
<1>17. PICK todo : todo = puts \o (IF own THEN <<s>> ELSE <<>>)
  OBVIOUS
<1>18. own => Ends(todo, puts, s)
  <2>1. Len(puts) \in {0, 1, 2} /\ puts \in Seq(Steps)
    BY <1>15 DEF TwoOf
  <2>2. \A n \in {0, 1, 2} : n <= 4
    OBVIOUS
  <2>3. Len(puts) <= 4
    BY <2>1, <2>2, Zenon
  <2> QED
    BY <1>17, <2>1, <2>3, EndsSo
<1>19. ~own => todo = puts
  BY <1>15, <1>17, ConcatEmptySeq DEF TwoOf
<1>20. /\ todo \in Seq(Steps)
       /\ own => todo[Len(todo)] = s /\ Len(todo) \in 1..5
       /\ \A i \in 1..Len(todo) :
             (own => i # Len(todo)) => todo[i].do = "put" /\ todo[i].acc \in {a, b}
       /\ own => \A z, o : After(todo, z, o) = Applied(s, z, o)
       /\ own => \A c, o : Final(todo, c, o) = Final(puts, c, o)
  <2>1. CASE own
    <3>1. /\ todo \in Seq(Steps) /\ todo[Len(todo)] = s /\ Len(todo) \in 1..5
          /\ \A i \in 1..Len(todo) : i # Len(todo) => i \in 1..Len(puts) /\ todo[i] = puts[i]
          /\ \A z, o : After(todo, z, o) = Applied(s, z, After(puts, z, o))
          /\ \A c, o : Final(todo, c, o) = Paid(s, c, Final(puts, c, o))
      BY <1>18, <2>1 DEF Ends
    <3>2. \A z, o : After(todo, z, o) = Applied(s, z, o)
      BY <1>15, <3>1 DEF TwoOf
    <3>3. \A c, o : Final(todo, c, o) = Final(puts, c, o)
      BY <1>16, <3>1 DEF Paid
    <3>4. \A i \in 1..Len(puts) : puts[i].do = "put" /\ puts[i].acc \in {a, b}
      BY <1>15 DEF TwoOf
    <3> QED
      BY <2>1, <3>1, <3>2, <3>3, <3>4
  <2>2. CASE ~own
    BY <1>15, <1>19, <2>2 DEF TwoOf
  <2> QED
    BY <2>1, <2>2
<1>21. PICK wrong \in BOOLEAN :
          wrong <=> \/ ~own \/ e.status = "draft" \/ (e.tied /\ e.kind = "in")
                    \/ <<e.amount, e.early, e.status>>
                       # <<tx[u].amount, tx[u].early, tx[u].status>>
  OBVIOUS
<1>22. GoesOn(r, "write", todo, {u, a, b}, {a, b}, wrong)
  <2>1. Planned(r, request[r], "write", todo, {u, a, b}, {a, b}, wrong)
        /\ UNCHANGED <<account, tx, doubted, starts>>
    BY <1>1, <1>2, <1>3, <1>6, <1>7, <1>8, <1>9, <1>10, <1>12, <1>13, <1>14, <1>16, <1>17,
       <1>21, ZenonT(40) DEF DeleteTransfer, PutIfMoved, Goes
  <2>2. "write" \in Writers
    BY DEF Writers
  <2>3. PICK holds \in SUBSET (Txs \cup Accounts), on \in SUBSET Accounts :
           holds = {u, a, b} /\ on = {a, b}
    OBVIOUS
  <2> QED
    BY <1>0, <1>20, <2>1, <2>2, <2>3, GoPlan
<1>23. PICK q \in RequestDocs :
          /\ request'[r] = q /\ q.op = "write" /\ q.todo = todo /\ q.rest = request[r].rest
          /\ q.holds = request[r].holds \cup {u, a, b} /\ q.on = {a, b} /\ q.wrong = wrong
          /\ ~q.wrote /\ q.stale = request[r].stale
  BY <1>22 DEF GoesOn
<1>24. ASSUME ~q.stale, ~q.wrong
       PROVE  /\ own /\ tx[t] = e /\ e.status = "posted" /\ t # u /\ a # b
              /\ out.kind = "out" /\ in.kind = "in" /\ {out, in} = {e, tx[u]}
              /\ e.amount = tx[u].amount /\ e.early = tx[u].early /\ e.status = tx[u].status
  <2>1. /\ own /\ tx[t] = e /\ e.status # "draft" /\ ~(e.tied /\ e.kind = "in")
        /\ e.amount = tx[u].amount /\ e.early = tx[u].early /\ e.status = tx[u].status
    BY <1>4, <1>21, <1>23, <1>24
  <2>2. e.status = "posted"
    BY <2>1 DEF Entries
  <2>3. /\ t # u /\ out.acc # in.acc
        /\ out.kind = "out" /\ in.kind = "in" /\ {out, in} = {e, tx[u]}
    BY <1>3, <1>5, <1>6, <1>7, <2>1, LegsTold
  <2> QED
    BY <1>8, <2>1, <2>2, <2>3
<1>25. own => Fits(q, s)
  <2>1. ~q.stale => \A p \in q.rest : p[1] \notin Targets(s)
    BY <1>4, <1>5, <1>16, <1>23
  <2>2. ~q.stale /\ ~q.wrong => \A z \in Targets(s) : tx[z].acc \in q.on
    BY <1>8, <1>16, <1>23, <1>24, SMTT(30)
  <2>3. Targets(s) \subseteq q.holds
    BY <1>4, <1>16, <1>23
  <2> QED
    BY <1>16, <2>1, <2>2, <2>3 DEF Fits
<1>26. ASSUME ~q.stale, ~q.wrong, NEW c \in q.on
       PROVE  Net(c, todo) = 0
  <2>1. PICK gone, gone2 : gone = Buried(e) /\ gone2 = Buried(tx[u])
    OBVIOUS
  <2>2. gone.state = "gone" /\ gone2.state = "gone"
    BY <1>5, <2>1 DEF Buried, Entries
  <2>3. After(todo, t, tx[t]) = gone /\ After(todo, u, tx[u]) = gone2
    BY <1>16, <1>20, <1>24, <1>26, <2>1, ZenonT(60) DEF Applied
  <2>4. \A z, o : z # t /\ z # u => After(todo, z, o) = o
    BY <1>16, <1>20, <1>24, <1>26 DEF Applied
  <2>5. Net(c, todo) = Final(todo, c, account[c].bal) - account[c].bal
                       - ((Share(c, account[c], gone) - Share(c, account[c], tx[t]))
                          + (Share(c, account[c], gone2) - Share(c, account[c], tx[u])))
    BY <1>0, <1>20, <1>23, <1>24, <1>26, <2>3, <2>4, TwoNet
  <2>6. Share(c, account[c], gone) = 0 /\ Share(c, account[c], gone2) = 0
    BY <2>2 DEF Share, Booked
  <2>7. /\ Share(c, account[c], tx[t]) \in Int /\ Share(c, account[c], tx[u]) \in Int
        /\ Share(c, account[c], out) \in Int /\ Share(c, account[c], in) \in Int
    BY <1>0, <1>23, DocFacts, ShareType
  <2>8. Share(c, account[c], tx[t]) + Share(c, account[c], tx[u])
        = Share(c, account[c], out) + Share(c, account[c], in)
    <3>1. (out = e /\ in = tx[u]) \/ (out = tx[u] /\ in = e)
      BY <1>6, <1>7
    <3> QED
      BY <1>24, <1>26, <2>7, <3>1
  <2>9. /\ out.state = "live" /\ out.status = "posted" /\ out.amount = e.amount
        /\ out.early = e.early /\ out.kind = sent.kind
        /\ in.state = "live" /\ in.status = "posted" /\ in.amount = e.amount
        /\ in.early = e.early /\ in.kind = got.kind
        /\ sent.amount = e.amount /\ sent.early = e.early
        /\ got.amount = e.amount /\ got.early = e.early
    <3>1. sent.kind = "out" /\ sent.amount = e.amount /\ sent.early = e.early
      BY <1>9 DEF Entries
    <3>2. got.kind = "in" /\ got.amount = e.amount /\ got.early = e.early
      BY <1>10 DEF Entries
    <3> QED
      BY <1>5, <1>24, <1>26, <3>1, <3>2
  <2>10. CASE c = a
    <3>1. Share(c, account[c], out) = Delta(account[a], sent)
      BY <1>8, <2>9, <2>10 DEF Share, Booked, Delta
    <3>2. Share(c, account[c], in) = 0
      BY <1>8, <1>24, <1>26, <2>10 DEF Share, Booked
    <3>3. Final(todo, c, account[c].bal) = v
      BY <1>12, <1>15, <1>20, <1>24, <1>26, <2>10 DEF TwoOf
    <3> QED
      BY <1>11, <1>12, <2>5, <2>6, <2>7, <2>8, <2>10, <3>1, <3>2, <3>3
  <2>11. CASE c = b
    <3>1. Share(c, account[c], in) = Delta(account[b], got)
      BY <1>8, <2>9, <2>11 DEF Share, Booked, Delta
    <3>2. Share(c, account[c], out) = 0
      BY <1>8, <1>24, <1>26, <2>11 DEF Share, Booked
    <3>3. Final(todo, c, account[c].bal) = w
      BY <1>13, <1>15, <1>20, <1>24, <1>26, <2>11 DEF TwoOf
    <3> QED
      BY <1>11, <1>13, <2>5, <2>6, <2>7, <2>8, <2>11, <3>1, <3>2, <3>3
  <2> QED
    BY <1>23, <2>10, <2>11
<1>27. PICK k : k = IF own THEN Len(todo) ELSE 0
  OBVIOUS
<1>28. Mixed(q, k)
  <2>1. q.holds \cap Accounts \subseteq q.on
    BY <1>4, <1>23, ApartAssumption
  <2>2. \A i \in 1..Len(q.todo) : i # k => q.todo[i].do = "put" /\ q.todo[i].acc \in q.on
    BY <1>20, <1>23, <1>27
  <2>3. k \in 1..Len(q.todo) => /\ Fits(q, q.todo[k]) /\ q.todo[k].do = "bury"
                                /\ ~(k < Len(q.todo))
    <3>1. CASE own
      <4>1. k = Len(q.todo) /\ q.todo[k] = s
        BY <1>20, <1>23, <1>27, <3>1
      <4>2. Len(q.todo) \in Nat
        BY <1>20, <1>23, LenProperties
      <4> QED
        BY <1>16, <1>25, <3>1, <4>1, <4>2
    <3>2. CASE ~own
      BY <1>27, <3>2
    <3> QED
      BY <3>1, <3>2
  <2>4. Len(q.todo) <= 5
    <3>1. CASE own
      BY <1>20, <1>23, <3>1
    <3>2. CASE ~own
      <4>1. Len(q.todo) \in {0, 1, 2}
        BY <1>15, <1>19, <1>23, <3>2 DEF TwoOf
      <4>2. \A n \in {0, 1, 2} : n <= 5
        OBVIOUS
      <4> QED
        BY <4>1, <4>2, Zenon
    <3> QED
      BY <3>1, <3>2
  <2>5. \A c \in q.on : ~q.stale /\ ~q.wrong => Net(c, q.todo) = 0
    BY <1>23, <1>26
  <2>6. \A p \in q.rest : /\ p[1] \in q.holds /\ Held(p[2], p[1])
                          /\ ~q.stale => tx[p[1]] = p[2]
    BY <1>4, <1>23
  <2> QED
    BY <1>23, <2>1, <2>2, <2>3, <2>4, <2>5, <2>6 DEF Mixed
<1> QED
  BY <1>0, <1>22, <1>23, <1>28, GoesOnMixed DEF GoesOn

-----------------------------------------------------------------------------
(* An import and a transfer. *)

(* The legs a request has made are told by its own record in the next     *)
(* state, too.                                                            *)
LEMMA NextMadeFacts ==
    ASSUME Typed', NEW r \in Requests
    PROVE  Made(r)' = IF request'[r].op = "transfer" THEN MadeOf(request'[r]) ELSE {}
PROOF
<1>1. PICK q \in RequestDocs : q = request'[r]
  BY DEF Typed
<1>2. DOMAIN q.todo = 1..Len(q.todo)
  <2>1. q.todo \in Seq(Steps)
    BY DEF RequestDocs
  <2> QED
    BY <2>1, LenProperties
<1>3. \A v : v \in {s.tx : s \in {x \in Range(q.todo) : x.do = "insert"}}
             <=> \E i \in 1..Len(q.todo) : q.todo[i].do = "insert" /\ q.todo[i].tx = v
  BY <1>2 DEF Range
<1>4. Made(r)' = IF q.op # "transfer" THEN {}
                 ELSE (q.holds \cap Txs)
                      \ {s.tx : s \in {x \in Range(q.todo) : x.do = "insert"}}
  BY <1>1 DEF Made
<1>5. (q.holds \cap Txs) \ {s.tx : s \in {x \in Range(q.todo) : x.do = "insert"}} = MadeOf(q)
  BY <1>3 DEF MadeOf
<1> QED
  BY <1>1, <1>4, <1>5

(* The rows of an import as they come out, with a balance put between them *)
(* or none.                                                                *)
RowsOf(todo, s1, s2, a, bal, first, second) ==
    /\ todo \in Seq(Steps) /\ Len(todo) \in {2, 3, 4} /\ todo[1] = s1
    /\ \/ /\ todo[2] = s2 /\ first = bal
          /\ \/ Len(todo) = 2 /\ second = first
             \/ Len(todo) = 3 /\ todo[3].do = "put" /\ todo[3].acc = a /\ todo[3].bal = second
       \/ /\ todo[2].do = "put" /\ todo[2].acc = a /\ todo[2].bal = first /\ todo[3] = s2
          /\ \/ Len(todo) = 3 /\ second = first
             \/ Len(todo) = 4 /\ todo[4].do = "put" /\ todo[4].acc = a /\ todo[4].bal = second
    /\ \A v, x : After(todo, v, x) = Applied(s2, v, Applied(s1, v, x))
    /\ Final(todo, a, bal) = second

(* The plan of two imported rows, with the balances put, comes out so. *)
LEMMA RowsSo ==
    ASSUME NEW s1 \in Steps, NEW s2 \in Steps, s1.do = "insert", s2.do = "insert",
           NEW a \in Accounts, NEW bal \in Int, NEW first \in Int, NEW second \in Int,
           NEW todo,
           todo = <<s1>> \o PutIfNew(a, bal, first) \o <<s2>> \o PutIfNew(a, first, second)
    PROVE  RowsOf(todo, s1, s2, a, bal, first, second)
PROOF
<1>1. PICK one \in Seq(Steps) : one = <<s1>>
  BY OneStep
<1>2. /\ Len(one) = 1 /\ one[1] = s1
      /\ \A u, x : After(one, u, x) = Applied(s1, u, x)
      /\ \A b, x : Final(one, b, x) = x
  <2>1. /\ Len(<<s1>>) = 1 /\ <<s1>>[1] = s1
        /\ \A u, x : After(<<s1>>, u, x) = Applied(s1, u, x)
        /\ \A b, x : Final(<<s1>>, b, x) = Paid(s1, b, x)
    BY OneStep
  <2> QED
    BY <1>1, <2>1 DEF Paid
<1>3. PICK two \in Seq(Steps) : two = one \o PutIfNew(a, bal, first)
  BY PutIfNewType
<1>4. MoreOf(two, one, a, bal, first)
  <2>1. Len(one) <= 4
    BY <1>2
  <2> QED
    BY <1>3, <2>1, MorePut
<1>5. /\ Len(two) \in {1, 2} /\ two[1] = s1
      /\ Len(two) = 2 => two[2].do = "put" /\ two[2].acc = a /\ two[2].bal = first
      /\ Len(two) = 1 => first = bal
      /\ \A u, x : After(two, u, x) = Applied(s1, u, x)
      /\ Final(two, a, bal) = first
  BY <1>2, <1>4 DEF MoreOf
<1>6. PICK three : three = two \o <<s2>>
  OBVIOUS
<1>7. Ends(three, two, s2)
  <2>1. Len(two) \in {1, 2}
    BY <1>5
  <2>2. \A n \in {1, 2} : n <= 4
    OBVIOUS
  <2>3. Len(two) <= 4
    BY <2>1, <2>2, Zenon
  <2> QED
    BY <1>6, <2>3, EndsSo
<1>8. /\ three \in Seq(Steps) /\ Len(three) = Len(two) + 1
      /\ \A i \in 1..Len(three) : i # Len(three) => i \in 1..Len(two) /\ three[i] = two[i]
      /\ three[Len(three)] = s2
      /\ \A u, x : After(three, u, x) = Applied(s2, u, Applied(s1, u, x))
      /\ Final(three, a, bal) = first
  BY <1>5, <1>7 DEF Ends, Paid
<1>9. /\ three[1] = s1
      /\ \/ Len(three) = 2 /\ three[2] = s2 /\ first = bal
         \/ /\ Len(three) = 3 /\ three[2].do = "put" /\ three[2].acc = a
            /\ three[2].bal = first /\ three[3] = s2
  <2>1. CASE Len(two) = 1
    BY <1>5, <1>8, <2>1
  <2>2. CASE Len(two) = 2
    BY <1>5, <1>8, <2>2
  <2> QED
    BY <1>5, <2>1, <2>2
<1>10. todo = three \o PutIfNew(a, first, second)
  BY <1>1, <1>3, <1>6
<1>11. MoreOf(todo, three, a, first, second)
  <2>1. Len(three) \in {2, 3}
    BY <1>9
  <2>2. \A n \in {2, 3} : n <= 4
    OBVIOUS
  <2>3. Len(three) <= 4
    BY <2>1, <2>2, Zenon
  <2> QED
    BY <1>8, <1>10, <2>3, MorePut
<1>12. /\ todo \in Seq(Steps) /\ Len(todo) \in {Len(three), Len(three) + 1}
       /\ \A i \in 1..Len(three) : todo[i] = three[i]
       /\ Len(todo) = Len(three) + 1 =>
             /\ todo[Len(todo)].do = "put" /\ todo[Len(todo)].acc = a
             /\ todo[Len(todo)].bal = second
       /\ Len(todo) = Len(three) => second = first
       /\ \A u, x : After(todo, u, x) = After(three, u, x)
       /\ Final(todo, a, bal) = second
  BY <1>8, <1>11 DEF MoreOf
<1>13. \A u, x : After(todo, u, x) = Applied(s2, u, Applied(s1, u, x))
  <2>1. ASSUME NEW u, NEW x PROVE After(todo, u, x) = Applied(s2, u, Applied(s1, u, x))
    <3>1. After(todo, u, x) = After(three, u, x)
      BY <1>12
    <3>2. After(three, u, x) = Applied(s2, u, Applied(s1, u, x))
      BY <1>8
    <3> QED
      BY <3>1, <3>2
  <2> QED
    BY <2>1
<1>14. Len(todo) \in {2, 3, 4} /\ todo[1] = s1
  <2>1. CASE Len(three) = 2
    BY <1>9, <1>12, <2>1
  <2>2. CASE Len(three) = 3
    BY <1>9, <1>12, <2>2
  <2> QED
    BY <1>9, <2>1, <2>2
<1>15. \/ /\ todo[2] = s2 /\ first = bal
          /\ \/ Len(todo) = 2 /\ second = first
             \/ Len(todo) = 3 /\ todo[3].do = "put" /\ todo[3].acc = a /\ todo[3].bal = second
       \/ /\ todo[2].do = "put" /\ todo[2].acc = a /\ todo[2].bal = first /\ todo[3] = s2
          /\ \/ Len(todo) = 3 /\ second = first
             \/ Len(todo) = 4 /\ todo[4].do = "put" /\ todo[4].acc = a /\ todo[4].bal = second
  <2>1. CASE Len(three) = 2
    <3>1. todo[2] = s2 /\ first = bal
      <4>1. three[2] = s2 /\ first = bal /\ 2 \in 1..Len(three)
        BY <1>9, <2>1
      <4> QED
        BY <1>12, <4>1
    <3>2. \/ Len(todo) = 2 /\ second = first
          \/ Len(todo) = 3 /\ todo[3].do = "put" /\ todo[3].acc = a /\ todo[3].bal = second
      BY <1>12, <2>1
    <3> QED
      BY <3>1, <3>2
  <2>2. CASE Len(three) = 3
    <3>1. /\ todo[2].do = "put" /\ todo[2].acc = a
          /\ todo[2].bal = first /\ todo[3] = s2
      <4>1. /\ three[2].do = "put" /\ three[2].acc = a
            /\ three[2].bal = first /\ three[3] = s2
            /\ 2 \in 1..Len(three) /\ 3 \in 1..Len(three)
        BY <1>9, <2>2
      <4> QED
        BY <1>12, <4>1
    <3>2. \/ Len(todo) = 3 /\ second = first
          \/ Len(todo) = 4 /\ todo[4].do = "put" /\ todo[4].acc = a /\ todo[4].bal = second
      BY <1>12, <2>2, SMTT(30)
    <3> QED
      BY <3>1, <3>2
  <2> QED
    BY <1>9, <2>1, <2>2
<1> QED
  BY <1>12, <1>13, <1>14, <1>15 DEF RowsOf

(* Rows imported one by one, each with its balance, keep the invariant. *)
LEMMA ImportKeeps ==
    ASSUME IInv, NEW r \in Requests, NEW t \in Txs, NEW u \in Txs,
           NEW e \in Plain, NEW f \in Plain, tx[t].state = "none", tx[u].state = "none",
           Import(r, t, u, e, f)
    PROVE  IInv'
PROOF
<1>1. Typed
  BY DEF IInv
<1>2. /\ e \in Entries /\ e.state = "live" /\ e.acc \in Accounts /\ ~IsLeg(e)
      /\ f \in Entries /\ f.state = "live" /\ ~IsLeg(f)
      /\ t # u /\ f.acc = e.acc /\ e.status = "posted" /\ f.status = "posted"
  BY PlainFacts DEF Plain, IsLeg, Import
<1>3. PICK a \in Accounts : a = e.acc
  BY <1>2
<1>4. /\ account[a] \in AccountDocs /\ account[a].bal \in Int
      /\ Delta(account[a], e) \in Int /\ Delta(account[a], f) \in Int
  BY <1>1, <1>2, DocFacts, DeltaType DEF AccountDocs
<1>5. PICK bal \in Int, first \in Int, second \in Int :
         /\ bal = account[a].bal /\ first = bal + Delta(account[a], e)
         /\ second = first + Delta(account[a], f)
  BY <1>4
<1>6. PICK s1 \in Steps : /\ s1 = Insert(t, e) /\ Targets(s1) = {t} /\ s1.do = "insert"
                          /\ s1.tx = t /\ s1.entry = e
  BY <1>2, InsertTypes
<1>7. PICK s2 \in Steps : /\ s2 = Insert(u, f) /\ Targets(s2) = {u} /\ s2.do = "insert"
                          /\ s2.tx = u /\ s2.entry = f
  BY <1>2, InsertTypes
<1>8. PICK plan : plan = <<s1>> \o PutIfNew(a, bal, first) \o <<s2>> \o PutIfNew(a, first, second)
  OBVIOUS
<1>9. RowsOf(plan, s1, s2, a, bal, first, second)
  BY <1>6, <1>7, <1>8, RowsSo
<1>10. PICK todo \in Seq(Steps) : todo = plan
  BY <1>9 DEF RowsOf
<1>11. /\ Len(todo) \in {2, 3, 4} /\ todo[1] = s1
       /\ \/ /\ todo[2] = s2 /\ first = bal
             /\ \/ Len(todo) = 2 /\ second = first
                \/ Len(todo) = 3 /\ todo[3].do = "put" /\ todo[3].acc = a /\ todo[3].bal = second
          \/ /\ todo[2].do = "put" /\ todo[2].acc = a /\ todo[2].bal = first /\ todo[3] = s2
             /\ \/ Len(todo) = 3 /\ second = first
                \/ Len(todo) = 4 /\ todo[4].do = "put" /\ todo[4].acc = a /\ todo[4].bal = second
  BY <1>9, <1>10 DEF RowsOf
<1>12. (\A v, x : After(todo, v, x) = Applied(s2, v, Applied(s1, v, x)))
       /\ Final(todo, a, bal) = second
  BY <1>9, <1>10 DEF RowsOf
<1>13. Begun(r, "import", todo, {a, t, u}, {a}, FALSE)
  <2>1. Planned(r, Idle, "import", todo, {a, t, u}, {a}, FALSE) /\ Begins(r)
    BY <1>3, <1>5, <1>6, <1>7, <1>8, <1>10 DEF Import, PutIfMoved
  <2>2. "import" \in Writers
    BY DEF Writers
  <2>3. PICK holds \in SUBSET (Txs \cup Accounts), on \in SUBSET Accounts :
           holds = {a, t, u} /\ on = {a}
    OBVIOUS
  <2> QED
    BY <2>1, <2>2, <2>3, BeginPlan
<1>14. PICK q \in RequestDocs :
           /\ request'[r] = q /\ q.op = "import" /\ q.todo = todo /\ q.rest = {}
           /\ q.holds = {a, t, u} /\ q.on = {a} /\ q.wrong = FALSE
           /\ ~q.wrote /\ ~q.moved /\ ~q.stale
  BY <1>13 DEF Begun
<1>15. \A i \in 1..Len(todo) :
          \/ todo[i] = s1 /\ i = 1
          \/ todo[i] = s2 /\ i # 1 /\ (\A j \in 1..Len(todo) : todo[j] = s2 => j = i)
          \/ todo[i].do = "put" /\ todo[i].acc = a
  <2>1. s1 # s2 /\ \A p : p.do = "put" => p # s2
    BY <1>2, <1>6, <1>7
  <2>2. CASE todo[2] = s2 /\ Len(todo) = 2
    BY <1>11, <2>1, <2>2
  <2>3. CASE todo[2] = s2 /\ Len(todo) = 3
    BY <1>7, <1>11, <2>1, <2>3
  <2>4. CASE todo[2].do = "put" /\ Len(todo) = 3
    BY <1>7, <1>11, <2>1, <2>4
  <2>5. CASE todo[2].do = "put" /\ Len(todo) = 4
    BY <1>7, <1>11, <2>1, <2>5
  <2> QED
    BY <1>7, <1>11, <2>2, <2>3, <2>4, <2>5
<1>16. /\ Share(a, account[a], e) = Delta(account[a], e)
       /\ Share(a, account[a], f) = Delta(account[a], f)
  BY <1>2, <1>3 DEF Share, Booked
<1>17. Net(a, todo) = 0
  <2>1. After(todo, t, tx[t]) = e /\ After(todo, u, tx[u]) = f
    BY <1>2, <1>6, <1>7, <1>12 DEF Applied
  <2>2. \A v, x : v # t /\ v # u => After(todo, v, x) = x
    BY <1>6, <1>7, <1>12 DEF Applied
  <2>3. Net(a, todo) = Final(todo, a, account[a].bal) - account[a].bal
                       - ((Share(a, account[a], e) - Share(a, account[a], tx[t]))
                          + (Share(a, account[a], f) - Share(a, account[a], tx[u])))
    BY <1>1, <1>2, <2>1, <2>2, TwoNet
  <2>4. Share(a, account[a], tx[t]) = 0 /\ Share(a, account[a], tx[u]) = 0
    BY DEF Share, Booked
  <2>5. Final(todo, a, account[a].bal) = second
    BY <1>5, <1>12
  <2>6. PICK d \in Int, g \in Int : d = Delta(account[a], e) /\ g = Delta(account[a], f)
    BY <1>4
  <2>7. first = bal + d /\ second = first + g /\ account[a].bal = bal
    BY <1>5, <2>6
  <2>8. Net(a, todo) = second - bal - ((d - 0) + (g - 0))
    BY <1>16, <2>3, <2>4, <2>5, <2>6, <2>7
  <2> QED
    BY <2>7, <2>8
<1>18. Fits(q, s1) /\ Fits(q, s2)
  <2>1. t \in q.holds /\ u \in q.holds /\ e.acc \in q.on /\ f.acc \in q.on
    BY <1>2, <1>3, <1>14
  <2> QED
    BY <1>2, <1>6, <1>7, <1>14, <2>1 DEF Fits
<1>19. \A i \in 1..Len(todo) : Fits(q, todo[i])
  <2>1. ASSUME NEW p, p.do = "put", p.acc = a PROVE Fits(q, p)
    BY <1>14, <2>1 DEF Fits, Targets
  <2> QED
    BY <1>15, <1>18, <2>1
<1>20. Plan(q)
  <2>1. q.holds \cap Accounts \subseteq q.on
    BY <1>14, ApartAssumption
  <2>2. \A i, j \in 1..Len(todo) :
           i # j /\ todo[i].do = "insert" /\ todo[j].do = "insert" => todo[i].tx # todo[j].tx
    BY <1>2, <1>6, <1>7, <1>15
  <2>3. Lasting(todo)
    BY <1>6, <1>7, <1>15 DEF Lasting
  <2>4. Len(todo) <= 5
    <3>1. Len(todo) \in {2, 3, 4}
      BY <1>11
    <3>2. \A n \in {2, 3, 4} : n <= 5
      OBVIOUS
    <3> QED
      BY <3>1, <3>2, Zenon
  <2>5. \A b \in q.on : Net(b, q.todo) = 0 /\ b \in q.holds
    BY <1>14, <1>17
  <2> QED
    BY <1>14, <1>19, <2>1, <2>2, <2>3, <2>4, <2>5 DEF Plan, Writers
<1>21. Rows(a, todo)
  <2>1. /\ first = bal => Share(a, account[a], e) = 0
        /\ second = first => Share(a, account[a], f) = 0
        /\ second - first = Share(a, account[a], f)
    <3>1. PICK d \in Int, g \in Int : d = Delta(account[a], e) /\ g = Delta(account[a], f)
      BY <1>4
    <3>2. first = bal + d /\ second = first + g
      BY <1>5, <3>1
    <3>3. (first = bal => d = 0) /\ (second = first => g = 0) /\ second - first = g
      BY <3>2
    <3> QED
      BY <1>16, <3>1, <3>3
  <2>2. CASE todo[2] = s2 /\ Len(todo) = 2
    BY <1>6, <1>7, <1>11, <2>1, <2>2 DEF Rows
  <2>3. CASE todo[2] = s2 /\ Len(todo) = 3
    BY <1>6, <1>7, <1>11, <2>1, <2>3 DEF Rows
  <2>4. CASE todo[2].do = "put" /\ Len(todo) = 3
    BY <1>6, <1>7, <1>11, <2>1, <2>4 DEF Rows
  <2>5. CASE todo[2].do = "put" /\ Len(todo) = 4
    BY <1>6, <1>7, <1>11, <2>1, <2>5 DEF Rows
  <2> QED
    BY <1>7, <1>11, <2>2, <2>3, <2>4, <2>5
<1>22. OkImport(r)'
  <2>1. account' = account
    BY <1>13 DEF Begun, Alone
  <2>2. Rows(a, todo)'
    BY <1>21, <2>1 DEF Rows
  <2>3. \A i \in 1..Len(todo) : todo[i].do \in {"insert", "put"}
    BY <1>6, <1>7, <1>15
  <2>4. a \in request'[r].holds /\ request'[r].on = {a} /\ request'[r].todo = todo
    BY <1>14
  <2> QED
    BY <2>2, <2>3, <2>4 DEF OkImport
<1>23. OkTransfer(r)' /\ Made(r)' = {}
  BY <1>14 DEF OkTransfer, Made
<1> QED
  BY <1>13, <1>14, <1>20, <1>22, <1>23, PlanKeeps DEF Begun

(* Three writes, and a balance put for each of two accounts. *)
LegsOf(todo, s1, s2, s3, a, x, v, b, y, w) ==
    /\ todo \in Seq(Steps) /\ Len(todo) \in {3, 4, 5}
    /\ todo[1] = s1 /\ todo[2] = s2 /\ todo[3] = s3
    /\ \A i \in 1..Len(todo) : i >= 4 => todo[i].do = "put" /\ todo[i].acc \in {a, b}
    /\ \A p, e : After(todo, p, e) = Applied(s3, p, Applied(s2, p, Applied(s1, p, e)))
    /\ Final(todo, a, x) = v /\ Final(todo, b, y) = w

(* A plan of three writes. *)
LEMMA ThreeSteps ==
    ASSUME NEW s1 \in Steps, NEW s2 \in Steps, NEW s3 \in Steps
    PROVE  /\ <<s1, s2, s3>> \in Seq(Steps) /\ Len(<<s1, s2, s3>>) = 3
           /\ <<s1, s2, s3>>[1] = s1 /\ <<s1, s2, s3>>[2] = s2 /\ <<s1, s2, s3>>[3] = s3
           /\ \A p, e : After(<<s1, s2, s3>>, p, e)
                        = Applied(s3, p, Applied(s2, p, Applied(s1, p, e)))
           /\ \A c, bal : Final(<<s1, s2, s3>>, c, bal)
                          = Paid(s3, c, Paid(s2, c, Paid(s1, c, bal)))
PROOF
<1>1. <<s1, s2, s3>> \in Seq(Steps)
  OBVIOUS
<1>2. PICK todo \in Seq(Steps) : todo = <<s1, s2, s3>>
  BY <1>1, Zenon
<1>3. Len(todo) = 3 /\ todo[1] = s1 /\ todo[2] = s2 /\ todo[3] = s3
  BY <1>2
<1>4. ASSUME NEW p, NEW e
      PROVE  After(todo, p, e) = Applied(s3, p, Applied(s2, p, Applied(s1, p, e)))
  BY <1>3 DEF After, AppliedAt
<1>5. ASSUME NEW c, NEW bal
      PROVE  Final(todo, c, bal) = Paid(s3, c, Paid(s2, c, Paid(s1, c, bal)))
  BY <1>3 DEF Final, PaidAt
<1> QED
  BY <1>2, <1>3, <1>4, <1>5

(* A transfer's plan, two legs and the link and up to two balances, comes *)
(* out so.                                                                *)
LEMMA LegsOfSo ==
    ASSUME NEW s1 \in Steps, NEW s2 \in Steps, NEW s3 \in Steps,
           s1.do # "put", s2.do # "put", s3.do # "put",
           NEW a \in Accounts, NEW b \in Accounts, a # b,
           NEW x \in Int, NEW v \in Int, NEW y \in Int, NEW w \in Int, NEW todo,
           todo = <<s1, s2, s3>> \o PutIfNew(a, x, v) \o PutIfNew(b, y, w)
    PROVE  LegsOf(todo, s1, s2, s3, a, x, v, b, y, w)
PROOF
<1>1. PICK three \in Seq(Steps) : three = <<s1, s2, s3>>
  <2>1. <<s1, s2, s3>> \in Seq(Steps)
    OBVIOUS
  <2> QED
    BY <2>1, Zenon
<1>2. /\ Len(three) = 3 /\ three[1] = s1 /\ three[2] = s2 /\ three[3] = s3
      /\ \A p, e : After(three, p, e) = Applied(s3, p, Applied(s2, p, Applied(s1, p, e)))
      /\ \A c, bal : Final(three, c, bal) = bal
  BY <1>1, ThreeSteps DEF Paid
<1>3. PICK four \in Seq(Steps) : four = three \o PutIfNew(a, x, v)
  <2>1. three \o PutIfNew(a, x, v) \in Seq(Steps)
    BY PutIfNewType
  <2> QED
    BY <2>1, Zenon
<1>4. MoreOf(four, three, a, x, v)
  <2>1. Len(three) <= 4
    BY <1>2
  <2> QED
    BY <1>3, <2>1, MorePut
<1>5. /\ Len(four) \in {3, 4} /\ four[1] = s1 /\ four[2] = s2 /\ four[3] = s3
      /\ Len(four) = 4 => four[4].do = "put" /\ four[4].acc = a
      /\ Final(four, a, x) = v /\ Final(four, b, y) = y
  <2>1. /\ Len(four) \in {3, 4}
        /\ \A i \in 1..3 : four[i] = three[i]
        /\ Len(four) = 4 => four[4].do = "put" /\ four[4].acc = a
    BY <1>2, <1>4, SMTT(30) DEF MoreOf
  <2>2. Final(four, a, x) = v /\ Final(four, b, y) = y
    BY <1>2, <1>4 DEF MoreOf
  <2> QED
    BY <1>2, <2>1, <2>2
<1>6. \A p, e : After(four, p, e) = After(three, p, e)
  BY <1>4 DEF MoreOf
<1>7. todo = four \o PutIfNew(b, y, w)
  BY <1>1, <1>3
<1>8. MoreOf(todo, four, b, y, w)
  <2>1. Len(four) \in {3, 4}
    BY <1>5
  <2>2. \A n \in {3, 4} : n <= 4
    OBVIOUS
  <2>3. Len(four) <= 4
    BY <2>1, <2>2, Zenon
  <2> QED
    BY <1>7, <2>3, MorePut
<1>9. /\ todo \in Seq(Steps) /\ Len(todo) \in {Len(four), Len(four) + 1}
      /\ \A i \in 1..Len(four) : todo[i] = four[i]
      /\ Len(todo) = Len(four) + 1 => todo[Len(todo)].do = "put" /\ todo[Len(todo)].acc = b
  BY <1>8 DEF MoreOf
<1>10. Final(todo, a, x) = v /\ Final(todo, b, y) = w
  <2>1. /\ \A c, bal : c # b => Final(todo, c, bal) = Final(four, c, bal)
        /\ \A bal : Final(four, b, bal) = y => Final(todo, b, bal) = w
    BY <1>8, Zenon DEF MoreOf
  <2> QED
    BY <1>5, <2>1, Zenon
<1>11. \A p, e : After(todo, p, e) = Applied(s3, p, Applied(s2, p, Applied(s1, p, e)))
  <2>1. \A p, e : After(todo, p, e) = After(four, p, e)
    BY <1>8, Zenon DEF MoreOf
  <2>2. ASSUME NEW p, NEW e
        PROVE  After(todo, p, e) = Applied(s3, p, Applied(s2, p, Applied(s1, p, e)))
    <3>1. After(todo, p, e) = After(four, p, e) /\ After(four, p, e) = After(three, p, e)
      BY <1>6, <2>1, Zenon
    <3>2. After(three, p, e) = Applied(s3, p, Applied(s2, p, Applied(s1, p, e)))
      BY <1>2, Zenon
    <3> QED
      BY <3>1, <3>2, Zenon
  <2> QED
    BY <2>2
<1>12. /\ Len(todo) \in {3, 4, 5} /\ todo[1] = s1 /\ todo[2] = s2 /\ todo[3] = s3
       /\ \A i \in 1..Len(todo) : i >= 4 => todo[i].do = "put" /\ todo[i].acc \in {a, b}
  <2>1. CASE Len(four) = 3
    BY <1>5, <1>9, <2>1
  <2>2. CASE Len(four) = 4
    <3>1. todo[1] = s1 /\ todo[2] = s2 /\ todo[3] = s3 /\ todo[4] = four[4]
      BY <1>5, <1>9, <2>2, SMTT(30)
    <3>2. Len(todo) = 4 \/ (Len(todo) = 5 /\ todo[5].do = "put" /\ todo[5].acc = b)
      <4>1. Len(four) + 1 = 5
        BY <2>2
      <4>2. Len(todo) \in {4, 5}
        BY <1>9, <2>2, <4>1
      <4>3. Len(todo) = 5 => todo[5].do = "put" /\ todo[5].acc = b
        BY <1>9, <4>1, Zenon
      <4> QED
        BY <4>2, <4>3
    <3>3. four[4].do = "put" /\ four[4].acc = a
      BY <1>5, <2>2
    <3>4. CASE Len(todo) = 4
      BY <3>1, <3>3, <3>4
    <3>5. CASE Len(todo) = 5
      BY <3>1, <3>2, <3>3, <3>5, SMTT(40)
    <3> QED
      BY <3>2, <3>4, <3>5
  <2> QED
    BY <1>5, <2>1, <2>2
<1> QED
  BY <1>9, <1>10, <1>11, <1>12 DEF LegsOf

(* A transfer that arrives keeps the invariant. *)
LEMMA TransferKeeps ==
    ASSUME IInv, NEW r \in Requests, NEW t \in Txs, NEW u \in Txs, NEW e \in Sent,
           NEW b \in Accounts, NEW tied \in BOOLEAN,
           tx[t].state = "none", tx[u].state = "none", Transfer(r, t, u, e, b, tied)
    PROVE  IInv'
PROOF
<1>1. Typed
  BY DEF IInv
<1>2. /\ e \in Entries /\ e.state = "live" /\ e.pair = NoTx /\ e.acc \in Accounts
      /\ e.kind = "out" /\ e.recurring = FALSE
  <2>1. e.recurring \in BOOLEAN
    BY PlainFacts DEF Sent, Entries
  <2> QED
    BY <2>1, PlainFacts DEF Sent
<1>3. PICK a \in Accounts : a = e.acc
  BY <1>2
<1>4. PICK outbound \in Entries : outbound = [e EXCEPT !.kind = "out", !.tied = tied]
  BY <1>2 DEF Entries, Kinds
<1>5. /\ outbound.state = "live" /\ outbound.pair = NoTx /\ outbound.acc = a
      /\ outbound.kind = "out" /\ outbound.recurring = FALSE /\ outbound.status = e.status
  BY <1>2, <1>3, <1>4 DEF Entries
<1>6. PICK inbound \in Entries : inbound = [outbound EXCEPT !.kind = "in", !.acc = b, !.pair = t]
  BY DEF Entries, Kinds
<1>7. /\ inbound.state = "live" /\ inbound.pair = t /\ inbound.acc = b
      /\ inbound.kind = "in" /\ inbound.recurring = FALSE /\ inbound.status = e.status
  BY <1>5, <1>6 DEF Entries
<1>8. PICK back \in Entries : back = [outbound EXCEPT !.pair = u]
  BY DEF Entries
<1>9. /\ back.state = "live" /\ back.pair = u /\ back.acc = a /\ back.kind = "out"
      /\ back.recurring = FALSE /\ back.status = e.status
      /\ back.amount = outbound.amount /\ back.early = outbound.early
  BY <1>5, <1>8 DEF Entries
<1>10. a # b /\ t # u
  BY <1>3 DEF Transfer
<1>11. /\ account[a] \in AccountDocs /\ account[b] \in AccountDocs
       /\ account[a].bal \in Int /\ account[b].bal \in Int
       /\ Delta(account[a], outbound) \in Int /\ Delta(account[b], inbound) \in Int
  BY <1>1, DocFacts, DeltaType DEF AccountDocs
<1>12. PICK x \in Int, d \in Int, v \in Int :
          x = account[a].bal /\ d = Delta(account[a], outbound) /\ v = x + d
  BY <1>11
<1>13. PICK y \in Int, g \in Int, w \in Int :
          y = account[b].bal /\ g = Delta(account[b], inbound) /\ w = y + g
  BY <1>11
<1>14. PICK s1 \in Steps : /\ s1 = Insert(t, outbound) /\ Targets(s1) = {t}
                           /\ s1.do = "insert" /\ s1.tx = t /\ s1.entry = outbound
  BY InsertTypes
<1>15. PICK s2 \in Steps : /\ s2 = Insert(u, inbound) /\ Targets(s2) = {u}
                           /\ s2.do = "insert" /\ s2.tx = u /\ s2.entry = inbound
  BY InsertTypes
<1>16. PICK s3 \in Steps : /\ s3 = Change(t, outbound, back) /\ Targets(s3) = {t}
                           /\ s3.do = "change" /\ s3.tx = t /\ s3.from = outbound /\ s3.to = back
  BY ChangeTypes
<1>17. PICK plan : plan = <<s1, s2, s3>> \o PutIfNew(a, x, v) \o PutIfNew(b, y, w)
  OBVIOUS
<1>18. LegsOf(plan, s1, s2, s3, a, x, v, b, y, w)
  <2>1. s1.do # "put" /\ s2.do # "put" /\ s3.do # "put"
    BY <1>14, <1>15, <1>16
  <2> QED
    BY <1>10, <1>17, <2>1, LegsOfSo
<1>19. PICK todo \in Seq(Steps) : todo = plan
  BY <1>18 DEF LegsOf
<1>20. /\ Len(todo) \in {3, 4, 5}
       /\ todo[1] = s1 /\ todo[2] = s2 /\ todo[3] = s3
       /\ \A i \in 1..Len(todo) : i >= 4 => todo[i].do = "put" /\ todo[i].acc \in {a, b}
  BY <1>18, <1>19 DEF LegsOf
<1>21. /\ \A p, z : After(todo, p, z) = Applied(s3, p, Applied(s2, p, Applied(s1, p, z)))
       /\ Final(todo, a, x) = v /\ Final(todo, b, y) = w
  BY <1>18, <1>19 DEF LegsOf
<1>22. PICK wrong \in BOOLEAN : wrong = (e.status = "draft")
  OBVIOUS
<1>23. Begun(r, "transfer", todo, {a, b, t, u}, {a, b}, wrong)
  <2>1. Planned(r, Idle, "transfer", todo, {a, b, t, u}, {a, b}, wrong) /\ Begins(r)
    BY <1>3, <1>4, <1>6, <1>8, <1>12, <1>13, <1>14, <1>15, <1>16, <1>17, <1>19, <1>22
       DEF Transfer, PutIfMoved
  <2>2. "transfer" \in Writers
    BY DEF Writers
  <2>3. PICK holds \in SUBSET (Txs \cup Accounts), on \in SUBSET Accounts :
           holds = {a, b, t, u} /\ on = {a, b}
    OBVIOUS
  <2> QED
    BY <2>1, <2>2, <2>3, BeginPlan
<1>24. PICK q \in RequestDocs :
           /\ request'[r] = q /\ q.op = "transfer" /\ q.todo = todo /\ q.rest = {}
           /\ q.holds = {a, b, t, u} /\ q.on = {a, b} /\ q.wrong = wrong
           /\ ~q.wrote /\ ~q.moved /\ ~q.stale
  BY <1>23 DEF Begun
<1>25. \A i \in 1..Len(todo) :
          \/ todo[i] = s1 /\ i = 1
          \/ todo[i] = s2 /\ i = 2
          \/ todo[i] = s3 /\ i = 3
          \/ i >= 4 /\ todo[i].do = "put" /\ todo[i].acc \in {a, b}
  BY <1>20
<1>26. /\ After(todo, t, tx[t]) = back /\ After(todo, u, tx[u]) = inbound
       /\ \A p, z : p # t /\ p # u => After(todo, p, z) = z
  <2>1. After(todo, t, tx[t]) = Merged(outbound, outbound, back)
    BY <1>10, <1>14, <1>15, <1>16, <1>21 DEF Applied
  <2>2. Merged(outbound, outbound, back) = back
    BY MergedSame
  <2>3. After(todo, u, tx[u]) = inbound
    BY <1>10, <1>14, <1>15, <1>16, <1>21 DEF Applied
  <2>4. \A p, z : p # t /\ p # u => After(todo, p, z) = z
    BY <1>14, <1>15, <1>16, <1>21 DEF Applied
  <2> QED
    BY <2>1, <2>2, <2>3, <2>4
<1>27. ASSUME ~q.wrong, NEW c \in q.on PROVE Net(c, todo) = 0
  <2>0. e.status = "posted"
    BY <1>2, <1>22, <1>24, <1>27 DEF Entries
  <2>1. c \in Accounts /\ (c = a \/ c = b)
    BY <1>24
  <2>2. Net(c, todo) = Final(todo, c, account[c].bal) - account[c].bal
                       - ((Share(c, account[c], back) - Share(c, account[c], tx[t]))
                          + (Share(c, account[c], inbound) - Share(c, account[c], tx[u])))
    BY <1>1, <1>10, <1>26, <2>1, TwoNet
  <2>3. Share(c, account[c], tx[t]) = 0 /\ Share(c, account[c], tx[u]) = 0
    BY DEF Share, Booked
  <2>4. CASE c = a
    <3>1. Share(c, account[c], back) = d /\ Share(c, account[c], inbound) = 0
      BY <1>7, <1>9, <1>5, <1>10, <1>12, <2>0, <2>4 DEF Share, Booked, Delta
    <3>2. Final(todo, c, account[c].bal) = v /\ account[c].bal = x
      BY <1>12, <1>21, <2>4
    <3>3. Net(c, todo) = v - x - ((d - 0) + (0 - 0))
      BY <2>2, <2>3, <3>1, <3>2
    <3> QED
      BY <1>12, <3>3
  <2>5. CASE c = b
    <3>1. Share(c, account[c], back) = 0 /\ Share(c, account[c], inbound) = g
      BY <1>7, <1>9, <1>10, <1>13, <2>0, <2>5 DEF Share, Booked, Delta
    <3>2. Final(todo, c, account[c].bal) = w /\ account[c].bal = y
      BY <1>13, <1>21, <2>5
    <3>3. Net(c, todo) = w - y - ((0 - 0) + (g - 0))
      BY <2>2, <2>3, <3>1, <3>2
    <3> QED
      BY <1>13, <3>3
  <2> QED
    BY <2>1, <2>4, <2>5
<1>28. Fits(q, s1) /\ Fits(q, s2) /\ Fits(q, s3)
  <2>1. t \in q.holds /\ u \in q.holds /\ a \in q.on /\ b \in q.on
    BY <1>24
  <2>2. Fits(q, s1)
    BY <1>5, <1>14, <1>24, <2>1 DEF Fits
  <2>3. Fits(q, s2)
    BY <1>7, <1>15, <1>24, <2>1 DEF Fits
  <2>4. Fits(q, s3)
    BY <1>5, <1>9, <1>16, <1>24, <2>1, ZenonT(40) DEF Fits
  <2> QED
    BY <2>2, <2>3, <2>4
<1>29. \A i \in 1..Len(todo) : Fits(q, todo[i])
  <2>1. ASSUME NEW p, p.do = "put", p.acc \in {a, b} PROVE Fits(q, p)
    BY <1>24, <2>1 DEF Fits, Targets
  <2> QED
    BY <1>25, <1>28, <2>1
<1>30. Plan(q)
  <2>1. q.holds \cap Accounts \subseteq q.on
    BY <1>24, ApartAssumption
  <2>2. \A i, j \in 1..Len(todo) :
           i # j /\ todo[i].do = "insert" /\ todo[j].do = "insert" => todo[i].tx # todo[j].tx
    BY <1>10, <1>14, <1>15, <1>16, <1>25
  <2>3. Lasting(todo)
    BY <1>5, <1>9, <1>14, <1>15, <1>16, <1>25 DEF Lasting
  <2>4. Len(todo) <= 5
    <3>1. Len(todo) \in {3, 4, 5}
      BY <1>20
    <3>2. \A n \in {3, 4, 5} : n <= 5
      OBVIOUS
    <3> QED
      BY <3>1, <3>2, Zenon
  <2>5. \A c \in q.on : ~q.wrong => Net(c, q.todo) = 0
    BY <1>24, <1>27
  <2>6. q.on \subseteq q.holds
    BY <1>24
  <2> QED
    BY <1>24, <1>29, <2>1, <2>2, <2>3, <2>4, <2>5, <2>6 DEF Plan, Writers
<1>31. account' = account /\ tx' = tx /\ Typed'
  BY <1>23 DEF Begun, Alone
<1>32. Made(r)' = {}
  <2>1. Made(r)' = MadeOf(q)
    BY <1>24, <1>31, NextMadeFacts
  <2>2. \A p \in q.holds \cap Txs : p = t \/ p = u
    BY <1>24, ApartAssumption
  <2>3. 1 \in 1..Len(todo) /\ 2 \in 1..Len(todo)
    BY <1>20
  <2>4. /\ todo[1].do = "insert" /\ todo[1].tx = t
        /\ todo[2].do = "insert" /\ todo[2].tx = u
    BY <1>14, <1>15, <1>20
  <2> QED
    BY <1>24, <2>1, <2>2, <2>3, <2>4 DEF MadeOf
<1>33. OkTransfer(r)'
  <2>1. FirstLeg(r, t, u, a, b)'
    <3>1. PutsFrom(todo, 4)
      BY <1>20 DEF PutsFrom
    <3>2. IsOut(todo[1], t, a) /\ IsIn(todo[2], t, u, b) /\ IsBack(todo[3], t, u, a)
      <4>1. IsOut(s1, t, a)
        BY <1>5, <1>14 DEF IsOut
      <4>2. IsIn(s2, t, u, b)
        BY <1>7, <1>15 DEF IsIn
      <4>3. IsBack(s3, t, u, a)
        BY <1>5, <1>8, <1>16, Zenon DEF IsBack
      <4> QED
        BY <1>20, <4>1, <4>2, <4>3
    <3> QED
      BY <1>24, <3>1, <3>2 DEF FirstLeg
  <2>2. q.holds \cap Txs = {t, u}
    BY <1>24, ApartAssumption
  <2>3. ASSUME ~q.wrong, NEW c \in q.on
        PROVE  Final(todo, c, account[c].bal) - account[c].bal = SumFunction(Takes(c, r)')
    <3>1. Takes(c, r)' = Gains(account[c], c, tx, todo)
      <4>1. \A p \in Txs : Left(r, p)' = tx[p]
        BY <1>31, <1>32 DEF Left
      <4> QED
        BY <1>24, <1>31, <4>1 DEF Takes, Gains
    <3>2. NetOf(account[c], c, tx, todo) = 0
      BY <1>27, <2>3 DEF Net
    <3>3. /\ account[c] \in AccountDocs /\ account[c].bal \in Int /\ tx \in [Txs -> Entries]
          /\ c \in Accounts
      BY <1>1, <1>24, DocFacts DEF AccountDocs
    <3>4. Gains(account[c], c, tx, todo) \in [Txs -> Int]
      BY <3>3, GainsType
    <3>5. SumFunction(Gains(account[c], c, tx, todo)) \in Int
      BY <3>4, SumType, FiniteAssumption
    <3>6. Final(todo, c, account[c].bal) \in Int
      BY <3>3, FinalType
    <3>7. PICK f \in Int, s \in Int, z \in Int :
             /\ f = Final(todo, c, account[c].bal) /\ z = account[c].bal
             /\ s = SumFunction(Gains(account[c], c, tx, todo))
      BY <3>3, <3>5, <3>6
    <3>8. f - z - s = 0
      BY <3>2, <3>7 DEF NetOf
    <3>9. f - z = s
      BY <3>8
    <3> QED
      BY <3>1, <3>7, <3>9
  <2>4. Clean(r)' => ~q.wrong
    BY <1>24 DEF Clean
  <2>5. (t # u /\ a # b /\ q.holds \cap Txs = {t, u} /\ q.on = {a, b})
    BY <1>10, <1>24, <2>2
  <2>6. \E p, z \in Txs : \E c, k \in Accounts :
           /\ p # z /\ c # k /\ q.holds \cap Txs = {p, z} /\ q.on = {c, k}
           /\ Stage(r, p, z, c, k)'
    <3>1. Stage(r, t, u, a, b)'
      BY <2>1 DEF Stage
    <3> QED
      BY <2>5, <3>1
  <2> QED
    BY <1>24, <1>31, <2>3, <2>4, <2>6 DEF OkTransfer
<1>34. OkImport(r)'
  BY <1>24 DEF OkImport
<1> QED
  BY <1>23, <1>24, <1>30, <1>32, <1>33, <1>34, PlanKeeps DEF Begun

-----------------------------------------------------------------------------
(* The requests that load; archiving and the crash. *)

(* A request owes nothing to an account it is not on. *)
LEMMA OffTerm ==
    ASSUME Typed, NEW q \in Requests, Req(q), NEW b \in Accounts, b \notin request[q].on
    PROVE  Term(q, b) = 0
PROOF
<1>1. CASE Clean(q) /\ request[q].op # "recompute"
  <2>1. CASE request[q].todo = <<>>
    <3>1. NetOf(account[b], b, tx, <<>>) = 0
      BY NetNil, DocFacts
    <3> QED
      BY <2>1, <3>1 DEF Term, Net
  <2>2. CASE request[q].todo # <<>>
    <3>1. request[q].op \in Writers
      BY <1>1, <2>2, TodoOf
    <3>2. b \notin request[q].holds
      BY DEF Req
    <3>3. Neutral(q, b)
      BY <1>1, <3>1, <3>2 DEF Req, OkWriter
    <3>4. Net(b, request[q].todo) = 0
      BY <3>3, NeutralNet
    <3> QED
      BY <3>4 DEF Term
  <2> QED
    BY <2>1, <2>2
<1>2. CASE ~(Clean(q) /\ request[q].op # "recompute")
  BY <1>2 DEF Term
<1> QED
  BY <1>1, <1>2

(* The legs stay in order when no transaction is written and r made none.  *)
LEMMA LegsStay ==
    ASSUME Typed, Typed', Legs, NEW r, tx' = tx,
           NEW written, \A q \in Requests \ {r} : Beside(q, written),
           r \in Requests => Made(r)' = {}
    PROVE  Legs'
PROOF
<1>1. \A q \in Requests \ {r} : Made(q)' = Made(q)
  BY BesideMade
<1>2. \A q \in Requests : Made(q)' \subseteq Made(q)
  BY <1>1
<1>3. WellPaired(tx)'
  BY DEF Legs
<1>4. \A x, q \in Requests : x # q => Made(x)' \cap Made(q)' = {}
  BY <1>2 DEF Legs
<1>5. ASSUME NEW q \in Requests, NEW t \in Txs,
             tx'[t].state # "none", Paired(tx'[t]), tx'[t].pair \in Made(q)'
      PROVE  t \in Made(q)'
  <2>1. Made(q)' = Made(q)
    BY <1>1, <1>5
  <2> QED
    BY <1>5, <2>1 DEF Legs
<1> QED
  BY <1>3, <1>4, <1>5 DEF Legs

(* What has loaded what it needs and has nothing to write yet. *)
Bare(q) ==
    /\ q.op \in {"read", "edit"} \cup Loads /\ q.todo = <<>> /\ ~q.wrong
    /\ q.holds \cap Accounts \subseteq q.on

(* Such a request satisfies all that is asked of a request, and has made  *)
(* no leg.                                                                *)
LEMMA BareReq ==
    ASSUME Typed', NEW r \in Requests, Bare(request'[r]),
           OkOpened(r)', OkAccount(r)', OkRest(r)'
    PROVE  Req(r)' /\ Made(r)' = {}
PROOF
<1>1. PICK q \in RequestDocs : q = request'[r]
  BY DEF Typed
<1>2. q.op \notin Writers \cup {"recompute", "none"}
  BY <1>1 DEF Bare, Writers, Loads
<1>3. OkRecompute(r)' /\ OkWriter(r)' /\ OkTransfer(r)' /\ OkImport(r)' /\ Made(r)' = {}
  BY <1>1, <1>2 DEF OkRecompute, OkWriter, OkTransfer, OkImport, Made, Writers
<1>4. ASSUME NEW a \in Accounts PROVE Net(a, q.todo)' = 0
  <2>1. account'[a] \in AccountDocs /\ tx' \in [Txs -> Entries]
    BY DEF Typed, TypeOK
  <2>2. NetOf(account'[a], a, tx', <<>>) = 0
    BY <2>1, NetNil
  <2> QED
    BY <1>1, <2>2 DEF Net, Bare
<1> QED
  BY <1>1, <1>2, <1>3, <1>4 DEF Req, Bare

(* A request that arrives and loads keeps the invariant. *)
LEMMA BareKeeps ==
    ASSUME IInv, NEW r \in Requests, Begins(r), NEW q \in RequestDocs,
           request' = [request EXCEPT ![r] = q], Bare(q), ~q.wrote,
           OkOpened(r)', OkAccount(r)', OkRest(r)'
    PROVE  IInv'
PROOF
<1>1. Typed /\ request[r] = Idle
  BY DEF IInv, Req, Begins
<1>2. /\ request' \in [Requests -> RequestDocs] /\ request'[r] = q
      /\ \A x \in Requests \ {r} : request'[x] = request[x]
  BY <1>1 DEF Typed
<1>3. \A x \in Requests : request'[x].on \subseteq Accounts
  BY <1>2 DEF RequestDocs
<1>4. starts' \in 0..MaxStarts
  BY <1>1, StartsAssumption DEF Begins, Typed, TypeOK
<1>5. Typed'
  BY <1>1, <1>2, <1>3, <1>4 DEF Typed, TypeOK, Begins
<1>6. Alone(r)
  BY <1>2 DEF Alone, Begins
<1>7. Req(r)' /\ Made(r)' = {}
  BY <1>2, <1>5, BareReq
<1>8. ~Torn(r)' /\ ~Doomed(r) /\ request[r].todo = <<>>
  BY <1>1, <1>2 DEF Torn, Doomed, Idle
<1> QED
  BY <1>5, <1>6, <1>7, <1>8, AloneKeeps

(* A transaction that is live is held as it is. *)
LEMMA LiveHeld ==
    ASSUME IInv, NEW t \in Txs, tx[t].state = "live", tx' = tx
    PROVE  Held(tx[t], t)'
PROOF
<1>1. tx[t].recurring => ~IsLeg(tx[t])
  BY DEF IInv, Legs, WellPaired
<1> QED
  BY <1>1 DEF Held, Firm

(* A request that loads its transaction keeps the invariant. *)
LEMMA OpenKeeps ==
    ASSUME IInv, NEW r \in Requests, NEW t \in Txs, NEW op \in Loads, Open(r, t, op)
    PROVE  IInv'
PROOF
<1>1. Begins(r) /\ tx[t].state = "live" /\ tx' = tx
  BY DEF Open, Begins
<1>2. PICK e \in Entries : e = tx[t]
  BY DocFacts DEF IInv
<1>3. PICK old \in RequestDocs : old = Idle
  BY IdleType
<1>4. PICK q : q = [old EXCEPT !.op = op, !.tx = t, !.loaded = {e}, !.holds = {t},
                               !.on = {e.acc}]
  OBVIOUS
<1>5. e.acc \in Accounts
  BY DEF Entries
<1>6. /\ q \in RequestDocs /\ q.op = op /\ q.tx = t /\ q.loaded = {e} /\ q.holds = {t}
      /\ q.on = {e.acc} /\ q.todo = old.todo /\ q.rest = old.rest /\ q.wrote = old.wrote
      /\ q.wrong = old.wrong /\ q.stale = old.stale
  BY <1>4, <1>5 DEF RequestDocs
<1>7. q.todo = <<>> /\ q.rest = {} /\ ~q.wrote /\ ~q.wrong /\ ~q.stale
  BY <1>3, <1>6 DEF Idle
<1>8. request' = [request EXCEPT ![r] = q]
  BY <1>2, <1>3, <1>4 DEF Open
<1>9. request'[r] = q
  BY <1>8 DEF IInv, Typed
<1>10. Held(e, t)'
  BY <1>1, <1>2, LiveHeld
<1>11. OkOpened(r)'
  BY <1>1, <1>2, <1>6, <1>7, <1>9, <1>10 DEF OkOpened
<1>12. OkAccount(r)' /\ OkRest(r)'
  BY <1>6, <1>7, <1>9 DEF OkAccount, OkRest, Loads
<1>13. Bare(q)
  BY <1>6, <1>7, ApartAssumption DEF Bare
<1> QED
  BY <1>1, <1>6, <1>7, <1>8, <1>11, <1>12, <1>13, BareKeeps

(* A bulk delete that loads its transactions keeps the invariant. *)
LEMMA OpenBulkKeeps ==
    ASSUME IInv, NEW r \in Requests, NEW t \in Txs, NEW u \in Txs, OpenBulk(r, t, u)
    PROVE  IInv'
PROOF
<1>1. /\ Begins(r) /\ tx[t].state = "live" /\ tx[u].state = "live" /\ tx' = tx /\ t # u
      /\ tx[t].pair # u \/ ~IsLeg(tx[t])
  BY DEF OpenBulk, Begins
<1>2. PICK e \in Entries, f \in Entries : e = tx[t] /\ f = tx[u]
  BY DocFacts DEF IInv
<1>3. PICK old \in RequestDocs : old = Idle
  BY IdleType
<1>4. PICK q : q = [old EXCEPT !.op = "delete", !.tx = t, !.loaded = {e}, !.rest = {<<u, f>>},
                               !.holds = {t, u}, !.on = {e.acc}]
  OBVIOUS
<1>5. e.acc \in Accounts
  BY DEF Entries
<1>6. /\ q \in RequestDocs /\ q.op = "delete" /\ q.tx = t /\ q.loaded = {e} /\ q.holds = {t, u}
      /\ q.on = {e.acc} /\ q.todo = old.todo /\ q.rest = {<<u, f>>} /\ q.wrote = old.wrote
      /\ q.wrong = old.wrong /\ q.stale = old.stale
  <2>1. PICK rest \in SUBSET (Txs \X Entries) : rest = {<<u, f>>}
    <3>1. <<u, f>> \in Txs \X Entries
      OBVIOUS
    <3>2. {<<u, f>>} \in SUBSET (Txs \X Entries)
      BY <3>1
    <3> QED
      BY <3>2, Zenon
  <2>2. PICK holds \in SUBSET (Txs \cup Accounts) : holds = {t, u}
    OBVIOUS
  <2>3. q = [old EXCEPT !.op = "delete", !.tx = t, !.loaded = {e}, !.rest = rest,
                        !.holds = holds, !.on = {e.acc}]
    BY <1>4, <2>1, <2>2
  <2>4. /\ q \in RequestDocs /\ q.op = "delete" /\ q.tx = t /\ q.loaded = {e} /\ q.holds = holds
        /\ q.on = {e.acc} /\ q.todo = old.todo /\ q.rest = rest /\ q.wrote = old.wrote
        /\ q.wrong = old.wrong /\ q.stale = old.stale
    BY <1>5, <2>3 DEF RequestDocs, Loads
  <2> QED
    BY <2>1, <2>2, <2>4
<1>7. q.todo = <<>> /\ ~q.wrote /\ ~q.wrong /\ ~q.stale
  BY <1>3, <1>6 DEF Idle
<1>8. request' = [request EXCEPT ![r] = q]
  BY <1>2, <1>3, <1>4 DEF OpenBulk
<1>9. request'[r] = q
  BY <1>8 DEF IInv, Typed
<1>10. Held(e, t)' /\ Held(f, u)'
  BY <1>1, <1>2, LiveHeld
<1>11. OkOpened(r)'
  <2>1. \A p \in q.rest : p[1] # t /\ (Paired(e) => p[1] # e.pair)
    BY <1>1, <1>2, <1>6 DEF Paired
  <2>2. t \in q.holds /\ q.holds \subseteq Txs
    BY <1>6
  <2> QED
    BY <1>1, <1>2, <1>6, <1>7, <1>9, <1>10, <2>1, <2>2 DEF OkOpened
<1>12. OkAccount(r)' /\ OkRest(r)'
  <2>1. \A p \in q.rest : p[1] \in q.holds /\ Held(p[2], p[1])' /\ tx'[p[1]] = p[2]
    BY <1>1, <1>2, <1>6, <1>10
  <2> QED
    BY <1>6, <1>7, <1>9, <2>1 DEF OkAccount, OkRest, Loads
<1>13. Bare(q)
  BY <1>6, <1>7, ApartAssumption DEF Bare, Loads
<1> QED
  BY <1>1, <1>6, <1>7, <1>8, <1>11, <1>12, <1>13, BareKeeps

(* A request that loads its account keeps the invariant. *)
LEMMA OpenAccountKeeps ==
    ASSUME IInv, NEW r \in Requests, NEW a \in Accounts, NEW doc \in AccountDocs,
           NEW op \in {"read", "edit"}, OpenAccount(r, a, doc, op),
           doc.bal = account[a].bal, op = "read" => doc = account[a]
    PROVE  IInv'
PROOF
<1>1. Begins(r) /\ account' = account
  BY DEF OpenAccount, Begins
<1>3. PICK old \in RequestDocs : old = Idle
  BY IdleType
<1>4. PICK q : q = [old EXCEPT !.op = op, !.loaded = {doc}, !.holds = {a}, !.on = {a}]
  OBVIOUS
<1>6. /\ q \in RequestDocs /\ q.op = op /\ q.loaded = {doc} /\ q.holds = {a}
      /\ q.on = {a} /\ q.todo = old.todo /\ q.rest = old.rest /\ q.wrote = old.wrote
      /\ q.wrong = old.wrong /\ q.stale = old.stale
  BY <1>4 DEF RequestDocs
<1>7. q.todo = <<>> /\ q.rest = {} /\ ~q.wrote /\ ~q.wrong /\ ~q.stale
  BY <1>3, <1>6 DEF Idle
<1>8. request' = [request EXCEPT ![r] = q]
  BY <1>3, <1>4 DEF OpenAccount
<1>9. request'[r] = q
  BY <1>8 DEF IInv, Typed
<1>10. OkAccount(r)'
  BY <1>1, <1>6, <1>7, <1>9 DEF OkAccount
<1>11. OkOpened(r)' /\ OkRest(r)'
  BY <1>6, <1>7, <1>9 DEF OkOpened, OkRest, Loads
<1>12. Bare(q)
  BY <1>6, <1>7 DEF Bare
<1> QED
  BY <1>1, <1>6, <1>7, <1>8, <1>10, <1>11, <1>12, BareKeeps

(* A recompute that has loaded its account keeps the invariant. *)
LEMMA RecomputeKeeps ==
    ASSUME IInv, NEW r \in Requests, NEW a \in Accounts, Recompute(r, a)
    PROVE  IInv'
PROOF
<1>1. PICK doc \in AccountDocs : doc = account[a]
  BY DocFacts DEF IInv
<1> QED
  BY <1>1, OpenAccountKeeps DEF Recompute

(* An account edit that has loaded its account keeps the invariant. *)
LEMMA EditAccountKeeps ==
    ASSUME IInv, NEW r \in Requests, NEW a \in Accounts,
           NEW doc \in AccountEdits(account[a]), EditAccount(r, a, doc)
    PROVE  IInv'
PROOF
<1>1. PICK was \in AccountDocs : was = account[a]
  BY DocFacts DEF IInv
<1>2. PICK changes : changes = [opening |-> {0, 1}, cut |-> BOOLEAN, type |-> {"asset", "credit"}]
  OBVIOUS
<1>3. PICK f \in {"opening", "cut", "type"} : \E v \in changes[f] : doc = [was EXCEPT ![f] = v]
  BY <1>1, <1>2 DEF AccountEdits, Edited
<1>4. PICK v \in changes[f] : doc = [was EXCEPT ![f] = v]
  BY <1>3
<1>5. doc \in AccountDocs /\ doc.bal = was.bal
  <2>1. CASE f = "opening"
    BY <1>2, <1>4, <2>1 DEF AccountDocs
  <2>2. CASE f = "cut"
    BY <1>2, <1>4, <2>2 DEF AccountDocs
  <2>3. CASE f = "type"
    BY <1>2, <1>4, <2>3 DEF AccountDocs
  <2> QED
    BY <2>1, <2>2, <2>3
<1>6. OpenAccount(r, a, doc, "edit")
  BY DEF EditAccount
<1> QED
  BY <1>1, <1>5, <1>6, OpenAccountKeeps

(* A request that has ended owes nothing. *)
LEMMA IdleSo ==
    ASSUME Typed', NEW r \in Requests, request'[r] = Idle
    PROVE  /\ Req(r)' /\ Made(r)' = {} /\ ~Doomed(r)'
           /\ \A b \in Accounts : Term(r, b)' = 0
PROOF
<1>1. /\ Idle.op = "none" /\ Idle.todo = <<>> /\ Idle.holds = {} /\ Idle.on = {}
      /\ Idle.rest = {} /\ ~Idle.wrote /\ ~Idle.wrong
  BY DEF Idle
<1>2. /\ OkOpened(r)' /\ OkAccount(r)' /\ OkRecompute(r)' /\ OkWriter(r)' /\ OkRest(r)'
      /\ OkTransfer(r)' /\ OkImport(r)' /\ Made(r)' = {}
  BY <1>1 DEF OkOpened, OkAccount, OkRecompute, OkWriter, OkRest, OkTransfer, OkImport, Made,
     Writers, Loads
<1>3. ASSUME NEW a \in Accounts PROVE Net(a, <<>>)' = 0
  <2>1. account'[a] \in AccountDocs /\ tx' \in [Txs -> Entries]
    BY DEF Typed, TypeOK
  <2>2. NetOf(account'[a], a, tx', <<>>) = 0
    BY <2>1, NetNil
  <2> QED
    BY <2>2 DEF Net
<1>4. ~Doomed(r)'
  BY <1>1 DEF Doomed, Torn
<1>5. ASSUME NEW a \in Accounts PROVE Term(r, a)' = 0
  BY <1>1, <1>3 DEF Term, Net
<1>6. \A a \in Accounts : Net(a, request[r].todo)' = 0
  BY <1>1, <1>3 DEF Net
<1>7. Req(r)'
  BY <1>1, <1>2, <1>6 DEF Req
<1> QED
  BY <1>2, <1>4, <1>5, <1>7

(* Nobody writes to b. *)
LEMMA StandsStill ==
    ASSUME IInv, Typed', NEW written, \A q \in Requests : Beside(q, written),
           NEW b \in Accounts, Drift(b)' = Drift(b), b \in doubted => b \in doubted'
    PROVE  Settled(b)'
PROOF
<1>1. \A q \in Requests :
         /\ Doomed(q) /\ b \in request[q].on => Doomed(q)' /\ b \in request'[q].on
         /\ Term(q, b)' = Term(q, b) \/ (Doomed(q)' /\ b \in request'[q].on)
  BY BesideTerm DEF IInv
<1>2. Settled(b)
  BY DEF IInv
<1>3. CASE b \in doubted
  BY <1>3 DEF Settled
<1>4. CASE \E q \in Requests : Doomed(q)' /\ b \in request'[q].on
  BY <1>4 DEF Settled
<1>5. CASE b \notin doubted /\ ~(\E q \in Requests : Doomed(q)' /\ b \in request'[q].on)
  <2>1. \A q \in Requests : Term(q, b)' = Term(q, b)
    BY <1>1, <1>5
  <2>2. Drift(b) + SumFunction([q \in Requests |-> Term(q, b)]) = 0
    BY <1>1, <1>2, <1>5 DEF Settled
  <2>3. [q \in Requests |-> Term(q, b)'] = [q \in Requests |-> Term(q, b)]
    BY <2>1
  <2>4. Drift(b)' + SumFunction([q \in Requests |-> Term(q, b)']) = 0
    BY <2>2, <2>3
  <2> QED
    BY <2>4 DEF Settled
<1> QED
  BY <1>3, <1>4, <1>5

(* An account archived keeps the invariant. *)
LEMMA ArchiveKeeps ==
    ASSUME IInv, NEW a \in Accounts, Archive(a)
    PROVE  IInv'
PROOF
<1>1. Typed /\ account \in [Accounts -> AccountDocs]
  BY DocFacts DEF IInv
<1>2. /\ account' \in [Accounts -> AccountDocs]
      /\ \A b \in Accounts : Money(account'[b]) = Money(account[b])
  <2>1. account' = [account EXCEPT ![a].archived = TRUE]
    BY DEF Archive
  <2>2. \A b \in Accounts : account[b] \in AccountDocs
    BY <1>1
  <2>3. [account[a] EXCEPT !.archived = TRUE] \in AccountDocs
    BY <2>2 DEF AccountDocs
  <2>4. account' \in [Accounts -> AccountDocs]
    BY <1>1, <2>1, <2>3
  <2>5. \A b \in Accounts : /\ account'[b].bal = account[b].bal
                            /\ account'[b].opening = account[b].opening
                            /\ account'[b].cut = account[b].cut
                            /\ account'[b].type = account[b].type
    BY <1>1, <2>1, <2>2 DEF AccountDocs
  <2> QED
    BY <2>4, <2>5 DEF Money
<1>3. UNCHANGED <<tx, request, doubted, starts>>
  BY DEF Archive
<1>4. Typed'
  BY <1>1, <1>2, <1>3 DEF Typed, TypeOK
<1>5. ASSUME NEW q \in Requests PROVE Beside(q, {})
  <2>1. request[q] \in RequestDocs /\ request'[q] = request[q]
    BY <1>1, <1>3, RequestFacts
  <2>2. request'[q] = [request[q] EXCEPT !.stale = @ \/ request[q].holds \cap {} # {}]
    <3>1. (request[q].stale \/ request[q].holds \cap {} # {}) = request[q].stale
      BY <2>1 DEF RequestDocs
    <3>2. [request[q] EXCEPT !.stale = request[q].stale] = request[q]
      BY <2>1 DEF RequestDocs
    <3> QED
      BY <2>1, <3>1, <3>2
  <2> QED
    BY <1>2, <1>3, <2>2 DEF Beside, Firm, Leg
<1>6. \A q \in Requests : Req(q)'
  BY <1>1, <1>4, <1>5, BesideReq DEF IInv
<1>7. Legs'
  <2>1. \A q \in Requests : Made(q)' = Made(q)
    BY <1>1, <1>4, <1>5, BesideMade
  <2> QED
    BY <1>3, <2>1 DEF Legs, IInv
<1>8. ASSUME NEW b \in Accounts PROVE Settled(b)'
  <2>1. Drift(b)' = Drift(b)
    <3>1. /\ account[b] \in AccountDocs /\ account'[b] \in AccountDocs /\ tx \in [Txs -> Entries]
      BY <1>1, <1>2, DocFacts
    <3>2. /\ account'[b].bal = account[b].bal /\ account'[b].opening = account[b].opening
          /\ account'[b].cut = account[b].cut /\ account'[b].type = account[b].type
      BY <1>2 DEF Money
    <3>3. \A t \in Txs : Share(b, account'[b], tx[t]) = Share(b, account[b], tx[t])
      BY <3>2 DEF Share, Delta
    <3>4. DriftOf(account'[b], b, tx) = DriftOf(account[b], b, tx)
      BY <3>1, <3>2, <3>3, DriftSame
    <3> QED
      BY <1>3, <3>4 DEF Drift
  <2> QED
    BY <1>3, <1>4, <1>5, <2>1, StandsStill
<1> QED
  BY <1>4, <1>6, <1>7, <1>8 DEF IInv

(* The server stopped in the middle of its requests keeps the invariant:  *)
(* the accounts of the torn ones are doubted.                             *)
LEMMA CrashKeeps ==
    ASSUME IInv, Crash
    PROVE  IInv'
PROOF
<1>1. Typed
  BY DEF IInv
<1>2. /\ account' = account /\ tx' = tx /\ starts' = starts
      /\ \A q \in Requests : request'[q] = Idle
      /\ request' \in [Requests -> RequestDocs]
      /\ doubted' = doubted \cup UNION {request[r].on : r \in {q \in Requests : Torn(q)}}
  BY IdleType DEF Crash
<1>3. \A q \in Requests : request[q].on \subseteq Accounts
  BY <1>1, RequestFacts
<1>4. doubted' \subseteq Accounts
  BY <1>1, <1>2, <1>3 DEF Typed, TypeOK
<1>5. Typed'
  BY <1>1, <1>2, <1>4 DEF Typed, TypeOK, Idle
<1>6. \A q \in Requests : /\ Req(q)' /\ Made(q)' = {}
                          /\ \A b \in Accounts : Term(q, b)' = 0
  BY <1>2, <1>5, IdleSo
<1>7. Legs'
  BY <1>2, <1>6 DEF Legs, IInv
<1>8. ASSUME NEW b \in Accounts PROVE Settled(b)'
  <2>1. CASE b \in doubted'
    BY <2>1 DEF Settled
  <2>2. CASE b \notin doubted'
    <3>1. b \notin doubted /\ \A q \in Requests : Torn(q) => b \notin request[q].on
      BY <1>2, <2>2
    <3>2. ASSUME NEW q \in Requests PROVE Term(q, b) = 0
      <4>1. CASE b \notin request[q].on
        BY <1>1, <4>1, OffTerm DEF IInv
      <4>2. CASE ~Torn(q)
        BY <4>2 DEF IInv, Req, Term
      <4> QED
        BY <3>1, <4>1, <4>2
    <3>3. Drift(b) + SumFunction([q \in Requests |-> Term(q, b)]) = 0
      BY <3>1 DEF IInv, Settled, Doomed
    <3>4. [q \in Requests |-> Term(q, b)'] = [q \in Requests |-> Term(q, b)]
      BY <1>6, <3>2
    <3>5. Drift(b)' = Drift(b)
      BY <1>2 DEF Drift
    <3>6. Drift(b)' + SumFunction([q \in Requests |-> Term(q, b)']) = 0
      BY <3>3, <3>4, <3>5
    <3> QED
      BY <3>6 DEF Settled
  <2> QED
    BY <2>1, <2>2
<1> QED
  BY <1>5, <1>6, <1>7, <1>8 DEF IInv

-----------------------------------------------------------------------------
(* The recompute and the account edit. *)

(* A leg read back is a transaction in the same state and account. *)
LEMMA AsReadType ==
    ASSUME NEW e \in Entries
    PROVE  AsRead(e) \in Entries /\ AsRead(e).state = e.state
           /\ AsRead(e).status = e.status /\ AsRead(e).acc = e.acc
PROOF
  BY DEF AsRead, Entries, Kinds

(* What a recompute adds up is a number. *)
LEMMA RecomputedType ==
    ASSUME Typed, NEW a, NEW doc \in AccountDocs
    PROVE  Recomputed(a, doc) \in Int
PROOF
<1>1. PICK f : f = [t \in Txs |-> Share(a, doc, AsRead(tx[t]))]
  OBVIOUS
<1>2. f \in [Txs -> Int]
  BY <1>1, DocFacts, AsReadType, ShareType
<1>3. SumFunction(f) \in Int
  BY <1>2, SumType, FiniteAssumption
<1>4. doc.opening \in Int
  BY DEF AccountDocs
<1> QED
  BY <1>1, <1>3, <1>4 DEF Recomputed

(* Adding up a copy that is up to date gives the truth, unless a leg is    *)
(* misread.                                                                *)
LEMMA RecomputedTruth ==
    ASSUME Typed, NEW a \in Accounts, NEW doc, Money(doc) = Money(account[a]),
           ~ \E t \in Txs : Booked(tx[t], a) /\ AsRead(tx[t]) # tx[t]
    PROVE  Recomputed(a, doc) = Truth(a)
PROOF
<1>1. doc.opening = account[a].opening /\ doc.cut = account[a].cut /\ doc.type = account[a].type
  BY DEF Money
<1>2. ASSUME NEW t \in Txs
      PROVE  Share(a, doc, AsRead(tx[t])) = Share(a, account[a], tx[t])
  <2>1. CASE Booked(tx[t], a)
    BY <1>1, <2>1 DEF Share, Delta
  <2>2. CASE ~Booked(tx[t], a)
    <3>1. ~Booked(AsRead(tx[t]), a)
      BY <2>2, DocFacts, AsReadType DEF Booked
    <3> QED
      BY <2>2, <3>1 DEF Share
  <2> QED
    BY <2>1, <2>2
<1>3. [t \in Txs |-> Share(a, doc, AsRead(tx[t]))] = [t \in Txs |-> Share(a, account[a], tx[t])]
  BY <1>2
<1> QED
  BY <1>1, <1>3 DEF Recomputed, Truth

(* A balance is the truth when it is off by nothing. *)
LEMMA TruthDrift ==
    ASSUME Typed, NEW a \in Accounts
    PROVE  /\ Truth(a) \in Int
           /\ account[a].bal = Truth(a) <=> Drift(a) = 0
PROOF
<1>1. account[a] \in AccountDocs /\ tx \in [Txs -> Entries]
  BY DocFacts
<1>2. account[a].bal \in Int /\ account[a].opening \in Int
  BY <1>1 DEF AccountDocs
<1>3. Shares(account[a], a, tx) \in [Txs -> Int]
  BY <1>1, SharesType
<1>4. PICK s \in Int : s = SumFunction(Shares(account[a], a, tx))
  BY <1>3, SumType, FiniteAssumption
<1>5. Truth(a) = account[a].opening + s
  BY <1>4 DEF Truth, Shares
<1>6. Drift(a) = account[a].bal - account[a].opening - s
  BY <1>4 DEF Drift, DriftOf
<1>7. PICK x \in Int, y \in Int : x = account[a].bal /\ y = account[a].opening
  BY <1>2
<1>8. Truth(a) = y + s /\ Drift(a) = x - y - s
  BY <1>5, <1>6, <1>7
<1> QED
  BY <1>7, <1>8

(* What a request that has loaded its account knows of it. *)
LEMMA AccountFacts ==
    ASSUME IInv, NEW r \in Requests, NEW op \in {"read", "edit"}, Opened(r, op)
    PROVE  \E a \in Accounts : \E doc \in AccountDocs :
              /\ request[r].op = op /\ request[r].todo = <<>> /\ ~request[r].wrong
              /\ request[r].rest = {} /\ (op = "edit" => ~request[r].wrote)
              /\ a = (CHOOSE x \in request[r].on : TRUE) /\ doc = Copy(r)
              /\ request[r].on = {a} /\ request[r].holds = {a} /\ request[r].loaded = {doc}
              /\ ~request[r].stale => doc.bal = account[a].bal
              /\ ~request[r].stale /\ op = "read" => Money(doc) = Money(account[a])
PROOF
<1>1. OkAccount(r) /\ request[r].op = op
  BY DEF IInv, Req, Opened
<1>2. PICK a \in Accounts : \E doc \in AccountDocs :
            /\ request[r].on = {a} /\ request[r].holds = {a} /\ request[r].loaded = {doc}
            /\ ~request[r].stale => doc.bal = account[a].bal
            /\ ~request[r].stale /\ request[r].op = "read" => Money(doc) = Money(account[a])
  BY <1>1 DEF OkAccount
<1>3. PICK doc \in AccountDocs :
            /\ request[r].on = {a} /\ request[r].holds = {a} /\ request[r].loaded = {doc}
            /\ ~request[r].stale => doc.bal = account[a].bal
            /\ ~request[r].stale /\ request[r].op = "read" => Money(doc) = Money(account[a])
  BY <1>2
<1>4. a = CHOOSE x \in request[r].on : TRUE
  BY <1>3
<1>5. doc = Copy(r)
  BY <1>3 DEF Copy
<1>6. /\ request[r].todo = <<>> /\ ~request[r].wrong
      /\ request[r].rest = {} /\ (op = "edit" => ~request[r].wrote)
  BY <1>1 DEF OkAccount
<1> QED
  BY <1>1, <1>3, <1>4, <1>5, <1>6

(* A recompute that has read its transactions and added them up keeps the *)
(* invariant.                                                             *)
LEMMA ReadKeeps ==
    ASSUME IInv, NEW r \in Requests, Read(r)
    PROVE  IInv'
PROOF
<1>1. Typed /\ Opened(r, "read") /\ UNCHANGED <<account, tx, starts>>
  BY DEF IInv, Read
<1>2. PICK a \in Accounts : \E doc \in AccountDocs :
         /\ request[r].op = "read" /\ request[r].todo = <<>> /\ ~request[r].wrong
         /\ request[r].rest = {}
         /\ a = (CHOOSE x \in request[r].on : TRUE) /\ doc = Copy(r)
         /\ request[r].on = {a} /\ request[r].holds = {a} /\ request[r].loaded = {doc}
         /\ ~request[r].stale => doc.bal = account[a].bal
         /\ ~request[r].stale => Money(doc) = Money(account[a])
  BY <1>1, AccountFacts
<1>3. PICK doc \in AccountDocs :
         /\ request[r].op = "read" /\ request[r].todo = <<>> /\ ~request[r].wrong
         /\ request[r].rest = {}
         /\ a = (CHOOSE x \in request[r].on : TRUE) /\ doc = Copy(r)
         /\ request[r].on = {a} /\ request[r].holds = {a} /\ request[r].loaded = {doc}
         /\ ~request[r].stale => doc.bal = account[a].bal
         /\ ~request[r].stale => Money(doc) = Money(account[a])
  BY <1>2
<1>4. PICK sum \in Int : sum = Recomputed(a, doc)
  BY <1>1, RecomputedType
<1>5. PICK misread \in BOOLEAN :
         misread = (\E t \in Txs : Booked(tx[t], a) /\ AsRead(tx[t]) # tx[t])
  OBVIOUS
<1>6. ~request[r].stale /\ ~misread => sum = Truth(a)
  BY <1>1, <1>3, <1>4, <1>5, RecomputedTruth
<1>7. CASE sum # doc.bal
  <2>1. /\ Planned(r, request[r], "recompute", <<Put(a, sum)>>, Txs, {a}, misread)
        /\ UNCHANGED doubted
    BY <1>3, <1>4, <1>5, <1>7 DEF Read
  <2>2. PICK s \in Steps : /\ s = Put(a, sum) /\ s.do = "put" /\ s.acc = a /\ s.bal = sum
    BY PutTypes
  <2>3. PICK todo \in Seq(Steps) : todo = <<s>> /\ Len(todo) = 1 /\ todo[1] = s
    BY OneStep
  <2>4. PICK old \in RequestDocs : old = request[r]
    BY <1>1, RequestFacts
  <2>5. PICK q : q = [old EXCEPT !.op = "recompute", !.todo = todo, !.holds = old.holds \cup Txs,
                                 !.on = {a}, !.wrong = misread, !.loaded = {}]
    OBVIOUS
  <2>6. /\ q \in RequestDocs /\ q.op = "recompute" /\ q.todo = todo
        /\ q.holds = old.holds \cup Txs /\ q.on = {a} /\ q.wrong = misread
        /\ q.wrote = old.wrote /\ q.stale = old.stale /\ q.rest = old.rest
    BY <2>5 DEF RequestDocs
  <2>7. request' = [request EXCEPT ![r] = q]
    BY <2>1, <2>2, <2>3, <2>4, <2>5 DEF Planned
  <2>8. /\ request' \in [Requests -> RequestDocs] /\ request'[r] = q
        /\ \A x \in Requests \ {r} : request'[x] = request[x]
    BY <1>1, <2>6, <2>7 DEF Typed
  <2>9. \A x \in Requests : request'[x].on \subseteq Accounts
    BY <2>8 DEF RequestDocs
  <2>10. Typed'
    BY <1>1, <2>1, <2>8, <2>9 DEF Typed, TypeOK
  <2>11. Alone(r)
    BY <1>1, <2>1, <2>8 DEF Alone
  <2>12. Truth(a)' = Truth(a)
    BY <1>1 DEF Truth
  <2>13. OkRecompute(r)'
    <3>1. q.holds = Txs \cup {a} /\ q.rest = {}
      BY <1>3, <2>4, <2>6
    <3>2. Clean(r)' => q.todo[1].bal = Truth(a)'
      BY <1>6, <2>2, <2>3, <2>4, <2>6, <2>8, <2>12 DEF Clean
    <3>3. Len(q.todo) = 1 /\ q.todo[1].do = "put" /\ q.todo[1].acc = a
      BY <2>2, <2>3, <2>6
    <3> QED
      BY <2>6, <2>8, <3>1, <3>2, <3>3 DEF OkRecompute
  <2>14. Req(r)' /\ Made(r)' = {}
    <3>1. /\ OkOpened(r)' /\ OkAccount(r)' /\ OkWriter(r)' /\ OkTransfer(r)' /\ OkImport(r)'
          /\ Made(r)' = {}
      BY <2>6, <2>8 DEF OkOpened, OkAccount, OkWriter, OkTransfer, OkImport, Made, Writers, Loads
    <3>2. OkRest(r)'
      BY <1>3, <2>4, <2>6, <2>8 DEF OkRest
    <3>3. q.holds \cap Accounts \subseteq q.on
      BY <1>3, <2>4, <2>6, ApartAssumption
    <3> QED
      BY <2>6, <2>8, <2>13, <3>1, <3>2, <3>3 DEF Req
  <2>15. \A b \in Accounts : Doomed(r) /\ b \in request[r].on
                             => Doomed(r)' /\ b \in request'[r].on
    BY <1>3, <2>4, <2>6, <2>8 DEF Doomed, Torn
  <2> QED
    BY <1>3, <2>6, <2>8, <2>10, <2>11, <2>14, <2>15, AloneKeeps
<1>8. CASE sum = doc.bal
  <2>1. /\ request' = [request EXCEPT ![r] = Idle]
        /\ doubted' = IF \/ misread \/ request[r].stale
                         \/ \E q \in Requests \ {r} : a \in request[q].on
                      THEN doubted \cup {a} ELSE doubted \ {a}
    BY <1>3, <1>4, <1>5, <1>8 DEF Read
  <2>2. /\ request' \in [Requests -> RequestDocs] /\ request'[r] = Idle
        /\ \A x \in Requests \ {r} : request'[x] = request[x]
    BY <1>1, <2>1, IdleType DEF Typed
  <2>3. \A x \in Requests : request'[x].on \subseteq Accounts
    BY <2>2 DEF RequestDocs
  <2>4. doubted' \subseteq Accounts
    BY <1>1, <2>1, DocFacts
  <2>5. Typed'
    BY <1>1, <2>2, <2>3, <2>4 DEF Typed, TypeOK
  <2>6. ASSUME NEW q \in Requests \ {r} PROVE Beside(q, {})
    <3>1. request[q] \in RequestDocs /\ request'[q] = request[q]
      BY <1>1, <2>2, RequestFacts
    <3>2. request'[q] = [request[q] EXCEPT !.stale = @ \/ request[q].holds \cap {} # {}]
      <4>1. (request[q].stale \/ request[q].holds \cap {} # {}) = request[q].stale
        BY <3>1 DEF RequestDocs
      <4>2. [request[q] EXCEPT !.stale = request[q].stale] = request[q]
        BY <3>1 DEF RequestDocs
      <4> QED
        BY <3>1, <4>1, <4>2
    <3>3. \A b \in request[q].on : b \in doubted => b \in doubted'
      BY <2>1
    <3> QED
      BY <1>1, <3>2, <3>3 DEF Beside, Firm, Leg
  <2>7. /\ Req(r)' /\ Made(r)' = {} /\ ~Doomed(r)' /\ \A b \in Accounts : Term(r, b)' = 0
    BY <2>2, <2>5, IdleSo
  <2>8. \A q \in Requests : Req(q)'
    BY <1>1, <2>5, <2>6, <2>7, BesideReq DEF IInv
  <2>9. Legs'
    BY <1>1, <2>5, <2>6, <2>7, LegsStay DEF IInv
  <2>10. \A b \in Accounts : Drift(b)' = Drift(b)
    BY <1>1 DEF Drift
  <2>11. ASSUME NEW b \in Accounts, b # a PROVE Settled(b)'
    <3>1. \A q \in Requests \ {r} :
             /\ Doomed(q) /\ b \in request[q].on => Doomed(q)' /\ b \in request'[q].on
             /\ Term(q, b)' = Term(q, b) \/ (Doomed(q)' /\ b \in request'[q].on)
      BY <1>1, <2>5, <2>6, BesideTerm DEF IInv
    <3>2. b \notin request[r].on
      BY <1>3, <2>11
    <3>3. Term(r, b) = 0
      BY <1>1, <3>2, OffTerm DEF IInv
    <3>4. Drift(b)' + Term(r, b)' = Drift(b) + Term(r, b)
      BY <2>7, <2>10, <3>3
    <3>5. b \in doubted => b \in doubted'
      BY <2>1, <2>11
    <3>6. Settled(b)
      BY DEF IInv
    <3> QED
      BY <1>1, <2>5, <3>1, <3>2, <3>4, <3>5, <3>6, StaysSettled
  <2>12. Settled(a)'
    <3>1. CASE a \in doubted'
      BY <3>1 DEF Settled
    <3>2. CASE a \notin doubted'
      <4>1. /\ ~misread /\ ~request[r].stale
            /\ \A q \in Requests \ {r} : a \notin request[q].on
        BY <2>1, <3>2
      <4>2. Drift(a) = 0
        <5>1. account[a].bal = Truth(a)
          BY <1>3, <1>6, <1>8, <4>1
        <5> QED
          BY <1>1, <5>1, TruthDrift
      <4>3. ASSUME NEW q \in Requests PROVE Term(q, a)' = 0
        <5>1. CASE q = r
          BY <2>7, <5>1
        <5>2. CASE q # r
          <6>1. a \notin request[q].on /\ a \notin request'[q].on
            BY <2>2, <4>1, <5>2
          <6>2. Term(q, a) = 0
            BY <1>1, <6>1, OffTerm DEF IInv
          <6>3. Term(q, a)' = Term(q, a)
            BY <1>1, <2>5, <2>6, <5>2, <6>1, BesideTerm DEF IInv
          <6> QED
            BY <6>2, <6>3
        <5> QED
          BY <5>1, <5>2
      <4>4. PICK f : f = [q \in Requests |-> Term(q, a)']
        OBVIOUS
      <4>5. f \in [Requests -> Int] /\ \A q \in Requests : f[q] = 0
        BY <4>3, <4>4
      <4>6. SumFunction(f) = 0
        BY <4>5, SumZero, FiniteAssumption
      <4>7. Drift(a)' + SumFunction(f) = 0
        BY <2>10, <4>2, <4>6
      <4> QED
        BY <4>4, <4>7 DEF Settled
    <3> QED
      BY <3>1, <3>2
  <2> QED
    BY <2>5, <2>8, <2>9, <2>11, <2>12 DEF IInv
<1> QED
  BY <1>7, <1>8

(* An account edit that saves its whole copy keeps the invariant. *)
LEMMA SaveAccountKeeps ==
    ASSUME IInv, NEW r \in Requests, SaveAccount(r)
    PROVE  IInv'
PROOF
<1>1. Typed /\ Opened(r, "edit") /\ UNCHANGED <<tx, starts>>
  BY DEF IInv, SaveAccount
<1>2. PICK a \in Accounts : \E doc \in AccountDocs :
         /\ request[r].op = "edit" /\ request[r].todo = <<>> /\ ~request[r].wrong
         /\ request[r].rest = {} /\ ~request[r].wrote
         /\ a = (CHOOSE x \in request[r].on : TRUE) /\ doc = Copy(r)
         /\ request[r].on = {a} /\ request[r].holds = {a} /\ request[r].loaded = {doc}
         /\ ~request[r].stale => doc.bal = account[a].bal
  BY <1>1, AccountFacts
<1>3. PICK doc \in AccountDocs :
         /\ request[r].op = "edit" /\ request[r].todo = <<>> /\ ~request[r].wrong
         /\ request[r].rest = {} /\ ~request[r].wrote
         /\ a = (CHOOSE x \in request[r].on : TRUE) /\ doc = Copy(r)
         /\ request[r].on = {a} /\ request[r].holds = {a} /\ request[r].loaded = {doc}
         /\ ~request[r].stale => doc.bal = account[a].bal
  BY <1>2
<1>4. PICK again \in BOOLEAN :
         again = (<<doc.opening, doc.cut>> # <<account[a].opening, account[a].cut>>)
  OBVIOUS
<1>5. PICK old \in RequestDocs : old = request[r]
  BY <1>1, RequestFacts
<1>6. PICK own : own = IF again THEN [old EXCEPT !.op = "read", !.wrote = TRUE] ELSE Idle
  OBVIOUS
<1>7. /\ account' = [account EXCEPT ![a].opening = doc.opening,
                                    ![a].cut = doc.cut, ![a].type = doc.type]
      /\ request' = [q \in Requests |->
            IF q = r THEN own
            ELSE [request[q] EXCEPT !.stale = @ \/ a \in request[q].holds]]
      /\ doubted' = IF doc.type # account[a].type \/ request[r].stale
                    THEN doubted \cup {a} ELSE doubted
  <2>1. account' = [account EXCEPT ![a].opening = doc.opening,
                                   ![a].cut = doc.cut, ![a].type = doc.type]
    BY <1>3 DEF SaveAccount
  <2>2. request' = [q \in Requests |->
            IF q = r THEN (IF again THEN [old EXCEPT !.op = "read", !.wrote = TRUE] ELSE Idle)
            ELSE [request[q] EXCEPT !.stale = @ \/ a \in request[q].holds]]
    BY <1>3, <1>4, <1>5 DEF SaveAccount
  <2>3. doubted' = IF doc.type # account[a].type \/ request[r].stale
                   THEN doubted \cup {a} ELSE doubted
    BY <1>3 DEF SaveAccount
  <2> QED
    BY <1>6, <2>1, <2>2, <2>3
<1>8. /\ account' \in [Accounts -> AccountDocs]
      /\ \A b \in Accounts : b # a => account'[b] = account[b]
      /\ account'[a].bal = account[a].bal /\ account'[a].opening = doc.opening
      /\ account'[a].cut = doc.cut /\ account'[a].type = doc.type
  <2>1. PICK was \in AccountDocs : was = account[a]
    BY <1>1, DocFacts
  <2>2. PICK now : now = [was EXCEPT !.opening = doc.opening, !.cut = doc.cut, !.type = doc.type]
    OBVIOUS
  <2>3. /\ now \in AccountDocs /\ now.bal = was.bal /\ now.opening = doc.opening
        /\ now.cut = doc.cut /\ now.type = doc.type
    BY <2>2 DEF AccountDocs
  <2>4. account \in [Accounts -> AccountDocs]
    BY <1>1, DocFacts
  <2>5. account' = [account EXCEPT ![a] = now]
    BY <1>7, <2>1, <2>2, <2>4
  <2> QED
    BY <2>1, <2>3, <2>4, <2>5
<1>9. ASSUME again
      PROVE  /\ own \in RequestDocs /\ own.op = "read" /\ own.todo = old.todo
             /\ own.loaded = old.loaded /\ own.rest = old.rest /\ own.holds = old.holds
             /\ own.on = old.on /\ own.wrote = TRUE /\ own.stale = old.stale
             /\ own.wrong = old.wrong
  BY <1>6, <1>9 DEF RequestDocs
<1>10. own \in RequestDocs
  BY <1>6, <1>9, IdleType
<1>11. /\ request'[r] = own
       /\ \A q \in Requests \ {r} :
             request'[q] = [request[q] EXCEPT !.stale = @ \/ a \in request[q].holds]
  BY <1>7
<1>12. request' \in [Requests -> RequestDocs]
  <2>1. ASSUME NEW q \in Requests
        PROVE  [request[q] EXCEPT !.stale = @ \/ a \in request[q].holds] \in RequestDocs
    <3>1. request[q] \in RequestDocs
      BY <1>1, RequestFacts
    <3>2. PICK z \in BOOLEAN : z = (request[q].stale \/ a \in request[q].holds)
      OBVIOUS
    <3>3. [request[q] EXCEPT !.stale = z] \in RequestDocs
      BY <3>1 DEF RequestDocs
    <3> QED
      BY <3>2, <3>3
  <2> QED
    BY <1>7, <1>10, <2>1
<1>13. Typed'
  <2>1. \A x \in Requests : request'[x].on \subseteq Accounts
    BY <1>12 DEF RequestDocs
  <2>2. doubted' \subseteq Accounts
    BY <1>1, <1>7, DocFacts
  <2> QED
    BY <1>1, <1>8, <1>12, <2>1, <2>2 DEF Typed, TypeOK
<1>14. ASSUME NEW q \in Requests \ {r} PROVE Beside(q, {a})
  <2>1. request'[q] = [request[q] EXCEPT !.stale = @ \/ request[q].holds \cap {a} # {}]
    <3>1. (request[q].stale \/ a \in request[q].holds)
          = (request[q].stale \/ request[q].holds \cap {a} # {})
      <4>1. request[q].stale \in BOOLEAN
        BY <1>1, RequestFacts
      <4>2. (a \in request[q].holds) = (request[q].holds \cap {a} # {})
        OBVIOUS
      <4> QED
        BY <4>1, <4>2
    <3> QED
      BY <1>11, <3>1
  <2>2. \A b \in Accounts \ {a} : Money(account'[b]) = Money(account[b])
    BY <1>8
  <2>3. \A b \in request[q].on : b \in doubted => b \in doubted'
    BY <1>7
  <2> QED
    BY <1>1, <2>1, <2>2, <2>3 DEF Beside, Firm, Leg
<1>15. Req(r)' /\ Made(r)' = {}
  <2>1. CASE again
    <3>1. Bare(own)
      BY <1>3, <1>5, <1>9, <2>1 DEF Bare
    <3>2. OkAccount(r)'
      <4>1. ~own.stale => Money(doc) = Money(account'[a]) /\ doc.bal = account'[a].bal
        BY <1>3, <1>5, <1>8, <1>9, <2>1 DEF Money
      <4>2. /\ own.todo = <<>> /\ ~own.wrong /\ own.rest = {} /\ own.op = "read"
            /\ own.on = {a} /\ own.holds = {a} /\ own.loaded = {doc}
        BY <1>3, <1>5, <1>9, <2>1
      <4> QED
        BY <1>11, <4>1, <4>2 DEF OkAccount
    <3>3. OkOpened(r)' /\ OkRest(r)'
      BY <1>3, <1>5, <1>9, <1>11, <2>1 DEF OkOpened, OkRest, Loads
    <3> QED
      BY <1>11, <1>13, <3>1, <3>2, <3>3, BareReq
  <2>2. CASE ~again
    BY <1>6, <1>11, <1>13, <2>2, IdleSo
  <2> QED
    BY <2>1, <2>2
<1>16. \A q \in Requests : Req(q)'
  BY <1>1, <1>13, <1>14, <1>15, BesideReq DEF IInv
<1>17. Legs'
  BY <1>1, <1>13, <1>14, <1>15, LegsStay DEF IInv
<1>18. ASSUME NEW b \in Accounts PROVE Settled(b)'
  <2>1. \A q \in Requests \ {r} :
           /\ Doomed(q) /\ b \in request[q].on => Doomed(q)' /\ b \in request'[q].on
           /\ Term(q, b)' = Term(q, b) \/ (Doomed(q)' /\ b \in request'[q].on)
    BY <1>1, <1>13, <1>14, BesideTerm DEF IInv
  <2>2. CASE b = a /\ b \in doubted'
    BY <2>2 DEF Settled
  <2>3. CASE b = a /\ again
    <3>1. Torn(r)' /\ request'[r].op = "read" /\ b \in request'[r].on
      BY <1>3, <1>5, <1>9, <1>11, <2>3 DEF Torn
    <3> QED
      BY <3>1 DEF Settled, Doomed
  <2>4. CASE b # a \/ (b \notin doubted' /\ ~again)
    <3>1. Drift(b)' = Drift(b)
      <4>1. /\ account[b] \in AccountDocs /\ account'[b] \in AccountDocs /\ tx \in [Txs -> Entries]
        BY <1>1, <1>8, DocFacts
      <4>2. /\ account'[b].bal = account[b].bal /\ account'[b].opening = account[b].opening
            /\ account'[b].cut = account[b].cut /\ account'[b].type = account[b].type
        <5>1. CASE b # a
          BY <1>8, <5>1
        <5>2. CASE b = a
          <6>1. doc.opening = account[a].opening /\ doc.cut = account[a].cut
            BY <1>4, <2>4, <5>2
          <6>2. doc.type = account[a].type
            BY <1>7, <2>4, <5>2
          <6> QED
            BY <1>8, <5>2, <6>1, <6>2
        <5> QED
          BY <5>1, <5>2
      <4>3. \A t \in Txs : Share(b, account'[b], tx[t]) = Share(b, account[b], tx[t])
        BY <4>2 DEF Share, Delta
      <4>4. DriftOf(account'[b], b, tx) = DriftOf(account[b], b, tx)
        BY <4>1, <4>2, <4>3, DriftSame
      <4> QED
        BY <1>1, <4>4 DEF Drift
    <3>2. Term(r, b) = 0
      <4>1. NetOf(account[b], b, tx, <<>>) = 0
        BY <1>1, NetNil, DocFacts
      <4> QED
        BY <1>3, <4>1 DEF Term, Net
    <3>3. Term(r, b)' = 0
      <4>1. CASE again
        <5>1. own.todo = <<>>
          BY <1>3, <1>5, <1>9, <4>1
        <5>2. account'[b] \in AccountDocs /\ tx' \in [Txs -> Entries]
          BY <1>13 DEF Typed, TypeOK
        <5>3. NetOf(account'[b], b, tx', <<>>) = 0
          BY <5>2, NetNil
        <5> QED
          BY <1>11, <5>1, <5>3 DEF Term, Net
      <4>2. CASE ~again
        BY <1>6, <1>11, <1>13, <4>2, IdleSo
      <4> QED
        BY <4>1, <4>2
    <3>4. Drift(b)' + Term(r, b)' = Drift(b) + Term(r, b)
      BY <3>1, <3>2, <3>3
    <3>5. ~Doomed(r)
      BY <1>3 DEF Doomed, Torn
    <3>6. b \in doubted => b \in doubted'
      BY <1>7
    <3>7. Settled(b)
      BY DEF IInv
    <3> QED
      BY <1>1, <1>13, <2>1, <3>4, <3>5, <3>6, <3>7, StaysSettled
  <2> QED
    BY <2>2, <2>3, <2>4
<1> QED
  BY <1>13, <1>16, <1>17, <1>18 DEF IInv

-----------------------------------------------------------------------------
(* A request fails. *)

(* What a write outdates: each other request that holds it becomes stale, *)
(* and is else as it was.                                                 *)
LEMMA Outdated ==
    ASSUME Typed, NEW r \in Requests, NEW written, NEW own \in RequestDocs,
           Outdate(r, written, own)
    PROVE  /\ request' \in [Requests -> RequestDocs] /\ request'[r] = own
           /\ \A q \in Requests \ {r} :
                 request'[q] = [request[q] EXCEPT
                                   !.stale = @ \/ request[q].holds \cap written # {}]
PROOF
<1>1. ASSUME NEW q \in Requests
      PROVE  [request[q] EXCEPT !.stale = @ \/ request[q].holds \cap written # {}] \in RequestDocs
  <2>1. request[q] \in RequestDocs
    BY RequestFacts
  <2>2. PICK z \in BOOLEAN : z = (request[q].stale \/ request[q].holds \cap written # {})
    OBVIOUS
  <2>3. [request[q] EXCEPT !.stale = z] \in RequestDocs
    BY <2>1 DEF RequestDocs
  <2> QED
    BY <2>2, <2>3
<1> QED
  BY <1>1 DEF Outdate

(* What a request made so far are legs in the accounts it is on. *)
LEMMA MadeLegs ==
    ASSUME Typed, NEW r \in Requests, Req(r), NEW v \in Made(r)
    PROVE  /\ v \in Txs /\ request[r].op = "transfer" /\ request[r].wrote
           /\ tx[v].state # "none" /\ IsLeg(tx[v]) /\ tx[v].acc \in request[r].on
PROOF
<1>1. request[r].op = "transfer"
  BY DEF Made
<1>2. PICK t \in Txs, u \in Txs, a \in Accounts, b \in Accounts :
        /\ t # u /\ request[r].holds \cap Txs = {t, u} /\ request[r].on = {a, b}
        /\ Stage(r, t, u, a, b)
  BY <1>1 DEF Req, OkTransfer
<1>3. /\ FirstLeg(r, t, u, a, b) => Made(r) = {}
      /\ SecondLeg(r, t, u, a, b) => Made(r) = {t}
      /\ PointsBack(r, t, u, a, b) => Made(r) = {t, u}
      /\ Pays(r, t, u, a, b) => Made(r) = {t, u}
  BY <1>1, <1>2, StageMade
<1>4. request[r].wrote /\ ((v = t /\ Leg(t, "out", a)) \/ (v = u /\ Leg(u, "in", b)))
  BY <1>2, <1>3 DEF Stage, SecondLeg, PointsBack, Pays
<1> QED
  BY <1>1, <1>2, <1>4 DEF Leg, IsLeg

(* What a transfer has not paid yet is what its legs it made, taken back,  *)
(* put right.                                                              *)
LEMMA TakenBack ==
    ASSUME Typed, NEW r \in Requests, Req(r), request[r].op = "transfer",
           Clean(r), ~request[r].moved, NEW b \in request[r].on,
           NEW book \in [Txs -> Entries], \A t \in Txs : book[t] = Left(r, t)
    PROVE  DriftOf(account[b], b, book) = Drift(b) + Term(r, b)
PROOF
<1>1. /\ account[b] \in AccountDocs /\ tx \in [Txs -> Entries] /\ b \in Accounts
      /\ request[r].todo \in Seq(Steps)
  BY DocFacts, RequestFacts
<1>2. PICK todo \in Seq(Steps), doc \in AccountDocs :
          todo = request[r].todo /\ doc = account[b]
  BY <1>1
<1>3. PICK gains \in [Txs -> Int] : gains = Gains(doc, b, tx, todo)
  BY <1>1, GainsType
<1>4. PICK now \in [Txs -> Int] : now = Shares(doc, b, tx)
  BY <1>1, SharesType
<1>5. PICK later \in [Txs -> Int] : later = Shares(doc, b, book)
  BY <1>1, SharesType
<1>6. PICK takes \in [Txs -> Int] : takes = Takes(b, r)
  <2>1. \A t \in Txs : /\ Share(b, doc, After(todo, t, tx[t])) \in Int
                      /\ Share(b, doc, book[t]) \in Int
    BY <1>1, AfterType, ShareType
  <2>2. Takes(b, r) = [t \in Txs |-> Share(b, doc, After(todo, t, tx[t])) - Share(b, doc, book[t])]
    BY <1>2 DEF Takes
  <2>3. \A t \in Txs : Share(b, doc, After(todo, t, tx[t])) - Share(b, doc, book[t]) \in Int
    BY <2>1
  <2>4. Takes(b, r) \in [Txs -> Int]
    BY <2>2, <2>3
  <2> QED
    BY <2>4, Zenon
<1>7. PICK k \in [Txs -> Int] : \A t \in Txs : k[t] = now[t] - later[t]
  <2>1. [t \in Txs |-> now[t] - later[t]] \in [Txs -> Int]
    OBVIOUS
  <2> QED
    BY <2>1
<1>8. \A t \in Txs : k[t] = takes[t] - gains[t]
  <2>1. ASSUME NEW t \in Txs PROVE k[t] = takes[t] - gains[t]
    <3>1. PICK x \in Int, y \in Int, z \in Int :
             /\ x = Share(b, doc, After(todo, t, tx[t])) /\ y = Share(b, doc, tx[t])
             /\ z = Share(b, doc, book[t])
      BY <1>1, AfterType, ShareType
    <3>2. takes[t] = x - z
      BY <1>2, <1>6, <3>1 DEF Takes
    <3>3. gains[t] = x - y
      BY <1>3, <3>1 DEF Gains
    <3>4. now[t] = y /\ later[t] = z
      BY <1>4, <1>5, <3>1 DEF Shares
    <3>5. k[t] = y - z
      BY <1>7, <3>4
    <3> QED
      BY <3>2, <3>3, <3>5
  <2> QED
    BY <2>1
<1>9. /\ SumFunction(k) = SumFunction(now) - SumFunction(later)
      /\ SumFunction(k) = SumFunction(takes) - SumFunction(gains)
  BY <1>7, <1>8, MinusOfTxs, ZenonT(40)
<1>10. /\ SumFunction(now) \in Int /\ SumFunction(later) \in Int
       /\ SumFunction(takes) \in Int /\ SumFunction(gains) \in Int
  BY SumType, FiniteAssumption
<1>11. PICK n \in Int, l \in Int, p \in Int, g \in Int :
          /\ n = SumFunction(now) /\ l = SumFunction(later)
          /\ p = SumFunction(takes) /\ g = SumFunction(gains)
  BY <1>10
<1>12. doc.bal \in Int /\ doc.opening \in Int
  BY DEF AccountDocs
<1>13. PICK f \in Int, x \in Int, o \in Int :
          f = Final(todo, b, doc.bal) /\ x = doc.bal /\ o = doc.opening
  BY <1>12, FinalType
<1>14. f - x = p
  BY <1>2, <1>6, <1>11, <1>13 DEF Req, OkTransfer
<1>15. Term(r, b) = f - x - g
  BY <1>2, <1>3, <1>11, <1>13 DEF Term, Net, NetOf
<1>16. Drift(b) = x - o - n
  BY <1>2, <1>4, <1>11, <1>13 DEF Drift, DriftOf
<1>17. DriftOf(account[b], b, book) = x - o - l
  BY <1>2, <1>5, <1>11, <1>13 DEF DriftOf
<1>18. n - l = p - g
  BY <1>9, <1>11
<1> QED
  BY <1>14, <1>15, <1>16, <1>17, <1>18

(* A request that fails, a transfer deleting the legs it made, keeps the  *)
(* invariant.                                                             *)
LEMMA FailKeeps ==
    ASSUME IInv, NEW r \in Requests, Fail(r)
    PROVE  IInv'
PROOF
<1>1. Typed /\ UNCHANGED <<account, starts>> /\ Outdate(r, Made(r), Idle) /\ Req(r) /\ Legs
  BY DEF IInv, Fail
<1>2. /\ request' \in [Requests -> RequestDocs] /\ request'[r] = Idle
      /\ \A q \in Requests \ {r} :
            request'[q] = [request[q] EXCEPT
                              !.stale = @ \/ request[q].holds \cap Made(r) # {}]
  BY <1>1, IdleType, Outdated
<1>3. tx' = [t \in Txs |-> IF t \in Made(r) THEN [tx[t] EXCEPT !.state = "none"] ELSE tx[t]]
  BY DEF Fail
<1>4. tx' \in [Txs -> Entries]
  <2>1. \A t \in Txs : [tx[t] EXCEPT !.state = "none"] \in Entries /\ tx[t] \in Entries
    BY <1>1, DocFacts DEF Entries
  <2> QED
    BY <1>3, <2>1
<1>5. \A t \in Txs : tx'[t] = Left(r, t)
  BY <1>3 DEF Left
<1>6. \A t \in Txs : t \notin Made(r) => tx'[t] = tx[t]
  BY <1>3
<1>7. \A t \in Txs : t \in Made(r) => tx'[t].state = "none"
  <2>1. \A t \in Txs : [tx[t] EXCEPT !.state = "none"].state = "none"
    BY <1>1, DocFacts DEF Entries
  <2> QED
    BY <1>3, <2>1
<1>8. doubted' = IF \/ request[r].moved /\ request[r].op = "transfer"
                    \/ Torn(r) /\ request[r].op # "transfer"
                    \/ Made(r) # {} /\ request[r].stale
                 THEN doubted \cup request[r].on ELSE doubted
  BY DEF Fail
<1>9. Typed'
  <2>1. \A x \in Requests : request'[x].on \subseteq Accounts
    BY <1>2 DEF RequestDocs
  <2>2. doubted' \subseteq Accounts
    BY <1>1, <1>8, DocFacts, RequestFacts
  <2> QED
    BY <1>1, <1>2, <1>4, <2>1, <2>2 DEF Typed, TypeOK
<1>10. ASSUME NEW q \in Requests \ {r} PROVE Beside(q, Made(r))
  <2>1. \A t \in Txs : Firm(t) => Firm(t)'
    <3>1. \A t \in Txs : t \in Made(r) => ~Firm(t)
      BY <1>1, MadeLegs DEF Firm
    <3> QED
      BY <1>6, <3>1 DEF Firm
  <2>2. \A t \in Made(q) : \A kind, a : Leg(t, kind, a) => Leg(t, kind, a)'
    <3>1. \A t \in Made(q) : t \in Txs /\ t \notin Made(r)
      BY <1>1, MadeLegs DEF IInv, Legs
    <3> QED
      BY <1>6, <3>1 DEF Leg
  <2>3. \A b \in request[q].on : b \in doubted => b \in doubted'
    BY <1>8
  <2> QED
    BY <1>1, <1>2, <1>6, <2>1, <2>2, <2>3 DEF Beside
<1>11. /\ Req(r)' /\ Made(r)' = {} /\ ~Doomed(r)' /\ \A b \in Accounts : Term(r, b)' = 0
  BY <1>2, <1>9, IdleSo
<1>12. \A q \in Requests : Req(q)'
  BY <1>1, <1>9, <1>10, <1>11, BesideReq DEF IInv
<1>13. Legs'
  <2>1. \A q \in Requests \ {r} : Made(q)' = Made(q)
    BY <1>1, <1>9, <1>10, BesideMade
  <2>2. WellPaired(tx)'
    <3>1. ASSUME NEW t \in Txs, tx'[t].state # "none"
          PROVE  /\ Paired(tx'[t]) => Twin(tx'[t], tx'[tx'[t].pair])
                 /\ tx'[t].recurring => ~IsLeg(tx'[t])
      <4>1. t \notin Made(r) /\ tx'[t] = tx[t]
        BY <1>6, <1>7, <3>1
      <4>2. /\ Paired(tx[t]) => Twin(tx[t], tx[tx[t].pair])
            /\ tx[t].recurring => ~IsLeg(tx[t])
        BY <1>1, <3>1, <4>1 DEF Legs, WellPaired
      <4>3. ASSUME Paired(tx[t]) PROVE Twin(tx'[t], tx'[tx'[t].pair])
        <5>1. tx[t].pair \notin Made(r)
          BY <1>1, <3>1, <4>1, <4>3 DEF Legs
        <5>2. tx[t].pair \in Txs
          BY <1>1, <4>3, DocFacts DEF Paired, Entries
        <5>3. tx'[tx'[t].pair] = tx[tx[t].pair]
          BY <1>6, <4>1, <5>1, <5>2
        <5> QED
          BY <4>1, <4>2, <4>3, <5>3
      <4> QED
        BY <4>1, <4>2, <4>3
    <3> QED
      BY <3>1 DEF WellPaired
  <2>3. \A x, q \in Requests : x # q => Made(x)' \cap Made(q)' = {}
    BY <1>1, <1>11, <2>1 DEF Legs
  <2>4. ASSUME NEW q \in Requests, NEW t \in Txs,
               tx'[t].state # "none", Paired(tx'[t]), tx'[t].pair \in Made(q)'
        PROVE  t \in Made(q)'
    <3>1. Made(q)' = Made(q)
      BY <1>11, <2>1, <2>4
    <3>2. tx'[t] = tx[t]
      BY <1>6, <1>7, <2>4
    <3> QED
      BY <1>1, <2>4, <3>1, <3>2 DEF Legs
  <2> QED
    BY <2>2, <2>3, <2>4 DEF Legs
<1>14. ASSUME NEW b \in Accounts PROVE Settled(b)'
  <2>1. \A q \in Requests \ {r} :
           /\ Doomed(q) /\ b \in request[q].on => Doomed(q)' /\ b \in request'[q].on
           /\ Term(q, b)' = Term(q, b) \/ (Doomed(q)' /\ b \in request'[q].on)
    BY <1>1, <1>9, <1>10, BesideTerm DEF IInv
  <2>2. CASE b \in doubted'
    BY <2>2 DEF Settled
  <2>3. CASE b \notin doubted'
    <3>1. Drift(b)' = DriftOf(account[b], b, tx')
      BY <1>1 DEF Drift
    <3>2. ASSUME Term(r, b) = 0, \A t \in Made(r) : tx[t].acc # b
          PROVE  Drift(b)' = Drift(b) + Term(r, b)
      <4>1. \A t \in Txs : Share(b, account[b], tx'[t]) = Share(b, account[b], tx[t])
        <5>1. ASSUME NEW t \in Txs, t \in Made(r)
              PROVE  Share(b, account[b], tx'[t]) = Share(b, account[b], tx[t])
          BY <1>7, <3>2, <5>1 DEF Share, Booked
        <5> QED
          BY <1>6, <5>1
      <4>2. account[b] \in AccountDocs /\ tx \in [Txs -> Entries]
        BY <1>1, DocFacts
      <4>3. DriftOf(account[b], b, tx') = DriftOf(account[b], b, tx)
        BY <1>4, <4>1, <4>2, DriftSame
      <4>4. DriftOf(account[b], b, tx) \in Int
        BY <4>2, DriftType
      <4> QED
        BY <3>1, <3>2, <4>3, <4>4 DEF Drift
    <3>3. ~(Doomed(r) /\ b \in request[r].on) /\ Drift(b)' = Drift(b) + Term(r, b)
      <4>1. CASE b \notin request[r].on
        <5>1. Term(r, b) = 0
          BY <1>1, <4>1, OffTerm
        <5>2. \A t \in Made(r) : tx[t].acc # b
          BY <1>1, <4>1, MadeLegs
        <5> QED
          BY <3>2, <4>1, <5>1, <5>2
      <4>2. CASE b \in request[r].on /\ Made(r) = {}
        <5>1. ~Torn(r)
          <6>1. CASE request[r].op # "transfer"
            BY <1>8, <2>3, <4>2, <6>1
          <6>2. CASE request[r].op = "transfer"
            <7>1. PICK t \in Txs, u \in Txs, a \in Accounts, c \in Accounts :
                     /\ t # u /\ request[r].holds \cap Txs = {t, u}
                     /\ Stage(r, t, u, a, c)
              BY <1>1, <6>2 DEF Req, OkTransfer
            <7>2. FirstLeg(r, t, u, a, c)
              BY <1>1, <4>2, <6>2, <7>1, StageMade DEF Stage
            <7> QED
              BY <7>2 DEF FirstLeg, Torn
          <6> QED
            BY <6>1, <6>2
        <5>2. Term(r, b) = 0
          BY <1>1, <5>1 DEF Req, Term
        <5> QED
          BY <3>2, <4>2, <5>1, <5>2 DEF Doomed
      <4>3. CASE b \in request[r].on /\ Made(r) # {}
        <5>1. request[r].op = "transfer" /\ request[r].wrote
          BY <1>1, <4>3, MadeLegs
        <5>2. ~request[r].moved /\ ~request[r].stale /\ b \notin doubted
          BY <1>8, <2>3, <4>3, <5>1
        <5>3. ~request[r].wrong
          BY <1>1, <4>3, <5>1, <5>2 DEF Req
        <5>4. DriftOf(account[b], b, tx') = Drift(b) + Term(r, b)
          BY <1>1, <1>4, <1>5, <4>3, <5>1, <5>2, <5>3, TakenBack DEF Clean
        <5> QED
          BY <3>1, <5>1, <5>2, <5>3, <5>4 DEF Doomed
      <4> QED
        BY <4>1, <4>2, <4>3
    <3>4. Drift(b)' + Term(r, b)' = Drift(b) + Term(r, b)
      <4>1. Drift(b)' \in Int
        <5>1. account[b] \in AccountDocs
          BY <1>1, DocFacts
        <5> QED
          BY <1>4, <3>1, <5>1, DriftType
      <4> QED
        BY <1>11, <3>3, <4>1
    <3>5. b \in doubted => b \in doubted'
      BY <1>8
    <3>6. Settled(b)
      BY DEF IInv
    <3> QED
      BY <1>1, <1>9, <2>1, <3>3, <3>4, <3>5, <3>6, StaysSettled
  <2> QED
    BY <2>2, <2>3
<1> QED
  BY <1>9, <1>12, <1>13, <1>14 DEF IInv

-----------------------------------------------------------------------------
(* A request writes. *)

(* One write, as a step of the system. *)
Writes(r, s) ==
    /\ Typed' /\ s \in Steps /\ request[r].todo # <<>>
    /\ s = request[r].todo[1] /\ s = Head(request[r].todo)
    /\ request[r].op \in Writers \cup {"recompute"}
    /\ \A t \in Txs : tx'[t] = Applied(s, t, tx[t])
    /\ \A a \in Accounts :
          /\ account'[a].bal = Paid(s, a, account[a].bal)
          /\ account'[a].opening = account[a].opening
          /\ account'[a].cut = account[a].cut /\ account'[a].type = account[a].type
    /\ s.do = "insert" => tx[s.tx].state = "none" /\ OkInsert(r, s)
    /\ s.do = "change" => OkChange(r, s)
    /\ s.do = "put" => s.acc \in request[r].on
    /\ request[r].op = "recompute" => s.do = "put"
    /\ request[r].op \in Writers => OkStep(r, s)

(* The first write of the plan is applied to the transactions and the     *)
(* balances, and nothing else changes.                                    *)
LEMMA StoreSo ==
    ASSUME Typed, NEW r \in Requests, NEW s \in Steps, s = Step(r), Store(r)
    PROVE  /\ tx' \in [Txs -> Entries] /\ account' \in [Accounts -> AccountDocs]
           /\ \A t \in Txs : tx'[t] = Applied(s, t, tx[t])
           /\ \A a \in Accounts :
                 /\ account'[a].bal = Paid(s, a, account[a].bal)
                 /\ account'[a].opening = account[a].opening
                 /\ account'[a].cut = account[a].cut /\ account'[a].type = account[a].type
PROOF
<1>1. tx \in [Txs -> Entries] /\ account \in [Accounts -> AccountDocs]
  BY DocFacts
<1>2. \A t \in Txs : tx[t] \in Entries /\ Applied(s, t, tx[t]) \in Entries
  BY <1>1, AppliedType
<1>3. CASE s \in InsertSteps
  <2>1. s.do = "insert" /\ Targets(s) = {s.tx} /\ s.tx \in Txs /\ s.entry \in Entries
    BY <1>3 DEF InsertSteps, Targets
  <2>2. tx' = [tx EXCEPT ![s.tx] = s.entry] /\ account' = account
    BY <2>1 DEF Store
  <2>3. \A a, x : Paid(s, a, x) = x
    BY <2>1 DEF Paid
  <2>4. \A t \in Txs : tx'[t] = Applied(s, t, tx[t])
    BY <1>1, <2>1, <2>2 DEF Applied
  <2>5. tx' \in [Txs -> Entries]
    BY <1>1, <2>1, <2>2
  <2> QED
    BY <1>1, <2>2, <2>3, <2>4, <2>5
<1>4. CASE s \in ChangeSteps
  <2>1. /\ s.do = "change" /\ Targets(s) = {s.tx} /\ s.tx \in Txs
        /\ s.from \in Entries /\ s.to \in Entries
    BY <1>4 DEF ChangeSteps, Targets
  <2>2. tx' = [tx EXCEPT ![s.tx] = Merged(tx[s.tx], s.from, s.to)] /\ account' = account
    BY <2>1 DEF Store
  <2>3. \A a, x : Paid(s, a, x) = x
    BY <2>1 DEF Paid
  <2>4. \A t \in Txs : tx'[t] = Applied(s, t, tx[t])
    BY <1>1, <2>1, <2>2 DEF Applied
  <2>5. tx' \in [Txs -> Entries]
    BY <1>1, <1>2, <2>1, <2>2, MergedType
  <2> QED
    BY <1>1, <2>2, <2>3, <2>4, <2>5
<1>5. CASE s \in BurySteps
  <2>1. s.do = "bury" /\ Targets(s) = s.txs
    BY <1>5 DEF BurySteps, Targets
  <2>2. /\ tx' = [t \in Txs |-> IF t \in s.txs /\ tx[t].state = "live"
                                THEN [tx[t] EXCEPT !.state = "gone"] ELSE tx[t]]
        /\ account' = account
    BY <2>1 DEF Store
  <2>3. \A a, x : Paid(s, a, x) = x
    BY <2>1 DEF Paid
  <2>4. ASSUME NEW t \in Txs PROVE tx'[t] = Applied(s, t, tx[t])
    <3>1. PICK e \in Entries : e = tx[t]
      BY <1>2
    <3>2. e.state = "live" => Buried(e) = [e EXCEPT !.state = "gone"]
      BY DEF Buried
    <3>3. e.state # "live" => Buried(e) = e
      BY DEF Buried, Entries
    <3> QED
      BY <2>1, <2>2, <3>1, <3>2, <3>3 DEF Applied
  <2>5. tx' \in [Txs -> Entries]
    <3>1. tx' = [t \in Txs |-> Applied(s, t, tx[t])]
      BY <2>2, <2>4
    <3> QED
      BY <1>2, <3>1
  <2> QED
    BY <1>1, <2>2, <2>3, <2>4, <2>5
<1>6. CASE s \in PutSteps
  <2>1. s.do = "put" /\ Targets(s) = {} /\ s.acc \in Accounts /\ s.bal \in Int
    BY <1>6 DEF PutSteps, Targets
  <2>2. account' = [account EXCEPT ![s.acc].bal = s.bal] /\ tx' = tx
    BY <2>1 DEF Store
  <2>3. PICK doc \in AccountDocs : doc = account[s.acc]
    BY <1>1, <2>1
  <2>4. PICK now : now = [doc EXCEPT !.bal = s.bal]
    OBVIOUS
  <2>5. /\ now \in AccountDocs /\ now.bal = s.bal /\ now.opening = doc.opening
        /\ now.cut = doc.cut /\ now.type = doc.type
    BY <2>1, <2>4 DEF AccountDocs
  <2>6. account' = [account EXCEPT ![s.acc] = now]
    BY <1>1, <2>2, <2>3, <2>4
  <2>7. account'[s.acc] = now /\ \A a \in Accounts : a # s.acc => account'[a] = account[a]
    BY <1>1, <2>1, <2>6
  <2>8. account' \in [Accounts -> AccountDocs]
    BY <1>1, <2>1, <2>5, <2>6
  <2>9. \A a \in Accounts : Paid(s, a, account[a].bal) = IF a = s.acc THEN s.bal ELSE account[a].bal
    BY <2>1 DEF Paid
  <2> QED
    BY <1>1, <2>1, <2>2, <2>3, <2>5, <2>7, <2>8, <2>9 DEF Applied
<1> QED
  BY <1>3, <1>4, <1>5, <1>6 DEF Steps

(* What r is after the write. *)
Goes2(r, q) ==
    /\ q.op = request[r].op /\ q.todo = Tail(request[r].todo) /\ q.rest = request[r].rest
    /\ q.holds = request[r].holds /\ q.on = request[r].on /\ q.wrote = TRUE
    /\ q.moved = (request[r].moved \/ request[r].todo[1].do = "put")
    /\ q.stale = request[r].stale /\ q.wrong = request[r].wrong

(* Or it goes on to p, the next transaction of a bulk delete, which it    *)
(* has loaded already.                                                    *)
GoesTo(r, p, q) ==
    /\ p \in request[r].rest /\ q.op = "delete" /\ q.todo = <<>> /\ q.tx = p[1]
    /\ q.loaded = {p[2]} /\ q.rest = {} /\ q.holds = {p[1]} /\ q.on = {p[2].acc}
    /\ q.stale = request[r].stale /\ ~q.wrote /\ ~q.wrong

(* The record of r after its write. *)
Own(r) ==
    IF Len(request[r].todo) = 1 THEN Done(r)
    ELSE [request[r] EXCEPT !.todo = Tail(@), !.wrote = TRUE, !.moved = @ \/ Step(r).do = "put"]

(* After its write a request goes on with its plan, or to the next of its *)
(* transactions, or is done.                                              *)
LEMMA OwnSo ==
    ASSUME Typed, NEW r \in Requests, request[r].todo # <<>>
    PROVE  /\ Own(r) \in RequestDocs
           /\ \/ Len(request[r].todo) # 1 /\ Goes2(r, Own(r))
              \/ Len(request[r].todo) = 1 /\ request[r].rest = {} /\ Own(r) = Idle
              \/ Len(request[r].todo) = 1 /\ \E p \in Txs \X Entries : GoesTo(r, p, Own(r))
PROOF
<1>1. PICK old \in RequestDocs : old = request[r]
  BY RequestFacts
<1>2. PICK todo \in Seq(Steps) : todo = old.todo
  BY DEF RequestDocs
<1>3. PICK own : own = Own(r)
  OBVIOUS
<1>4. CASE Len(todo) # 1
  <2>1. Tail(todo) \in Seq(Steps) /\ Head(todo) = todo[1]
    BY <1>1, <1>2, TailFacts
  <2>2. PICK rest \in Seq(Steps) : rest = Tail(todo)
    BY <2>1
  <2>3. PICK z \in BOOLEAN : z = (old.moved \/ todo[1].do = "put")
    OBVIOUS
  <2>4. own = [old EXCEPT !.todo = rest, !.wrote = TRUE, !.moved = z]
    BY <1>1, <1>2, <1>3, <1>4, <2>1, <2>2, <2>3 DEF Own, Step
  <2>5. /\ own \in RequestDocs /\ own.op = old.op /\ own.todo = rest /\ own.rest = old.rest
        /\ own.holds = old.holds /\ own.on = old.on /\ own.wrote = TRUE /\ own.moved = z
        /\ own.stale = old.stale /\ own.wrong = old.wrong
    BY <2>4 DEF RequestDocs
  <2> QED
    BY <1>1, <1>2, <1>3, <1>4, <2>2, <2>3, <2>5 DEF Goes2
<1>5. CASE Len(todo) = 1 /\ old.rest = {}
  BY <1>1, <1>2, <1>5, IdleType DEF Own, Done
<1>6. CASE Len(todo) = 1 /\ old.rest # {}
  <2>1. PICK p \in Txs \X Entries : p = (CHOOSE x \in old.rest : TRUE) /\ p \in old.rest
    <3>1. (CHOOSE x \in old.rest : TRUE) \in old.rest
      BY <1>6
    <3>2. old.rest \subseteq Txs \X Entries
      BY DEF RequestDocs
    <3> QED
      BY <3>1, <3>2
  <2>2. PICK idle \in RequestDocs : idle = Idle
    BY IdleType
  <2>3. PICK t \in Txs : t = p[1] /\ \E e \in Entries : e = p[2]
    <3>1. p[1] \in Txs /\ p[2] \in Entries
      BY <2>1
    <3> QED
      BY <3>1
  <2>9. PICK e \in Entries : e = p[2]
    BY <2>3
  <2>4. own = [idle EXCEPT !.op = "delete", !.tx = t, !.loaded = {e},
                           !.holds = {t}, !.on = {e.acc}, !.stale = old.stale]
    BY <1>1, <1>2, <1>3, <1>6, <2>1, <2>2, <2>3, <2>9 DEF Own, Done
  <2>5. e.acc \in Accounts /\ old.stale \in BOOLEAN
    BY DEF Entries, RequestDocs
  <2>6. /\ own \in RequestDocs /\ own.op = "delete" /\ own.todo = idle.todo /\ own.tx = t
        /\ own.loaded = {e} /\ own.rest = idle.rest /\ own.holds = {t} /\ own.on = {e.acc}
        /\ own.stale = old.stale /\ own.wrote = idle.wrote /\ own.wrong = idle.wrong
    BY <2>4, <2>5 DEF RequestDocs, Loads
  <2>7. idle.todo = <<>> /\ idle.rest = {} /\ ~idle.wrote /\ ~idle.wrong
    BY <2>2 DEF Idle
  <2>8. GoesTo(r, p, own)
    BY <1>1, <2>1, <2>3, <2>9, <2>6, <2>7 DEF GoesTo
  <2> QED
    BY <1>1, <1>2, <1>3, <1>6, <2>1, <2>3, <2>6, <2>8
<1> QED
  BY <1>1, <1>2, <1>4, <1>5, <1>6

(* A write is the first write of the plan, stored and told to the others. *)
LEMMA WriteSo ==
    ASSUME IInv, NEW r \in Requests, Write(r), NEW s, s = Step(r)
    PROVE  /\ Writes(r, s) /\ request'[r] = Own(r)
           /\ \A q \in Requests \ {r} :
                 request'[q] = [request[q] EXCEPT
                                   !.stale = @ \/ request[q].holds \cap Written(r) # {}]
PROOF
<1>1. Typed /\ Req(r)
  BY DEF IInv
<1>2. PICK todo \in Seq(Steps) : todo = request[r].todo /\ todo # <<>>
  BY <1>1, RequestFacts DEF Write
<1>3. s = todo[1] /\ s = Head(todo) /\ s \in Steps /\ Len(todo) \in Nat \ {0}
  BY <1>2, TailFacts DEF Step
<1>4. request[r].op \in Writers \cup {"recompute"}
  BY <1>1, <1>2, TodoOf
<1>5. Store(r) /\ (s.do = "insert" => tx[s.tx].state = "none") /\ starts' = starts
  BY DEF Write
<1>6. /\ tx' \in [Txs -> Entries] /\ account' \in [Accounts -> AccountDocs]
      /\ \A t \in Txs : tx'[t] = Applied(s, t, tx[t])
      /\ \A a \in Accounts :
            /\ account'[a].bal = Paid(s, a, account[a].bal)
            /\ account'[a].opening = account[a].opening
            /\ account'[a].cut = account[a].cut /\ account'[a].type = account[a].type
  BY <1>1, <1>3, <1>5, StoreSo
<1>7. Own(r) \in RequestDocs
  BY <1>1, <1>2, OwnSo
<1>8. Outdate(r, Written(r), Own(r))
  BY DEF Write, Own
<1>9. /\ request' \in [Requests -> RequestDocs] /\ request'[r] = Own(r)
      /\ \A q \in Requests \ {r} :
            request'[q] = [request[q] EXCEPT
                              !.stale = @ \/ request[q].holds \cap Written(r) # {}]
  BY <1>1, <1>7, <1>8, Outdated
<1>10. request[r].op \in Writers => OkStep(r, s)
  <2>1. 1 \in 1..Len(todo)
    BY <1>3
  <2> QED
    BY <1>1, <1>2, <1>3, <2>1 DEF Req, OkWriter
<1>11. request[r].op = "recompute" => s.do = "put" /\ s.acc \in request[r].on
  BY <1>1, <1>2, <1>3 DEF Req, OkRecompute
<1>12. /\ s.do = "insert" => OkInsert(r, s)
       /\ s.do = "change" => OkChange(r, s)
       /\ s.do = "put" => s.acc \in request[r].on
  BY <1>4, <1>10, <1>11 DEF OkStep
<1>13. Typed'
  <2>1. \A x \in Requests : request'[x].on \subseteq Accounts
    BY <1>9 DEF RequestDocs
  <2>2. doubted' \subseteq Accounts
    <3>1. \A t \in Txs : tx[t].acc \in Accounts
      BY <1>1, DocFacts DEF Entries
    <3>2. doubted \subseteq Accounts /\ request[r].on \subseteq Accounts
      BY <1>1, DocFacts, RequestFacts
    <3>3. doubted' \subseteq doubted \cup request[r].on \cup {tx[t].acc : t \in Written(r) \cap Txs}
      BY DEF Write
    <3> QED
      BY <3>1, <3>2, <3>3
  <2> QED
    BY <1>1, <1>5, <1>6, <1>9, <2>1, <2>2 DEF Typed, TypeOK
<1> QED
  BY <1>2, <1>3, <1>4, <1>5, <1>6, <1>9, <1>10, <1>11, <1>12, <1>13 DEF Writes

(* What every write but an insert leaves as it was. *)
Kept(e, now) ==
    /\ now.state = "none" <=> e.state = "none"
    /\ now.recurring = e.recurring
    /\ IsLeg(now) <=> IsLeg(e)
    /\ IsLeg(e) => now.kind = e.kind /\ now.acc = e.acc

(* A planned change keeps what Kept says, on the transaction as it is by  *)
(* now.                                                                   *)
LEMMA ChangedKept ==
    ASSUME Typed, NEW r \in Requests, NEW s \in ChangeSteps, OkChange(r, s),
           NEW now, now = Merged(tx[s.tx], s.from, s.to)
    PROVE  /\ Kept(tx[s.tx], now) /\ now \in Entries
           /\ now.acc \in request[r].on \cup {tx[s.tx].acc}
           /\ request[r].op # "transfer" => now.pair = tx[s.tx].pair
PROOF
<1>1. s.tx \in Txs /\ s.from \in Entries /\ s.to \in Entries
  BY DEF ChangeSteps
<1>2. PICK e \in Entries : e = tx[s.tx]
  BY <1>1, DocFacts
<1>3. PICK from \in Entries : from = s.from
  BY <1>1
<1>4. PICK to \in Entries : to = s.to
  BY <1>1
<1>5. /\ now \in Entries
      /\ now.state = Saved(e.state, from.state, to.state)
      /\ now.acc = Saved(e.acc, from.acc, to.acc)
      /\ now.kind = Saved(e.kind, from.kind, to.kind)
      /\ now.recurring = Saved(e.recurring, from.recurring, to.recurring)
      /\ now.pair = Saved(e.pair, from.pair, to.pair)
  <2>1. now = Merged(e, from, to)
    BY <1>2, <1>3, <1>4
  <2>2. now \in Entries
    BY <2>1, MergedType
  <2> QED
    BY <2>1, <2>2 DEF Merged
<1>6. Firm(s.tx) <=> e.state # "none" /\ ~IsLeg(e)
  BY <1>2 DEF Firm
<1>7. /\ to.acc \in request[r].on
      /\ to.state \in {from.state, "gone"}
      /\ to.state # from.state => Firm(s.tx)
      /\ to.acc # from.acc => Firm(s.tx)
      /\ to.kind # from.kind => Firm(s.tx) /\ ~IsLeg(to)
      /\ to.pair # from.pair => request[r].op = "transfer"
      /\ to.recurring = from.recurring
  BY <1>3, <1>4 DEF OkChange
<1>8. now.state = "none" <=> e.state = "none"
  BY <1>5, <1>6, <1>7 DEF Saved
<1>9. now.recurring = e.recurring
  BY <1>5, <1>7 DEF Saved
<1>10. IsLeg(now) <=> IsLeg(e)
  <2>1. CASE to.kind = from.kind
    BY <1>5, <2>1 DEF Saved, IsLeg
  <2>2. CASE to.kind # from.kind
    <3>1. ~IsLeg(e) /\ ~IsLeg(to) /\ now.kind = to.kind
      BY <1>5, <1>6, <1>7, <2>2 DEF Saved
    <3> QED
      BY <3>1 DEF IsLeg
  <2> QED
    BY <2>1, <2>2
<1>11. IsLeg(e) => now.kind = e.kind /\ now.acc = e.acc
  BY <1>5, <1>6, <1>7 DEF Saved
<1>12. now.acc \in request[r].on \cup {e.acc}
  BY <1>5, <1>7 DEF Saved
<1>13. request[r].op # "transfer" => now.pair = e.pair
  BY <1>5, <1>7 DEF Saved
<1> QED
  BY <1>2, <1>5, <1>8, <1>9, <1>10, <1>11, <1>12, <1>13 DEF Kept

(* Hiding a transaction keeps what Kept says. *)
LEMMA BuriedKept ==
    ASSUME NEW e \in Entries
    PROVE  /\ Kept(e, Buried(e)) /\ Buried(e).pair = e.pair /\ Buried(e).acc = e.acc
           /\ Buried(e) \in Entries
PROOF
<1>1. PICK now : now = Buried(e)
  OBVIOUS
<1>2. PICK state \in {"none", "live", "gone"} :
        state = IF e.state = "live" THEN "gone" ELSE e.state
  BY DEF Entries
<1>3. now = [e EXCEPT !.state = state]
  BY <1>1, <1>2 DEF Buried
<1>4. /\ now \in Entries /\ now.state = state /\ now.acc = e.acc /\ now.kind = e.kind
      /\ now.recurring = e.recurring /\ now.pair = e.pair
  BY <1>3 DEF Entries
<1>5. now.state = "none" <=> e.state = "none"
  BY <1>2, <1>4
<1> QED
  BY <1>1, <1>4, <1>5 DEF Kept, IsLeg

(* What one write makes of the transactions. *)
Changes(r, s) ==
    /\ \A t \in Txs : t \notin Targets(s) => tx'[t] = tx[t]
    /\ \A t \in Txs : \/ s.do = "insert" /\ t = s.tx
                      \/ Kept(tx[t], tx'[t])
    /\ request[r].op # "transfer" \/ s.do # "change" =>
          \A t \in Txs : \/ s.do = "insert" /\ t = s.tx
                         \/ tx'[t].pair = tx[t].pair
    /\ \A t \in Txs : tx'[t].state = "none" => tx[t].state = "none"
    /\ \A t \in Txs : Firm(t) => Firm(t)'
    /\ \A t \in Txs : \A kind, a : Leg(t, kind, a) /\ IsLeg(tx[t]) => Leg(t, kind, a)'
    /\ s.do = "insert" => /\ s \in InsertSteps /\ tx[s.tx].state = "none"
                          /\ tx'[s.tx] = s.entry
    /\ \A t \in Txs : t \in Targets(s) /\ tx[t].state # "none" /\ tx[t].acc \in request[r].on
                      => tx'[t].acc \in request[r].on
    /\ \A t \in Txs : t \in Targets(s) => tx'[t].acc \in request[r].on \cup {tx[t].acc}

(* One write of a plan makes that of the transactions. *)
LEMMA ChangesSo ==
    ASSUME Typed, NEW r \in Requests, NEW s, Writes(r, s)
    PROVE  Changes(r, s)
PROOF
<1>1. /\ Typed' /\ s \in Steps
      /\ \A t \in Txs : tx'[t] = Applied(s, t, tx[t])
      /\ s.do = "insert" => tx[s.tx].state = "none" /\ OkInsert(r, s)
      /\ s.do = "change" => OkChange(r, s)
  BY DEF Writes
<1>2. \A t \in Txs : tx[t] \in Entries
  BY DocFacts
<1>3. \A t \in Txs : t \notin Targets(s) => tx'[t] = tx[t]
  BY <1>1 DEF Applied
<1>4. \A t \in Txs : t \notin Targets(s) =>
         Kept(tx[t], tx'[t]) /\ tx'[t].pair = tx[t].pair
  BY <1>3 DEF Kept
<1>5. s.do = "insert" => /\ s \in InsertSteps /\ tx[s.tx].state = "none" /\ s.tx \in Txs
                         /\ tx'[s.tx] = s.entry /\ Targets(s) = {s.tx}
                         /\ s.entry.state = "live" /\ s.entry.acc \in request[r].on
  <2> SUFFICES ASSUME s.do = "insert"
               PROVE  /\ s \in InsertSteps /\ tx[s.tx].state = "none" /\ s.tx \in Txs
                      /\ tx'[s.tx] = s.entry /\ Targets(s) = {s.tx}
                      /\ s.entry.state = "live" /\ s.entry.acc \in request[r].on
    OBVIOUS
  <2>1. s \in InsertSteps
    BY <1>1 DEF Steps, InsertSteps, ChangeSteps, BurySteps, PutSteps
  <2>2. s.tx \in Txs /\ Targets(s) = {s.tx}
    BY <2>1 DEF InsertSteps, Targets
  <2>3. tx'[s.tx] = s.entry
    BY <1>1, <2>2 DEF Applied
  <2> QED
    BY <1>1, <2>1, <2>2, <2>3 DEF OkInsert
<1>6. ASSUME NEW t \in Txs, t \in Targets(s), s.do # "insert"
      PROVE  /\ Kept(tx[t], tx'[t])
             /\ tx'[t].acc \in request[r].on \cup {tx[t].acc}
             /\ request[r].op # "transfer" \/ s.do # "change" => tx'[t].pair = tx[t].pair
  <2>1. CASE s \in ChangeSteps
    <3>1. s.do = "change" /\ Targets(s) = {s.tx}
      BY <2>1 DEF ChangeSteps, Targets
    <3>2. t = s.tx /\ tx'[t] = Merged(tx[s.tx], s.from, s.to)
      BY <1>1, <1>6, <3>1 DEF Applied
    <3> QED
      BY <1>1, <2>1, <3>1, <3>2, ChangedKept
  <2>2. CASE s \in BurySteps
    <3>1. s.do = "bury"
      BY <2>2 DEF BurySteps
    <3>2. tx'[t] = Buried(tx[t])
      BY <1>1, <1>6, <3>1 DEF Applied
    <3> QED
      BY <1>2, <3>1, <3>2, BuriedKept
  <2>3. s \notin InsertSteps /\ s \notin PutSteps
    BY <1>6 DEF InsertSteps, PutSteps, Targets
  <2> QED
    BY <1>1, <2>1, <2>2, <2>3 DEF Steps
<1>7. \A t \in Txs : \/ s.do = "insert" /\ t = s.tx
                     \/ Kept(tx[t], tx'[t])
  BY <1>4, <1>5, <1>6
<1>8. request[r].op # "transfer" \/ s.do # "change" =>
         \A t \in Txs : \/ s.do = "insert" /\ t = s.tx
                        \/ tx'[t].pair = tx[t].pair
  BY <1>4, <1>5, <1>6
<1>9. \A t \in Txs : tx'[t].state = "none" => tx[t].state = "none"
  BY <1>5, <1>7 DEF Kept
<1>10. \A t \in Txs : t \in Targets(s) => tx'[t].acc \in request[r].on \cup {tx[t].acc}
  BY <1>5, <1>6
<1>11. \A t \in Txs : Firm(t) => Firm(t)'
  BY <1>5, <1>7 DEF Kept, Firm
<1>12. ASSUME NEW t \in Txs, NEW kind, NEW a, Leg(t, kind, a), IsLeg(tx[t])
       PROVE  Leg(t, kind, a)'
  <2>1. Kept(tx[t], tx'[t])
    BY <1>5, <1>7, <1>12 DEF Leg
  <2> QED
    BY <1>12, <2>1 DEF Kept, Leg
<1> QED
  BY <1>3, <1>5, <1>7, <1>8, <1>9, <1>10, <1>11, <1>12 DEF Changes

(* What is told to the other requests is what was written. *)
LEMMA WrittenSo ==
    ASSUME Typed, NEW r \in Requests, Req(r), NEW s, s = Step(r), Writes(r, s)
    PROVE  /\ \A t \in Txs : t \in Written(r) \/ tx'[t] = tx[t]
           /\ \A a \in Accounts : a \in Written(r) \/ account'[a].bal = account[a].bal
           /\ s.do # "put" => /\ Written(r) \subseteq Targets(s) /\ Written(r) \subseteq Txs
                              /\ \A a \in Accounts : account'[a].bal = account[a].bal
           /\ s.do = "put" => /\ Written(r) \subseteq {s.acc} /\ Targets(s) = {}
                              /\ s.acc \in Accounts /\ s.bal \in Int
                              /\ account'[s.acc].bal = s.bal
                              /\ \A t \in Txs : tx'[t] = tx[t]
           /\ request[r].op = "touched" => \A t \in Txs : tx'[t] = tx[t]
           /\ request[r].op # "touched" => Targets(s) \subseteq Written(r)
           /\ request[r].op = "recompute" => s.do = "put" /\ Written(r) = {s.acc}
PROOF
<1>1. /\ s \in Steps /\ s = request[r].todo[1] /\ request[r].todo # <<>>
      /\ \A t \in Txs : tx'[t] = Applied(s, t, tx[t])
      /\ \A a \in Accounts : account'[a].bal = Paid(s, a, account[a].bal)
      /\ request[r].op = "recompute" => s.do = "put"
  BY DEF Writes
<1>2. CASE request[r].op = "touched"
  <2>1. s.do = "change" /\ s.from = s.to
    BY <1>1, <1>2 DEF Req, OkWriter, Writers
  <2>2. s \in ChangeSteps
    BY <1>1, <2>1 DEF Steps, InsertSteps, BurySteps, PutSteps
  <2>3. s.tx \in Txs /\ s.from \in Entries /\ s.to \in Entries
    BY <2>2 DEF ChangeSteps
  <2>4. \A t \in Txs : tx'[t] = tx[t]
    BY <1>1, <2>1, <2>3, MergedNothing, DocFacts DEF Applied
  <2>5. \A a \in Accounts : account'[a].bal = account[a].bal
    BY <1>1, <2>1 DEF Paid
  <2>6. Written(r) = {}
    BY <1>2, <2>1 DEF Written
  <2> QED
    BY <1>2, <2>1, <2>4, <2>5, <2>6
<1>3. CASE request[r].op # "touched" /\ s.do # "put"
  <2>1. s.do \in {"insert", "change", "bury"}
    BY <1>1, <1>3 DEF Steps, InsertSteps, ChangeSteps, BurySteps, PutSteps
  <2>2. Written(r) = Targets(s)
    BY <1>3, <2>1 DEF Written, Targets
  <2>3. Targets(s) \subseteq Txs
    BY <1>1 DEF Targets, Steps, InsertSteps, ChangeSteps, BurySteps, PutSteps
  <2>4. \A t \in Txs : t \in Targets(s) \/ tx'[t] = tx[t]
    BY <1>1 DEF Applied
  <2>5. \A a \in Accounts : account'[a].bal = account[a].bal
    BY <1>1, <1>3 DEF Paid
  <2> QED
    BY <1>1, <1>3, <2>2, <2>3, <2>4, <2>5
<1>4. CASE request[r].op # "touched" /\ s.do = "put"
  <2>1. s \in PutSteps
    BY <1>1, <1>4 DEF Steps, InsertSteps, ChangeSteps, BurySteps, PutSteps
  <2>2. s.acc \in Accounts /\ s.bal \in Int /\ Targets(s) = {}
    BY <2>1 DEF PutSteps, Targets
  <2>3. Written(r) = {s.acc}
    BY <1>4 DEF Written
  <2>4. \A t \in Txs : tx'[t] = tx[t]
    BY <1>1, <2>2 DEF Applied
  <2>5. \A a \in Accounts : account'[a].bal = IF a = s.acc THEN s.bal ELSE account[a].bal
    BY <1>1, <1>4 DEF Paid
  <2> QED
    BY <1>4, <2>2, <2>3, <2>4, <2>5
<1> QED
  BY <1>2, <1>3, <1>4

(* A write of one request is a step beside all the others. *)
LEMMA WriteBeside ==
    ASSUME IInv, NEW r \in Requests, Write(r), NEW q \in Requests \ {r}
    PROVE  Beside(q, Written(r))
PROOF
<1>1. PICK s : s = Step(r)
  OBVIOUS
<1>2. /\ Writes(r, s)
      /\ request'[q] = [request[q] EXCEPT
                           !.stale = @ \/ request[q].holds \cap Written(r) # {}]
  BY <1>1, WriteSo
<1>3. Typed /\ Req(r) /\ Req(q)
  BY DEF IInv
<1>4. /\ \A t \in Txs \ Written(r) : tx'[t] = tx[t]
      /\ \A a \in Accounts \ Written(r) : account'[a].bal = account[a].bal
      /\ request[r].op = "recompute" => s.do = "put" /\ Written(r) = {s.acc}
  BY <1>1, <1>2, <1>3, WrittenSo
<1>5. Changes(r, s)
  BY <1>2, <1>3, ChangesSo
<1>6. \A a \in Accounts \ Written(r) : Money(account'[a]) = Money(account[a])
  BY <1>2, <1>4 DEF Writes, Money
<1>7. \A t \in Made(q) : \A kind, a : Leg(t, kind, a) => Leg(t, kind, a)'
  <2>1. \A t \in Made(q) : t \in Txs /\ IsLeg(tx[t])
    BY <1>3, MadeLegs
  <2> QED
    BY <1>5, <2>1 DEF Changes
<1>8. \A a \in request[q].on : a \in doubted => a \in doubted' \/ a \in Written(r)
  <2>1. CASE request[r].op = "recompute"
    <3>1. \E a \in Accounts : request[r].on = {a} /\ request[r].todo[1].acc = a
      BY <1>3, <2>1 DEF Req, OkRecompute
    <3>2. request[r].on = {s.acc}
      BY <1>2, <3>1 DEF Writes
    <3>3. doubted \ request[r].on \subseteq doubted'
      BY DEF Write
    <3> QED
      BY <1>4, <2>1, <3>2, <3>3
  <2>2. CASE request[r].op # "recompute"
    <3>1. doubted \subseteq doubted'
      BY <2>2 DEF Write
    <3> QED
      BY <3>1
  <2> QED
    BY <2>1, <2>2
<1>9. \A t \in Txs : Firm(t) => Firm(t)'
  BY <1>5 DEF Changes
<1> QED
  BY <1>2, <1>4, <1>6, <1>7, <1>8, <1>9 DEF Beside

(* What a transfer that goes on has made. *)
MoreMade(r, s) ==
    \/ Made(r)' = {} /\ request'[r].op # "transfer"
    \/ /\ Made(r) \subseteq Made(r)'
       /\ \A t \in Made(r)' : t \in Made(r) \/ (s.do = "insert" /\ t = s.tx)
       /\ s.do = "insert" /\ request[r].op = "transfer" => s.tx \in Made(r)'

(* A transfer that writes goes on having made what it made, and the leg   *)
(* it inserts.                                                            *)
LEMMA MoreMadeSo ==
    ASSUME Typed, NEW r \in Requests, Req(r), NEW s, Writes(r, s), request'[r] = Own(r)
    PROVE  MoreMade(r, s)
PROOF
<1>1. /\ Typed' /\ request[r].todo # <<>> /\ s = request[r].todo[1] /\ s \in Steps
      /\ s.do = "insert" => OkInsert(r, s)
  BY DEF Writes
<1>2. PICK own \in RequestDocs : own = request'[r]
  BY <1>1, RequestFacts, OwnSo
<1>3. PICK todo \in Seq(Steps) : todo = request[r].todo
  BY RequestFacts
<1>4. CASE own.op # "transfer"
  <2>1. Made(r)' = {}
    BY <1>2, <1>4 DEF Made
  <2> QED
    BY <1>2, <1>4, <2>1 DEF MoreMade
<1>5. CASE own.op = "transfer"
  <2>1. Goes2(r, own)
    <3>1. /\ Idle.op = "none"
          /\ \A p : GoesTo(r, p, own) => own.op = "delete"
      BY DEF Idle, GoesTo
    <3> QED
      BY <1>1, <1>2, <1>5, <3>1, OwnSo
  <2>2. request[r].op = "transfer" /\ own.todo = Tail(todo) /\ own.holds = request[r].holds
    BY <1>3, <1>5, <2>1 DEF Goes2
  <2>3. Made(r) = MadeOf(request[r]) /\ Made(r)' = MadeOf(own)
    BY <1>1, <1>2, <1>5, <2>2, MadeFacts, NextMadeFacts
  <2>4. /\ \A i \in 1..Len(Tail(todo)) : i + 1 \in 1..Len(todo) /\ Tail(todo)[i] = todo[i + 1]
        /\ Len(Tail(todo)) = Len(todo) - 1 /\ Len(todo) \in Nat \ {0}
    BY <1>1, <1>3, TailFacts
  <2>5. Made(r) \subseteq Made(r)'
    <3>1. ASSUME NEW t, t \in MadeOf(request[r]) PROVE t \in MadeOf(own)
      <4>1. /\ t \in request[r].holds \cap Txs
            /\ \A i \in 1..Len(todo) : todo[i].do = "insert" => todo[i].tx # t
        BY <1>3, <3>1 DEF MadeOf
      <4>2. \A i \in 1..Len(Tail(todo)) : Tail(todo)[i].do = "insert" => Tail(todo)[i].tx # t
        BY <2>4, <4>1
      <4> QED
        BY <2>2, <4>1, <4>2 DEF MadeOf
    <3> QED
      BY <2>3, <3>1
  <2>6. ASSUME NEW t \in Made(r)', t \notin Made(r) PROVE s.do = "insert" /\ t = s.tx
    <3>1. /\ t \in own.holds \cap Txs
          /\ \A i \in 1..Len(Tail(todo)) : Tail(todo)[i].do = "insert" => Tail(todo)[i].tx # t
      BY <2>2, <2>3, <2>6 DEF MadeOf
    <3>2. PICK i \in 1..Len(todo) : todo[i].do = "insert" /\ todo[i].tx = t
      BY <1>3, <2>2, <2>3, <2>6, <3>1 DEF MadeOf
    <3>3. i # 1 => i - 1 \in 1..Len(Tail(todo)) /\ Tail(todo)[i - 1] = todo[i]
      BY <2>4
    <3>4. i = 1
      BY <3>1, <3>2, <3>3
    <3> QED
      BY <1>1, <1>3, <3>2, <3>4
  <2>7. ASSUME s.do = "insert" PROVE s.tx \in Made(r)'
    <3>1. s.tx \in Txs
      BY <1>1, <2>7 DEF Steps, InsertSteps, ChangeSteps, BurySteps, PutSteps
    <3>2. s.tx \in request[r].holds
      BY <1>1, <2>7 DEF OkInsert
    <3>3. \A i, j \in 1..Len(todo) :
             i # j /\ todo[i].do = "insert" /\ todo[j].do = "insert" => todo[i].tx # todo[j].tx
      BY <1>3, <2>2 DEF Req, OkWriter, Writers
    <3>4. \A i \in 1..Len(Tail(todo)) : Tail(todo)[i].do = "insert" => Tail(todo)[i].tx # s.tx
      <4> SUFFICES ASSUME NEW i \in 1..Len(Tail(todo)), Tail(todo)[i].do = "insert"
                   PROVE  Tail(todo)[i].tx # s.tx
        OBVIOUS
      <4>1. i + 1 \in 1..Len(todo) /\ Tail(todo)[i] = todo[i + 1] /\ 1 \in 1..Len(todo) /\ 1 # i + 1
        BY <2>4
      <4> QED
        BY <1>1, <1>3, <2>7, <3>3, <4>1
    <3> QED
      BY <2>2, <2>3, <3>1, <3>2, <3>4 DEF MadeOf
  <2> QED
    BY <2>5, <2>6, <2>7 DEF MoreMade
<1> QED
  BY <1>4, <1>5

(* A leg points at what it pointed at before, or a transfer has made what  *)
(* it now points at.                                                       *)
OldPair(t) ==
    /\ tx[t].state # "none" /\ Paired(tx[t]) /\ tx'[t].pair = tx[t].pair
    /\ Kept(tx[t], tx'[t])

(* The transfer has just made t, or pointed it at its other leg. *)
NewPair(r, s, t) ==
    /\ request[r].op = "transfer" /\ tx'[t].pair \in Made(r)
    /\ t \in Made(r) \/ (s.do = "insert" /\ t = s.tx)
    /\ Twin(tx'[t], tx'[tx'[t].pair])

(* After a write a leg is paired in one of these two ways. *)
LEMMA PairSo ==
    ASSUME Typed, NEW r \in Requests, Req(r), NEW s, Writes(r, s),
           NEW t \in Txs, tx'[t].state # "none", Paired(tx'[t])
    PROVE  OldPair(t) \/ NewPair(r, s, t)
PROOF
<1>1. /\ Typed' /\ request[r].todo # <<>> /\ s = request[r].todo[1] /\ s \in Steps
      /\ s.do = "insert" => OkInsert(r, s)
      /\ \A v \in Txs : tx'[v] = Applied(s, v, tx[v])
  BY DEF Writes
<1>2. Changes(r, s)
  BY ChangesSo
<1>3. ASSUME Kept(tx[t], tx'[t]), tx'[t].pair = tx[t].pair PROVE OldPair(t)
  BY <1>3 DEF OldPair, Paired, Kept
<1>4. CASE request[r].op # "transfer"
  <2>1. ~(s.do = "insert" /\ t = s.tx)
    BY <1>1, <1>2, <1>4 DEF Changes, OkInsert, Paired
  <2> QED
    BY <1>2, <1>3, <1>4, <2>1 DEF Changes
<1>5. CASE request[r].op = "transfer"
  <2>1. PICK t0 \in Txs, u \in Txs, a \in Accounts, b \in Accounts :
           /\ t0 # u /\ a # b /\ request[r].holds \cap Txs = {t0, u}
           /\ Stage(r, t0, u, a, b)
    BY <1>5 DEF Req, OkTransfer
  <2>2. ASSUME s.do # "change", ~(s.do = "insert" /\ t = s.tx) PROVE OldPair(t)
    BY <1>2, <1>3, <2>2 DEF Changes
  <2>3. CASE FirstLeg(r, t0, u, a, b)
    <3>1. s.do = "insert" /\ s.entry.pair = NoTx
      BY <1>1, <2>3 DEF FirstLeg, IsOut
    <3>2. t # s.tx
      BY <1>2, <3>1 DEF Changes, Paired
    <3> QED
      BY <2>2, <3>1, <3>2
  <2>4. CASE SecondLeg(r, t0, u, a, b)
    <3>1. /\ s.do = "insert" /\ s.tx = u /\ s.entry.kind = "in" /\ s.entry.acc = b
          /\ s.entry.pair = t0 /\ Leg(t0, "out", a)
      BY <1>1, <2>4 DEF SecondLeg, IsIn
    <3>2. ASSUME t = u PROVE NewPair(r, s, t)
      <4>1. Made(r) = {t0}
        BY <1>5, <2>1, <2>4, StageMade
      <4>2. tx'[t] = s.entry
        BY <1>2, <3>1, <3>2 DEF Changes
      <4>3. Targets(s) = {u}
        BY <3>1 DEF Targets
      <4>4. tx'[t0] = tx[t0]
        BY <1>2, <2>1, <4>3 DEF Changes
      <4>5. Twin(tx'[t], tx'[t0])
        BY <2>1, <3>1, <4>2, <4>4 DEF Twin, Leg
      <4> QED
        BY <1>5, <3>1, <3>2, <4>1, <4>2, <4>5 DEF NewPair
    <3> QED
      BY <2>2, <3>1, <3>2
  <2>5. CASE PointsBack(r, t0, u, a, b)
    <3>1. /\ s.do = "change" /\ s.tx = t0 /\ s.from.kind = "out" /\ s.from.acc = a
          /\ s.from.pair = NoTx /\ s.to = [s.from EXCEPT !.pair = u]
          /\ Leg(t0, "out", a) /\ Leg(u, "in", b)
      BY <1>1, <2>5 DEF PointsBack, IsBack
    <3>2. Targets(s) = {t0}
      BY <3>1 DEF Targets
    <3>3. ASSUME t = t0 PROVE NewPair(r, s, t)
      <4>1. Made(r) = {t0, u}
        BY <1>5, <2>1, <2>5, StageMade
      <4>2. PICK from \in Entries : from = s.from
        BY <1>1, <3>1 DEF Steps, InsertSteps, ChangeSteps, BurySteps, PutSteps
      <4>3. PICK now \in Entries : now = tx[t0]
        BY DocFacts
      <4>4. tx'[t0] = Merged(now, from, [from EXCEPT !.pair = u])
        BY <1>1, <3>1, <3>2, <4>2, <4>3 DEF Applied
      <4>5. u # NoTx
        BY NoTxAssumption
      <4>6. /\ tx'[t0].pair = u /\ tx'[t0].kind = now.kind /\ tx'[t0].acc = now.acc
            /\ tx'[t0].state = now.state
        BY <3>1, <4>2, <4>4, <4>5 DEF Merged, Saved, Entries
      <4>7. tx'[u] = tx[u]
        BY <1>2, <2>1, <3>2 DEF Changes
      <4>8. Twin(tx'[t0], tx'[u])
        BY <2>1, <3>1, <4>3, <4>6, <4>7 DEF Twin, Leg
      <4> QED
        BY <1>5, <3>3, <4>1, <4>6, <4>8 DEF NewPair
    <3>4. ASSUME t # t0 PROVE OldPair(t)
      <4>1. tx'[t] = tx[t]
        BY <1>2, <3>2, <3>4 DEF Changes
      <4> QED
        BY <1>3, <4>1 DEF Kept
    <3> QED
      BY <3>3, <3>4
  <2>6. CASE Pays(r, t0, u, a, b)
    <3>1. s.do = "put"
      <4>1. Len(request[r].todo) \in Nat \ {0}
        BY <1>1, RequestFacts, TailFacts
      <4> QED
        BY <1>1, <2>6, <4>1 DEF Pays, PutsFrom
    <3> QED
      BY <2>2, <3>1
  <2> QED
    BY <2>1, <2>3, <2>4, <2>5, <2>6 DEF Stage
<1> QED
  BY <1>4, <1>5

(* The legs stay in order when a request writes. *)
LEMMA WriteLegs ==
    ASSUME IInv, NEW r \in Requests, Write(r)
    PROVE  Legs'
PROOF
<1>1. PICK s : s = Step(r)
  OBVIOUS
<1>2. Writes(r, s) /\ request'[r] = Own(r)
  BY <1>1, WriteSo
<1>3. Typed /\ Req(r) /\ Legs
  BY DEF IInv
<1>4. Changes(r, s) /\ MoreMade(r, s) /\ Typed'
  BY <1>2, <1>3, ChangesSo, MoreMadeSo DEF Writes
<1>5. \A q \in Requests \ {r} : Made(q)' = Made(q)
  BY <1>3, <1>4, WriteBeside, BesideMade
<1>6. \A t \in Txs : tx'[t].state # "none" /\ Paired(tx'[t]) => OldPair(t) \/ NewPair(r, s, t)
  BY <1>2, <1>3, PairSo
<1>7. ASSUME NEW q \in Requests, NEW t \in Made(q) PROVE t \in Txs /\ tx[t].state # "none"
  <2>1. Req(q)
    BY DEF IInv
  <2> QED
    BY <1>3, <1>7, <2>1, MadeLegs
<1>8. WellPaired(tx)'
  <2>1. ASSUME NEW t \in Txs, tx'[t].state # "none"
        PROVE  /\ Paired(tx'[t]) => Twin(tx'[t], tx'[tx'[t].pair])
               /\ tx'[t].recurring => ~IsLeg(tx'[t])
    <3>1. tx'[t].recurring => ~IsLeg(tx'[t])
      <4>1. CASE s.do = "insert" /\ t = s.tx
        BY <1>2, <1>4, <4>1 DEF Writes, Changes, OkInsert
      <4>2. CASE Kept(tx[t], tx'[t])
        BY <1>3, <2>1, <4>2 DEF Legs, WellPaired, Kept
      <4> QED
        BY <1>4, <4>1, <4>2 DEF Changes
    <3>2. ASSUME OldPair(t) PROVE Twin(tx'[t], tx'[tx'[t].pair])
      <4>1. /\ tx[t].state # "none" /\ Paired(tx[t]) /\ tx'[t].pair = tx[t].pair
            /\ Kept(tx[t], tx'[t])
        BY <3>2 DEF OldPair
      <4>2. Twin(tx[t], tx[tx[t].pair])
        BY <1>3, <4>1 DEF Legs, WellPaired
      <4>3. PICK u \in Txs : u = tx[t].pair
        BY <1>3, <4>1, DocFacts DEF Paired, Entries
      <4>4. tx[u].state # "none" /\ IsLeg(tx[u])
        BY <4>2, <4>3 DEF Twin, IsLeg
      <4>5. Kept(tx[u], tx'[u])
        BY <1>4, <4>4 DEF Changes
      <4> QED
        BY <4>1, <4>2, <4>3, <4>4, <4>5 DEF Kept, Twin, Paired
    <3> QED
      BY <1>6, <2>1, <3>1, <3>2 DEF NewPair
  <2> QED
    BY <2>1 DEF WellPaired
<1>9. ASSUME NEW x \in Requests, NEW q \in Requests, x # q PROVE Made(x)' \cap Made(q)' = {}
  <2>1. ASSUME NEW p \in Requests \ {r} PROVE Made(r)' \cap Made(p)' = {}
    <3>1. ASSUME NEW t \in Made(r)', t \in Made(p) PROVE FALSE
      <4>1. tx[t].state # "none"
        BY <1>7, <3>1
      <4>2. t \in Made(r)
        BY <1>4, <3>1, <4>1 DEF MoreMade, Changes
      <4> QED
        BY <1>3, <3>1, <4>2 DEF Legs
    <3> QED
      BY <1>5, <3>1
  <2> QED
    BY <1>3, <1>5, <1>9, <2>1 DEF Legs
<1>10. ASSUME NEW q \in Requests, NEW t \in Txs,
              tx'[t].state # "none", Paired(tx'[t]), tx'[t].pair \in Made(q)'
       PROVE  t \in Made(q)'
  <2>1. CASE OldPair(t)
    <3>1. /\ tx[t].state # "none" /\ Paired(tx[t]) /\ tx'[t].pair = tx[t].pair
      BY <2>1 DEF OldPair
    <3>2. tx[tx[t].pair].state # "none"
      BY <1>3, <3>1 DEF Legs, WellPaired, Twin
    <3>3. CASE q # r
      BY <1>3, <1>5, <1>10, <3>1, <3>3 DEF Legs
    <3>4. CASE q = r
      <4>1. tx[t].pair \in Made(r)
        BY <1>4, <1>10, <3>1, <3>2, <3>4 DEF MoreMade, Changes
      <4>2. t \in Made(r)
        BY <1>3, <3>1, <4>1 DEF Legs
      <4> QED
        BY <1>4, <1>10, <3>4, <4>2 DEF MoreMade
    <3> QED
      BY <3>3, <3>4
  <2>2. CASE NewPair(r, s, t)
    <3>1. /\ request[r].op = "transfer" /\ tx'[t].pair \in Made(r)
          /\ t \in Made(r) \/ (s.do = "insert" /\ t = s.tx)
      BY <2>2 DEF NewPair
    <3>2. q = r
      BY <1>3, <1>5, <1>10, <3>1 DEF Legs
    <3> QED
      BY <1>4, <1>10, <3>1, <3>2 DEF MoreMade
  <2> QED
    BY <1>6, <1>10, <2>1, <2>2
<1> QED
  BY <1>8, <1>9, <1>10 DEF Legs

(* One write is made and there is more to write. *)
Onward(r, s, todo, tail) ==
    /\ Typed /\ Typed' /\ Req(r) /\ Changes(r, s) /\ Writes(r, s)
    /\ todo = request[r].todo /\ todo \in Seq(Steps) /\ todo # <<>> /\ Len(todo) \in 2..5
    /\ s = todo[1] /\ s = Head(todo) /\ s \in Steps
    /\ tail = Tail(todo) /\ tail \in Seq(Steps) /\ Len(tail) = Len(todo) - 1
    /\ \A i \in 1..Len(tail) : i + 1 \in 1..Len(todo) /\ tail[i] = todo[i + 1]
    /\ request[r].op \in Writers \ {"touched"}
    /\ request'[r].op = request[r].op /\ request'[r].todo = tail
    /\ request'[r].rest = request[r].rest /\ request'[r].holds = request[r].holds
    /\ request'[r].on = request[r].on /\ request'[r].wrote = TRUE
    /\ request'[r].moved = (request[r].moved \/ s.do = "put")
    /\ request'[r].stale = request[r].stale /\ request'[r].wrong = request[r].wrong
    /\ request[r].on \subseteq request[r].holds
    /\ MoreMade(r, s)

(* A write that is not the last one is so. *)
LEMMA OnwardSo ==
    ASSUME IInv, NEW r \in Requests, Write(r), Len(request[r].todo) # 1,
           NEW s, s = Step(r), NEW todo, todo = request[r].todo, NEW tail, tail = Tail(todo)
    PROVE  Onward(r, s, todo, tail)
PROOF
<1>1. Writes(r, s) /\ request'[r] = Own(r)
  BY WriteSo
<1>2. Typed /\ Req(r) /\ Typed'
  BY <1>1 DEF IInv, Writes
<1>3. Changes(r, s)
  BY <1>1, <1>2, ChangesSo
<1>4. /\ todo \in Seq(Steps) /\ todo # <<>> /\ s = todo[1] /\ s = Head(todo) /\ s \in Steps
      /\ request[r].op \in Writers \cup {"recompute"}
  BY <1>1, <1>2, RequestFacts DEF Writes
<1>5. /\ tail \in Seq(Steps) /\ Len(tail) = Len(todo) - 1 /\ Len(todo) \in Nat \ {0}
      /\ \A i \in 1..Len(tail) : i + 1 \in 1..Len(todo) /\ tail[i] = todo[i + 1]
  BY <1>4, TailFacts
<1>6. request[r].op \in Writers \ {"touched"}
  BY <1>2, <1>4 DEF Req, OkRecompute, OkWriter
<1>7. Len(todo) <= 5 /\ (Len(todo) >= 2 => request[r].on \subseteq request[r].holds)
  BY <1>2, <1>6 DEF Req, OkWriter
<1>8. Len(todo) \in 2..5 /\ Len(todo) >= 2
  <2>1. PICK n \in Nat \ {0} : n = Len(todo)
    BY <1>5
  <2>2. n # 1 /\ n <= 5
    BY <1>7, <2>1
  <2>3. n \in 2..5 /\ n >= 2
    BY <2>2
  <2> QED
    BY <2>1, <2>3
<1>9. Goes2(r, request'[r])
  BY <1>1, <1>2, <1>4, OwnSo
<1>10. /\ request'[r].op = request[r].op /\ request'[r].todo = tail
       /\ request'[r].rest = request[r].rest /\ request'[r].holds = request[r].holds
       /\ request'[r].on = request[r].on /\ request'[r].wrote = TRUE
       /\ request'[r].moved = (request[r].moved \/ s.do = "put")
       /\ request'[r].stale = request[r].stale /\ request'[r].wrong = request[r].wrong
  BY <1>4, <1>9 DEF Goes2
<1>11. request[r].on \subseteq request[r].holds
  BY <1>7, <1>8, Zenon
<1>12. MoreMade(r, s)
  BY <1>1, <1>2, MoreMadeSo
<1> QED
  BY <1>1, <1>2, <1>3, <1>4, <1>5, <1>6, <1>8, <1>10, <1>11, <1>12, Zenon DEF Onward

(* Each write that is left may still be planned. *)
LEMMA OnwardStep ==
    ASSUME NEW r \in Requests, NEW s, NEW todo, NEW tail, Onward(r, s, todo, tail),
           NEW j \in 2..Len(todo)
    PROVE  OkStep(r, todo[j])'
PROOF
<1>1. PICK p \in Steps : p = todo[j]
  BY StepFacts DEF Onward
<1>2. /\ Changes(r, s) /\ Typed /\ Typed' /\ Writes(r, s)
      /\ request'[r].op = request[r].op /\ request'[r].rest = request[r].rest
      /\ request'[r].holds = request[r].holds /\ request'[r].on = request[r].on
      /\ request'[r].stale = request[r].stale /\ request'[r].wrong = request[r].wrong
  BY DEF Onward
<1>3. OkStep(r, p)
  BY <1>1 DEF Onward, Req, OkWriter
<1>4. s.do = "insert" /\ p.do = "insert" => p.tx # s.tx
  <2>1. \A i, k \in 1..Len(todo) :
            i # k /\ todo[i].do = "insert" /\ todo[k].do = "insert" => todo[i].tx # todo[k].tx
    BY DEF Onward, Req, OkWriter
  <2>2. 1 \in 1..Len(todo) /\ j \in 1..Len(todo) /\ j # 1 /\ s = todo[1]
    BY DEF Onward
  <2> QED
    BY <1>1, <2>1, <2>2
<1>5. p.do = "put" => p.acc \in request'[r].on /\ p.acc \in request'[r].holds
  BY <1>2, <1>3 DEF OkStep
<1>6. p.do = "insert" => OkInsert(r, p)'
  <2> SUFFICES ASSUME p.do = "insert" PROVE OkInsert(r, p)'
    OBVIOUS
  <2>1. OkInsert(r, p)
    BY <1>3 DEF OkStep
  <2>2. p.tx \in Txs
    BY DEF Steps, InsertSteps, ChangeSteps, BurySteps, PutSteps
  <2>3. tx[p.tx].state = "none" => tx'[p.tx].state = "none"
    BY <1>2, <1>4, <2>2 DEF Changes, Kept
  <2> QED
    BY <1>2, <2>1, <2>3 DEF OkInsert
<1>7. p.do = "change" => OkChange(r, p)'
  <2> SUFFICES ASSUME p.do = "change" PROVE OkChange(r, p)'
    OBVIOUS
  <2>1. OkChange(r, p)
    BY <1>3 DEF OkStep
  <2>2. p.tx \in Txs
    BY DEF Steps, InsertSteps, ChangeSteps, BurySteps, PutSteps
  <2>3. Firm(p.tx) => Firm(p.tx)'
    BY <1>2, <2>2 DEF Changes
  <2> QED
    BY <1>2, <2>1, <2>3 DEF OkChange
<1>8. Clean(r)' => Targets(p) \subseteq request'[r].holds
  BY <1>2, <1>3 DEF OkStep, Clean
<1>9. ~request'[r].stale => \A x \in request'[r].rest : x[1] \notin Targets(p)
  BY <1>2, <1>3 DEF OkStep
<1>10. Clean(r)' => \A t \in Targets(p) : tx'[t].state = "none" \/ tx'[t].acc \in request'[r].on
  <2> SUFFICES ASSUME Clean(r)', NEW t \in Targets(p)
               PROVE  tx'[t].state = "none" \/ tx'[t].acc \in request'[r].on
    OBVIOUS
  <2>1. tx[t].state = "none" \/ tx[t].acc \in request[r].on
    BY <1>2, <1>3 DEF OkStep, Clean
  <2>2. t \in Txs
    BY DEF Targets, Steps, InsertSteps, ChangeSteps, BurySteps, PutSteps
  <2>3. CASE s.do = "insert" /\ t = s.tx
    BY <1>2, <2>3 DEF Writes, Changes, OkInsert
  <2>4. CASE Kept(tx[t], tx'[t])
    BY <1>2, <2>1, <2>2, <2>4 DEF Changes, Kept
  <2> QED
    BY <1>2, <2>2, <2>3, <2>4 DEF Changes
<1> QED
  BY <1>1, <1>5, <1>6, <1>7, <1>8, <1>9, <1>10 DEF OkStep

(* What is written is in the accounts the request is on. *)
LEMMA OnwardShare ==
    ASSUME NEW r \in Requests, NEW s, NEW todo, NEW tail, Onward(r, s, todo, tail), Clean(r),
           NEW a, a \notin request[r].on, NEW doc, NEW t \in Txs
    PROVE  Share(a, doc, tx'[t]) = Share(a, doc, tx[t])
PROOF
<1>1. Changes(r, s) /\ Writes(r, s)
  BY DEF Onward
<1>2. OkStep(r, s)
  BY DEF Onward, Writes
<1>3. CASE t \notin Targets(s)
  BY <1>1, <1>3 DEF Changes
<1>4. CASE t \in Targets(s)
  <2>1. tx[t].state = "none" \/ tx[t].acc \in request[r].on
    BY <1>2, <1>4 DEF OkStep
  <2>2. tx'[t].state = "none" \/ tx'[t].acc \in request[r].on
    <3>1. CASE s.do = "insert" /\ t = s.tx
      BY <1>1, <3>1 DEF Writes, Changes, OkInsert
    <3>2. CASE Kept(tx[t], tx'[t])
      BY <1>1, <1>4, <2>1, <3>2 DEF Changes, Kept
    <3> QED
      BY <1>1, <3>1, <3>2 DEF Changes
  <2>3. ~Booked(tx[t], a) /\ ~Booked(tx'[t], a)
    BY <2>1, <2>2 DEF Booked
  <2> QED
    BY <2>3 DEF Share
<1> QED
  BY <1>3, <1>4

(* What the request does not hold is still left alone. *)
LEMMA OnwardNeutral ==
    ASSUME NEW r \in Requests, NEW s, NEW todo, NEW tail, Onward(r, s, todo, tail), Clean(r),
           NEW a \in Accounts, a \notin request[r].holds
    PROVE  Neutral(r, a)'
PROOF
<1>1. Neutral(r, a) /\ a \notin request[r].on
  BY DEF Onward, Req, OkWriter
<1>2. /\ todo \in Seq(Steps) /\ todo # <<>> /\ Len(todo) <= 5 /\ s = Head(todo) /\ tail = Tail(todo)
      /\ \A i \in 1..Len(tail) : i + 1 \in 1..Len(todo) /\ tail[i] = todo[i + 1]
      /\ \A t \in Txs : tx'[t] = Applied(s, t, tx[t])
      /\ todo = request[r].todo /\ request'[r].todo = tail
  BY DEF Onward, Writes
<1>3. \A i \in 1..Len(tail) : tail[i].do = "put" => tail[i].acc # a
  BY <1>1, <1>2 DEF Neutral
<1>4. ASSUME NEW t \in Txs, NEW doc \in AccountDocs
      PROVE  Share(a, doc, After(tail, t, tx'[t])) = Share(a, doc, tx'[t])
  <2>1. After(tail, t, tx'[t]) = After(todo, t, tx[t])
    <3>1. PICK e : e = tx[t]
      OBVIOUS
    <3>2. After(Tail(todo), t, Applied(Head(todo), t, e)) = After(todo, t, e)
      BY <1>2, AfterTail
    <3> QED
      BY <1>2, <3>1, <3>2
  <2>2. Share(a, doc, tx'[t]) = Share(a, doc, tx[t])
    BY <1>1, OnwardShare
  <2>3. Share(a, doc, After(todo, t, tx[t])) = Share(a, doc, tx[t])
    BY <1>1, <1>2 DEF Neutral
  <2> QED
    BY <2>1, <2>2, <2>3
<1> QED
  BY <1>2, <1>3, <1>4 DEF Neutral

(* What is left of the plan is a plan. *)
LEMMA OnwardWriter ==
    ASSUME NEW r \in Requests, NEW s, NEW todo, NEW tail, Onward(r, s, todo, tail)
    PROVE  OkWriter(r)' /\ OkRest(r)'
PROOF
<1>1. /\ Changes(r, s) /\ Typed /\ Typed' /\ Writes(r, s) /\ Req(r)
      /\ request'[r].op = request[r].op /\ request'[r].rest = request[r].rest
      /\ request'[r].holds = request[r].holds /\ request'[r].on = request[r].on
      /\ request'[r].stale = request[r].stale /\ request'[r].wrong = request[r].wrong
      /\ request'[r].todo = tail /\ request[r].todo = todo
      /\ request[r].on \subseteq request[r].holds /\ request[r].op \in Writers \ {"touched"}
  BY DEF Onward
<1>2. /\ Len(todo) \in 2..5 /\ Len(tail) = Len(todo) - 1
      /\ \A i \in 1..Len(tail) : i + 1 \in 1..Len(todo) /\ tail[i] = todo[i + 1]
  BY DEF Onward
<1>3. ASSUME NEW i \in 1..Len(tail) PROVE OkStep(r, tail[i])'
  <2>1. PICK j \in 2..Len(todo) : j = i + 1
    BY <1>2
  <2>2. OkStep(r, todo[j])'
    BY OnwardStep
  <2>3. tail[i] = todo[j]
    BY <1>2, <2>1
  <2> QED
    BY <2>2, <2>3
<1>4. \A i, j \in 1..Len(tail) :
          i # j /\ tail[i].do = "insert" /\ tail[j].do = "insert" => tail[i].tx # tail[j].tx
  <2>1. \A i, j \in 1..Len(todo) :
          i # j /\ todo[i].do = "insert" /\ todo[j].do = "insert" => todo[i].tx # todo[j].tx
    BY <1>1 DEF Req, OkWriter
  <2>2. \A i, j \in 1..Len(tail) : i # j => i + 1 # j + 1
    BY <1>2
  <2> QED
    BY <1>2, <2>1, <2>2, SMTT(30)
<1>5. Lasting(tail)
  <2>1. Lasting(todo)
    BY <1>1 DEF Req, OkWriter
  <2>2. \A i \in 1..Len(tail) : i < Len(tail) => i + 1 < Len(todo)
    BY <1>2
  <2> QED
    BY <1>2, <2>1, <2>2 DEF Lasting
<1>6. Clean(r)' => \A a \in Accounts \ request'[r].holds : Neutral(r, a)'
  BY <1>1, OnwardNeutral DEF Clean
<1>7. OkWriter(r)'
  <2>1. Len(tail) <= 5
    BY <1>2, SMTT(30)
  <2>2. PICK q : q = request'[r]
    OBVIOUS
  <2>3. q.todo = tail /\ q.op # "touched" /\ q.on \subseteq q.holds
    BY <1>1, <2>2
  <2>4. \A i \in 1..Len(q.todo) : OkStep(r, q.todo[i])'
    BY <1>3, <2>3
  <2>5. \A i, j \in 1..Len(q.todo) :
          i # j /\ q.todo[i].do = "insert" /\ q.todo[j].do = "insert" => q.todo[i].tx # q.todo[j].tx
    BY <1>4, <2>3
  <2>6. Clean(r)' => \A a \in Accounts \ q.holds : Neutral(r, a)'
    BY <1>6, <2>2
  <2>7. Len(q.todo) <= 5 /\ Lasting(q.todo)
    BY <1>5, <2>1, <2>3
  <2> QED
    BY <2>2, <2>3, <2>4, <2>5, <2>6, <2>7 DEF OkWriter
<1>8. ASSUME NEW p \in request[r].rest
      PROVE  /\ p[1] \in request[r].holds /\ Held(p[2], p[1])'
             /\ ~request[r].stale => tx'[p[1]] = p[2]
  <2>1. /\ p[1] \in request[r].holds /\ Held(p[2], p[1])
        /\ ~request[r].stale => tx[p[1]] = p[2]
    BY <1>1, <1>8 DEF Req, OkRest
  <2>2. p[1] \in Txs
    BY <1>1, <1>8, RequestFacts
  <2>3. OkStep(r, s)
    BY <1>1 DEF Writes
  <2>4. ~request[r].stale => tx'[p[1]] = tx[p[1]]
    BY <1>1, <1>8, <2>2, <2>3 DEF OkStep, Changes
  <2>5. Firm(p[1]) => Firm(p[1])'
    BY <1>1, <2>2 DEF Changes
  <2> QED
    BY <2>1, <2>4, <2>5 DEF Held
<1>9. OkRest(r)'
  <2>1. request[r].rest # {} => request[r].op \in {"write", "touched"} \cup Loads
    BY <1>1 DEF Req, OkRest
  <2> QED
    BY <1>1, <1>8, <2>1 DEF OkRest
<1> QED
  BY <1>7, <1>9

(* A transaction counts the same for accounts with the same type and cut- *)
(* off.                                                                   *)
LEMMA ShareOfDoc ==
    ASSUME NEW doc, NEW now, now.cut = doc.cut, now.type = doc.type, NEW a, NEW e
    PROVE  Share(a, now, e) = Share(a, doc, e)
PROOF
  BY DEF Share, Delta

(* A transfer's write takes it to its next stage, and touches only legs   *)
(* it makes or made.                                                      *)
LEMMA OnwardStage ==
    ASSUME NEW r \in Requests, NEW s, NEW todo, NEW tail, Onward(r, s, todo, tail),
           request[r].op = "transfer",
           NEW t \in Txs, NEW u \in Txs, NEW a \in Accounts, NEW b \in Accounts,
           t # u, a # b, request[r].holds \cap Txs = {t, u}, Stage(r, t, u, a, b)
    PROVE  /\ Stage(r, t, u, a, b)'
           /\ s.do # "put" => \A v \in Txs : v \in Targets(s) => v \in Made(r) \/ s.do = "insert"
PROOF
<1>1. /\ Changes(r, s) /\ Typed /\ Typed' /\ Writes(r, s) /\ Req(r)
      /\ request'[r].todo = tail /\ request[r].todo = todo /\ s = todo[1]
      /\ request'[r].wrote = TRUE /\ request'[r].moved = (request[r].moved \/ s.do = "put")
  BY DEF Onward
<1>2. PICK n \in 2..5 : n = Len(todo)
  BY DEF Onward
<1>3. Len(tail) = n - 1 /\ \A i \in 1..(n - 1) : tail[i] = todo[i + 1]
  BY <1>2 DEF Onward
<1>4. \A k \in 2..4 : PutsFrom(todo, k) => PutsFrom(tail, k - 1)
  <2> SUFFICES ASSUME NEW k \in 2..4, PutsFrom(todo, k) PROVE PutsFrom(tail, k - 1)
    OBVIOUS
  <2>1. n >= k - 1 /\ \A i \in 1..n : i >= k => todo[i].do = "put"
    BY <1>2 DEF PutsFrom
  <2>2. n - 1 >= (k - 1) - 1
    BY <2>1
  <2>3. ASSUME NEW i \in 1..(n - 1), i >= k - 1 PROVE tail[i].do = "put"
    <3>1. i + 1 \in 1..n /\ i + 1 >= k
      BY <2>3
    <3> QED
      BY <1>3, <2>1, <3>1
  <2> QED
    BY <1>3, <2>2, <2>3 DEF PutsFrom
<1>5. \A v \in Txs : \A kind, c : Leg(v, kind, c) /\ IsLeg(tx[v]) => Leg(v, kind, c)'
  BY <1>1 DEF Changes
<1>6. CASE FirstLeg(r, t, u, a, b)
  <2>1. /\ PutsFrom(todo, 4)
        /\ IsOut(todo[1], t, a) /\ IsIn(todo[2], t, u, b) /\ IsBack(todo[3], t, u, a)
        /\ ~request[r].moved
    BY <1>1, <1>6 DEF FirstLeg
  <2>2. n >= 3
    BY <1>2, <2>1 DEF PutsFrom
  <2>3. tail[1] = todo[2] /\ tail[2] = todo[3]
    BY <1>3, <2>2
  <2>4. PutsFrom(tail, 3)
    BY <1>4, <2>1
  <2>5. s.do = "insert" /\ s.tx = t /\ s.entry.kind = "out" /\ s.entry.acc = a
    BY <1>1, <2>1 DEF IsOut
  <2>6. tx'[t] = s.entry /\ s.entry.state = "live"
    BY <1>1, <2>5 DEF Changes, Writes, OkInsert
  <2>7. Leg(t, "out", a)'
    BY <2>5, <2>6 DEF Leg
  <2>8. SecondLeg(r, t, u, a, b)'
    BY <1>1, <2>1, <2>3, <2>4, <2>5, <2>7 DEF SecondLeg
  <2> QED
    BY <2>5, <2>8 DEF Stage
<1>7. CASE SecondLeg(r, t, u, a, b)
  <2>1. /\ PutsFrom(todo, 3) /\ IsIn(todo[1], t, u, b) /\ IsBack(todo[2], t, u, a)
        /\ ~request[r].moved /\ Leg(t, "out", a)
    BY <1>1, <1>7 DEF SecondLeg
  <2>2. tail[1] = todo[2]
    BY <1>3
  <2>3. PutsFrom(tail, 2)
    BY <1>4, <2>1
  <2>4. s.do = "insert" /\ s.tx = u /\ s.entry.kind = "in" /\ s.entry.acc = b
    BY <1>1, <2>1 DEF IsIn
  <2>5. tx'[u] = s.entry /\ s.entry.state = "live"
    BY <1>1, <2>4 DEF Changes, Writes, OkInsert
  <2>6. Leg(u, "in", b)'
    BY <2>4, <2>5 DEF Leg
  <2>7. Leg(t, "out", a)'
    BY <1>5, <2>1 DEF Leg, IsLeg
  <2>8. PointsBack(r, t, u, a, b)'
    BY <1>1, <2>1, <2>2, <2>3, <2>4, <2>6, <2>7 DEF PointsBack
  <2> QED
    BY <2>4, <2>8 DEF Stage
<1>8. CASE PointsBack(r, t, u, a, b)
  <2>1. /\ PutsFrom(todo, 2) /\ IsBack(todo[1], t, u, a)
        /\ Leg(t, "out", a) /\ Leg(u, "in", b)
    BY <1>1, <1>8 DEF PointsBack
  <2>2. PutsFrom(tail, 1)
    BY <1>4, <2>1
  <2>3. Leg(u, "in", b)' /\ Leg(t, "out", a)'
    BY <1>5, <2>1 DEF Leg, IsLeg
  <2>4. tail # <<>>
    BY <1>3
  <2>5. Pays(r, t, u, a, b)'
    BY <1>1, <2>2, <2>3, <2>4 DEF Pays
  <2>6. Targets(s) = {t}
    BY <1>1, <2>1 DEF IsBack, Targets
  <2>7. t \in Made(r)
    BY <1>1, <1>8, StageMade
  <2> QED
    BY <2>5, <2>6, <2>7 DEF Stage
<1>9. CASE Pays(r, t, u, a, b)
  <2>1. /\ PutsFrom(todo, 1) /\ Leg(t, "out", a) /\ Leg(u, "in", b)
    BY <1>1, <1>9 DEF Pays
  <2>2. s.do = "put"
    BY <1>1, <1>2, <2>1 DEF PutsFrom
  <2>3. PutsFrom(tail, 1)
    <3>1. \A i \in 1..n : todo[i].do = "put"
      BY <1>2, <2>1 DEF PutsFrom
    <3>2. \A i \in 1..(n - 1) : i + 1 \in 1..n
      OBVIOUS
    <3>3. \A i \in 1..(n - 1) : tail[i].do = "put"
      BY <1>3, <3>1, <3>2
    <3>4. n - 1 >= 1 - 1
      OBVIOUS
    <3> QED
      BY <1>3, <3>3, <3>4 DEF PutsFrom
  <2>4. Leg(u, "in", b)' /\ Leg(t, "out", a)'
    BY <1>5, <2>1 DEF Leg, IsLeg
  <2>5. tail # <<>>
    BY <1>3
  <2>6. Pays(r, t, u, a, b)'
    BY <1>1, <2>3, <2>4, <2>5 DEF Pays
  <2> QED
    BY <2>2, <2>6 DEF Stage
<1> QED
  BY <1>6, <1>7, <1>8, <1>9 DEF Stage

(* What its legs will count does not change while it inserts and links    *)
(* them.                                                                  *)
LEMMA OnwardTakes ==
    ASSUME NEW r \in Requests, NEW s, NEW todo, NEW tail, Onward(r, s, todo, tail),
           request[r].op = "transfer", s.do # "put", NEW a \in Accounts,
           \A v \in Txs : v \in Targets(s) => v \in Made(r) \/ s.do = "insert"
    PROVE  Takes(a, r)' = Takes(a, r)
PROOF
<1>1. /\ Changes(r, s) /\ Typed /\ Typed' /\ Writes(r, s) /\ Req(r)
      /\ request'[r].todo = tail /\ request[r].todo = todo /\ request'[r].op = request[r].op
      /\ todo \in Seq(Steps) /\ todo # <<>> /\ Len(todo) <= 5 /\ s = Head(todo)
      /\ tail = Tail(todo) /\ s \in Steps
  BY DEF Onward
<1>2. /\ Made(r) \subseteq Made(r)'
      /\ \A t \in Made(r)' : t \in Made(r) \/ (s.do = "insert" /\ t = s.tx)
  BY <1>1 DEF Onward, MoreMade
<1>3. s.do = "insert" => s.tx \in Made(r)' /\ s.tx \in Txs /\ Targets(s) = {s.tx}
  <2>1. s.do = "insert" => s \in InsertSteps
    BY <1>1 DEF Changes
  <2>2. s.do = "insert" => s.tx \in Made(r)'
    BY <1>1 DEF Onward, MoreMade
  <2> QED
    BY <2>1, <2>2 DEF InsertSteps, Targets
<1>4. \A e : Share(a, account'[a], e) = Share(a, account[a], e)
  <2>1. account'[a].cut = account[a].cut /\ account'[a].type = account[a].type
    BY <1>1 DEF Writes
  <2>2. PICK doc : doc = account[a]
    OBVIOUS
  <2>3. PICK now : now = account'[a]
    OBVIOUS
  <2> QED
    BY <2>1, <2>2, <2>3, ShareOfDoc
<1>5. ASSUME NEW e \in Entries
      PROVE  Share(a, account[a], [e EXCEPT !.state = "none"]) = 0
  <2>1. [e EXCEPT !.state = "none"].state = "none"
    BY DEF Entries
  <2> QED
    BY <2>1 DEF Share, Booked
<1>6. ASSUME NEW t \in Txs
      PROVE  /\ Share(a, account'[a], After(tail, t, tx'[t]))
                = Share(a, account[a], After(todo, t, tx[t]))
             /\ Share(a, account'[a], Left(r, t)') = Share(a, account[a], Left(r, t))
  <2>1. PICK e \in Entries : e = tx[t]
    BY <1>1, DocFacts
  <2>2. PICK now \in Entries : now = tx'[t]
    BY <1>1, AppliedType DEF Typed, TypeOK
  <2>3. now = Applied(s, t, e)
    BY <1>1, <2>1, <2>2 DEF Writes
  <2>4. After(tail, t, now) = After(todo, t, e)
    BY <1>1, <2>3, AfterTail
  <2>5. Share(a, account[a], Left(r, t)') = Share(a, account[a], Left(r, t))
    <3>1. CASE t \in Made(r)
      <4>1. Left(r, t) = [e EXCEPT !.state = "none"]
        BY <2>1, <3>1 DEF Left
      <4>2. Left(r, t)' = [now EXCEPT !.state = "none"]
        BY <1>2, <2>2, <3>1 DEF Left
      <4> QED
        BY <1>5, <4>1, <4>2
    <3>2. CASE t \notin Made(r) /\ s.do = "insert" /\ t = s.tx
      <4>1. Left(r, t) = e /\ e.state = "none"
        BY <1>1, <2>1, <3>2 DEF Left, Changes
      <4>2. Left(r, t)' = [now EXCEPT !.state = "none"]
        BY <1>3, <2>2, <3>2 DEF Left
      <4>3. Share(a, account[a], e) = 0
        BY <4>1 DEF Share, Booked
      <4> QED
        BY <1>5, <4>1, <4>2, <4>3
    <3>3. CASE t \notin Made(r) /\ ~(s.do = "insert" /\ t = s.tx)
      <4>1. t \notin Targets(s)
        BY <1>3, <3>3
      <4>2. now = e
        BY <2>3, <4>1 DEF Applied
      <4>3. t \notin Made(r)'
        BY <1>2, <3>3
      <4>4. Left(r, t) = e /\ Left(r, t)' = now
        BY <2>1, <2>2, <3>3, <4>3 DEF Left
      <4> QED
        BY <4>2, <4>4
    <3> QED
      BY <3>1, <3>2, <3>3
  <2> QED
    BY <1>4, <2>1, <2>2, <2>4, <2>5
<1> QED
  BY <1>1, <1>6 DEF Takes

(* A transfer with more to write is still one in order. *)
LEMMA OnwardTransfer ==
    ASSUME NEW r \in Requests, NEW s, NEW todo, NEW tail, Onward(r, s, todo, tail)
    PROVE  OkTransfer(r)'
PROOF
<1>1. /\ Typed /\ Typed' /\ Writes(r, s) /\ Req(r)
      /\ request'[r].todo = tail /\ request[r].todo = todo /\ request'[r].op = request[r].op
      /\ request'[r].holds = request[r].holds /\ request'[r].on = request[r].on
      /\ request'[r].stale = request[r].stale /\ request'[r].wrong = request[r].wrong
      /\ request'[r].moved = (request[r].moved \/ s.do = "put")
      /\ todo \in Seq(Steps) /\ todo # <<>> /\ Len(todo) <= 5 /\ s = Head(todo) /\ tail = Tail(todo)
  BY DEF Onward
<1> SUFFICES ASSUME request[r].op = "transfer"
             PROVE  OkTransfer(r)'
  BY <1>1 DEF OkTransfer
<1>2. PICK t \in Txs, u \in Txs, a \in Accounts, b \in Accounts :
        /\ t # u /\ a # b /\ request[r].holds \cap Txs = {t, u} /\ request[r].on = {a, b}
        /\ Stage(r, t, u, a, b)
  BY <1>1 DEF Req, OkTransfer
<1>3. /\ Stage(r, t, u, a, b)'
      /\ s.do # "put" => \A v \in Txs : v \in Targets(s) => v \in Made(r) \/ s.do = "insert"
  BY <1>2, OnwardStage
<1>4. ASSUME Clean(r)', ~request'[r].moved, NEW c \in request[r].on
      PROVE  Final(tail, c, account'[c].bal) - account'[c].bal = SumFunction(Takes(c, r)')
  <2>1. Clean(r) /\ ~request[r].moved /\ s.do # "put"
    BY <1>1, <1>4 DEF Clean
  <2>2. c \in Accounts
    BY <1>2
  <2>3. Takes(c, r)' = Takes(c, r)
    BY <1>3, <2>1, <2>2, OnwardTakes
  <2>4. Final(todo, c, account[c].bal) - account[c].bal = SumFunction(Takes(c, r))
    BY <1>1, <1>4, <2>1 DEF Req, OkTransfer
  <2>5. PICK bal : bal = account[c].bal
    OBVIOUS
  <2>6. account'[c].bal = bal /\ Paid(Head(todo), c, bal) = bal
    BY <1>1, <2>1, <2>2, <2>5 DEF Writes, Paid
  <2>7. Final(tail, c, bal) = Final(todo, c, bal)
    BY <1>1, <2>6, FinalTail
  <2> QED
    BY <2>3, <2>4, <2>5, <2>6, <2>7
<1> QED
  BY <1>1, <1>2, <1>3, <1>4 DEF OkTransfer

(* An import with more to write is still one in order. *)
LEMMA OnwardImport ==
    ASSUME NEW r \in Requests, NEW s, NEW todo, NEW tail, Onward(r, s, todo, tail)
    PROVE  OkImport(r)'
PROOF
<1>1. /\ Typed /\ Typed' /\ Writes(r, s) /\ Req(r)
      /\ request'[r].todo = tail /\ request[r].todo = todo /\ request'[r].op = request[r].op
      /\ request'[r].holds = request[r].holds /\ request'[r].on = request[r].on
      /\ request'[r].stale = request[r].stale /\ request'[r].wrong = request[r].wrong
  BY DEF Onward
<1> SUFFICES ASSUME request[r].op = "import"
             PROVE  OkImport(r)'
  BY <1>1 DEF OkImport
<1>2. PICK n \in 2..5 : n = Len(todo)
  BY DEF Onward
<1>3. Len(tail) = n - 1 /\ \A i \in 1..(n - 1) : tail[i] = todo[i + 1]
  BY <1>2 DEF Onward
<1>4. PICK a \in Accounts :
        /\ request[r].on = {a} /\ a \in request[r].holds
        /\ \A i \in 1..n : todo[i].do \in {"insert", "put"}
        /\ Clean(r) => Rows(a, todo)
  BY <1>1, <1>2 DEF Req, OkImport
<1>5. \A i \in 1..(n - 1) : tail[i].do \in {"insert", "put"}
  <2>1. \A i \in 1..(n - 1) : i + 1 \in 1..n
    OBVIOUS
  <2> QED
    BY <1>3, <1>4, <2>1
<1>6. ASSUME Clean(r)' PROVE Rows(a, tail)'
  <2>1. Rows(a, todo)
    BY <1>1, <1>4, <1>6 DEF Clean
  <2>2. \A e : Share(a, account'[a], e) = Share(a, account[a], e)
    <3>1. account'[a].cut = account[a].cut /\ account'[a].type = account[a].type
      BY <1>1 DEF Writes
    <3>2. PICK doc : doc = account[a]
      OBVIOUS
    <3>3. PICK now : now = account'[a]
      OBVIOUS
    <3> QED
      BY <3>1, <3>2, <3>3, ShareOfDoc
  <2>3. \A i \in 1..n : i >= 3 /\ todo[i].do = "insert" => todo[i - 1].do = "put"
    BY <1>2, <2>1 DEF Rows
  <2>4. \A i \in 1..n : todo[i].do = "put" /\ i < n =>
          /\ todo[i + 1].do = "insert"
          /\ i + 1 = n => Share(a, account[a], todo[i + 1].entry) = 0
          /\ i + 1 < n =>
                /\ i + 2 = n /\ todo[i + 2].do = "put"
                /\ todo[i + 2].bal - todo[i].bal
                   = Share(a, account[a], todo[i + 1].entry)
    BY <1>2, <2>1 DEF Rows
  <2>5. ~(Len(tail) >= 2 /\ tail[1].do = "insert" /\ tail[2].do = "insert")
    <3> SUFFICES ASSUME Len(tail) >= 2, tail[1].do = "insert", tail[2].do = "insert"
                 PROVE  FALSE
      OBVIOUS
    <3>1. tail[1] = todo[2] /\ tail[2] = todo[3] /\ 3 \in 1..n
      BY <1>3
    <3> QED
      BY <2>3, <3>1
  <2>6. ASSUME NEW i \in 1..(n - 1), tail[i].do = "put", i < n - 1
        PROVE  /\ tail[i + 1].do = "insert"
               /\ i + 1 = n - 1 => Share(a, account'[a], tail[i + 1].entry) = 0
               /\ i + 1 < n - 1 =>
                     /\ i + 2 = n - 1 /\ tail[i + 2].do = "put"
                     /\ tail[i + 2].bal - tail[i].bal
                        = Share(a, account'[a], tail[i + 1].entry)
    <3>1. PICK j \in 1..n : j = i + 1
      OBVIOUS
    <3>2. j < n /\ tail[i] = todo[j] /\ tail[i + 1] = todo[j + 1]
      BY <1>3, <2>6, <3>1
    <3>3. i + 1 < n - 1 => tail[i + 2] = todo[j + 2]
      BY <1>3, <3>1
    <3> QED
      BY <2>2, <2>4, <2>6, <3>1, <3>2, <3>3
  <2>7. ASSUME NEW i \in 1..(n - 1), i >= 3, tail[i].do = "insert" PROVE tail[i - 1].do = "put"
    <3>1. tail[i] = todo[i + 1] /\ tail[i - 1] = todo[(i - 1) + 1] /\ (i - 1) + 1 = i
          /\ i + 1 \in 1..n /\ i + 1 >= 3 /\ (i + 1) - 1 = i
      BY <1>3, <2>7
    <3> QED
      BY <2>3, <2>7, <3>1
  <2> QED
    BY <1>3, <2>5, <2>6, <2>7 DEF Rows
<1>7. PICK q : q = request'[r]
  OBVIOUS
<1>8. q.todo = tail /\ q.on = {a} /\ a \in q.holds
  BY <1>1, <1>4, <1>7
<1>9. Clean(r)' => Rows(a, q.todo)'
  BY <1>6, <1>8 DEF Rows
<1>10. \A i \in 1..Len(q.todo) : q.todo[i].do \in {"insert", "put"}
  BY <1>3, <1>5, <1>8
<1> QED
  BY <1>7, <1>8, <1>9, <1>10 DEF OkImport

(* The last row of an import, with its balance or with nothing to pay.     *)
LEMMA RowNet ==
    ASSUME NEW doc \in AccountDocs, NEW a, NEW book \in [Txs -> Entries],
           NEW tail \in Seq(Steps), Len(tail) \in {1, 2}, tail[1].do = "insert",
           book[tail[1].tx].state = "none",
           Len(tail) = 1 => Share(a, doc, tail[1].entry) = 0,
           Len(tail) = 2 => /\ tail[2].do = "put" /\ tail[2].acc = a
                            /\ tail[2].bal - doc.bal = Share(a, doc, tail[1].entry)
    PROVE  NetOf(doc, a, book, tail) = 0
PROOF
<1>1. 1 \in 1..Len(tail)
  OBVIOUS
<1>2. PICK s \in Steps : s = tail[1]
  BY <1>1, StepFacts
<1>3. s \in InsertSteps
  BY <1>2 DEF Steps, InsertSteps, ChangeSteps, BurySteps, PutSteps
<1>4. PICK t \in Txs : t = s.tx
  BY <1>3 DEF InsertSteps
<1>5. PICK e \in Entries : e = s.entry
  BY <1>3 DEF InsertSteps
<1>6. PICK bal \in Int : bal = doc.bal
  BY DEF AccountDocs
<1>7. /\ \A v, x : AppliedAt(tail, 1, v, x) = IF v = t THEN e ELSE x
      /\ \A c, x : PaidAt(tail, 1, c, x) = x
  BY <1>1, <1>2, <1>4, <1>5 DEF AppliedAt, Applied, Targets, PaidAt, Paid
<1>8. \A i \in 3..5 : /\ \A v, x : AppliedAt(tail, i, v, x) = x
                      /\ \A c, x : PaidAt(tail, i, c, x) = x
  BY DEF AppliedAt, PaidAt
<1>9. \A v, x : AppliedAt(tail, 2, v, x) = x
  BY DEF AppliedAt, Applied, Targets
<1>10. /\ \A v, x : AppliedAt(tail, 3, v, x) = x
       /\ \A v, x : AppliedAt(tail, 4, v, x) = x
       /\ \A v, x : AppliedAt(tail, 5, v, x) = x
       /\ \A c, x : PaidAt(tail, 3, c, x) = x
       /\ \A c, x : PaidAt(tail, 4, c, x) = x
       /\ \A c, x : PaidAt(tail, 5, c, x) = x
  BY <1>8
<1>11. \A v, x : After(tail, v, x) = IF v = t THEN e ELSE x
  BY <1>7, <1>9, <1>10 DEF After
<1>12. Final(tail, a, bal) = PaidAt(tail, 2, a, bal)
  BY <1>7, <1>10 DEF Final
<1>13. PICK share \in Int : share = Share(a, doc, e)
  BY ShareType
<1>14. Final(tail, a, bal) - bal = share
  <2>1. CASE Len(tail) = 1
    BY <1>2, <1>5, <1>12, <1>13, <2>1 DEF PaidAt
  <2>2. CASE Len(tail) = 2
    <3>0. 2 \in 1..Len(tail)
      BY <2>2
    <3>1. PICK p \in Steps : p = tail[2]
      BY <3>0, StepFacts
    <3>2. p \in PutSteps
      BY <2>2, <3>1 DEF Steps, InsertSteps, ChangeSteps, BurySteps, PutSteps
    <3>3. PICK after \in Int : after = p.bal
      BY <3>2 DEF PutSteps
    <3>4. PaidAt(tail, 2, a, bal) = after
      BY <2>2, <3>1, <3>3 DEF PaidAt, Paid
    <3>5. after - bal = share
      BY <1>2, <1>5, <1>6, <1>13, <2>2, <3>1, <3>3
    <3> QED
      BY <1>12, <3>4, <3>5
  <2> QED
    BY <2>1, <2>2
<1>15. Share(a, doc, book[t]) = 0
  BY <1>2, <1>4 DEF Share, Booked
<1>16. NetOf(doc, a, book, tail)
       = Final(tail, a, doc.bal) - doc.bal
         - (Share(a, doc, After(tail, t, book[t])) - Share(a, doc, book[t]))
  BY <1>11, NetOne
<1>17. NetOf(doc, a, book, tail) = Final(tail, a, bal) - bal - (share - 0)
  BY <1>6, <1>11, <1>13, <1>15, <1>16
<1>18. Final(tail, a, bal) \in Int
  BY FinalType
<1> QED
  BY <1>14, <1>17, <1>18

(* Between two rows an import owes nothing. *)
LEMMA OnwardNet ==
    ASSUME NEW r \in Requests, NEW s, NEW todo, NEW tail, Onward(r, s, todo, tail),
           Clean(r), request[r].op = "import", tail[1].do # "put", NEW a \in request[r].on
    PROVE  NetOf(account'[a], a, tx', tail) = 0
PROOF
<1>1. /\ Typed /\ Typed' /\ Writes(r, s) /\ Req(r) /\ Changes(r, s)
      /\ request[r].todo = todo /\ todo \in Seq(Steps) /\ todo # <<>> /\ Len(todo) <= 5
      /\ s = todo[1] /\ s = Head(todo) /\ tail = Tail(todo) /\ tail \in Seq(Steps) /\ s \in Steps
  BY DEF Onward
<1>2. PICK n \in 2..5 : n = Len(todo)
  BY DEF Onward
<1>3. Len(tail) = n - 1 /\ \A i \in 1..(n - 1) : tail[i] = todo[i + 1]
  BY <1>2 DEF Onward
<1>4. /\ a \in Accounts /\ request[r].on = {a}
      /\ \A i \in 1..n : todo[i].do \in {"insert", "put"}
      /\ Rows(a, todo)
  BY <1>1, <1>2, RequestFacts DEF Req, OkImport
<1>5. tail[1] = todo[2] /\ tail[1].do = "insert"
  <2>1. tail[1] = todo[2]
    BY <1>3
  <2>2. todo[2].do \in {"insert", "put"}
    BY <1>4
  <2> QED
    BY <2>1, <2>2
<1>6. PICK doc \in AccountDocs : doc = account[a]
  BY <1>1, <1>4, DocFacts
<1>7. PICK now \in AccountDocs : now = account'[a]
  BY <1>1, <1>4 DEF Typed, TypeOK
<1>8. /\ now.bal = Paid(s, a, doc.bal) /\ now.opening = doc.opening
      /\ now.cut = doc.cut /\ now.type = doc.type
  BY <1>1, <1>4, <1>6, <1>7 DEF Writes
<1>9. \A e : Share(a, now, e) = Share(a, doc, e)
  BY <1>8, ShareOfDoc
<1>10. tx \in [Txs -> Entries] /\ tx' \in [Txs -> Entries]
  BY <1>1, DocFacts DEF Typed, TypeOK
<1>11. CASE s.do = "insert"
  <2>1. Share(a, doc, s.entry) = 0
    BY <1>1, <1>2, <1>4, <1>5, <1>6, <1>11 DEF Rows
  <2>2. now.bal = doc.bal
    BY <1>8, <1>11 DEF Paid
  <2>3. \A t \in Txs : Share(a, now, tx'[t]) = Share(a, doc, tx[t])
    <3>1. Targets(s) = {s.tx} /\ tx'[s.tx] = s.entry /\ tx[s.tx].state = "none"
      BY <1>1, <1>11 DEF Changes, Targets
    <3>2. Share(a, doc, tx[s.tx]) = 0
      BY <3>1 DEF Share, Booked
    <3>3. \A t \in Txs : t # s.tx => tx'[t] = tx[t]
      BY <1>1, <3>1 DEF Changes
    <3> QED
      BY <1>9, <2>1, <3>1, <3>2, <3>3
  <2>4. DriftOf(now, a, tx') = DriftOf(doc, a, tx)
    BY <1>8, <1>10, <2>2, <2>3, DriftSame
  <2>5. NetOf(now, a, tx', tail) + DriftOf(now, a, tx')
        = NetOf(doc, a, tx, todo) + DriftOf(doc, a, tx)
    BY <1>1, <1>8, <1>10, StepKeeps DEF Writes
  <2>6. NetOf(doc, a, tx, todo) = 0
    <3>1. ~Torn(r)
      BY <1>1, <1>11 DEF Torn, Step
    <3>2. Net(a, todo) = 0
      BY <1>1, <1>4, <3>1 DEF Req
    <3> QED
      BY <1>6, <3>2 DEF Net
  <2>7. DriftOf(doc, a, tx) \in Int /\ NetOf(now, a, tx', tail) \in Int
    BY <1>1, <1>10, DriftType, NetType
  <2> QED
    BY <1>7, <2>4, <2>5, <2>6, <2>7
<1>12. CASE s.do = "put"
  <2>1. /\ 2 = n => Share(a, doc, tail[1].entry) = 0
        /\ 2 < n => /\ n = 3 /\ todo[3].do = "put"
                    /\ todo[3].bal - s.bal = Share(a, doc, tail[1].entry)
    <3>1. /\ \A i \in 1..n : todo[i].do = "put" /\ i < n =>
              /\ todo[i + 1].do = "insert"
              /\ i + 1 = n => Share(a, doc, todo[i + 1].entry) = 0
              /\ i + 1 < n =>
                    /\ i + 2 = n /\ todo[i + 2].do = "put"
                    /\ todo[i + 2].bal - todo[i].bal
                       = Share(a, doc, todo[i + 1].entry)
      BY <1>2, <1>4, <1>6 DEF Rows
    <3>2. 1 \in 1..n /\ 1 < n /\ 1 + 1 = 2 /\ 1 + 2 = 3
      OBVIOUS
    <3> QED
      BY <1>1, <1>5, <1>12, <3>1, <3>2
  <2>2. /\ Len(tail) \in {1, 2}
        /\ Len(tail) = 1 => Share(a, now, tail[1].entry) = 0
        /\ Len(tail) = 2 => n = 3 /\ tail[2] = todo[3]
    BY <1>3, <1>9, <2>1
  <2>3. s.acc = a
    BY <1>1, <1>4, <1>12 DEF Writes
  <2>4. now.bal = s.bal
    BY <1>8, <1>12, <2>3 DEF Paid
  <2>5. ASSUME Len(tail) = 2
        PROVE  /\ tail[2].do = "put" /\ tail[2].acc = a
               /\ tail[2].bal - now.bal = Share(a, now, tail[1].entry)
    <3>0. 3 \in 1..Len(todo)
      <4>1. n = 3
        BY <2>2, <2>5, Zenon
      <4>2. 3 \in 1..3
        OBVIOUS
      <4> QED
        BY <1>2, <4>1, <4>2
    <3>1. OkStep(r, todo[3])
      BY <1>1, <3>0 DEF Req, OkWriter, Writers
    <3> QED
      BY <1>4, <1>9, <2>1, <2>2, <2>4, <2>5, <3>1 DEF OkStep
  <2>6. tx'[tail[1].tx].state = "none"
    <3>1. PICK p \in Steps : p = todo[2]
      BY <1>1, <1>2, StepFacts
    <3>2. OkStep(r, todo[2])
      BY <1>1, <1>2 DEF Req, OkWriter, Writers
    <3>3. p.tx \in Txs
      BY <1>5, <3>1 DEF Steps, InsertSteps, ChangeSteps, BurySteps, PutSteps
    <3>4. tx[p.tx].state = "none"
      BY <1>5, <3>1, <3>2 DEF OkStep, OkInsert, Clean
    <3>5. tx'[p.tx] = tx[p.tx]
      BY <1>1, <1>12, <3>3 DEF Changes, Targets
    <3> QED
      BY <1>5, <3>1, <3>4, <3>5
  <2>7. NetOf(now, a, tx', tail) = 0
    BY <1>1, <1>5, <1>10, <2>2, <2>5, <2>6, RowNet
  <2> QED
    BY <1>7, <2>7
<1>13. s.do \in {"insert", "put"}
  BY <1>1, <1>4
<1> QED
  BY <1>11, <1>12, <1>13

(* All that is asked of a request holds after a write that is not its     *)
(* last.                                                                  *)
LEMMA OnwardReq ==
    ASSUME NEW r \in Requests, NEW s, NEW todo, NEW tail, Onward(r, s, todo, tail), Write(r)
    PROVE  Req(r)'
PROOF
<1>1. /\ Typed /\ Typed' /\ Writes(r, s) /\ Req(r)
      /\ request'[r].todo = tail /\ request'[r].op = request[r].op
      /\ request'[r].holds = request[r].holds /\ request'[r].on = request[r].on
      /\ request'[r].stale = request[r].stale /\ request'[r].wrong = request[r].wrong
      /\ request'[r].wrote = TRUE /\ request[r].op \in Writers \ {"touched"}
      /\ Len(tail) = Len(todo) - 1 /\ Len(todo) \in 2..5 /\ tail \in Seq(Steps)
  BY DEF Onward
<1>2. OkWriter(r)' /\ OkRest(r)'
  BY OnwardWriter
<1>3. OkTransfer(r)'
  BY OnwardTransfer
<1>4. OkImport(r)'
  BY OnwardImport
<1>5. /\ request'[r].op # "none"
      /\ OkOpened(r)' /\ OkAccount(r)' /\ OkRecompute(r)'
  BY <1>1 DEF OkOpened, OkAccount, OkRecompute, Writers, Loads
<1>6. request'[r].holds \cap Accounts \subseteq request'[r].on
  BY <1>1 DEF Req
<1>7. ASSUME Clean(r)', ~Torn(r)', NEW a \in Accounts PROVE Net(a, tail)' = 0
  <2>1. Clean(r) /\ request[r].op = "import" /\ tail[1].do # "put"
    <3>1. Step(r)' = tail[1]
      BY <1>1 DEF Step
    <3> QED
      BY <1>1, <1>7, <3>1 DEF Clean, Torn
  <2>2. CASE a \in request[r].on
    <3>1. NetOf(account'[a], a, tx', tail) = 0
      BY <2>1, <2>2, OnwardNet
    <3> QED
      BY <3>1 DEF Net
  <2>3. CASE a \notin request[r].on
    <3>1. a \notin request[r].holds
      BY <1>1, <2>3 DEF Req
    <3>2. Neutral(r, a)'
      BY <2>1, <3>1, OnwardNeutral
    <3>3. Net(a, request[r].todo)' = 0
      BY <1>1, <3>2, NextNeutralNet
    <3> QED
      BY <1>1, <3>3 DEF Net
  <2> QED
    BY <2>2, <2>3
<1>8. request[r].wrong => request[r].on \subseteq doubted'
  BY DEF Write, Upsets
<1>9. \A a \in Accounts : Clean(r)' /\ ~Torn(r)' => Net(a, request[r].todo)' = 0
  BY <1>1, <1>7 DEF Net
<1> QED
  BY <1>1, <1>2, <1>3, <1>4, <1>5, <1>6, <1>8, <1>9 DEF Req

-----------------------------------------------------------------------------
(* The last write of a plan, and the balances. *)

(* The last write is made. *)
Ended(r) ==
    /\ Req(r)' /\ ~Torn(r)' /\ request'[r].todo = <<>>
    /\ \A b \in Accounts : Term(r, b)' = 0

(* A request that has made its last write is done or goes on to its next  *)
(* transaction: it owes nothing.                                          *)
LEMMA EndedSo ==
    ASSUME IInv, NEW r \in Requests, Write(r), Len(request[r].todo) = 1
    PROVE  Ended(r)
PROOF
<1>1. PICK s : s = Step(r)
  OBVIOUS
<1>2. Writes(r, s) /\ request'[r] = Own(r)
  BY <1>1, WriteSo
<1>3. Typed /\ Req(r) /\ Typed' /\ request[r].todo # <<>>
      /\ request[r].op \in Writers \cup {"recompute"}
  BY <1>2 DEF IInv, Writes
<1>4. Changes(r, s)
  BY <1>2, <1>3, ChangesSo
<1>5. ASSUME request'[r].todo = <<>>, ~request'[r].wrote
      PROVE  ~Torn(r)' /\ \A b \in Accounts : Term(r, b)' = 0
  <2>1. ~Torn(r)'
    BY <1>5 DEF Torn
  <2>2. ASSUME NEW b \in Accounts PROVE Term(r, b)' = 0
    <3>1. account'[b] \in AccountDocs /\ tx' \in [Txs -> Entries]
      BY <1>3 DEF Typed, TypeOK
    <3>2. NetOf(account'[b], b, tx', <<>>) = 0
      BY <3>1, NetNil
    <3> QED
      BY <1>5, <3>2 DEF Term, Net
  <2> QED
    BY <2>1, <2>2
<1>6. CASE Own(r) = Idle
  <2>1. Req(r)'
    BY <1>2, <1>3, <1>6, IdleSo
  <2>2. request'[r].todo = <<>> /\ ~request'[r].wrote
    BY <1>2, <1>6 DEF Idle
  <2> QED
    BY <1>5, <2>1, <2>2 DEF Ended
<1>7. ASSUME NEW p \in Txs \X Entries, GoesTo(r, p, Own(r)) PROVE Ended(r)
  <2>1. PICK q : q = request'[r]
    OBVIOUS
  <2>2. /\ p \in request[r].rest /\ q.op = "delete" /\ q.todo = <<>> /\ q.tx = p[1]
        /\ q.loaded = {p[2]} /\ q.rest = {} /\ q.holds = {p[1]} /\ q.on = {p[2].acc}
        /\ q.stale = request[r].stale /\ ~q.wrote /\ ~q.wrong
    BY <1>2, <1>7, <2>1 DEF GoesTo
  <2>3. PICK t \in Txs : t = p[1]
    <3>1. p[1] \in Txs
      BY <1>7
    <3> QED
      BY <3>1
  <2>4. PICK e \in Entries : e = p[2]
    <3>1. p[2] \in Entries
      BY <1>7
    <3> QED
      BY <3>1
  <2>5. Held(e, t) /\ (~request[r].stale => tx[t] = e)
    BY <1>3, <2>2, <2>3, <2>4 DEF Req, OkRest
  <2>6. request[r].op \in Writers
    BY <1>3, <2>2 DEF Req, OkRest, Loads
  <2>7. ~request[r].stale => t \notin Targets(s)
    BY <1>2, <2>2, <2>3, <2>6 DEF Writes, OkStep
  <2>8. ~request[r].stale => tx'[t] = e
    BY <1>4, <2>5, <2>7 DEF Changes
  <2>9. Held(e, t)'
    BY <1>4, <2>5 DEF Changes, Held
  <2>10. Bare(q)
    BY <2>2, <2>3, ApartAssumption DEF Bare, Loads
  <2>11. OkOpened(r)'
    <3>1. /\ q.tx \in q.holds /\ q.holds \subseteq Txs /\ q.loaded = {e}
          /\ q.on = {e.acc} /\ (~q.stale => tx'[q.tx] = e) /\ Held(e, q.tx)'
      BY <2>2, <2>3, <2>4, <2>8, <2>9 DEF Held, Firm
    <3> QED
      BY <2>1, <2>2, <3>1 DEF OkOpened
  <2>12. OkAccount(r)' /\ OkRest(r)'
    BY <2>1, <2>2 DEF OkAccount, OkRest
  <2>13. Req(r)'
    BY <1>3, <2>1, <2>10, <2>11, <2>12, BareReq
  <2> QED
    BY <1>5, <2>1, <2>2, <2>13 DEF Ended
<1> QED
  BY <1>3, <1>6, <1>7, OwnSo

(* All that is asked of a request holds after any write of its own. *)
LEMMA WriteReq ==
    ASSUME IInv, NEW r \in Requests, Write(r)
    PROVE  Req(r)'
PROOF
<1>1. CASE Len(request[r].todo) = 1
  BY <1>1, EndedSo DEF Ended
<1>2. CASE Len(request[r].todo) # 1
  <2>1. PICK s : s = Step(r)
    OBVIOUS
  <2>2. PICK todo : todo = request[r].todo
    OBVIOUS
  <2>3. PICK tail : tail = Tail(todo)
    OBVIOUS
  <2>4. Onward(r, s, todo, tail)
    BY <1>2, <2>1, <2>2, <2>3, OnwardSo
  <2> QED
    BY <2>4, OnwardReq
<1> QED
  BY <1>1, <1>2

(* What a request that is stale or wrong writes nobody counts on. *)
LEMMA UncleanTerm ==
    ASSUME IInv, NEW r \in Requests, Write(r), ~Clean(r), NEW b \in Accounts
    PROVE  Term(r, b)' = 0
PROOF
<1>1. CASE Len(request[r].todo) = 1
  BY <1>1, EndedSo DEF Ended
<1>2. CASE Len(request[r].todo) # 1
  <2>1. PICK s : s = Step(r)
    OBVIOUS
  <2>2. PICK todo : todo = request[r].todo
    OBVIOUS
  <2>3. PICK tail : tail = Tail(todo)
    OBVIOUS
  <2>4. Onward(r, s, todo, tail)
    BY <1>2, <2>1, <2>2, <2>3, OnwardSo
  <2>5. ~Clean(r)'
    BY <2>4 DEF Onward, Clean
  <2> QED
    BY <2>5 DEF Term
<1> QED
  BY <1>1, <1>2

(* A clean write moves the balance and what is still owed alike. *)
LEMMA CleanTerm ==
    ASSUME IInv, NEW r \in Requests, Write(r), Clean(r), request[r].op # "recompute",
           NEW b \in Accounts
    PROVE  Drift(b)' + Term(r, b)' = Drift(b) + Term(r, b)
PROOF
<1>1. PICK s : s = Step(r)
  OBVIOUS
<1>2. Writes(r, s)
  BY <1>1, WriteSo
<1>3. Typed /\ Req(r) /\ Typed'
  BY <1>2 DEF IInv, Writes
<1>4. PICK todo \in Seq(Steps) : todo = request[r].todo
  BY <1>3, RequestFacts
<1>5. /\ todo # <<>> /\ s = Head(todo) /\ request[r].op \in Writers
      /\ \A t \in Txs : tx'[t] = Applied(s, t, tx[t])
  BY <1>2, <1>4 DEF Writes
<1>6. Len(todo) <= 5
  BY <1>3, <1>4, <1>5 DEF Req, OkWriter
<1>7. PICK doc \in AccountDocs : doc = account[b]
  BY <1>3, DocFacts
<1>8. PICK now \in AccountDocs : now = account'[b]
  BY <1>3 DEF Typed, TypeOK
<1>9. /\ now.bal = Paid(s, b, doc.bal) /\ now.opening = doc.opening
      /\ now.cut = doc.cut /\ now.type = doc.type
  BY <1>2, <1>7, <1>8 DEF Writes
<1>10. tx \in [Txs -> Entries] /\ tx' \in [Txs -> Entries]
  BY <1>3, DocFacts DEF Typed, TypeOK
<1>11. NetOf(now, b, tx', Tail(todo)) + DriftOf(now, b, tx')
       = NetOf(doc, b, tx, todo) + DriftOf(doc, b, tx)
  BY <1>5, <1>6, <1>9, <1>10, StepKeeps
<1>12. Term(r, b) = NetOf(doc, b, tx, todo) /\ Drift(b) = DriftOf(doc, b, tx)
  BY <1>4, <1>7 DEF Term, Net, Drift
<1>13. Drift(b)' = DriftOf(now, b, tx')
  BY <1>8 DEF Drift
<1>14. Term(r, b)' = NetOf(now, b, tx', Tail(todo))
  <2>1. CASE Len(todo) = 1
    <3>1. Tail(todo) = <<>>
      BY <1>5, <2>1, TailFacts
    <3>2. NetOf(now, b, tx', <<>>) = 0
      BY <1>10, NetNil
    <3>3. Term(r, b)' = 0
      BY <1>4, <2>1, EndedSo DEF Ended
    <3> QED
      BY <3>1, <3>2, <3>3
  <2>2. CASE Len(todo) # 1
    <3>1. PICK tail : tail = Tail(todo)
      OBVIOUS
    <3>2. Onward(r, s, todo, tail)
      BY <1>1, <1>4, <2>2, <3>1, OnwardSo
    <3>3. Clean(r)' /\ request'[r].op # "recompute" /\ request'[r].todo = tail
      BY <3>2 DEF Onward, Clean
    <3> QED
      BY <1>8, <3>1, <3>3 DEF Term, Net
  <2> QED
    BY <2>1, <2>2
<1>15. /\ DriftOf(now, b, tx') \in Int /\ DriftOf(doc, b, tx) \in Int
       /\ NetOf(doc, b, tx, todo) \in Int
  BY <1>10, DriftType, NetType
<1>16. NetOf(now, b, tx', Tail(todo)) \in Int
  <2>1. Tail(todo) \in Seq(Steps)
    BY <1>5, TailFacts
  <2> QED
    BY <1>10, <2>1, NetType
<1> QED
  BY <1>11, <1>12, <1>13, <1>14, <1>15, <1>16

(* A balance no write reaches is as far off as before. *)
LEMMA FarDrift ==
    ASSUME Typed, Typed', NEW r \in Requests, NEW s, Writes(r, s), NEW b \in Accounts,
           account'[b].bal = account[b].bal,
           \A t \in Txs : Share(b, account[b], tx'[t]) = Share(b, account[b], tx[t])
    PROVE  Drift(b)' = Drift(b)
PROOF
<1>1. PICK doc \in AccountDocs : doc = account[b]
  BY DocFacts
<1>2. PICK now \in AccountDocs : now = account'[b]
  BY DEF Typed, TypeOK
<1>3. /\ now.bal = doc.bal /\ now.opening = doc.opening
      /\ now.cut = doc.cut /\ now.type = doc.type
  BY <1>1, <1>2 DEF Writes
<1>4. \A e : Share(b, now, e) = Share(b, doc, e)
  BY <1>3, ShareOfDoc
<1>5. tx \in [Txs -> Entries] /\ tx' \in [Txs -> Entries]
  BY DocFacts DEF Typed, TypeOK
<1>6. \A t \in Txs : Share(b, now, tx'[t]) = Share(b, doc, tx[t])
  BY <1>1, <1>4
<1>7. DriftOf(now, b, tx') = DriftOf(doc, b, tx)
  BY <1>3, <1>5, <1>6, DriftSame
<1> QED
  BY <1>1, <1>2, <1>7 DEF Drift

(* What an upset account is not on is left alone. *)
LEMMA UpsetDrift ==
    ASSUME IInv, NEW r \in Requests, Write(r), Upsets(r), NEW b \in Accounts, b \notin doubted'
    PROVE  b \notin request[r].on /\ Drift(b)' = Drift(b)
PROOF
<1>1. PICK s : s = Step(r)
  OBVIOUS
<1>2. Writes(r, s)
  BY <1>1, WriteSo
<1>3. Typed /\ Req(r) /\ Typed'
  BY <1>2 DEF IInv, Writes
<1>4. /\ b \notin request[r].on
      /\ \A t \in Written(r) \cap Txs : tx[t].acc # b
  <2>1. doubted' = doubted \cup request[r].on \cup {tx[t].acc : t \in Written(r) \cap Txs}
    BY DEF Write
  <2> QED
    BY <2>1
<1>5. Changes(r, s)
  BY <1>2, <1>3, ChangesSo
<1>6. account'[b].bal = account[b].bal
  BY <1>2, <1>4 DEF Writes, Paid
<1>7. ASSUME NEW t \in Txs
      PROVE  Share(b, account[b], tx'[t]) = Share(b, account[b], tx[t])
  <2>1. CASE tx'[t] = tx[t]
    BY <2>1
  <2>2. CASE tx'[t] # tx[t]
    <3>1. t \in Written(r) /\ t \in Targets(s)
      BY <1>1, <1>2, <1>3, <1>5, <2>2, WrittenSo DEF Changes
    <3>2. tx[t].acc # b /\ tx'[t].acc # b
      BY <1>4, <1>5, <3>1 DEF Changes
    <3> QED
      BY <3>2 DEF Share, Booked
  <2> QED
    BY <2>1, <2>2
<1> QED
  BY <1>2, <1>3, <1>4, <1>6, <1>7, FarDrift

(* What a request that is still at it owes after another one recomputed. *)
LEMMA RecomputedTerm ==
    ASSUME Typed, Typed', NEW q \in Requests, NEW written, Beside(q, written), Req(q),
           NEW b \in Accounts, b \in written
    PROVE  Term(q, b)' = 0 \/ (Doomed(q)' /\ b \in request'[q].on)
PROOF
<1>1. /\ Doomed(q) /\ b \in request[q].on => Doomed(q)' /\ b \in request'[q].on
      /\ Term(q, b)' = Term(q, b) \/ (Doomed(q)' /\ b \in request'[q].on)
  BY BesideTerm
<1>2. CASE b \notin request[q].on
  BY <1>1, <1>2, OffTerm
<1>3. CASE b \in request[q].on /\ ~Torn(q)
  <2>1. Term(q, b) = 0
    BY <1>3 DEF Req, Term
  <2> QED
    BY <1>1, <2>1
<1>4. CASE b \in request[q].on /\ Torn(q)
  <2>1. request[q].op \in Writers \cup {"read", "recompute"}
    <3>1. request[q].wrote
      BY <1>4 DEF Torn
    <3>2. request[q].op \in {"none", "read", "edit", "recompute"} \cup Loads \cup Writers
      BY RequestFacts
    <3>3. request[q].op # "none"
      BY <3>1 DEF Req, Idle
    <3>4. request[q].op # "edit" /\ request[q].op \notin Loads
      BY <3>1 DEF Req, OkAccount, OkOpened
    <3> QED
      BY <3>2, <3>3, <3>4
  <2>2. CASE request[q].op \in {"read", "recompute"}
    BY <1>1, <1>4, <2>2 DEF Doomed
  <2>3. CASE request[q].op \in Writers
    <3>1. request[q].on \subseteq request[q].holds
      BY <1>4, <2>3 DEF Req, OkWriter, Torn
    <3>2. request'[q].stale /\ request'[q].on = request[q].on
      <4>1. request[q].holds \cap written # {}
        BY <1>4, <3>1
      <4> QED
        BY <4>1, BesideFields
    <3>3. Torn(q)'
      BY <1>4, BesideTorn
    <3> QED
      BY <1>4, <3>2, <3>3 DEF Doomed
  <2> QED
    BY <2>1, <2>2, <2>3
<1> QED
  BY <1>2, <1>3, <1>4

(* After an undisturbed recompute the balance is the truth. *)
LEMMA RecomputeDrift ==
    ASSUME IInv, NEW r \in Requests, Write(r), Clean(r), request[r].op = "recompute",
           NEW b \in request[r].on
    PROVE  /\ Drift(b)' = 0 /\ request[r].on = {b} /\ b \in Accounts
           /\ Written(r) = {b} /\ request'[r] = Idle /\ Typed'
           /\ \A c \in Accounts : c # b => Drift(c)' = Drift(c)
PROOF
<1>1. PICK s : s = Step(r)
  OBVIOUS
<1>2. Writes(r, s) /\ request'[r] = Own(r)
  BY <1>1, WriteSo
<1>3. Typed /\ Req(r) /\ Typed'
  BY <1>2 DEF IInv, Writes
<1>4. /\ request[r].on = {b} /\ b \in Accounts /\ request[r].rest = {}
      /\ s.acc = b /\ s.bal = Truth(b) /\ Len(request[r].todo) = 1
  <2>1. \E a \in Accounts :
            /\ request[r].on = {a} /\ Len(request[r].todo) = 1
            /\ request[r].todo[1].acc = a /\ request[r].todo[1].bal = Truth(a)
    BY <1>3 DEF Req, OkRecompute
  <2>2. request[r].rest = {} /\ s = request[r].todo[1]
    BY <1>2, <1>3 DEF Req, OkRecompute, Writes
  <2> QED
    BY <2>1, <2>2
<1>5. /\ s.do = "put" /\ Written(r) = {b} /\ \A t \in Txs : tx'[t] = tx[t]
      /\ account'[b].bal = Truth(b)
  BY <1>1, <1>2, <1>3, <1>4, WrittenSo
<1>6. request'[r] = Idle
  BY <1>2, <1>4 DEF Own, Done
<1>7. Drift(b)' = 0
  <2>1. PICK doc \in AccountDocs : doc = account[b]
    BY <1>3, <1>4, DocFacts
  <2>2. PICK now \in AccountDocs : now = account'[b]
    BY <1>3, <1>4 DEF Typed, TypeOK
  <2>3. now.opening = doc.opening /\ now.cut = doc.cut /\ now.type = doc.type
    BY <1>2, <1>4, <2>1, <2>2 DEF Writes
  <2>4. \A e : Share(b, now, e) = Share(b, doc, e)
    BY <2>3, ShareOfDoc
  <2>5. PICK f : f = [t \in Txs |-> Share(b, doc, tx[t])]
    OBVIOUS
  <2>6. Shares(now, b, tx') = f
    BY <1>5, <2>4, <2>5 DEF Shares
  <2>7. f \in [Txs -> Int]
    <3>1. tx \in [Txs -> Entries]
      BY <1>3, DocFacts
    <3>2. Shares(doc, b, tx) \in [Txs -> Int]
      BY <3>1, SharesType
    <3> QED
      BY <2>5, <3>2 DEF Shares
  <2>8. SumFunction(f) \in Int
    BY <2>7, SumType, FiniteAssumption
  <2>9. PICK sum \in Int : sum = SumFunction(f)
    BY <2>8
  <2>10. PICK opening \in Int : opening = doc.opening
    BY DEF AccountDocs
  <2>11. now.bal = opening + sum
    BY <1>5, <2>1, <2>2, <2>5, <2>9, <2>10 DEF Truth
  <2>12. DriftOf(now, b, tx') = (opening + sum) - opening - sum
    BY <2>3, <2>6, <2>9, <2>10, <2>11 DEF DriftOf
  <2>13. DriftOf(now, b, tx') = 0
    BY <2>12
  <2> QED
    BY <2>2, <2>13 DEF Drift
<1>8. ASSUME NEW c \in Accounts, c # b PROVE Drift(c)' = Drift(c)
  <2>1. account'[c].bal = account[c].bal
    BY <1>2, <1>4, <1>8 DEF Writes, Paid
  <2> QED
    BY <1>2, <1>3, <1>5, <2>1, FarDrift
<1> QED
  BY <1>3, <1>4, <1>5, <1>6, <1>7, <1>8

-----------------------------------------------------------------------------
(* The invariant is inductive. *)

(* After a write each balance is off by what is still owed, or the        *)
(* account is doubted.                                                    *)
LEMMA WriteSettled ==
    ASSUME IInv, NEW r \in Requests, Write(r), NEW b \in Accounts
    PROVE  Settled(b)'
PROOF
<1>1. PICK s : s = Step(r)
  OBVIOUS
<1>2. Writes(r, s)
  BY <1>1, WriteSo
<1>3. Typed /\ Req(r) /\ Typed' /\ Settled(b)
      /\ request[r].op \in Writers \cup {"recompute"}
  BY <1>2 DEF IInv, Writes
<1>4. \A q \in Requests \ {r} : Beside(q, Written(r)) /\ Req(q)
  BY WriteBeside DEF IInv
<1>5. \A q \in Requests \ {r} :
         /\ Doomed(q) /\ b \in request[q].on => Doomed(q)' /\ b \in request'[q].on
         /\ Term(q, b)' = Term(q, b) \/ (Doomed(q)' /\ b \in request'[q].on)
  BY <1>3, <1>4, BesideTerm
<1>6. ASSUME b \in doubted => b \in doubted', ~(Doomed(r) /\ b \in request[r].on),
             Drift(b)' + Term(r, b)' = Drift(b) + Term(r, b)
      PROVE  Settled(b)'
  BY <1>3, <1>5, <1>6, StaysSettled
<1>7. CASE b \in doubted'
  BY <1>7 DEF Settled
<1>8. CASE b \notin doubted' /\ Upsets(r)
  <2>1. b \notin request[r].on /\ Drift(b)' = Drift(b)
    BY <1>8, UpsetDrift
  <2>2. Term(r, b) = 0
    BY <1>3, <2>1, OffTerm
  <2>3. Term(r, b)' = 0
    BY <1>8, UncleanTerm DEF Upsets, Clean
  <2>4. b \notin doubted
    BY <1>8 DEF Write
  <2> QED
    BY <1>6, <2>1, <2>2, <2>3, <2>4
<1>9. CASE b \notin doubted' /\ ~Upsets(r) /\ request[r].op = "touched"
  <2>1. /\ ~request[r].wrote /\ Len(request[r].todo) = 1
    BY <1>3, <1>9 DEF Req, OkWriter
  <2>2. ~Torn(r)
    BY <2>1 DEF Torn
  <2>3. Term(r, b) = 0
    BY <1>3, <2>2 DEF Req, Term
  <2>4. Term(r, b)' = 0
    BY <2>1, EndedSo DEF Ended
  <2>5. Drift(b)' = Drift(b)
    <3>1. s.do # "put" /\ \A t \in Txs : tx'[t] = tx[t]
      <4>1. s.do = "change"
        BY <1>2, <1>3, <1>9 DEF Req, OkWriter, Writes, Writers
      <4>2. \A t \in Txs : tx'[t] = tx[t]
        BY <1>1, <1>2, <1>3, <1>9, WrittenSo
      <4> QED
        BY <4>1, <4>2
    <3>2. account'[b].bal = account[b].bal
      BY <1>2, <3>1 DEF Writes, Paid
    <3> QED
      BY <1>2, <1>3, <3>1, <3>2, FarDrift
  <2>6. doubted' = doubted
    BY <1>9 DEF Write
  <2> QED
    BY <1>6, <2>2, <2>3, <2>4, <2>5, <2>6 DEF Doomed
<1>10. CASE b \notin doubted' /\ ~Upsets(r) /\ request[r].op = "recompute"
  <2>1. Clean(r)
    BY <1>10 DEF Upsets, Clean
  <2>2. PICK a \in Accounts : request[r].on = {a}
    BY <1>3, <1>10 DEF Req, OkRecompute
  <2>3. /\ Drift(a)' = 0 /\ Written(r) = {a} /\ request'[r] = Idle
        /\ \A c \in Accounts : c # a => Drift(c)' = Drift(c)
    BY <1>10, <2>1, <2>2, RecomputeDrift
  <2>4. Term(r, b)' = 0 /\ Term(r, b) = 0
    BY <1>3, <1>10, <2>3, IdleSo DEF Term
  <2>5. CASE b # a
    <3>1. doubted' = doubted \ {a}
      BY <1>10, <2>2 DEF Write
    <3> QED
      BY <1>6, <2>2, <2>3, <2>4, <2>5, <3>1
  <2>6. CASE b = a
    <3>1. CASE \E q \in Requests : Doomed(q)' /\ b \in request'[q].on
      BY <3>1 DEF Settled
    <3>2. CASE ~ \E q \in Requests : Doomed(q)' /\ b \in request'[q].on
      <4>1. ASSUME NEW q \in Requests PROVE Term(q, b)' = 0
        <5>1. CASE q = r
          BY <2>4, <5>1
        <5>2. CASE q # r
          <6>1. Beside(q, Written(r)) /\ Req(q) /\ b \in Written(r)
            BY <1>4, <2>3, <2>6, <5>2
          <6>2. PICK written : written = Written(r)
            OBVIOUS
          <6>3. Term(q, b)' = 0 \/ (Doomed(q)' /\ b \in request'[q].on)
            BY <1>3, <6>1, RecomputedTerm
          <6> QED
            BY <3>2, <6>3
        <5> QED
          BY <5>1, <5>2
      <4>2. PICK f : f = [q \in Requests |-> Term(q, b)']
        OBVIOUS
      <4>3. f \in [Requests -> Int] /\ \A q \in Requests : f[q] = 0
        BY <4>1, <4>2
      <4>4. SumFunction(f) = 0
        BY <4>3, SumZero, FiniteAssumption
      <4>5. Drift(b)' + SumFunction(f) = 0
        BY <2>3, <2>6, <4>4
      <4> QED
        BY <4>2, <4>5 DEF Settled
    <3> QED
      BY <3>1, <3>2
  <2> QED
    BY <2>5, <2>6
<1>11. CASE /\ b \notin doubted' /\ ~Upsets(r)
            /\ request[r].op # "recompute" /\ request[r].op # "touched"
  <2>1. Clean(r)
    BY <1>11 DEF Upsets, Clean
  <2>2. Drift(b)' + Term(r, b)' = Drift(b) + Term(r, b)
    BY <1>11, <2>1, CleanTerm
  <2>3. ~Doomed(r)
    BY <1>3, <1>11, <2>1 DEF Doomed, Clean, Writers
  <2>4. doubted' = doubted
    BY <1>11 DEF Write
  <2> QED
    BY <1>6, <2>2, <2>3, <2>4
<1> QED
  BY <1>7, <1>8, <1>9, <1>10, <1>11

(* A write keeps the invariant. *)
LEMMA WriteKeeps ==
    ASSUME IInv, NEW r \in Requests, Write(r)
    PROVE  IInv'
PROOF
<1>1. PICK s : s = Step(r)
  OBVIOUS
<1>2. Writes(r, s)
  BY <1>1, WriteSo
<1>3. Typed /\ Typed'
  BY <1>2 DEF IInv, Writes
<1>4. \A q \in Requests \ {r} : Beside(q, Written(r)) /\ Req(q)
  BY WriteBeside DEF IInv
<1>5. \A q \in Requests \ {r} : Req(q)'
  BY <1>3, <1>4, BesideReq
<1>6. Req(r)'
  BY WriteReq
<1>7. Legs'
  BY WriteLegs
<1>8. \A b \in Accounts : Settled(b)'
  BY WriteSettled
<1> QED
  BY <1>3, <1>5, <1>6, <1>7, <1>8 DEF IInv

(* A request that arrives keeps the invariant. *)
LEMMA ArrivesKeeps ==
    ASSUME IInv, NEW r \in Requests, Arrives(r)
    PROVE  IInv'
PROOF
<1>1. ASSUME NEW t \in Txs, tx[t].state = "none", NEW e \in Plain,
             Create(r, t, e) \/ ApplyTemplate(r, t, e)
      PROVE  IInv'
  BY <1>1, CreateKeeps, ApplyTemplateKeeps
<1>2. ASSUME NEW t \in Txs, tx[t].state = "none", NEW u \in Txs, NEW e \in Plain, NEW f \in Plain,
             tx[u].state = "none", Import(r, t, u, e, f)
      PROVE  IInv'
  BY <1>2, ImportKeeps
<1>3. ASSUME NEW t \in Txs, tx[t].state = "none", NEW e \in Drafts, NewDraft(r, t, e)
      PROVE  IInv'
  BY <1>3, NewDraftKeeps
<1>4. ASSUME NEW t \in Txs, tx[t].state = "none", NEW u \in Txs, NEW e \in Sent,
             NEW b \in Accounts, NEW tied \in BOOLEAN,
             tx[u].state = "none", Transfer(r, t, u, e, b, tied)
      PROVE  IInv'
  BY <1>4, TransferKeeps
<1>5. ASSUME NEW t \in Txs, NEW op \in Loads, Open(r, t, op) PROVE IInv'
  BY <1>5, OpenKeeps
<1>6. ASSUME NEW t \in Txs, NEW u \in Txs, OpenBulk(r, t, u) PROVE IInv'
  BY <1>6, OpenBulkKeeps
<1>7. ASSUME NEW a \in Accounts, Recompute(r, a) PROVE IInv'
  BY <1>7, RecomputeKeeps
<1>8. ASSUME NEW a \in Accounts, NEW doc \in AccountEdits(account[a]), EditAccount(r, a, doc)
      PROVE  IInv'
  BY <1>8, EditAccountKeeps
<1> QED
  BY <1>1, <1>2, <1>3, <1>4, <1>5, <1>6, <1>7, <1>8 DEF Arrives

(* A request that goes on keeps the invariant. *)
LEMMA ContinuesKeeps ==
    ASSUME IInv, NEW r \in Requests, Continues(r)
    PROVE  IInv'
PROOF
<1>1. ASSUME Opened(r, "update"), NEW e \in Edits(Copy(r)), Update(r, e) PROVE IInv'
  BY <1>1, UpdateKeeps
<1>2. ASSUME NEW own \in BOOLEAN, DeleteTransfer(r, own) PROVE IInv'
  BY <1>2, DeleteTransferKeeps
<1>3. ASSUME NEW u \in Txs, tx[u].state = "none", Duplicate(r, u) PROVE IInv'
  BY <1>3, DuplicateKeeps
<1>4. ASSUME Opened(r, "updateForOp"), NEW e \in Edits(Copy(r)), UpdateForOp(r, e) PROVE IInv'
  BY <1>4, UpdateForOpKeeps
<1>5. Delete(r) \/ Confirm(r) \/ Dismiss(r) \/ Touch(r) \/ DeleteForOp(r) => IInv'
  BY DeleteKeeps, ConfirmKeeps, DismissKeeps, TouchKeeps, DeleteForOpKeeps
<1>6. SaveAccount(r) \/ Read(r) \/ Write(r) \/ Fail(r) => IInv'
  BY SaveAccountKeeps, ReadKeeps, WriteKeeps, FailKeeps
<1> QED
  BY <1>1, <1>2, <1>3, <1>4, <1>5, <1>6 DEF Continues

(* A step that changes nothing keeps the invariant. *)
LEMMA StutterKeeps ==
    ASSUME IInv, UNCHANGED vars
    PROVE  IInv'
PROOF
<1>1. /\ account' = account /\ tx' = tx /\ request' = request /\ doubted' = doubted
      /\ starts' = starts
  BY DEF vars
<1>2. Typed'
  BY <1>1 DEF IInv, Typed, TypeOK
<1>3. ASSUME NEW q \in Requests PROVE Beside(q, {})
  <2>1. request[q] \in RequestDocs
    BY RequestFacts DEF IInv
  <2>2. (request[q].stale \/ request[q].holds \cap {} # {}) = request[q].stale
    BY <2>1 DEF RequestDocs
  <2>3. [request[q] EXCEPT !.stale = request[q].stale] = request[q]
    BY <2>1 DEF RequestDocs
  <2>4. request'[q] = [request[q] EXCEPT !.stale = @ \/ request[q].holds \cap {} # {}]
    BY <1>1, <2>2, <2>3
  <2> QED
    BY <1>1, <2>4 DEF Beside, Firm, Leg
<1>4. \A q \in Requests : Req(q)'
  BY <1>2, <1>3, BesideReq DEF IInv
<1>5. Legs'
  <2>1. PICK r : r \notin Requests
    <3>1. Requests \in {Requests}
      OBVIOUS
    <3>2. CASE Requests \notin Requests
      BY <3>2
    <3>3. CASE Requests \in Requests
      <4>1. {x \in Requests : x \notin x} \notin Requests
        OBVIOUS
      <4> QED
        BY <4>1
    <3> QED
      BY <3>2, <3>3
  <2>2. \A q \in Requests \ {r} : Beside(q, {})
    BY <1>3
  <2> QED
    BY <1>1, <1>2, <2>1, <2>2, LegsStay DEF IInv
<1>6. ASSUME NEW b \in Accounts PROVE Settled(b)'
  <2>1. Drift(b)' = Drift(b)
    BY <1>1 DEF Drift
  <2> QED
    BY <1>1, <1>2, <1>3, <2>1, StandsStill
<1> QED
  BY <1>2, <1>4, <1>5, <1>6 DEF IInv

(* The invariant is inductive. *)
LEMMA NextKeeps == IInv /\ [Next]_vars => IInv'
PROOF
<1> SUFFICES ASSUME IInv, [Next]_vars PROVE IInv'
  OBVIOUS
<1>1. ASSUME NEW r \in Requests, Arrives(r) \/ Continues(r) PROVE IInv'
  BY <1>1, ArrivesKeeps, ContinuesKeeps
<1>2. ASSUME NEW a \in Accounts, Archive(a) PROVE IInv'
  BY <1>2, ArchiveKeeps
<1>3. Crash => IInv'
  BY CrashKeeps
<1>4. UNCHANGED vars => IInv'
  BY StutterKeeps
<1> QED
  BY <1>1, <1>2, <1>3, <1>4 DEF Next

-----------------------------------------------------------------------------
(* The theorems. *)

(* A request that has not arrived owes nothing. *)
LEMMA IdleReq ==
    ASSUME Typed, NEW r \in Requests, request[r] = Idle
    PROVE  /\ Req(r) /\ Made(r) = {} /\ ~Doomed(r)
           /\ \A b \in Accounts : Term(r, b) = 0
PROOF
<1>1. PICK q : q = request[r]
  OBVIOUS
<1>2. /\ q = Idle /\ q.op = "none" /\ q.todo = <<>> /\ q.tx = NoTx /\ q.loaded = {} /\ q.rest = {}
      /\ q.holds = {} /\ q.on = {} /\ ~q.wrote /\ ~q.moved /\ ~q.stale /\ ~q.wrong
  BY <1>1 DEF Idle
<1>3. ~Torn(r)
  BY <1>1, <1>2 DEF Torn
<1>4. \A b \in Accounts : Net(b, <<>>) = 0
  BY DocFacts, NetNil DEF Net
<1>5. /\ OkOpened(r) /\ OkAccount(r) /\ OkRecompute(r) /\ OkWriter(r) /\ OkRest(r)
      /\ OkTransfer(r) /\ OkImport(r) /\ Made(r) = {}
  BY <1>1, <1>2 DEF OkOpened, OkAccount, OkRecompute, OkWriter, OkRest, OkTransfer,
                    OkImport, Made, Writers, Loads
<1>6. Req(r)
  BY <1>1, <1>2, <1>4, <1>5 DEF Req
<1> QED
  BY <1>1, <1>2, <1>3, <1>4, <1>5, <1>6 DEF Doomed, Term

(* The invariant holds of the books a behaviour starts with, which are    *)
(* balanced and well paired.                                              *)
LEMMA Starts == Init => IInv
PROOF
<1> SUFFICES ASSUME Init PROVE IInv
  OBVIOUS
<1>1. New \in AccountDocs
  BY DEF New, AccountDocs
<1>2. tx \in [Txs -> Entries] /\ WellPaired(tx)
  BY BooksAssumption DEF Init
<1>3. ASSUME NEW a \in Accounts
      PROVE  /\ account[a] \in AccountDocs /\ DriftOf(account[a], a, tx) = 0
  <2>1. PICK f : f = [t \in Txs |-> Share(a, New, tx[t])]
    OBVIOUS
  <2>2. f \in [Txs -> Int]
    <3>1. Shares(New, a, tx) \in [Txs -> Int]
      BY <1>1, <1>2, SharesType
    <3> QED
      BY <2>1, <3>1 DEF Shares
  <2>3. SumFunction(f) \in Int
    BY <2>2, SumType, FiniteAssumption
  <2>4. PICK sum \in Int : sum = SumFunction(f)
    BY <2>3
  <2>5. PICK new \in AccountDocs : new = New
    BY <1>1
  <2>6. account[a] = [new EXCEPT !.bal = sum]
    BY <2>1, <2>4, <2>5 DEF Init
  <2>7. PICK doc : doc = account[a]
    OBVIOUS
  <2>8. /\ doc \in AccountDocs /\ doc.bal = sum /\ doc.opening = new.opening
        /\ doc.cut = new.cut /\ doc.type = new.type
    BY <2>6, <2>7 DEF AccountDocs
  <2>9. new.opening = 0
    BY <2>5 DEF New
  <2>10. \A e : Share(a, doc, e) = Share(a, new, e)
    BY <2>8, ShareOfDoc
  <2>11. Shares(doc, a, tx) = f
    BY <2>1, <2>5, <2>10 DEF Shares
  <2>12. DriftOf(doc, a, tx) = sum - 0 - sum
    BY <2>4, <2>8, <2>9, <2>11 DEF DriftOf
  <2>13. DriftOf(doc, a, tx) = 0
    BY <2>12
  <2> QED
    BY <2>7, <2>8, <2>13
<1>4. Typed
  <2>1. account \in [Accounts -> AccountDocs]
    BY <1>3 DEF Init
  <2>2. request \in [Requests -> RequestDocs]
    BY IdleType DEF Init
  <2>3. \A r \in Requests : request[r].on \subseteq Accounts
    BY DEF Init, Idle
  <2>4. doubted \subseteq Accounts /\ starts \in 0..MaxStarts
    BY StartsAssumption DEF Init
  <2> QED
    BY <1>2, <2>1, <2>2, <2>3, <2>4 DEF Typed, TypeOK
<1>5. ASSUME NEW r \in Requests
      PROVE  /\ Req(r) /\ Made(r) = {} /\ ~Doomed(r)
             /\ \A b \in Accounts : Term(r, b) = 0
  <2>1. request[r] = Idle
    BY DEF Init
  <2> QED
    BY <1>4, <2>1, IdleReq
<1>6. Legs
  BY <1>2, <1>5 DEF Legs
<1>7. ASSUME NEW a \in Accounts PROVE Settled(a)
  <2>1. PICK f : f = [q \in Requests |-> Term(q, a)]
    OBVIOUS
  <2>2. f \in [Requests -> Int] /\ \A q \in Requests : f[q] = 0
    BY <1>5, <2>1
  <2>3. SumFunction(f) = 0
    BY <2>2, SumZero, FiniteAssumption
  <2>4. Drift(a) + SumFunction(f) = 0
    BY <1>3, <2>3 DEF Drift
  <2> QED
    BY <2>1, <2>4 DEF Settled
<1> QED
  BY <1>4, <1>5, <1>6, <1>7 DEF IInv

(* With no request in progress a balance that is off is one of an account *)
(* that is doubted.                                                       *)
LEMMA Explains == IInv => DriftHasCause
PROOF
<1> SUFFICES ASSUME IInv PROVE DriftHasCause
  OBVIOUS
<1>1. Typed
  BY DEF IInv
<1>2. ASSUME NEW a \in Accounts, a \notin doubted, ~ \E r \in Requests : a \in request[r].on
      PROVE  account[a].bal = Truth(a)
  <2>1. Drift(a) + SumFunction([r \in Requests |-> Term(r, a)]) = 0
    BY <1>2 DEF IInv, Settled
  <2>2. \A r \in Requests : Term(r, a) = 0
    BY <1>1, <1>2, OffTerm DEF IInv
  <2>3. PICK f : f = [r \in Requests |-> Term(r, a)]
    OBVIOUS
  <2>4. f \in [Requests -> Int] /\ \A r \in Requests : f[r] = 0
    BY <2>2, <2>3
  <2>5. SumFunction(f) = 0
    BY <2>4, SumZero, FiniteAssumption
  <2>6. Drift(a) \in Int
    BY <1>1, DocFacts, DriftType DEF Drift
  <2>7. Drift(a) = 0
    BY <2>1, <2>3, <2>5, <2>6
  <2> QED
    BY <1>1, <2>7, TruthDrift
<1> QED
  BY <1>1, <1>2 DEF DriftHasCause, Typed

(* No step makes a live transaction of a deleted one. *)
LEMMA GoneStays ==
    ASSUME IInv, [Next]_vars, NEW t \in Txs, tx[t].state = "gone"
    PROVE  tx'[t].state # "live"
PROOF
<1>1. Typed /\ tx[t] \in Entries
  BY DocFacts DEF IInv
<1>2. CASE tx' = tx
  BY <1>2
<1>3. ASSUME NEW r \in Requests, Write(r) PROVE tx'[t].state # "live"
  <2>1. PICK s : s = Step(r)
    OBVIOUS
  <2>2. Writes(r, s)
    BY <1>3, <2>1, WriteSo
  <2>3. PICK e \in Entries : e = tx[t]
    BY <1>1
  <2>4. tx'[t] = Applied(s, t, e) /\ s \in Steps /\ e.state = "gone"
    BY <2>2, <2>3 DEF Writes
  <2>5. CASE t \notin Targets(s)
    BY <2>4, <2>5 DEF Applied
  <2>6. CASE t \in Targets(s) /\ s.do = "insert"
    BY <2>2, <2>6 DEF Writes, Targets
  <2>7. CASE t \in Targets(s) /\ s.do = "change"
    <3>1. s.to.state \in {s.from.state, "gone"}
      BY <2>2, <2>7 DEF Writes, OkChange
    <3>2. tx'[t] = Merged(e, s.from, s.to)
      BY <2>4, <2>7 DEF Applied
    <3>3. tx'[t].state = Saved(e.state, s.from.state, s.to.state)
      BY <3>2 DEF Merged
    <3> QED
      BY <2>4, <3>1, <3>3 DEF Saved
  <2>8. CASE t \in Targets(s) /\ s.do \notin {"insert", "change"}
    <3>1. tx'[t] = Buried(e)
      BY <2>4, <2>8 DEF Applied
    <3>2. Buried(e).state = "gone"
      BY <2>4 DEF Buried, Entries
    <3> QED
      BY <3>1, <3>2
  <2> QED
    BY <2>5, <2>6, <2>7, <2>8
<1>4. ASSUME NEW r \in Requests, Fail(r) PROVE tx'[t].state # "live"
  <2>1. tx'[t] = IF t \in Made(r) THEN [tx[t] EXCEPT !.state = "none"] ELSE tx[t]
    BY <1>4 DEF Fail
  <2>2. [tx[t] EXCEPT !.state = "none"].state = "none"
    BY <1>1 DEF Entries
  <2> QED
    BY <2>1, <2>2
<1>5. ASSUME NEW r \in Requests, Arrives(r) PROVE tx' = tx
  <2>1. Begins(r) => tx' = tx
    BY DEF Begins
  <2>2. \A v, e : Create(r, v, e) \/ ApplyTemplate(r, v, e) \/ NewDraft(r, v, e) => Begins(r)
    BY Zenon DEF Create, ApplyTemplate, NewDraft
  <2>3. \A v, u, e, f : Import(r, v, u, e, f) => Begins(r)
    BY Zenon DEF Import
  <2>4. ASSUME NEW v, NEW u, NEW e, NEW b, NEW tied, Transfer(r, v, u, e, b, tied)
        PROVE  Begins(r)
    BY <2>4, SMT DEF Transfer
  <2>5. \A v, op : Open(r, v, op) => Begins(r)
    BY Zenon DEF Open
  <2>6. \A v, u : OpenBulk(r, v, u) => Begins(r)
    BY Zenon DEF OpenBulk
  <2>7. \A a, doc : Recompute(r, a) \/ EditAccount(r, a, doc) => Begins(r)
    BY Zenon DEF Recompute, EditAccount, OpenAccount
  <2>8. Begins(r)
    BY <1>5, <2>2, <2>3, <2>4, <2>5, <2>6, <2>7, Zenon DEF Arrives
  <2> QED
    BY <2>1, <2>8
<1>6. ASSUME NEW r \in Requests, Continues(r), ~Write(r), ~Fail(r) PROVE tx' = tx
  <2>1. ASSUME NEW todo, NEW holds, NEW on, NEW wrong, Goes(r, todo, holds, on, wrong)
        PROVE  tx' = tx
    BY <2>1 DEF Goes
  <2>2. \A e : Update(r, e) \/ UpdateForOp(r, e) => tx' = tx
    BY <2>1, Zenon DEF Update, UpdateForOp
  <2>3. \A own : DeleteTransfer(r, own) => tx' = tx
    BY <2>1, Zenon DEF DeleteTransfer
  <2>4. \A u : Duplicate(r, u) => tx' = tx
    BY <2>1, Zenon DEF Duplicate
  <2>5. Delete(r) \/ Confirm(r) \/ Dismiss(r) \/ DeleteForOp(r) => tx' = tx
    BY <2>1, Zenon DEF Delete, Confirm, Dismiss, DeleteForOp
  <2>6. Touch(r) \/ SaveAccount(r) \/ Read(r) => tx' = tx
    BY DEF Touch, SaveAccount, Read
  <2> QED
    BY <1>6, <2>2, <2>3, <2>4, <2>5, <2>6 DEF Continues
<1>7. (\E a \in Accounts : Archive(a)) \/ Crash \/ UNCHANGED vars => tx' = tx
  BY DEF Archive, Crash, vars
<1> QED
  BY <1>2, <1>3, <1>4, <1>5, <1>6, <1>7 DEF Next

(* Every reachable state satisfies the invariant: what the requests in    *)
(* progress (createTransactionForUser, commitImport, createTransfer, ...) *)
(* have still to write accounts for all that a balance is off, whatever   *)
(* writes come in between.                                                *)
THEOREM LedgerInductive == Spec => []IInv
PROOF
<1>1. Init => IInv
  BY Starts
<1>2. IInv /\ [Next]_vars => IInv'
  BY NextKeeps
<1> QED
  BY <1>1, <1>2, PTL DEF Spec

(* The documents of the accounts and of the transactions keep their       *)
(* types.                                                                 *)
THEOREM LedgerType == Spec => []TypeOK
PROOF
<1>1. IInv => TypeOK
  BY DEF IInv, Typed
<1> QED
  BY <1>1, LedgerInductive, PTL

(* currentBalance is what recomputeAccountBalance means it to be, unless  *)
(* a request is at work on the account or one of the named causes (a      *)
(* stale copy saved, a draft counted, a leg misread, a request that       *)
(* stopped half-way, ...) has upset it: for any accounts, transactions,   *)
(* requests, amounts and books.                                           *)
THEOREM DriftExplained == Spec => []DriftHasCause
PROOF
  BY Explains, LedgerInductive, PTL

(* A transaction that softDeletePlugin hid stays hidden, also when a      *)
(* request that had loaded it before saves it afterwards: save() sends    *)
(* the modified fields only.                                              *)
THEOREM StaysDeleted == Spec => DeletedStaysDeleted
PROOF
<1>1. IInv /\ [Next]_vars => [\A t \in Txs : tx[t].state = "gone" => tx'[t].state # "live"]_vars
  BY GoneStays
<1> QED
  BY <1>1, LedgerInductive, PTL DEF Spec, DeletedStaysDeleted
=============================================================================
