---------------------------- MODULE BaseRates_proofs ----------------------------
(***************************************************************************)
(* The rest of the theorems about Research: the parts that count and sum   *)
(* over stored histories (the price study, the base-rate script and the    *)
(* listings screen), and the types of the whole composition.  The lemmas   *)
(* on counting and adding come first: induction over the numbers and over  *)
(* the subsets of a finite set is stated of a set, which the provers can   *)
(* instantiate.                                                            *)
(***************************************************************************)
EXTENDS Research_proofs

-----------------------------------------------------------------------------
(* Counting and adding: what the parts need of finite sets of numbers.     *)
(* Of a finite set of numbers, each has less before it than those after    *)
(* it, and for each number less than the size one has that many before it. *)
LEMMA Ranks ==
    ASSUME NEW S, S \subseteq Nat, IsFiniteSet(S)
    PROVE  LET n == Cardinality(S)
               before(x) == {y \in S : y < x}
           IN  /\ n \in Nat
               /\ \A x \in S : IsFiniteSet(before(x)) /\ Cardinality(before(x)) \in 0..(n - 1)
               /\ \A x, y \in S : x < y => Cardinality(before(x)) < Cardinality(before(y))
               /\ \A k \in 0..(n - 1) : \E x \in S : Cardinality(before(x)) = k
<1> DEFINE n == Cardinality(S)
           before(x) == {y \in S : y < x}
           rank == [x \in S |-> Cardinality(before(x))]
<1>1. n \in Nat
  BY FS_CardinalityType
<1>2. \A x \in S : IsFiniteSet(before(x)) /\ Cardinality(before(x)) \in 0..(n - 1)
  <2> TAKE x \in S
  <2>1. IsFiniteSet(S \ {x}) /\ Cardinality(S \ {x}) = n - 1
    BY FS_RemoveElement
  <2>2. before(x) \in SUBSET (S \ {x})
    OBVIOUS
  <2>3. IsFiniteSet(before(x)) /\ Cardinality(before(x)) <= n - 1
    BY <2>1, <2>2, FS_Subset
  <2>4. Cardinality(before(x)) \in Nat
    BY <2>3, FS_CardinalityType
  <2> QED
    BY <2>3, <2>4, <1>1
<1>3. \A x, y \in S : x < y => Cardinality(before(x)) < Cardinality(before(y))
  <2> SUFFICES ASSUME NEW x \in S, NEW y \in S, x < y
               PROVE  Cardinality(before(x)) < Cardinality(before(y))
    OBVIOUS
  <2>1. x \in before(y) /\ x \notin before(x)
    OBVIOUS
  <2>2. before(x) \in SUBSET before(y)
    <3>1. \A w \in S : w \in Nat /\ x \in Nat /\ y \in Nat
      OBVIOUS
    <3>2. \A w \in S : w < x => w < y
      BY <3>1
    <3> QED
      BY <3>2
  <2>3. /\ Cardinality(before(x)) <= Cardinality(before(y))
        /\ Cardinality(before(x)) # Cardinality(before(y))
    BY <2>1, <2>2, <1>2, FS_Subset
  <2> QED
    BY <2>3, <1>2, <1>1
<1>4. \A x, y \in S : Cardinality(before(x)) = Cardinality(before(y)) => x = y
  <2>1. \A x, y \in S : x = y \/ x < y \/ y < x
    OBVIOUS
  <2>2. \A x \in S : ~(Cardinality(before(x)) < Cardinality(before(x)))
    BY <1>1, <1>2
  <2> HIDE DEF before
  <2> QED
    BY <1>3, <2>1, <2>2
<1>5. rank \in Injection(S, 0..(n - 1))
  BY <1>2, <1>4 DEF Injection, IsInjective
<1>6. IsFiniteSet(0..(n - 1)) /\ Cardinality(0..(n - 1)) = n
  <2> HIDE DEF n
  <2>1. 0 \in Int /\ n - 1 \in Int /\ (IF 0 > n - 1 THEN 0 ELSE (n - 1) - 0 + 1) = n
    BY <1>1
  <2>2. \A a, b \in Int : /\ IsFiniteSet(a..b)
                          /\ Cardinality(a..b) = IF a > b THEN 0 ELSE b - a + 1
    BY FS_Interval
  <2> QED
    BY <2>1, <2>2
<1>7. rank \in Surjection(S, 0..(n - 1))
  BY <1>5, <1>6, FS_Injection
<1>8. \A k \in 0..(n - 1) : \E x \in S : Cardinality(before(x)) = k
  BY <1>7 DEF Surjection
<1> QED
  BY <1>1, <1>2, <1>3, <1>8

(* A set of natural numbers has a least one.                               *)
LEMMA NatLeast ==
    ASSUME NEW S, S \subseteq Nat, S # {}
    PROVE  \E x \in S : \A y \in S : x <= y
<1>1. PICK z \in S : z \in Nat
  OBVIOUS
<1> DEFINE U == {y \in S : y <= z}
<1>2. U \subseteq Nat /\ z \in U /\ IsFiniteSet(U)
  <2>1. U \in SUBSET (0..z) /\ z <= z
    <3>1. \A y \in U : y \in Nat /\ y <= z
      OBVIOUS
    <3> HIDE DEF U
    <3> QED
      BY <1>1, <3>1
  <2>2. IsFiniteSet(0..z)
    BY <1>1, FS_Interval
  <2> QED
    BY <1>1, <2>1, <2>2, FS_Subset
<1>3. Cardinality(U) \in Nat /\ Cardinality(U) # 0
  BY <1>2, FS_CardinalityType, FS_EmptySet
<1>4. PICK x \in U : Cardinality({y \in U : y < x}) = 0
  <2>1. 0 \in 0..(Cardinality(U) - 1)
    BY <1>3
  <2> HIDE DEF U
  <2> QED
    BY <1>2, <2>1, Ranks
<1>5. {y \in U : y < x} = {}
  <2> HIDE DEF U
  <2>1. IsFiniteSet({y \in U : y < x})
    BY <1>2, Ranks
  <2> QED
    BY <1>4, <2>1, FS_EmptySet
<1>6. \A y \in S : x <= y
  <2> TAKE y \in S
  <2>1. x \in Nat /\ x <= z /\ y \in Nat
    OBVIOUS
  <2>2. CASE y <= z
    BY <1>5, <2>1, <2>2
  <2>3. CASE ~(y <= z)
    BY <1>1, <2>1, <2>3
  <2> QED
    BY <2>2, <2>3
<1> QED
  BY <1>6

(* One that is bounded has a greatest one.                                 *)
LEMMA NatGreatest ==
    ASSUME NEW S, S \subseteq Nat, S # {}, NEW b \in Nat, \A x \in S : x <= b
    PROVE  \E x \in S : \A y \in S : x >= y
<1> DEFINE U == {b - x : x \in S}
<1>1. U \subseteq Nat /\ U # {}
  <2>1. \A x \in S : b - x \in Nat
    OBVIOUS
  <2> QED
    BY <2>1
<1>2. PICK t \in U : \A u \in U : t <= u
  BY <1>1, NatLeast
<1>3. PICK x \in S : t = b - x
  OBVIOUS
<1>4. \A y \in S : x >= y
  <2> TAKE y \in S
  <2>1. b - x <= b - y
    BY <1>2, <1>3
  <2>2. x \in Nat /\ y \in Nat
    BY <1>3
  <2> QED
    BY <2>1, <2>2
<1> QED
  BY <1>3, <1>4

(* Induction over the natural numbers, for a set of them.                  *)
LEMMA NatInduct ==
    ASSUME NEW S, 0 \in S, \A n \in Nat : n \in S => n + 1 \in S
    PROVE  Nat \subseteq S
<1> DEFINE U == Nat \ S
<1> SUFFICES ASSUME U # {} PROVE FALSE
  OBVIOUS
<1>1. PICK x \in U : \A y \in U : x <= y
  BY NatLeast
<1>2. x \in Nat /\ x # 0 /\ x \notin S
  BY <1>1
<1>3. x - 1 \in Nat /\ x - 1 \notin U
  BY <1>1, <1>2
<1>4. x - 1 \in S /\ (x - 1) + 1 = x
  BY <1>2, <1>3
<1> QED
  BY <1>2, <1>3, <1>4

(* Induction over the subsets of a finite set: a family has them all if it *)
(* has each one that it has without any one of its elements.               *)
LEMMA FiniteInduct ==
    ASSUME NEW S, IsFiniteSet(S), NEW F,
           \A C \in SUBSET S : (\A x \in C : C \ {x} \in F) => C \in F
    PROVE  \A C \in SUBSET S : C \in F
<1> DEFINE D == {n \in Nat : \A C \in SUBSET S : Cardinality(C) = n => C \in F}
<1>1. \A C \in SUBSET S : IsFiniteSet(C) /\ Cardinality(C) \in Nat
  BY FS_Subset, FS_CardinalityType
<1>2. 0 \in D
  <2>1. \A C \in SUBSET S : Cardinality(C) = 0 => C = {}
    BY <1>1, FS_EmptySet
  <2> QED
    BY <2>1
<1>3. ASSUME NEW n \in Nat, n \in D PROVE n + 1 \in D
  <2> SUFFICES ASSUME NEW C \in SUBSET S, Cardinality(C) = n + 1 PROVE C \in F
    OBVIOUS
  <2>1. ASSUME NEW x \in C PROVE C \ {x} \in F
    <3>1. Cardinality(C \ {x}) = Cardinality(C) - 1
      BY <1>1, FS_RemoveElement
    <3>2. C \ {x} \in SUBSET S /\ Cardinality(C \ {x}) = n
      BY <1>3, <3>1
    <3> QED
      BY <1>3, <3>2
  <2> QED
    BY <2>1
<1>4. Nat \subseteq D
  <2> HIDE DEF D
  <2> QED
    BY <1>2, <1>3, NatInduct
<1> QED
  BY <1>1, <1>4

(* A finite set of natural numbers has a greatest one.                     *)
LEMMA FiniteGreatest ==
    ASSUME NEW S, S \subseteq Nat, IsFiniteSet(S), S # {}
    PROVE  \E x \in S : \A y \in S : x >= y
<1> DEFINE F == {C \in SUBSET S : C = {} \/ \E x \in C : \A y \in C : x >= y}
<1>1. ASSUME NEW C \in SUBSET S, \A x \in C : C \ {x} \in F PROVE C \in F
  <2> SUFFICES ASSUME C # {} PROVE \E x \in C : \A y \in C : x >= y
    OBVIOUS
  <2>1. PICK c \in C : TRUE
    OBVIOUS
  <2>2. CASE C \ {c} = {}
    BY <2>1, <2>2
  <2>3. CASE C \ {c} # {}
    <3>1. PICK x \in C \ {c} : \A y \in C \ {c} : x >= y
      BY <1>1, <2>1, <2>3
    <3>2. x \in Nat /\ c \in Nat
      BY <2>1
    <3>3. CASE x >= c
      BY <3>1, <3>3
    <3>4. CASE c > x
      <4>1. \A y \in C \ {c} : y \in Nat /\ c >= y
        BY <3>1, <3>2, <3>4
      <4> QED
        BY <2>1, <3>2, <4>1
    <3> QED
      BY <3>2, <3>3, <3>4
  <2> QED
    BY <2>2, <2>3
<1>2. \A C \in SUBSET S : C \in F
  <2> HIDE DEF F
  <2> QED
    BY <1>1, FiniteInduct
<1> QED
  BY <1>2

(* The sums of the weights w of the subsets of S, as MapThenSumSet adds    *)
(* them up: in the order of CHOOSE.                                        *)
Pick(s) == CHOOSE x \in s : TRUE
AreSums(g, S, w) ==
    g = [s \in SUBSET S |-> IF s = {} THEN 0 ELSE w[Pick(s)] + g[s \ {Pick(s)}]]

(* What CHOOSE takes of a set that has an element is an element.           *)
LEMMA PickIsIn == ASSUME NEW s, s # {} PROVE Pick(s) \in s
BY DEF Pick

(* There are such sums,                                                    *)
LEMMA SumsExist ==
    ASSUME NEW S, IsFiniteSet(S), NEW w \in [S -> Nat]
    PROVE  \E g : AreSums(g, S, w)
<1> DEFINE Upto(n) == {s \in SUBSET S : Cardinality(s) <= n}
           Recurs(g, n) == g = [s \in Upto(n) |-> IF s = {} THEN 0
             ELSE w[Pick(s)] + g[s \ {Pick(s)}]]
           D == {n \in Nat : \E g : Recurs(g, n)}
<1>1. \A s \in SUBSET S : IsFiniteSet(s) /\ Cardinality(s) \in Nat
        /\ Cardinality(s) <= Cardinality(S)
  BY FS_Subset, FS_CardinalityType
<1>2. \A s \in SUBSET S : s # {} =>
          /\ s \ {Pick(s)} \in SUBSET S
          /\ Cardinality(s \ {Pick(s)}) = Cardinality(s) - 1
  BY <1>1, PickIsIn, FS_RemoveElement
<1>3. 0 \in D
  <2> DEFINE g == [s \in Upto(0) |-> 0]
  <2>1. \A s \in Upto(0) : s = {}
    BY <1>1, FS_EmptySet
  <2>2. g = [s \in Upto(0) |-> IF s = {} THEN 0 ELSE w[Pick(s)] + g[s \ {Pick(s)}]]
    BY <2>1
  <2> QED
    BY <2>2
<1>4. ASSUME NEW n \in Nat, n \in D PROVE n + 1 \in D
  <2>1. PICK g : Recurs(g, n)
    BY <1>4
  <2> DEFINE h == [s \in Upto(n + 1) |-> IF s = {} THEN 0 ELSE w[Pick(s)] + g[s \ {Pick(s)}]]
  <2>2. \A s \in Upto(n) : s \in Upto(n + 1) /\ h[s] = g[s]
    <3> TAKE s \in Upto(n)
    <3>1. s \in Upto(n + 1)
      BY <1>1
    <3>2. g[s] = IF s = {} THEN 0 ELSE w[Pick(s)] + g[s \ {Pick(s)}]
      BY <2>1
    <3> QED
      BY <3>1, <3>2
  <2>3. \A s \in Upto(n + 1) : s # {} => s \ {Pick(s)} \in Upto(n)
    BY <1>1, <1>2
  <2>4. \A s \in Upto(n + 1) : s # {} => h[s \ {Pick(s)}] = g[s \ {Pick(s)}]
    <3> HIDE DEF h
    <3> QED
      BY <2>2, <2>3
  <2>5. h = [s \in Upto(n + 1) |-> IF s = {} THEN 0 ELSE w[Pick(s)] + h[s \ {Pick(s)}]]
    BY <2>4
  <2>6. Recurs(h, n + 1)
    BY <2>5
  <2>7. \E f : Recurs(f, n + 1)
    <3> HIDE DEF h, Recurs
    <3> QED
      BY <2>6
  <2> HIDE DEF Recurs
  <2> QED
    BY <2>7
<1>5. Cardinality(S) \in D
  <2>1. Nat \subseteq D
    <3> HIDE DEF D
    <3> QED
      BY <1>3, <1>4, NatInduct
  <2> QED
    BY <2>1, <1>1
<1>6. Upto(Cardinality(S)) = SUBSET S
  BY <1>1
<1> QED
  BY <1>5, <1>6 DEF AreSums

(* they are numbers,                                                       *)
LEMMA SumsAreNat ==
    ASSUME NEW S, IsFiniteSet(S), NEW w \in [S -> Nat], NEW g, AreSums(g, S, w)
    PROVE  \A C \in SUBSET S : g[C] \in Nat
<1> DEFINE F == {C \in SUBSET S : g[C] \in Nat}
<1>1. ASSUME NEW C \in SUBSET S, \A x \in C : C \ {x} \in F PROVE C \in F
  <2>1. g[C] = IF C = {} THEN 0 ELSE w[Pick(C)] + g[C \ {Pick(C)}]
    BY DEF AreSums
  <2>2. C # {} => w[Pick(C)] \in Nat /\ g[C \ {Pick(C)}] \in Nat
    BY <1>1, PickIsIn
  <2>3. g[C] \in Nat
    BY <2>1, <2>2
  <2> QED
    BY <2>3
<1>2. \A C \in SUBSET S : C \in F
  <2> HIDE DEF F
  <2> QED
    BY <1>1, FiniteInduct
<1> QED
  BY <1>2

(* add an element whatever the order of CHOOSE,                            *)
LEMMA SumsAdd ==
    ASSUME NEW S, IsFiniteSet(S), NEW w \in [S -> Nat], NEW g, AreSums(g, S, w)
    PROVE  \A C \in SUBSET S : \A x \in S \ C : g[C \cup {x}] = g[C] + w[x]
<1> DEFINE F == {C \in SUBSET S : \A x \in S \ C : g[C \cup {x}] = g[C] + w[x]}
<1>1. \A C \in SUBSET S : g[C] \in Nat
  BY SumsAreNat
<1>2. ASSUME NEW C \in SUBSET S, \A x \in C : C \ {x} \in F PROVE C \in F
  <2> SUFFICES ASSUME NEW x \in S \ C PROVE g[C \cup {x}] = g[C] + w[x]
    OBVIOUS
  <2> DEFINE Z == C \cup {x}
             c == Pick(Z)
  <2>1. Z \in SUBSET S /\ Z # {} /\ c \in Z
    BY PickIsIn
  <2>2. g[Z] = w[c] + g[Z \ {c}]
    BY <2>1 DEF AreSums
  <2>3. CASE c = x
    <3>1. Z \ {c} = C
      BY <2>3
    <3>2. w[x] \in Nat /\ g[C] \in Nat
      BY <1>1
    <3>3. g[Z] = w[x] + g[C]
      BY <2>2, <2>3, <3>1
    <3> QED
      BY <3>2, <3>3
  <2>4. CASE c # x
    <3> HIDE DEF c
    <3>1. c \in C /\ C \ {c} \in F /\ c \in S \ (C \ {c}) /\ x \in S \ (C \ {c})
      BY <1>2, <2>1, <2>4
    <3>2. Z \ {c} = (C \ {c}) \cup {x} /\ C = (C \ {c}) \cup {c}
      BY <2>4, <3>1
    <3>3. g[Z \ {c}] = g[C \ {c}] + w[x] /\ g[C] = g[C \ {c}] + w[c]
      BY <3>1, <3>2
    <3>4. w[x] \in Nat /\ w[c] \in Nat /\ g[C \ {c}] \in Nat
      BY <1>1, <3>1
    <3> QED
      BY <2>2, <3>3, <3>4
  <2> QED
    BY <2>3, <2>4
<1>3. \A C \in SUBSET S : C \in F
  <2> HIDE DEF F
  <2> QED
    BY <1>2, FiniteInduct
<1> QED
  BY <1>3

(* grow with the set,                                                      *)
LEMMA SumsGrow ==
    ASSUME NEW S, IsFiniteSet(S), NEW w \in [S -> Nat], NEW g, AreSums(g, S, w)
    PROVE  \A C \in SUBSET S : \A Z \in SUBSET C : g[Z] <= g[C]
<1>0. ASSUME NEW D \in SUBSET S, NEW x \in S \ D PROVE g[D \cup {x}] = g[D] + w[x]
  BY SumsAdd
<1> DEFINE F == {C \in SUBSET S : \A Z \in SUBSET C : g[Z] <= g[C]}
<1>1. \A C \in SUBSET S : g[C] \in Nat
  BY SumsAreNat
<1>2. ASSUME NEW C \in SUBSET S, \A x \in C : C \ {x} \in F PROVE C \in F
  <2> SUFFICES ASSUME NEW Z \in SUBSET C, Z # C PROVE g[Z] <= g[C]
    BY <1>1
  <2>1. PICK c \in C : c \notin Z
    OBVIOUS
  <2>2. g[Z] <= g[C \ {c}]
    BY <1>2, <2>1
  <2>3. g[(C \ {c}) \cup {c}] = g[C \ {c}] + w[c]
    <3>1. C \ {c} \in SUBSET S /\ c \in S \ (C \ {c})
      BY <2>1
    <3> QED
      BY <1>0, <3>1
  <2>4. C = (C \ {c}) \cup {c}
    BY <2>1
  <2>5. g[Z] \in Nat /\ g[C] \in Nat /\ g[C \ {c}] \in Nat /\ w[c] \in Nat
    BY <1>1, <2>1
  <2> QED
    BY <2>2, <2>3, <2>4, <2>5
<1>3. \A C \in SUBSET S : C \in F
  <2> HIDE DEF F
  <2> QED
    BY <1>2, FiniteInduct
<1> QED
  BY <1>3

(* and are the same from any larger set.                                   *)
LEMMA SumsAgree ==
    ASSUME NEW S, IsFiniteSet(S), NEW w \in [S -> Nat], NEW g, AreSums(g, S, w),
           NEW U \in SUBSET S, NEW v \in [U -> Nat], \A x \in U : v[x] = w[x],
           NEW h, AreSums(h, U, v)
    PROVE  h[U] = g[U]
<1> DEFINE F == {C \in SUBSET U : h[C] = g[C]}
<1>1. ASSUME NEW C \in SUBSET U, \A x \in C : C \ {x} \in F PROVE C \in F
  <2>1. h[C] = IF C = {} THEN 0 ELSE v[Pick(C)] + h[C \ {Pick(C)}]
    BY DEF AreSums
  <2>2. g[C] = IF C = {} THEN 0 ELSE w[Pick(C)] + g[C \ {Pick(C)}]
    <3>1. C \in SUBSET S
      OBVIOUS
    <3> QED
      BY <3>1 DEF AreSums
  <2> QED
    BY <1>1, <2>1, <2>2, PickIsIn
<1>2. IsFiniteSet(U)
  BY FS_Subset
<1>3. \A C \in SUBSET U : C \in F
  <2> HIDE DEF F
  <2> QED
    BY <1>1, <1>2, FiniteInduct
<1> QED
  BY <1>3

-----------------------------------------------------------------------------
(* f is a running average from lo to hi: a quotient that starts at b/p and *)
(* takes k parts of the one before it and one of w.                        *)
Smoothed(f, lo, hi, b, p, k, m, w) ==
    f = [t \in lo..hi |-> IF t = lo THEN <<b, p>>
                          ELSE <<f[t - 1][1] * k + w[t] * f[t - 1][2], f[t - 1][2] * m>>]

(* There is one,                                                           *)
LEMMA SmoothedExists ==
    ASSUME NEW lo \in Nat, NEW hi \in Nat, NEW b, NEW p, NEW k, NEW m, NEW w
    PROVE  \E f : Smoothed(f, lo, hi, b, p, k, m, w)
<1> DEFINE step(q, t) == <<q[1] * k + w[t] * q[2], q[2] * m>>
           Recurs(f, n) == f = [t \in lo..(lo + n) |-> IF t = lo THEN <<b, p>>
             ELSE step(f[t - 1], t)]
           D == {n \in Nat : \E f : Recurs(f, n)}
<1> HIDE DEF step
<1>1. 0 \in D
  <2> DEFINE f == [t \in lo..(lo + 0) |-> <<b, p>>]
  <2>1. \A t \in lo..(lo + 0) : t = lo
    OBVIOUS
  <2>2. f = [t \in lo..(lo + 0) |-> IF t = lo THEN <<b, p>> ELSE step(f[t - 1], t)]
    BY <2>1
  <2>3. \E g : Recurs(g, 0)
    BY <2>2
  <2> HIDE DEF Recurs
  <2> QED
    BY <2>3
<1>2. ASSUME NEW n \in Nat, n \in D PROVE n + 1 \in D
  <2>1. PICK f : Recurs(f, n)
    BY <1>2
  <2> DEFINE h == [t \in lo..(lo + (n + 1)) |-> IF t = lo THEN <<b, p>> ELSE step(f[t - 1], t)]
  <2>2. \A t \in lo..(lo + n) : h[t] = f[t]
    <3> TAKE t \in lo..(lo + n)
    <3>1. t \in lo..(lo + (n + 1))
      OBVIOUS
    <3>2. f[t] = IF t = lo THEN <<b, p>> ELSE step(f[t - 1], t)
      BY <2>1
    <3> QED
      BY <3>1, <3>2
  <2>3. \A t \in lo..(lo + (n + 1)) : t # lo => t - 1 \in lo..(lo + n)
    OBVIOUS
  <2>4. \A t \in lo..(lo + (n + 1)) : t # lo => h[t - 1] = f[t - 1]
    <3> HIDE DEF h
    <3> QED
      BY <2>2, <2>3
  <2>5. h = [t \in lo..(lo + (n + 1)) |-> IF t = lo THEN <<b, p>> ELSE step(h[t - 1], t)]
    BY <2>4
  <2>6. Recurs(h, n + 1)
    BY <2>5
  <2>7. \E g : Recurs(g, n + 1)
    <3> HIDE DEF h, Recurs
    <3> QED
      BY <2>6
  <2> HIDE DEF Recurs
  <2> QED
    BY <2>7
<1>3. Nat \subseteq D
  <2> HIDE DEF D
  <2> QED
    BY <1>1, <1>2, NatInduct
<1>4. CASE hi >= lo
  <2>1. hi - lo \in D /\ lo + (hi - lo) = hi
    <3> HIDE DEF D
    <3> QED
      BY <1>3, <1>4
  <2>2. PICK f : Recurs(f, hi - lo)
    <3> HIDE DEF Recurs
    <3> QED
      BY <2>1
  <2>3. Smoothed(f, lo, hi, b, p, k, m, w)
    BY <2>1, <2>2 DEF Smoothed, step
  <2> QED
    BY <2>3
<1>5. CASE ~(hi >= lo)
  <2>1. lo..hi = {}
    BY <1>5
  <2>2. Smoothed([t \in lo..hi |-> <<b, p>>], lo, hi, b, p, k, m, w)
    BY <2>1 DEF Smoothed
  <2> QED
    BY <2>2
<1> QED
  BY <1>4, <1>5

(* it is one of natural numbers,                                           *)
LEMMA SmoothedIsNat ==
    ASSUME NEW lo \in Nat, NEW hi \in Nat, NEW b \in Nat, NEW p \in Nat, NEW k \in Nat,
           NEW m \in Nat, NEW w, \A t \in lo..hi : w[t] \in Nat,
           NEW f, Smoothed(f, lo, hi, b, p, k, m, w)
    PROVE  \A t \in lo..hi : f[t][1] \in Nat /\ f[t][2] \in Nat
<1> DEFINE D == {n \in Nat : lo + n \in lo..hi => f[lo + n][1] \in Nat /\ f[lo + n][2] \in Nat}
<1>1. 0 \in D
  <2>1. lo + 0 = lo /\ (lo \in lo..hi => f[lo] = <<b, p>>)
    BY DEF Smoothed
  <2> QED
    BY <2>1
<1>2. ASSUME NEW n \in Nat, n \in D PROVE n + 1 \in D
  <2> SUFFICES ASSUME lo + (n + 1) \in lo..hi
               PROVE  f[lo + (n + 1)][1] \in Nat /\ f[lo + (n + 1)][2] \in Nat
    OBVIOUS
  <2> DEFINE t == lo + (n + 1)
             q == f[t - 1]
  <2>1. t - 1 = lo + n /\ t - 1 \in lo..hi /\ t # lo /\ t \in lo..hi
    OBVIOUS
  <2>2. q[1] \in Nat /\ q[2] \in Nat /\ w[t] \in Nat
    BY <1>2, <2>1
  <2>3. f[t] = <<q[1] * k + w[t] * q[2], q[2] * m>>
    BY <2>1 DEF Smoothed
  <2> HIDE DEF q, t
  <2>4. q[1] * k + w[t] * q[2] \in Nat /\ q[2] * m \in Nat
    <3>1. \A x, y \in Nat : x * y \in Nat /\ x + y \in Nat
      OBVIOUS
    <3> QED
      BY <2>2, <3>1
  <2>5. f[t][1] \in Nat /\ f[t][2] \in Nat
    BY <2>3, <2>4
  <2> QED
    BY <2>5 DEF t
<1>3. Nat \subseteq D
  <2> HIDE DEF D
  <2> QED
    BY <1>1, <1>2, NatInduct
<1>4. ASSUME NEW t \in lo..hi PROVE f[t][1] \in Nat /\ f[t][2] \in Nat
  <2>1. t - lo \in D /\ lo + (t - lo) = t
    BY <1>3
  <2> QED
    BY <2>1
<1> QED
  BY <1>4

(* and the same on any shorter stretch.                                    *)
LEMMA SmoothedAgree ==
    ASSUME NEW lo \in Nat, NEW hi \in Nat, NEW b, NEW p, NEW k, NEW m, NEW w,
           NEW f, Smoothed(f, lo, hi, b, p, k, m, w),
           NEW end \in Nat, end <= hi, NEW v, \A t \in lo..end : v[t] = w[t],
           NEW g, Smoothed(g, lo, end, b, p, k, m, v)
    PROVE  \A t \in lo..end : g[t] = f[t]
<1> DEFINE D == {n \in Nat : lo + n \in lo..end => g[lo + n] = f[lo + n]}
<1>0. \A t \in lo..end : t \in lo..hi
  OBVIOUS
<1>1. 0 \in D
  <2>1. lo + 0 = lo /\ (lo \in lo..end => f[lo] = <<b, p>> /\ g[lo] = <<b, p>>)
    BY <1>0 DEF Smoothed
  <2> QED
    BY <2>1
<1>2. ASSUME NEW n \in Nat, n \in D PROVE n + 1 \in D
  <2> SUFFICES ASSUME lo + (n + 1) \in lo..end PROVE g[lo + (n + 1)] = f[lo + (n + 1)]
    OBVIOUS
  <2> DEFINE t == lo + (n + 1)
  <2>1. t - 1 = lo + n /\ t - 1 \in lo..end /\ t # lo /\ t \in lo..end /\ t \in lo..hi
    BY <1>0
  <2>2. g[t - 1] = f[t - 1] /\ v[t] = w[t]
    BY <1>2, <2>1
  <2>3. f[t] = <<f[t - 1][1] * k + w[t] * f[t - 1][2], f[t - 1][2] * m>>
    BY <2>1 DEF Smoothed
  <2>4. g[t] = <<g[t - 1][1] * k + v[t] * g[t - 1][2], g[t - 1][2] * m>>
    BY <2>1 DEF Smoothed
  <2> HIDE DEF t
  <2>5. g[t] = f[t]
    BY <2>2, <2>3, <2>4
  <2> QED
    BY <2>5 DEF t
<1>3. Nat \subseteq D
  <2> HIDE DEF D
  <2> QED
    BY <1>1, <1>2, NatInduct
<1>4. ASSUME NEW t \in lo..end PROVE g[t] = f[t]
  <2>1. t - lo \in D /\ lo + (t - lo) = t
    BY <1>3
  <2> QED
    BY <2>1
<1> QED
  BY <1>4

-----------------------------------------------------------------------------
(* Induction over a stretch of numbers.                                    *)
LEMMA RangeInduct ==
    ASSUME NEW lo \in Nat, NEW hi \in Nat, NEW S, lo <= hi => lo \in S,
           \A t \in lo..hi : t < hi /\ t \in S => t + 1 \in S
    PROVE  \A t \in lo..hi : t \in S
<1> DEFINE D == {n \in Nat : lo + n <= hi => lo + n \in S}
<1>1. 0 \in D
  OBVIOUS
<1>2. ASSUME NEW n \in Nat, n \in D PROVE n + 1 \in D
  <2> SUFFICES ASSUME lo + (n + 1) <= hi PROVE lo + (n + 1) \in S
    OBVIOUS
  <2>1. lo + n \in lo..hi /\ lo + n < hi /\ lo + n \in S
    BY <1>2
  <2>2. (lo + n) + 1 \in S
    BY <2>1
  <2> QED
    BY <2>2
<1>3. Nat \subseteq D
  <2> HIDE DEF D
  <2> QED
    BY <1>1, <1>2, NatInduct
<1> TAKE t \in lo..hi
<1>4. t - lo \in D /\ lo + (t - lo) = t
  <2> HIDE DEF D
  <2> QED
    BY <1>3
<1> QED
  BY <1>4

(* f is defined over a stretch of numbers by b and the step F.             *)
Recursive(f, lo, hi, b, F) ==
    f = [t \in lo..hi |-> IF t = lo THEN b ELSE F[<<t, f[t - 1]>>]]

(* There is such a function, and all it takes is in S.                     *)
LEMMA RecursiveExists ==
    ASSUME NEW lo \in Nat, NEW hi \in Nat, NEW S, NEW b \in S, NEW F \in [Nat \X S -> S]
    PROVE  \E f : Recursive(f, lo, hi, b, F)
<1> DEFINE D == {n \in Nat : \E f : Recursive(f, lo, lo + n, b, F)}
<1>1. 0 \in D
  <2> DEFINE f == [t \in lo..(lo + 0) |-> b]
  <2>1. \A t \in lo..(lo + 0) : t = lo
    OBVIOUS
  <2>2. Recursive(f, lo, lo + 0, b, F)
    BY <2>1 DEF Recursive
  <2> HIDE DEF f
  <2> QED
    BY <2>2
<1>2. ASSUME NEW n \in Nat, n \in D PROVE n + 1 \in D
  <2>1. PICK f : Recursive(f, lo, lo + n, b, F)
    BY <1>2
  <2> DEFINE h == [t \in lo..(lo + (n + 1)) |-> IF t = lo THEN b ELSE F[<<t, f[t - 1]>>]]
  <2>2. \A t \in lo..(lo + n) : h[t] = f[t]
    <3> TAKE t \in lo..(lo + n)
    <3>1. t \in lo..(lo + (n + 1))
      OBVIOUS
    <3>2. f[t] = IF t = lo THEN b ELSE F[<<t, f[t - 1]>>]
      BY <2>1 DEF Recursive
    <3> QED
      BY <3>1, <3>2
  <2>3. \A t \in lo..(lo + (n + 1)) : t # lo => t - 1 \in lo..(lo + n)
    OBVIOUS
  <2>4. \A t \in lo..(lo + (n + 1)) : t # lo => h[t - 1] = f[t - 1]
    <3> HIDE DEF h
    <3> QED
      BY <2>2, <2>3
  <2>5. h = [t \in lo..(lo + (n + 1)) |-> IF t = lo THEN b ELSE F[<<t, h[t - 1]>>]]
    BY <2>4
  <2>6. Recursive(h, lo, lo + (n + 1), b, F)
    BY <2>5 DEF Recursive
  <2> HIDE DEF h
  <2> QED
    BY <2>6
<1>3. Nat \subseteq D
  <2> HIDE DEF D
  <2> QED
    BY <1>1, <1>2, NatInduct
<1>4. CASE hi >= lo
  <2>1. hi - lo \in D /\ lo + (hi - lo) = hi
    <3> HIDE DEF D
    <3> QED
      BY <1>3, <1>4
  <2> QED
    BY <2>1
<1>5. CASE ~(hi >= lo)
  <2>1. lo..hi = {}
    BY <1>5
  <2>2. Recursive([t \in lo..hi |-> b], lo, hi, b, F)
    BY <2>1 DEF Recursive
  <2> QED
    BY <2>2
<1> QED
  BY <1>4, <1>5

(* A function that a recursive equation defines between two numbers stays  *)
(* in its range.                                                           *)
LEMMA RecursiveIsIn ==
    ASSUME NEW lo \in Nat, NEW hi \in Nat, NEW S, NEW b \in S, NEW F \in [Nat \X S -> S],
           NEW f, Recursive(f, lo, hi, b, F)
    PROVE  \A t \in lo..hi : f[t] \in S
<1> DEFINE D == {t \in lo..hi : f[t] \in S}
<1>1. lo <= hi => lo \in D
  BY DEF Recursive
<1>2. ASSUME NEW t \in lo..hi, t < hi, t \in D PROVE t + 1 \in D
  <2>1. t + 1 \in lo..hi /\ t + 1 # lo /\ (t + 1) - 1 = t /\ t + 1 \in Nat
    BY <1>2
  <2>2. f[t + 1] = F[<<t + 1, f[t]>>]
    BY <2>1 DEF Recursive
  <2>3. f[t] \in S
    BY <1>2
  <2> QED
    BY <2>1, <2>2, <2>3
<1>3. \A t \in lo..hi : t \in D
  <2> HIDE DEF D
  <2> QED
    BY <1>1, <1>2, RangeInduct
<1> QED
  BY <1>3

(* The touches of the event classes (EventTouches).                        *)
(* A series p is what was known of s earlier: its beginning.               *)
TouchBegins(p, s) ==
    /\ Len(p) \in Nat /\ Len(s) \in Nat /\ Len(p) <= Len(s)
    /\ \A t \in 1..Len(p) : p[t] = s[t]

(* A total over bars of the beginning is one of the series: later bars do  *)
(* not enter.                                                              *)
LEMMA TouchTotalStays ==
    ASSUME NEW p, NEW s, TouchBegins(p, s), NEW a, NEW b, a..b \subseteq 1..Len(p)
    PROVE  T!Total(p, a, b) = T!Total(s, a, b)
<1> DEFINE close(x) == [t \in a..b |-> x[t].close]
           sum(x) == T!MapThenSumSet(LAMBDA t : x[t].close, a..b)
<1>1. \A x : sum(x) = (CHOOSE g : AreSums(g, a..b, close(x)))[a..b]
  BY DEF T!MapThenSumSet, T!MapThenFoldSet, AreSums, Pick
<1>2. close(p) = close(s)
  BY DEF TouchBegins
<1>3. sum(p) = sum(s)
  <2> HIDE DEF sum, close
  <2> QED
    BY <1>1, <1>2
<1> QED
  BY <1>3 DEF T!Total

(* So are the highest and the lowest of them,                              *)
LEMMA TouchEdgesStay ==
    ASSUME NEW p, NEW s, TouchBegins(p, s), NEW a, NEW b, a..b \subseteq 1..Len(p)
    PROVE  T!High(p, a, b) = T!High(s, a, b) /\ T!Low(p, a, b) = T!Low(s, a, b)
<1>1. \A t \in a..b : p[t] = s[t]
  BY DEF TouchBegins
<1>2. {p[t].high : t \in a..b} = {s[t].high : t \in a..b}
  BY <1>1
<1>3. {-p[t].low : t \in a..b} = {-s[t].low : t \in a..b}
  BY <1>1
<1> QED
  BY <1>2, <1>3 DEF T!High, T!Low

(* the true range of a bar,                                                *)
LEMMA TouchRangeStays ==
    ASSUME NEW p, NEW s, TouchBegins(p, s), NEW t \in 2..Len(p)
    PROVE  T!TrueRange(p, t) = T!TrueRange(s, t)
<1>1. Len(p) \in Nat
  BY DEF TouchBegins
<1>2. t \in 1..Len(p) /\ t - 1 \in 1..Len(p)
  BY <1>1
<1>3. p[t] = s[t] /\ p[t - 1] = s[t - 1]
  BY <1>2 DEF TouchBegins
<1> QED
  BY <1>3 DEF T!TrueRange

TouchRanges(s) == [t \in 2..Len(s) |-> T!TrueRange(s, t)]
TouchFirst(s, t) == T!MapThenSumSet(LAMBDA u : T!TrueRange(s, u), 2..t)

(* The average true range is a recursive function that starts with a plain *)
(* average,                                                                *)
LEMMA TouchAtrIs ==
    ASSUME NEW s, Len(s) \in Nat
    PROVE  Smoothed(T!Atr(s, AtrPeriod), AtrPeriod + 1, Len(s), TouchFirst(s, AtrPeriod + 1),
                    AtrPeriod, AtrPeriod - 1, AtrPeriod, TouchRanges(s))
<1> DEFINE lo == AtrPeriod + 1
           Recurs(f) == f = [t \in lo..Len(s) |->
                           IF t = lo THEN << TouchFirst(s, t), AtrPeriod >>
                           ELSE << f[t - 1][1] * (AtrPeriod - 1) + T!TrueRange(s, t) * f[t - 1][2],
                                   f[t - 1][2] * AtrPeriod >>]
           Same(f) == Smoothed(f, lo, Len(s), TouchFirst(s, lo),
                               AtrPeriod, AtrPeriod - 1, AtrPeriod, TouchRanges(s))
<1>1. lo \in Nat /\ lo >= 2
  BY RatesAssumption
<1>2. \A f : Same(f) <=> Recurs(f)
  <2> TAKE f
  <2>1. \A t \in lo..Len(s) : TouchRanges(s)[t] = T!TrueRange(s, t)
    <3>1. \A t \in lo..Len(s) : t \in 2..Len(s)
      BY <1>1
    <3> QED
      BY <3>1 DEF TouchRanges
  <2> HIDE DEF lo
  <2> QED
    BY <2>1 DEF Smoothed
<1>3. \E f : Same(f)
  BY <1>1, SmoothedExists
<1>4. \E f : Recurs(f)
  <2> HIDE DEF Recurs, Same
  <2> QED
    BY <1>2, <1>3
<1>5. T!Atr(s, AtrPeriod) = CHOOSE f : Recurs(f)
  BY DEF T!Atr, TouchFirst
<1>6. Recurs(T!Atr(s, AtrPeriod))
  <2> HIDE DEF Recurs
  <2> QED
    BY <1>4, <1>5
<1>7. Same(T!Atr(s, AtrPeriod))
  <2> HIDE DEF Recurs, Same
  <2> QED
    BY <1>2, <1>6
<1> QED
  BY <1>7

(* and is at each bar what it was before more bars came.                   *)
LEMMA TouchAtrStays ==
    ASSUME NEW p, NEW s, TouchBegins(p, s), NEW t \in AtrPeriod + 1..Len(p)
    PROVE  T!Atr(p, AtrPeriod)[t] = T!Atr(s, AtrPeriod)[t]
<1> DEFINE lo == AtrPeriod + 1
           k == AtrPeriod - 1
<1>1. /\ Len(p) \in Nat /\ Len(s) \in Nat /\ Len(p) <= Len(s)
      /\ lo \in Nat /\ lo >= 2
  BY RatesAssumption DEF TouchBegins
<1>2. TouchFirst(p, lo) = TouchFirst(s, lo)
  <2> DEFINE ranges(x) == [u \in 2..lo |-> T!TrueRange(x, u)]
  <2>1. \A x : TouchFirst(x, lo) = (CHOOSE g : AreSums(g, 2..lo, ranges(x)))[2..lo]
    BY DEF TouchFirst, T!MapThenSumSet, T!MapThenFoldSet, AreSums, Pick
  <2>2. ranges(p) = ranges(s)
    <3>1. \A u \in 2..lo : u \in 2..Len(p)
      BY <1>1
    <3> QED
      BY <3>1, TouchRangeStays
  <2> HIDE DEF ranges
  <2> QED
    BY <2>1, <2>2
<1>3. \A u \in lo..Len(p) : TouchRanges(p)[u] = TouchRanges(s)[u]
  <2>1. \A u \in lo..Len(p) : u \in 2..Len(p) /\ u \in 2..Len(s)
    BY <1>1
  <2> QED
    BY <2>1, TouchRangeStays DEF TouchRanges
<1>4. /\ Smoothed(T!Atr(p, AtrPeriod), lo, Len(p), TouchFirst(s, lo), AtrPeriod, k, AtrPeriod,
                  TouchRanges(p))
      /\ Smoothed(T!Atr(s, AtrPeriod), lo, Len(s), TouchFirst(s, lo), AtrPeriod, k, AtrPeriod,
                  TouchRanges(s))
  BY <1>1, <1>2, TouchAtrIs
<1> HIDE DEF lo, k
<1>5. \A u \in lo..Len(p) : T!Atr(p, AtrPeriod)[u] = T!Atr(s, AtrPeriod)[u]
  BY <1>1, <1>3, <1>4, SmoothedAgree
<1> QED
  BY <1>5 DEF lo

(* A dip is found where the bars up to it show one.                        *)
LEMMA TouchDipsStay ==
    ASSUME NEW p, NEW s, TouchBegins(p, s)
    PROVE  T!Dips(p) = {e \in T!Dips(s) : e[1] <= Len(p)}
<1> DEFINE dip(x, u) == T!IsDip(x[u], x[u - 1], T!Sma(x, SmaPeriod, u), T!Sma(x, SmaPeriod, u - 1))
<1>1. Len(p) \in Nat /\ Len(s) \in Nat /\ Len(p) <= Len(s) /\ SmaPeriod \in Nat /\ SmaPeriod >= 1
  BY TouchesAssumption DEF TouchBegins
<1>2. ASSUME NEW u \in SmaPeriod + 1..Len(p) PROVE dip(p, u) <=> dip(s, u)
  <2>1. /\ u \in 1..Len(p) /\ u - 1 \in 1..Len(p)
        /\ (u - SmaPeriod + 1)..u \subseteq 1..Len(p)
        /\ (u - 1 - SmaPeriod + 1)..(u - 1) \subseteq 1..Len(p)
    BY <1>1
  <2>2. /\ T!Sma(p, SmaPeriod, u) = T!Sma(s, SmaPeriod, u)
        /\ T!Sma(p, SmaPeriod, u - 1) = T!Sma(s, SmaPeriod, u - 1)
    BY <2>1, TouchTotalStays DEF T!Sma
  <2>3. p[u] = s[u] /\ p[u - 1] = s[u - 1]
    BY <2>1 DEF TouchBegins
  <2> QED
    BY <2>2, <2>3
<1>3. /\ T!Dips(p) = {<<t, 1>> : t \in {u \in SmaPeriod + 1..Len(p) : dip(p, u)}}
      /\ T!Dips(s) = {<<t, 1>> : t \in {u \in SmaPeriod + 1..Len(s) : dip(s, u)}}
  BY DEF T!Dips
<1>4. \A u : u \in SmaPeriod + 1..Len(p) <=> u \in SmaPeriod + 1..Len(s) /\ u <= Len(p)
  BY <1>1
<1> HIDE DEF dip
<1> QED
  BY <1>2, <1>3, <1>4

(* Whether a bar ends a quiet stretch was settled at that bar.             *)
LEMMA TouchQuietStays ==
    ASSUME NEW p, NEW s, TouchBegins(p, s), NEW t \in 1..Len(p)
    PROVE  /\ T!Quiet(p, t) <=> T!Quiet(s, t)
           /\ T!Quiet(s, t) =>
                 /\ T!Low(p, t - BaseBars + 1, t) = T!Low(s, t - BaseBars + 1, t)
                 /\ T!High(p, t - BaseBars + 1, t) = T!High(s, t - BaseBars + 1, t)
                 /\ T!Atr(p, AtrPeriod)[t] = T!Atr(s, AtrPeriod)[t]
<1>1. Len(p) \in Nat /\ t \in Nat /\ t >= 1 /\ t <= Len(p) /\ AtrPeriod \in Nat /\ BaseBars \in Nat
        /\ BaseBars >= 1
  BY TouchesAssumption, RatesAssumption DEF TouchBegins
<1>2. CASE t >= BaseBars /\ t > AtrPeriod
  <2>1. (t - BaseBars + 1)..t \subseteq 1..Len(p) /\ t \in AtrPeriod + 1..Len(p)
    BY <1>1, <1>2
  <2>2. /\ T!Low(p, t - BaseBars + 1, t) = T!Low(s, t - BaseBars + 1, t)
        /\ T!High(p, t - BaseBars + 1, t) = T!High(s, t - BaseBars + 1, t)
    BY <2>1, TouchEdgesStay
  <2>3. T!Atr(p, AtrPeriod)[t] = T!Atr(s, AtrPeriod)[t]
    BY <2>1, TouchAtrStays
  <2> QED
    BY <2>2, <2>3 DEF T!Quiet
<1>3. CASE ~(t >= BaseBars /\ t > AtrPeriod)
  BY <1>3 DEF T!Quiet
<1> QED
  BY <1>2, <1>3

-----------------------------------------------------------------------------
(* The zones up to a bar, as Zones goes through the bars.                  *)
TouchEnds(g, s) ==
    g = [t \in 0..Len(s) |->
           IF t = 0 THEN {}
           ELSE g[t - 1] \cup {u \in {t} : T!Quiet(s, t) /\ \A e \in g[t - 1] : e + BaseBars <= t}]

(* The zones of a series are the last value of a function over its bars,   *)
LEMMA TouchZonesAre ==
    ASSUME NEW s, Len(s) \in Nat
    PROVE  \E g : TouchEnds(g, s) /\ T!Zones(s) = g[Len(s)]
<1> DEFINE F == [x \in Nat \X SUBSET Nat |->
                    x[2] \cup {u \in {x[1]} : T!Quiet(s, x[1]) /\ \A e \in x[2] :
                      e + BaseBars <= x[1]}]
           g == CHOOSE f : TouchEnds(f, s)
<1>1. {} \in SUBSET Nat /\ F \in [Nat \X SUBSET Nat -> SUBSET Nat] /\ 0 \in Nat
  <2>1. \A x \in Nat \X SUBSET Nat : x[1] \in Nat /\ x[2] \in SUBSET Nat
    OBVIOUS
  <2>2. \A x \in Nat \X SUBSET Nat :
           x[2] \cup {u \in {x[1]} : T!Quiet(s, x[1]) /\ \A e \in x[2] : e + BaseBars <= x[1]}
             \in SUBSET Nat
    BY <2>1
  <2> QED
    BY <2>2
<1>2. PICK f : Recursive(f, 0, Len(s), {}, F)
  <2> HIDE DEF F
  <2> QED
    BY <1>1, RecursiveExists
<1>3. \A t \in 0..Len(s) : f[t] \in SUBSET Nat
  <2> HIDE DEF F
  <2> QED
    BY <1>1, <1>2, RecursiveIsIn
<1>4. TouchEnds(f, s)
  <2>1. \A t \in 0..Len(s) : t # 0 => <<t, f[t - 1]>> \in Nat \X SUBSET Nat
    <3>1. \A t \in 0..Len(s) : t # 0 => t \in Nat /\ t - 1 \in 0..Len(s)
      OBVIOUS
    <3> QED
      BY <1>3, <3>1
  <2>2. \A t \in 0..Len(s) : t # 0 =>
           F[<<t, f[t - 1]>>]
           = f[t - 1] \cup {u \in {t} : T!Quiet(s, t) /\ \A e \in f[t - 1] : e + BaseBars <= t}
    BY <2>1
  <2> HIDE DEF F
  <2> QED
    BY <1>2, <2>2 DEF Recursive, TouchEnds
<1>5. TouchEnds(g, s)
  BY <1>4
<1>6. T!Zones(s) = g[Len(s)]
  BY DEF T!Zones, TouchEnds
<1> HIDE DEF g
<1> QED
  BY <1>5, <1>6

(* which takes in a quiet bar when no zone ended within the base before    *)
(* it.                                                                     *)
LEMMA TouchEndsAt ==
    ASSUME NEW s, Len(s) \in Nat, NEW g, TouchEnds(g, s)
    PROVE  /\ g[0] = {}
           /\ \A t \in 1..Len(s) : g[t] = g[t - 1] \cup
                {u \in {t} : T!Quiet(s, t) /\ \A e \in g[t - 1] : e + BaseBars <= t}
           /\ \A t \in 0..Len(s) : \A z \in g[t] : z \in 1..t /\ T!Quiet(s, z)
<1>1. g[0] = {}
  BY DEF TouchEnds
<1>2. \A t \in 1..Len(s) : g[t] = g[t - 1] \cup
                {u \in {t} : T!Quiet(s, t) /\ \A e \in g[t - 1] : e + BaseBars <= t}
  <2>1. \A t \in 1..Len(s) : t \in 0..Len(s) /\ t # 0
    OBVIOUS
  <2> QED
    BY <2>1 DEF TouchEnds
<1> DEFINE D == {t \in 0..Len(s) : \A z \in g[t] : z \in 1..t /\ T!Quiet(s, z)}
<1>3. 0 <= Len(s) => 0 \in D
  BY <1>1
<1>4. ASSUME NEW t \in 0..Len(s), t < Len(s), t \in D PROVE t + 1 \in D
  <2>1. t + 1 \in 1..Len(s) /\ (t + 1) - 1 = t /\ t + 1 \in 0..Len(s) /\ t + 1 \in 1..(t + 1)
    BY <1>4
  <2>2. g[t + 1] = g[t] \cup {u \in {t + 1} : T!Quiet(s, t + 1) /\ \A e \in g[t] :
          e + BaseBars <= t + 1}
    BY <1>2, <2>1
  <2>3. \A z \in 1..t : z \in 1..(t + 1)
    OBVIOUS
  <2>4. \A z \in g[t + 1] : z \in 1..(t + 1) /\ T!Quiet(s, z)
    BY <1>4, <2>1, <2>2, <2>3
  <2> QED
    BY <2>1, <2>4
<1>5. \A t \in 0..Len(s) : t \in D
  <2> HIDE DEF D
  <2> QED
    BY <1>3, <1>4, RangeInduct
<1> QED
  BY <1>1, <1>2, <1>5

(* So a zone of the beginning is a zone of the series, and the other way   *)
(* round.                                                                  *)
LEMMA TouchZonesStay ==
    ASSUME NEW p, NEW s, TouchBegins(p, s)
    PROVE  /\ \A t \in 0..Len(p) : t \in T!Zones(p) <=> t \in T!Zones(s)
           /\ \A z \in T!Zones(s) : z \in 1..Len(s) /\ T!Quiet(s, z)
<1>1. Len(p) \in Nat /\ Len(s) \in Nat /\ Len(p) <= Len(s)
  BY DEF TouchBegins
<1>2. PICK f : TouchEnds(f, p) /\ T!Zones(p) = f[Len(p)]
  BY <1>1, TouchZonesAre
<1>3. PICK g : TouchEnds(g, s) /\ T!Zones(s) = g[Len(s)]
  BY <1>1, TouchZonesAre
<1>4. /\ f[0] = {} /\ g[0] = {}
      /\ \A t \in 1..Len(p) : f[t] = f[t - 1] \cup
                {u \in {t} : T!Quiet(p, t) /\ \A e \in f[t - 1] : e + BaseBars <= t}
      /\ \A t \in 1..Len(s) : g[t] = g[t - 1] \cup
                {u \in {t} : T!Quiet(s, t) /\ \A e \in g[t - 1] : e + BaseBars <= t}
      /\ \A t \in 0..Len(s) : \A z \in g[t] : z \in 1..t /\ T!Quiet(s, z)
  BY <1>1, <1>2, <1>3, TouchEndsAt
<1>5. \A t \in 0..Len(p) : f[t] = g[t]
  <2> DEFINE D == {t \in 0..Len(p) : f[t] = g[t]}
  <2>1. 0 <= Len(p) => 0 \in D
    <3>1. f[0] = g[0]
      BY <1>4
    <3>2. 0 \in 0..Len(p)
      BY <1>1
    <3> QED
      BY <3>1, <3>2
  <2>2. ASSUME NEW t \in 0..Len(p), t < Len(p), t \in D PROVE t + 1 \in D
    <3>1. t + 1 \in 1..Len(p) /\ t + 1 \in 1..Len(s) /\ (t + 1) - 1 = t /\ t + 1 \in 0..Len(p)
      BY <1>1, <2>2
    <3>2. T!Quiet(p, t + 1) <=> T!Quiet(s, t + 1)
      BY <3>1, TouchQuietStays
    <3>3. f[t + 1] = f[t] \cup {u \in {t + 1} : T!Quiet(p, t + 1) /\ \A e \in f[t] :
            e + BaseBars <= t + 1}
      BY <1>4, <3>1
    <3>4. g[t + 1] = g[t] \cup {u \in {t + 1} : T!Quiet(s, t + 1) /\ \A e \in g[t] :
            e + BaseBars <= t + 1}
      BY <1>4, <3>1
    <3>5. f[t + 1] = g[t + 1]
      BY <2>2, <3>2, <3>3, <3>4
    <3> QED
      BY <3>1, <3>5
  <2> HIDE DEF D
  <2>3. \A t \in 0..Len(p) : t \in D
    BY <1>1, <2>1, <2>2, RangeInduct
  <2> QED
    BY <2>3 DEF D
<1>6. \A t \in Len(p)..Len(s) : \A z \in 0..Len(p) : z \in g[t] <=> z \in g[Len(p)]
  <2> DEFINE D == {t \in Len(p)..Len(s) : \A z \in 0..Len(p) : z \in g[t] <=> z \in g[Len(p)]}
  <2>1. Len(p) <= Len(s) => Len(p) \in D
    BY <1>1
  <2>2. ASSUME NEW t \in Len(p)..Len(s), t < Len(s), t \in D PROVE t + 1 \in D
    <3>1. t + 1 \in 1..Len(s) /\ (t + 1) - 1 = t /\ t + 1 \in Len(p)..Len(s)
            /\ t + 1 \notin 0..Len(p)
      BY <1>1, <2>2
    <3>2. g[t + 1] = g[t] \cup {u \in {t + 1} : T!Quiet(s, t + 1) /\ \A e \in g[t] :
            e + BaseBars <= t + 1}
      BY <1>4, <3>1
    <3>3. \A z \in 0..Len(p) : z \in g[t + 1] <=> z \in g[t]
      BY <3>1, <3>2
    <3> QED
      BY <2>2, <3>1, <3>3
  <2> HIDE DEF D
  <2>3. \A t \in Len(p)..Len(s) : t \in D
    BY <1>1, <2>1, <2>2, RangeInduct
  <2> QED
    BY <2>3 DEF D
<1>7. \A t \in 0..Len(p) : t \in T!Zones(p) <=> t \in T!Zones(s)
  <2>1. Len(s) \in Len(p)..Len(s) /\ Len(p) \in 0..Len(p)
    BY <1>1
  <2> QED
    BY <1>2, <1>3, <1>5, <1>6, <2>1
<1>8. Len(s) \in 0..Len(s)
  BY <1>1
<1> QED
  BY <1>3, <1>4, <1>7, <1>8

(* The touches of the zones up to a bar, as ZoneTouches finds them.        *)
TouchOfZone(s, t, served) ==
    T!FirstTouch(s, t, T!Low(s, t - BaseBars + 1, t), T!High(s, t - BaseBars + 1, t), served)

TouchFound(g, s) ==
    g = [t \in 0..Len(s) |->
           IF t = 0 THEN {}
           ELSE g[t - 1] \cup (IF t \notin T!Zones(s) THEN {} ELSE TouchOfZone(s, t, g[t - 1]))]

(* The bars a zone may be touched at: not those that served another.       *)
TouchBars(s, t, served, n) ==
    {v \in t + 1..n :
        /\ \/ T!Demand(s[v], T!Low(s, t - BaseBars + 1, t), T!Atr(s, AtrPeriod)[t])
           \/ T!Supply(s[v], T!High(s, t - BaseBars + 1, t), T!Atr(s, AtrPeriod)[t])
        /\ \A e \in served : e[1] # v}

TouchSide(s, t, u) ==
    T!Side(s[u], T!Low(s, t - BaseBars + 1, t), T!High(s, t - BaseBars + 1, t),
      T!Atr(s, AtrPeriod)[t])

(* The touch of a zone is its earliest candidate, with its side.           *)
LEMMA TouchOfZoneIs ==
    ASSUME NEW s, NEW t, NEW served
    PROVE  /\ TouchOfZone(s, t, served)
              = {<<u, TouchSide(s, t, u)>> : u \in T!Earliest(TouchBars(s, t, served, Len(s)))}
           /\ \A u : TouchSide(s, t, u) \in {1, -1}
BY DEF TouchOfZone, T!FirstTouch, TouchBars, TouchSide, T!Side

(* At most one, of a bar after the zone that served none.                  *)
LEMMA TouchOfZoneFacts ==
    ASSUME NEW s, Len(s) \in Nat, NEW t \in Nat, NEW served
    PROVE  /\ \A e \in TouchOfZone(s, t, served) :
                 e[1] \in t + 1..Len(s) /\ e[2] \in {1, -1} /\ e = <<e[1], e[2]>>
                   /\ \A d \in served : d[1] # e[1]
           /\ \A d, e \in TouchOfZone(s, t, served) : d = e
<1> DEFINE B1 == TouchBars(s, t, served, Len(s))
           first == T!Earliest(B1)
<1>1. \A v \in B1 : v \in t + 1..Len(s) /\ \A d \in served : d[1] # v
  BY DEF TouchBars
<1>2. \A v \in first : v \in B1 /\ \A u \in first : u = v
  <2>1. \A v \in B1 : v \in Int
    BY <1>1
  <2>2. \A v \in first : v \in B1 /\ \A u \in B1 : v <= u
    BY DEF T!Earliest
  <2> HIDE DEF B1, first
  <2>3. \A v, u \in first : v <= u /\ u <= v /\ v \in Int /\ u \in Int
    BY <2>1, <2>2
  <2> QED
    BY <2>2, <2>3
<1>3. TouchOfZone(s, t, served) = {<<u, TouchSide(s, t, u)>> : u \in first}
      /\ \A u : TouchSide(s, t, u) \in {1, -1}
  BY TouchOfZoneIs
<1> HIDE DEF first, B1
<1> QED
  BY <1>1, <1>2, <1>3

(* The touches, likewise, are the last value of a function over the bars,  *)
LEMMA TouchZoneTouchesAre ==
    ASSUME NEW s, Len(s) \in Nat
    PROVE  \E g : TouchFound(g, s) /\ T!ZoneTouches(s) = g[Len(s)]
<1> DEFINE S1 == SUBSET (Nat \X Int)
           F == [x \in Nat \X S1 |->
                    x[2] \cup (IF x[1] \notin T!Zones(s) THEN {} ELSE TouchOfZone(s, x[1], x[2]))]
           g == CHOOSE f : TouchFound(f, s)
<1>1. {} \in S1 /\ F \in [Nat \X S1 -> S1] /\ 0 \in Nat
  <2>1. \A x \in Nat \X S1 : x[1] \in Nat /\ x[2] \in S1
    OBVIOUS
  <2>2. ASSUME NEW t \in Nat, NEW served PROVE TouchOfZone(s, t, served) \in S1
    <3>1. \A e \in TouchOfZone(s, t, served) :
              e[1] \in t + 1..Len(s) /\ e[2] \in {1, -1} /\ e = <<e[1], e[2]>>
      BY TouchOfZoneFacts
    <3>2. \A e \in TouchOfZone(s, t, served) : e[1] \in Nat /\ e[2] \in Int /\ e = <<e[1], e[2]>>
      BY <3>1
    <3>3. \A x \in Nat, y \in Int : <<x, y>> \in Nat \X Int
      OBVIOUS
    <3>4. \A e \in TouchOfZone(s, t, served) : e \in Nat \X Int
      BY <3>2, <3>3
    <3> QED
      BY <3>4
  <2>3. \A x \in Nat \X S1 :
           x[2] \cup (IF x[1] \notin T!Zones(s) THEN {} ELSE TouchOfZone(s, x[1], x[2])) \in S1
    BY <2>1, <2>2
  <2> HIDE DEF S1
  <2>4. F \in [Nat \X S1 -> S1]
    BY <2>3
  <2> QED
    BY <2>4 DEF S1
<1>2. PICK f : Recursive(f, 0, Len(s), {}, F)
  <2> HIDE DEF F, S1
  <2> QED
    BY <1>1, RecursiveExists
<1>3. \A t \in 0..Len(s) : f[t] \in S1
  <2> HIDE DEF F, S1
  <2> QED
    BY <1>1, <1>2, RecursiveIsIn
<1>4. TouchFound(f, s)
  <2>1. \A t \in 0..Len(s) : t # 0 => <<t, f[t - 1]>> \in Nat \X S1
    <3>1. \A t \in 0..Len(s) : t # 0 => t \in Nat /\ t - 1 \in 0..Len(s)
      OBVIOUS
    <3> HIDE DEF S1
    <3> QED
      BY <1>3, <3>1
  <2> HIDE DEF S1
  <2>2. \A t \in 0..Len(s) : t # 0 =>
           F[<<t, f[t - 1]>>]
           = f[t - 1] \cup (IF t \notin T!Zones(s) THEN {} ELSE TouchOfZone(s, t, f[t - 1]))
    BY <2>1
  <2> HIDE DEF F
  <2> QED
    BY <1>2, <2>2 DEF Recursive, TouchFound
<1>5. TouchFound(g, s)
  BY <1>4
<1>6. T!ZoneTouches(s) = g[Len(s)]
  BY DEF T!ZoneTouches, TouchFound, TouchOfZone
<1> HIDE DEF g
<1> QED
  BY <1>5, <1>6

(* One event for each bar.                                                 *)
TouchSingle(E, n) ==
    /\ \A e \in E : e[1] \in 1..n /\ e[2] \in {1, -1} /\ e = <<e[1], e[2]>>
    /\ \A d, e \in E : d[1] = e[1] => d = e

(* which at the end of a zone adds that zone's touch, and never two of one *)
(* bar.                                                                    *)
LEMMA TouchFoundAt ==
    ASSUME NEW s, Len(s) \in Nat, NEW g, TouchFound(g, s)
    PROVE  /\ g[0] = {}
           /\ \A t \in 1..Len(s) : g[t] = g[t - 1] \cup
                (IF t \notin T!Zones(s) THEN {} ELSE TouchOfZone(s, t, g[t - 1]))
           /\ \A t \in 0..Len(s) : TouchSingle(g[t], Len(s))
<1>1. g[0] = {}
  BY DEF TouchFound
<1>2. \A t \in 1..Len(s) : g[t] = g[t - 1] \cup
                (IF t \notin T!Zones(s) THEN {} ELSE TouchOfZone(s, t, g[t - 1]))
  <2>1. \A t \in 1..Len(s) : t \in 0..Len(s) /\ t # 0
    OBVIOUS
  <2> QED
    BY <2>1 DEF TouchFound
<1> DEFINE D == {t \in 0..Len(s) : TouchSingle(g[t], Len(s))}
<1>3. 0 <= Len(s) => 0 \in D
  BY <1>1 DEF TouchSingle
<1>4. ASSUME NEW t \in 0..Len(s), t < Len(s), t \in D PROVE t + 1 \in D
  <2>1. t + 1 \in 1..Len(s) /\ (t + 1) - 1 = t /\ t + 1 \in 0..Len(s) /\ t + 1 \in Nat
    BY <1>4
  <2> DEFINE new == IF t + 1 \notin T!Zones(s) THEN {} ELSE TouchOfZone(s, t + 1, g[t])
  <2>2. g[t + 1] = g[t] \cup new
    BY <1>2, <2>1
  <2>3. /\ \A e \in new : /\ e[1] \in (t + 1) + 1..Len(s) /\ e[2] \in {1, -1} /\ e = <<e[1], e[2]>>
                          /\ \A d \in g[t] : d[1] # e[1]
        /\ \A d, e \in new : d = e
    BY <2>1, TouchOfZoneFacts
  <2>4. \A u \in (t + 1) + 1..Len(s) : u \in 1..Len(s)
    BY <2>1
  <2> HIDE DEF new
  <2>5. TouchSingle(g[t], Len(s))
    BY <1>4
  <2>6. TouchSingle(g[t] \cup new, Len(s))
    BY <2>3, <2>4, <2>5 DEF TouchSingle
  <2> QED
    BY <2>1, <2>2, <2>6
<1>5. \A t \in 0..Len(s) : t \in D
  <2> HIDE DEF D
  <2> QED
    BY <1>3, <1>4, RangeInduct
<1> QED
  BY <1>1, <1>2, <1>5

(* A zone's touch is found where the bars up to it show one.               *)
LEMMA TouchOfZoneStays ==
    ASSUME NEW p, NEW s, TouchBegins(p, s), NEW t \in 1..Len(p), T!Quiet(s, t),
           NEW a, NEW b, \A v \in 1..Len(p) : (\E e \in a : e[1] = v) <=> (\E e \in b : e[1] = v)
    PROVE  \A e : e \in TouchOfZone(p, t, a) <=> e \in TouchOfZone(s, t, b) /\ e[1] <= Len(p)
<1> DEFINE small == TouchBars(p, t, a, Len(p))
           large == TouchBars(s, t, b, Len(s))
<1>1. Len(p) \in Nat /\ Len(s) \in Nat /\ Len(p) <= Len(s) /\ t \in Nat /\ t >= 1 /\ t <= Len(p)
  BY DEF TouchBegins
<1>2. \A v \in 1..Len(p) : p[v] = s[v] /\ TouchSide(p, t, v) = TouchSide(s, t, v)
  BY TouchQuietStays DEF TouchBegins, TouchSide
<1>3. \A v : v \in small <=> v \in large /\ v <= Len(p)
  <2>1. \A v : v \in t + 1..Len(p) <=> v \in t + 1..Len(s) /\ v <= Len(p)
    BY <1>1
  <2>2. \A v \in t + 1..Len(p) : v \in 1..Len(p)
    BY <1>1
  <2>3. /\ T!Low(p, t - BaseBars + 1, t) = T!Low(s, t - BaseBars + 1, t)
        /\ T!High(p, t - BaseBars + 1, t) = T!High(s, t - BaseBars + 1, t)
        /\ T!Atr(p, AtrPeriod)[t] = T!Atr(s, AtrPeriod)[t]
    BY TouchQuietStays
  <2>4. \A v \in t + 1..Len(p) : v \in small <=> v \in large
    <3> TAKE v \in t + 1..Len(p)
    <3>1. p[v] = s[v] /\ ((\A e \in a : e[1] # v) <=> (\A e \in b : e[1] # v))
      BY <1>2, <2>2
    <3>2. v \in t + 1..Len(s)
      BY <2>1
    <3> QED
      BY <2>3, <3>1, <3>2 DEF TouchBars
  <2>5. \A v : v \in small => v \in t + 1..Len(p)
    BY DEF TouchBars
  <2>6. \A v : v \in large => v \in t + 1..Len(s)
    BY DEF TouchBars
  <2> HIDE DEF small, large
  <2> QED
    BY <2>1, <2>4, <2>5, <2>6
<1>4. \A v : v \in large => v \in Nat /\ v \in t + 1..Len(s)
  <2>1. \A v \in t + 1..Len(s) : v \in Nat
    BY <1>1
  <2> QED
    BY <2>1 DEF TouchBars
<1>5. \A v : v \in T!Earliest(small) <=> v \in T!Earliest(large) /\ v <= Len(p)
  <2>1. \A v : v \in T!Earliest(small) <=> v \in small /\ \A u \in small : v <= u
    BY DEF T!Earliest
  <2>2. \A v : v \in T!Earliest(large) <=> v \in large /\ \A u \in large : v <= u
    BY DEF T!Earliest
  <2> HIDE DEF small, large
  <2>3. \A v, u \in large : v <= Len(p) => u <= Len(p) \/ v <= u
    BY <1>1, <1>4
  <2> QED
    BY <1>3, <2>1, <2>2, <2>3
<1>6. \A v \in T!Earliest(small) : v \in 1..Len(p)
  <2>1. \A v \in t + 1..Len(p) : v \in 1..Len(p)
    BY <1>1
  <2> QED
    BY <2>1 DEF T!Earliest, TouchBars
<1>7. /\ TouchOfZone(p, t, a) = {<<u, TouchSide(p, t, u)>> : u \in T!Earliest(small)}
      /\ TouchOfZone(s, t, b) = {<<u, TouchSide(s, t, u)>> : u \in T!Earliest(large)}
  BY TouchOfZoneIs
<1> HIDE DEF small, large
<1> QED
  BY <1>2, <1>5, <1>6, <1>7

(* So the touches of the beginning are those touches of the series that it *)
(* has the bars of.                                                        *)
LEMMA TouchZoneTouchesStay ==
    ASSUME NEW p, NEW s, TouchBegins(p, s)
    PROVE  \A e : e \in T!ZoneTouches(p) <=> e \in T!ZoneTouches(s) /\ e[1] <= Len(p)
<1> DEFINE w == Len(p)
<1>1. w \in Nat /\ Len(s) \in Nat /\ w <= Len(s)
  BY DEF TouchBegins
<1>2. PICK f : TouchFound(f, p) /\ T!ZoneTouches(p) = f[w]
  BY <1>1, TouchZoneTouchesAre
<1>3. PICK g : TouchFound(g, s) /\ T!ZoneTouches(s) = g[Len(s)]
  BY <1>1, TouchZoneTouchesAre
<1>4. /\ f[0] = {}
      /\ \A t \in 1..w : f[t] = f[t - 1] \cup
                (IF t \notin T!Zones(p) THEN {} ELSE TouchOfZone(p, t, f[t - 1]))
  BY <1>1, <1>2, TouchFoundAt
<1>5. /\ g[0] = {}
      /\ \A t \in 1..Len(s) : g[t] = g[t - 1] \cup
                (IF t \notin T!Zones(s) THEN {} ELSE TouchOfZone(s, t, g[t - 1]))
  BY <1>1, <1>3, TouchFoundAt
<1>6. /\ \A t \in 0..w : t \in T!Zones(p) <=> t \in T!Zones(s)
      /\ \A z \in T!Zones(s) : z \in 1..Len(s) /\ T!Quiet(s, z)
  BY TouchZonesStay
<1> DEFINE Same(t) == \A e : e \in f[t] <=> e \in g[t] /\ e[1] <= w
           Kept(t) == \A e : e \in g[t] /\ e[1] <= w <=> e \in g[w] /\ e[1] <= w
<1>7. \A t \in 0..w : Same(t)
  <2> DEFINE D == {t \in 0..w : Same(t)}
  <2>1. 0 <= w => 0 \in D
    <3>1. Same(0)
      BY <1>4, <1>5
    <3>2. 0 \in 0..w
      BY <1>1
    <3> QED
      BY <3>1, <3>2
  <2>2. ASSUME NEW t \in 0..w, t < w, t \in D PROVE t + 1 \in D
    <3>1. t + 1 \in 1..w /\ t + 1 \in 1..Len(s) /\ (t + 1) - 1 = t /\ t + 1 \in 0..w
      BY <1>1, <2>2
    <3>2. Same(t)
      BY <2>2
    <3>3. f[t + 1] = f[t] \cup (IF t + 1 \notin T!Zones(p) THEN {} ELSE TouchOfZone(p, t + 1, f[t]))
      BY <1>4, <3>1
    <3>4. g[t + 1] = g[t] \cup (IF t + 1 \notin T!Zones(s) THEN {} ELSE TouchOfZone(s, t + 1, g[t]))
      BY <1>5, <3>1
    <3>5. CASE t + 1 \in T!Zones(s)
      <4>1. T!Quiet(s, t + 1) /\ t + 1 \in T!Zones(p)
        BY <1>6, <3>1, <3>5
      <4>2. \A v \in 1..w : (\E e \in f[t] : e[1] = v) <=> (\E e \in g[t] : e[1] = v)
        <5>1. \A v \in 1..w : v <= w
          BY <1>1
        <5> HIDE DEF w
        <5> QED
          BY <3>2, <5>1
      <4>3. \A e : e \in TouchOfZone(p, t + 1, f[t])
              <=> e \in TouchOfZone(s, t + 1, g[t]) /\ e[1] <= w
        BY <3>1, <4>1, <4>2, TouchOfZoneStays
      <4>4. Same(t + 1)
        BY <3>2, <3>3, <3>4, <3>5, <4>1, <4>3
      <4> QED
        BY <3>1, <4>4
    <3>6. CASE t + 1 \notin T!Zones(s)
      <4>1. t + 1 \notin T!Zones(p)
        BY <1>6, <3>1, <3>6
      <4>2. Same(t + 1)
        BY <3>2, <3>3, <3>4, <3>6, <4>1
      <4> QED
        BY <3>1, <4>2
    <3> QED
      BY <3>5, <3>6
  <2>3. \A t \in 0..w : t \in D
    <3> HIDE DEF D, w
    <3>1. 0 \in Nat
      OBVIOUS
    <3> QED
      BY <1>1, <2>1, <2>2, <3>1, RangeInduct
  <2> QED
    BY <2>3
<1>8. \A t \in w..Len(s) : Kept(t)
  <2> DEFINE D == {t \in w..Len(s) : Kept(t)}
  <2>1. w <= Len(s) => w \in D
    BY <1>1
  <2>2. ASSUME NEW t \in w..Len(s), t < Len(s), t \in D PROVE t + 1 \in D
    <3>1. t + 1 \in 1..Len(s) /\ (t + 1) - 1 = t /\ t + 1 \in w..Len(s) /\ t + 1 \in Nat
      BY <1>1, <2>2
    <3>2. g[t + 1] = g[t] \cup (IF t + 1 \notin T!Zones(s) THEN {} ELSE TouchOfZone(s, t + 1, g[t]))
      BY <1>5, <3>1
    <3>3. \A e \in TouchOfZone(s, t + 1, g[t]) : ~(e[1] <= w)
      <4>1. \A e \in TouchOfZone(s, t + 1, g[t]) : e[1] \in (t + 1) + 1..Len(s)
        BY <1>1, <3>1, TouchOfZoneFacts
      <4>2. \A v \in (t + 1) + 1..Len(s) : ~(v <= w)
        BY <1>1, <2>2
      <4> QED
        BY <4>1, <4>2
    <3>4. Kept(t)
      BY <2>2
    <3>5. Kept(t + 1)
      <4> HIDE DEF w
      <4> QED
        BY <3>2, <3>3, <3>4
    <3> QED
      BY <3>1, <3>5
  <2>3. \A t \in w..Len(s) : t \in D
    <3> HIDE DEF D, w
    <3> QED
      BY <1>1, <2>1, <2>2, RangeInduct
  <2> QED
    BY <2>3
<1>9. Same(w) /\ Kept(Len(s))
  <2>1. w \in 0..w /\ Len(s) \in w..Len(s)
    BY <1>1
  <2> HIDE DEF Same, Kept, w
  <2> QED
    BY <1>7, <1>8, <2>1
<1> QED
  BY <1>2, <1>3, <1>9

-----------------------------------------------------------------------------
(* Pullbacks, as they are found from one breakout to the next.             *)
TouchBacks(g, s) ==
    g = [i \in Lookback..Len(s) |->
           IF i = Lookback THEN {}
           ELSE g[i - 1] \cup {e \in T!Pullback(s, i, T!Breakout(s, i)) :
                                   \A d \in g[i - 1] : d[1] < i}]

(* A pullback of a breakout is single, after it, on its side, and nothing  *)
(* between the two took out the extreme.                                   *)
LEMMA TouchPullbackFacts ==
    ASSUME NEW s, Len(s) \in Nat, NEW i \in Nat
    PROVE  /\ \A e \in T!Pullback(s, i, T!Breakout(s, i)) :
                 /\ e[1] \in i + 1..Len(s) /\ e[2] \in {1, -1} /\ e = <<e[1], e[2]>>
                 /\ T!Breakout(s, i) = e[2]
                 /\ \A v \in i + 1..e[1] : v >= EmaPeriod => ~T!TakenOut(s, i, v, e[2])
           /\ \A d, e \in T!Pullback(s, i, T!Breakout(s, i)) : d = e
<1> DEFINE side == T!Breakout(s, i)
           some == {v \in i + 1..Len(s) : /\ v >= EmaPeriod /\ side # 0
                               /\ T!Reaches(s[v], T!Ema(s, EmaPeriod)[v], side)
                               /\ \A u \in i + 1..v :
                                     u >= EmaPeriod => ~T!TakenOut(s, i, u, side)}
           first == T!Earliest(some)
<1>1. T!Pullback(s, i, side) = {<<u, side>> : u \in first}
  BY DEF T!Pullback
<1>2. \A v \in some : v \in i + 1..Len(s) /\ v \in Int /\ side # 0 /\ \A u \in i + 1..v :
                                     u >= EmaPeriod => ~T!TakenOut(s, i, u, side)
  <2>1. \A v \in i + 1..Len(s) : v \in Int
    OBVIOUS
  <2> HIDE DEF side
  <2> QED
    BY <2>1
<1>3. side \in {1, -1, 0}
  BY DEF T!Breakout
<1>4. \A v \in first : v \in some /\ \A u \in first : u = v
  <2>1. \A v \in first : v \in some /\ \A u \in some : v <= u
    BY DEF T!Earliest
  <2> HIDE DEF some, first
  <2>2. \A v, u \in first : v <= u /\ u <= v /\ v \in Int /\ u \in Int
    BY <1>2, <2>1
  <2> QED
    BY <2>1, <2>2
<1> HIDE DEF first, some, side
<1>5. \A e \in T!Pullback(s, i, side) :
         /\ e[1] \in i + 1..Len(s) /\ e[2] \in {1, -1} /\ e = <<e[1], e[2]>> /\ side = e[2]
         /\ \A v \in i + 1..e[1] : v >= EmaPeriod => ~T!TakenOut(s, i, v, e[2])
  BY <1>1, <1>2, <1>3, <1>4
<1>6. \A d, e \in T!Pullback(s, i, side) : d = e
  BY <1>1, <1>4
<1> QED
  BY <1>5, <1>6 DEF side

(* The pullbacks, too, are the last value of a function over the bars:     *)
LEMMA TouchPullbacksAre ==
    ASSUME NEW s, Len(s) \in Nat, Lookback <= Len(s)
    PROVE  \E g : TouchBacks(g, s) /\ T!Pullbacks(s) = g[Len(s)]
<1> DEFINE S1 == SUBSET (Nat \X Int)
           back(i, x) == {e \in T!Pullback(s, i, T!Breakout(s, i)) : \A d \in x : d[1] < i}
           F == [x \in Nat \X S1 |-> x[2] \cup back(x[1], x[2])]
           g == CHOOSE f : TouchBacks(f, s)
<1>1. {} \in S1 /\ F \in [Nat \X S1 -> S1] /\ Lookback \in Nat
  <2>1. \A x \in Nat \X S1 : x[1] \in Nat /\ x[2] \in S1
    OBVIOUS
  <2>2. ASSUME NEW i \in Nat, NEW x PROVE back(i, x) \in S1
    <3>1. \A e \in T!Pullback(s, i, T!Breakout(s, i)) :
              e[1] \in i + 1..Len(s) /\ e[2] \in {1, -1} /\ e = <<e[1], e[2]>>
      BY TouchPullbackFacts
    <3>2. \A e \in T!Pullback(s, i, T!Breakout(s, i)) : e[1] \in Nat /\ e[2] \in Int
            /\ e = <<e[1], e[2]>>
      BY <3>1
    <3>3. \A y \in Nat, z \in Int : <<y, z>> \in Nat \X Int
      OBVIOUS
    <3>4. \A e \in T!Pullback(s, i, T!Breakout(s, i)) : e \in Nat \X Int
      BY <3>2, <3>3
    <3> QED
      BY <3>4
  <2> HIDE DEF back
  <2>3. \A x \in Nat \X S1 : x[2] \cup back(x[1], x[2]) \in S1
    BY <2>1, <2>2
  <2> HIDE DEF S1
  <2>4. F \in [Nat \X S1 -> S1]
    BY <2>3
  <2>5. Lookback \in Nat
    BY TouchesAssumption
  <2> QED
    BY <2>4, <2>5 DEF S1
<1>2. PICK f : Recursive(f, Lookback, Len(s), {}, F)
  <2> HIDE DEF F, S1
  <2> QED
    BY <1>1, RecursiveExists
<1>3. \A t \in Lookback..Len(s) : f[t] \in S1
  <2> HIDE DEF F, S1
  <2> QED
    BY <1>1, <1>2, RecursiveIsIn
<1>4. TouchBacks(f, s)
  <2>1. \A t \in Lookback..Len(s) : t # Lookback => <<t, f[t - 1]>> \in Nat \X S1
    <3>1. \A t \in Lookback..Len(s) : t # Lookback => t \in Nat /\ t - 1 \in Lookback..Len(s)
      BY <1>1
    <3> HIDE DEF S1
    <3> QED
      BY <1>3, <3>1
  <2> HIDE DEF S1
  <2>2. \A t \in Lookback..Len(s) : t # Lookback =>
           F[<<t, f[t - 1]>>] = f[t - 1] \cup back(t, f[t - 1])
    <3> HIDE DEF back
    <3> QED
      BY <2>1
  <2> HIDE DEF F
  <2> QED
    BY <1>2, <2>2 DEF Recursive, TouchBacks
<1>5. TouchBacks(g, s)
  BY <1>4
<1>6. T!Pullbacks(s) = g[Len(s)]
  BY DEF T!Pullbacks, TouchBacks
<1> HIDE DEF g
<1> QED
  BY <1>5, <1>6

(* An event, the breakout it follows, and no other event in between.       *)
TouchAfter(s, E, n) ==
    \A e \in E :
       \E i \in Lookback + 1..n :
          /\ i < e[1] /\ T!Breakout(s, i) = e[2]
          /\ \A v \in i + 1..e[1] : v >= EmaPeriod => ~T!TakenOut(s, i, v, e[2])
          /\ \A d \in E : d[1] <= i \/ d[1] >= e[1]

(* they are single, and each follows its breakout with no other between.   *)
LEMMA TouchPullbacksFollow ==
    ASSUME NEW s, Len(s) \in Nat, Lookback <= Len(s)
    PROVE  /\ TouchSingle(T!Pullbacks(s), Len(s))
           /\ TouchAfter(s, T!Pullbacks(s), Len(s))
<1>1. PICK g : TouchBacks(g, s) /\ T!Pullbacks(s) = g[Len(s)]
  BY TouchPullbacksAre
<1>2. g[Lookback] = {} /\ Lookback \in Nat
  <2>1. Lookback \in Lookback..Len(s) /\ Lookback \in Nat
    BY TouchesAssumption
  <2> QED
    BY <1>1, <2>1 DEF TouchBacks
<1> DEFINE back(i) == {e \in T!Pullback(s, i, T!Breakout(s, i)) : \A d \in g[i - 1] : d[1] < i}
           Recurs(t) == TouchSingle(g[t], Len(s)) /\ TouchAfter(s, g[t], t)
           D == {t \in Lookback..Len(s) : Recurs(t)}
<1>3. Lookback <= Len(s) => Lookback \in D
  BY <1>2 DEF TouchSingle, TouchAfter
<1>4. ASSUME NEW t \in Lookback..Len(s), t < Len(s), t \in D PROVE t + 1 \in D
  <2> DEFINE i == t + 1
             new == back(i)
  <2>1. /\ i \in Lookback..Len(s) /\ i - 1 = t /\ i \in Nat /\ i # Lookback /\ i \in Lookback + 1..i
        /\ \A j \in Lookback + 1..t : j \in Lookback + 1..i /\ j < i
        /\ \A u \in i + 1..Len(s) : u \in 1..Len(s) /\ i < u
    BY <1>2, <1>4
  <2>2. g[i] = g[t] \cup new
    BY <1>1, <2>1 DEF TouchBacks
  <2>3. /\ \A e \in new : /\ e[1] \in i + 1..Len(s) /\ e[2] \in {1, -1} /\ e = <<e[1], e[2]>>
                          /\ T!Breakout(s, i) = e[2]
                          /\ \A v \in i + 1..e[1] : v >= EmaPeriod => ~T!TakenOut(s, i, v, e[2])
                          /\ \A d \in g[t] : d[1] < i
        /\ \A d, e \in new : d = e
    BY <2>1, TouchPullbackFacts
  <2>4. Recurs(t)
    BY <1>4
  <2> HIDE DEF new, back, i
  <2>5. \A d \in g[t] : d[1] \in Nat
    <3>1. \A d \in g[t] : d[1] \in 1..Len(s)
      BY <2>4 DEF TouchSingle
    <3> QED
      BY <3>1
  <2>6. \A e \in new : e[1] \in Nat /\ i < e[1]
    <3>1. \A u \in 1..Len(s) : u \in Nat
      OBVIOUS
    <3> QED
      BY <2>1, <2>3, <3>1
  <2>7. \A d \in g[t], e \in new : d[1] # e[1] /\ d[1] <= i /\ e[1] >= d[1]
    <3> TAKE d \in g[t], e \in new
    <3>1. d[1] < i /\ i < e[1] /\ d[1] \in Nat /\ e[1] \in Nat
      BY <2>3, <2>5, <2>6
    <3> QED
      BY <2>1, <3>1
  <2>8. TouchSingle(g[i], Len(s))
    <3>1. TouchSingle(g[t], Len(s))
      BY <2>4
    <3>2. \A e \in new : e[1] \in 1..Len(s) /\ e[2] \in {1, -1} /\ e = <<e[1], e[2]>>
      BY <2>1, <2>3
    <3> QED
      BY <2>2, <2>3, <2>7, <3>1, <3>2 DEF TouchSingle
  <2>9. TouchAfter(s, g[i], i)
    <3> SUFFICES ASSUME NEW e \in g[i]
                 PROVE  \E j \in Lookback + 1..i :
                            /\ j < e[1] /\ T!Breakout(s, j) = e[2]
                            /\ \A v \in j + 1..e[1] : v >= EmaPeriod => ~T!TakenOut(s, j, v, e[2])
                            /\ \A d \in g[i] : d[1] <= j \/ d[1] >= e[1]
      BY DEF TouchAfter
    <3>1. CASE e \in g[t]
      <4>1. PICK j \in Lookback + 1..t :
                  /\ j < e[1] /\ T!Breakout(s, j) = e[2]
                  /\ \A v \in j + 1..e[1] : v >= EmaPeriod => ~T!TakenOut(s, j, v, e[2])
                  /\ \A d \in g[t] : d[1] <= j \/ d[1] >= e[1]
        BY <2>4, <3>1 DEF TouchAfter
      <4>2. \A d \in g[i] : d[1] <= j \/ d[1] >= e[1]
        BY <2>2, <2>7, <3>1, <4>1
      <4> QED
        BY <2>1, <4>1, <4>2
    <3>2. CASE e \in new
      <4>1. \A d \in g[i] : d[1] <= i \/ d[1] >= e[1]
        <5>1. \A d \in new : d[1] >= e[1]
          <6>1. \A d \in new : d = e
            BY <2>3, <3>2
          <6>2. e[1] >= e[1]
            BY <2>6, <3>2
          <6> QED
            BY <6>1, <6>2
        <5> QED
          BY <2>2, <2>7, <3>2, <5>1
      <4>2. /\ i < e[1] /\ T!Breakout(s, i) = e[2]
            /\ \A v \in i + 1..e[1] : v >= EmaPeriod => ~T!TakenOut(s, i, v, e[2])
        BY <2>3, <2>6, <3>2
      <4> QED
        BY <2>1, <4>1, <4>2
    <3> QED
      BY <2>2, <3>1, <3>2
  <2> QED
    BY <2>1, <2>8, <2>9 DEF i
<1>5. \A t \in Lookback..Len(s) : t \in D
  <2> HIDE DEF D
  <2> QED
    BY <1>2, <1>3, <1>4, RangeInduct
<1>6. Recurs(Len(s))
  <2>1. Len(s) \in Lookback..Len(s)
    BY <1>2
  <2> QED
    BY <1>5, <2>1
<1> QED
  BY <1>1, <1>6

-----------------------------------------------------------------------------
(* The bars a class needs.                                                 *)
LEMMA TouchLarger ==
    ASSUME NEW S, S \subseteq Nat, IsFiniteSet(S), S # {}
    PROVE  T!Larger(S) \in S /\ \A x \in S : x <= T!Larger(S)
<1>1. PICK x \in S : \A y \in S : x >= y
  BY FiniteGreatest
<1>2. \A y \in S : y <= x
  BY <1>1
<1> QED
  BY <1>2 DEF T!Larger

(* Every class needs a number of bars, a pullback more than a lookback.    *)
LEMMA TouchNeeds ==
    /\ \A class \in T!Classes : T!Need[class] \in Int
    /\ T!Need["pullback_ema_touch"] >= Lookback + 1
<1> DEFINE two == {BaseBars, AtrPeriod + 1}
           three == {EmaPeriod, Lookback, AtrPeriod + 1}
<1>1. /\ two \subseteq Nat /\ three \subseteq Nat /\ IsFiniteSet(two) /\ IsFiniteSet(three)
      /\ SmaPeriod \in Nat /\ Lookback \in Nat
  <2>1. BaseBars \in Nat /\ AtrPeriod + 1 \in Nat /\ EmaPeriod \in Nat /\ Lookback \in Nat
          /\ SmaPeriod \in Nat
    BY TouchesAssumption, RatesAssumption
  <2>2. two = ({} \cup {BaseBars}) \cup {AtrPeriod + 1}
        /\ three = (({} \cup {EmaPeriod}) \cup {Lookback}) \cup {AtrPeriod + 1}
    OBVIOUS
  <2>3. IsFiniteSet(two) /\ IsFiniteSet(three)
    <3>1. \A S, x : IsFiniteSet(S) => IsFiniteSet(S \cup {x})
      BY FS_AddElement
    <3>2. IsFiniteSet({})
      BY FS_EmptySet
    <3> HIDE DEF two, three
    <3> QED
      BY <2>2, <3>1, <3>2
  <2> QED
    BY <2>1, <2>3
<1>2. /\ T!Larger(two) \in Nat /\ T!Larger(three) \in Nat /\ Lookback <= T!Larger(three)
  BY <1>1, TouchLarger
<1>3. /\ T!Need["dip_touch"] = SmaPeriod + 2
      /\ T!Need["zone_boundary_touch"] = T!Larger(two) + 1
      /\ T!Need["pullback_ema_touch"] = T!Larger(three) + 1
  BY DEF T!Need
<1> HIDE DEF two, three
<1> QED
  BY <1>1, <1>2, <1>3 DEF T!Classes

(* There is at most one event for a bar,                                   *)
LEMMA TouchEventsAreSingle ==
    ASSUME NEW s, Len(s) \in Nat, NEW class \in T!Classes
    PROVE  TouchSingle(T!Events(class, s), Len(s))
<1>1. CASE Len(s) < T!Need[class]
  BY <1>1 DEF T!Events, TouchSingle
<1>2. CASE ~(Len(s) < T!Need[class])
  <2>1. CASE class = "dip_touch"
    <3>1. T!Events(class, s) = T!Dips(s)
      BY <1>2, <2>1 DEF T!Events
    <3>2. \A u \in SmaPeriod + 1..Len(s) : u \in 1..Len(s)
      BY TouchesAssumption
    <3> QED
      BY <3>1, <3>2 DEF T!Dips, TouchSingle
  <2>2. CASE class = "zone_boundary_touch"
    <3>1. T!Events(class, s) = T!ZoneTouches(s)
      BY <1>2, <2>2 DEF T!Events
    <3>2. PICK g : TouchFound(g, s) /\ T!ZoneTouches(s) = g[Len(s)]
      BY TouchZoneTouchesAre
    <3>3. Len(s) \in 0..Len(s)
      OBVIOUS
    <3> QED
      BY <3>1, <3>2, <3>3, TouchFoundAt
  <2>3. CASE class = "pullback_ema_touch"
    <3>1. T!Events(class, s) = T!Pullbacks(s)
      BY <1>2, <2>3 DEF T!Events
    <3>2. Lookback <= Len(s)
      BY <1>2, <2>3, TouchNeeds, TouchesAssumption DEF T!Classes
    <3> QED
      BY <3>1, <3>2, TouchPullbacksFollow
  <2> QED
    BY <2>1, <2>2, <2>3 DEF T!Classes
<1> QED
  BY <1>1, <1>2

(* so that they can be counted.                                            *)
LEMMA TouchSameCardinality == \A s : T!Cardinality(s) = Cardinality(s)
BY DEF T!Cardinality, Cardinality

(* Events that are single by bar are finitely many, no more than the bars. *)
LEMMA TouchCounted ==
    ASSUME NEW E, NEW n \in Nat, TouchSingle(E, n)
    PROVE  IsFiniteSet(E) /\ Cardinality(E) \in Nat /\ Cardinality(E) <= n
<1> DEFINE bar == [e \in E |-> e[1]]
<1>1. bar \in Injection(E, 1..n)
  BY DEF TouchSingle, Injection, IsInjective
<1>2. IsFiniteSet(1..n) /\ Cardinality(1..n) = n
  <2>1. 1 \in Int /\ n \in Int /\ (IF 1 > n THEN 0 ELSE n - 1 + 1) = n
    OBVIOUS
  <2> QED
    BY <2>1, FS_Interval
<1>3. IsFiniteSet(E) /\ Cardinality(E) <= n
  BY <1>1, <1>2, FS_Injection
<1> QED
  BY <1>3, FS_CardinalityType

(* Dips and zones are settled: later bars show those and later ones.       *)
LEMMA TouchEventsStay ==
    ASSUME NEW p, NEW s, TouchBegins(p, s), NEW class \in T!Classes \ {"pullback_ema_touch"},
           ~(Len(p) < T!Need[class])
    PROVE  \A e : e \in T!Events(class, p) <=> e \in T!Events(class, s) /\ e[1] <= Len(p)
<1>1. ~(Len(s) < T!Need[class])
  <2>1. T!Need[class] \in Int
    BY TouchNeeds
  <2> QED
    BY <2>1 DEF TouchBegins
<1>2. CASE class = "dip_touch"
  BY <1>1, <1>2, TouchDipsStay DEF T!Events
<1>3. CASE class = "zone_boundary_touch"
  <2>1. T!Events(class, p) = T!ZoneTouches(p) /\ T!Events(class, s) = T!ZoneTouches(s)
    BY <1>1, <1>3 DEF T!Events
  <2> QED
    BY <2>1, TouchZoneTouchesStay
<1> QED
  BY <1>2, <1>3 DEF T!Classes

(* An outcome that is complete is the same with more bars.                 *)
LEMMA TouchOutcomeStays ==
    ASSUME NEW p, NEW s, TouchBegins(p, s), NEW e, e[1] \in Nat, e[1] >= 1, T!Complete(p, e)
    PROVE  T!Complete(s, e) /\ (T!Hit(p, e) <=> T!Hit(s, e))
<1>1. Len(p) \in Nat /\ Len(s) \in Nat /\ Len(p) <= Len(s) /\ Horizon \in Nat
      /\ e[1] + Horizon <= Len(p)
  BY TouchesAssumption DEF TouchBegins, T!Complete
<1>2. e[1] \in 1..Len(p) /\ e[1] + Horizon \in 1..Len(p) /\ e[1] + Horizon <= Len(s)
  BY <1>1
<1>3. p[e[1]] = s[e[1]] /\ p[e[1] + Horizon] = s[e[1] + Horizon]
  BY <1>2 DEF TouchBegins
<1> QED
  BY <1>2, <1>3 DEF T!Complete, T!Hit

(* What a summary counts.                                                  *)
TouchDone(class, s) == {e \in T!Events(class, s) : T!Complete(s, e)}
TouchHits(class, s) == {e \in TouchDone(class, s) : T!Hit(s, e)}

(* A summary has no more hits than outcomes, no more events than bars, and *)
(* rates above the minimum only.                                           *)
LEMMA TouchSummaryIs ==
    ASSUME NEW s, Len(s) \in Nat, NEW class \in T!Classes
    PROVE  LET n == Cardinality(TouchDone(class, s))
               h == Cardinality(TouchHits(class, s))
               r == T!Summary(class, s)
           IN  /\ IsFiniteSet(TouchDone(class, s)) /\ n \in Nat /\ h \in Nat /\ h <= n
               /\ r.n = n /\ r.censored \in Nat /\ n + r.censored <= Len(s)
               /\ r.hits = IF n >= NMin THEN h ELSE 0
<1> DEFINE E == T!Events(class, s)
           done == TouchDone(class, s)
           hits == TouchHits(class, s)
<1>1. IsFiniteSet(E) /\ Cardinality(E) \in Nat /\ Cardinality(E) <= Len(s)
  BY TouchEventsAreSingle, TouchCounted
<1>2. done \in SUBSET E /\ hits \in SUBSET done
  BY DEF TouchDone, TouchHits
<1>3. T!Summary(class, s)
      = [n |-> Cardinality(done), censored |-> Cardinality(E \ done),
        claimed |-> Cardinality(done) >= NMin,
         hits |-> IF Cardinality(done) >= NMin THEN Cardinality(hits) ELSE 0]
  BY TouchSameCardinality DEF T!Summary, T!Rated, TouchDone, TouchHits
<1> HIDE DEF E, done, hits
<1>4. IsFiniteSet(done) /\ Cardinality(done) \in Nat /\ Cardinality(done) <= Cardinality(E)
  BY <1>1, <1>2, FS_Subset, FS_CardinalityType
<1>5. IsFiniteSet(hits) /\ Cardinality(hits) \in Nat /\ Cardinality(hits) <= Cardinality(done)
  BY <1>2, <1>4, FS_Subset, FS_CardinalityType
<1>6. Cardinality(E \ done) = Cardinality(E) - Cardinality(done)
  <2>1. E \cap done = done
    BY <1>2
  <2> QED
    BY <1>1, <2>1, FS_Difference
<1>7. Cardinality(E \ done) \in Nat /\ Cardinality(done) + Cardinality(E \ done) <= Len(s)
  BY <1>1, <1>4, <1>6
<1> QED
  BY <1>3, <1>4, <1>5, <1>7 DEF done, hits

(* More bars, no fewer outcomes and no fewer hits.                         *)
LEMMA TouchSummaryGrows ==
    ASSUME NEW p, NEW s, TouchBegins(p, s), NEW class \in T!Classes \ {"pullback_ema_touch"}
    PROVE  /\ T!Summary(class, p).n <= T!Summary(class, s).n
           /\ T!Summary(class, p).hits <= T!Summary(class, s).hits
<1>1. Len(p) \in Nat /\ Len(s) \in Nat
  BY DEF TouchBegins
<1> DEFINE n(x) == Cardinality(TouchDone(class, x))
           h(x) == Cardinality(TouchHits(class, x))
<1>2. \A x : Len(x) \in Nat =>
         /\ IsFiniteSet(TouchDone(class, x)) /\ n(x) \in Nat /\ h(x) \in Nat /\ h(x) <= n(x)
         /\ T!Summary(class, x).n = n(x)
         /\ T!Summary(class, x).hits = IF n(x) >= NMin THEN h(x) ELSE 0
  BY TouchSummaryIs
<1>3. TouchDone(class, p) \subseteq TouchDone(class, s)
        /\ TouchHits(class, p) \subseteq TouchHits(class, s)
  <2>1. CASE Len(p) < T!Need[class]
    <3>1. T!Events(class, p) = {}
      BY <2>1 DEF T!Events
    <3> QED
      BY <3>1 DEF TouchDone, TouchHits
  <2>2. CASE ~(Len(p) < T!Need[class])
    <3>1. \A e \in TouchDone(class, p) : e[1] \in Nat /\ e[1] >= 1 /\ T!Complete(p, e)
      <4>1. \A e \in T!Events(class, p) : e[1] \in 1..Len(p)
        BY <1>1, TouchEventsAreSingle DEF TouchSingle
      <4>2. \A v \in 1..Len(p) : v \in Nat /\ v >= 1
        BY <1>1
      <4> QED
        BY <4>1, <4>2 DEF TouchDone
    <3>2. \A e \in TouchDone(class, p) : T!Complete(s, e) /\ (T!Hit(p, e) <=> T!Hit(s, e))
      BY <3>1, TouchOutcomeStays
    <3>3. \A e \in T!Events(class, p) : e \in T!Events(class, s)
      BY <2>2, TouchEventsStay
    <3> QED
      BY <3>2, <3>3 DEF TouchDone, TouchHits
  <2> QED
    BY <2>1, <2>2
<1>4. n(p) <= n(s) /\ h(p) <= h(s)
  <2>1. IsFiniteSet(TouchDone(class, s)) /\ TouchHits(class, s) \in SUBSET TouchDone(class, s)
    BY <1>1, <1>2 DEF TouchHits
  <2>2. IsFiniteSet(TouchHits(class, s))
    BY <2>1, FS_Subset
  <2> QED
    BY <1>3, <2>1, <2>2, FS_Subset
<1>5. NMin \in Nat
  BY TouchesAssumption
<1> HIDE DEF n, h
<1> QED
  BY <1>1, <1>2, <1>4, <1>5

-----------------------------------------------------------------------------
(* A row says what its run would say of the bars it saw.                   *)
TouchIInv ==
    /\ bars \in Seq(BarSet) /\ Len(bars) <= MaxBars
    /\ DOMAIN stored \subseteq T!Classes \X (1..Len(bars))
    /\ \A k \in DOMAIN stored : stored[k] = T!Summary(k[1], T!Visible(k[2]))
    /\ studies \in 0..MaxStudies

(* What is visible at a watermark is a beginning of the series.            *)
LEMMA TouchVisibleIs ==
    ASSUME bars \in Seq(BarSet), NEW w \in 1..Len(bars)
    PROVE  TouchBegins(T!Visible(w), bars) /\ Len(T!Visible(w)) = w
<1>1. Len(bars) \in Nat /\ w \in Nat /\ w <= Len(bars) /\ \A t \in 1..Len(bars) : bars[t] \in BarSet
  OBVIOUS
<1>2. T!Visible(w) = [t \in 1..w |-> bars[t]]
  BY <1>1 DEF T!Visible
<1>3. Len(T!Visible(w)) = w
  BY <1>1 DEF T!Visible
<1> QED
  BY <1>1, <1>2, <1>3 DEF TouchBegins

LEMMA TouchInitIInv == T!Init => TouchIInv
<1> SUFFICES ASSUME T!Init PROVE TouchIInv
  OBVIOUS
<1>1. bars = <<>> /\ DOMAIN stored = {} /\ studies = 0
  BY DEF T!Init
<1>2. bars \in Seq(BarSet) /\ Len(bars) = 0
  BY <1>1
<1> QED
  BY <1>1, <1>2, TouchesAssumption DEF TouchIInv

LEMMA TouchKnownStep == ASSUME TouchIInv, NEW bar \in BarSet, T!Known(bar) PROVE TouchIInv'
<1>1. bars' = Append(bars, bar) /\ Len(bars) < MaxBars /\ UNCHANGED <<stored, studies>>
  BY DEF T!Known
<1>2. /\ bars \in Seq(BarSet) /\ bars' \in Seq(BarSet) /\ Len(bars) \in Nat
      /\ Len(bars') = Len(bars) + 1 /\ \A t \in 1..Len(bars) : bars'[t] = bars[t]
  BY <1>1 DEF TouchIInv
<1>3. ASSUME NEW w \in 1..Len(bars) PROVE T!Visible(w)' = T!Visible(w)
  <2>1. T!Visible(w) = [t \in 1..w |-> bars[t]] /\ T!Visible(w)' = [t \in 1..w |-> bars'[t]]
    BY <1>2 DEF T!Visible
  <2>2. \A t \in 1..w : bars'[t] = bars[t]
    BY <1>2
  <2> QED
    BY <2>1, <2>2
<1>4. \A k \in DOMAIN stored : k \in T!Classes \X (1..Len(bars)) /\ k[2] \in 1..Len(bars)
  BY DEF TouchIInv
<1>5. \A k \in DOMAIN stored : stored[k] = T!Summary(k[1], T!Visible(k[2])')
  BY <1>3, <1>4 DEF TouchIInv
<1>6. DOMAIN stored \subseteq T!Classes \X (1..Len(bars'))
  <2>1. 1..Len(bars) \subseteq 1..Len(bars')
    BY <1>2
  <2> QED
    BY <2>1 DEF TouchIInv
<1>7. Len(bars') <= MaxBars
  BY <1>1, <1>2, TouchesAssumption
<1>8. \A k \in DOMAIN stored' : stored'[k] = T!Summary(k[1], T!Visible(k[2]))'
  BY <1>1, <1>5
<1> QED
  BY <1>1, <1>2, <1>6, <1>7, <1>8 DEF TouchIInv

LEMMA TouchRunStep == ASSUME TouchIInv, NEW w \in 1..Len(bars), T!Run(w) PROVE TouchIInv'
<1> DEFINE keys == T!Classes \X {w}
<1>1. /\ stored' = [k \in DOMAIN stored \cup keys |->
                       IF k \in DOMAIN stored THEN stored[k] ELSE T!Summary(k[1], T!Visible(k[2]))]
      /\ studies < MaxStudies /\ studies' = studies + 1 /\ UNCHANGED bars
  BY DEF T!Run
<1>2. DOMAIN stored' = DOMAIN stored \cup keys
  BY <1>1
<1>3. \A k \in DOMAIN stored' : stored'[k] = T!Summary(k[1], T!Visible(k[2]))
  BY <1>1, <1>2 DEF TouchIInv
<1>4. \A k : T!Summary(k[1], T!Visible(k[2]))' = T!Summary(k[1], T!Visible(k[2]))
  BY <1>1 DEF T!Visible
<1>5. keys \subseteq T!Classes \X (1..Len(bars))
  OBVIOUS
<1>6. studies' \in 0..MaxStudies
  BY <1>1, TouchesAssumption DEF TouchIInv
<1> HIDE DEF keys
<1>7. DOMAIN stored' \subseteq T!Classes \X (1..Len(bars'))
  BY <1>1, <1>2, <1>5 DEF TouchIInv
<1>8. bars' \in Seq(BarSet) /\ Len(bars') <= MaxBars
  BY <1>1 DEF TouchIInv
<1>9. \A k \in DOMAIN stored' : stored'[k] = T!Summary(k[1], T!Visible(k[2]))'
  BY <1>3, <1>4
<1> QED
  BY <1>6, <1>7, <1>8, <1>9 DEF TouchIInv

LEMMA TouchStepIInv == TouchIInv /\ [T!Next]_T!vars => TouchIInv'
<1> SUFFICES ASSUME TouchIInv, [T!Next]_T!vars PROVE TouchIInv'
  OBVIOUS
<1>1. ASSUME NEW bar \in BarSet, T!Known(bar) PROVE TouchIInv'
  BY <1>1, TouchKnownStep
<1>2. ASSUME NEW w \in 1..Len(bars), T!Run(w) PROVE TouchIInv'
  BY <1>2, TouchRunStep
<1>3. CASE UNCHANGED T!vars
  BY <1>3 DEF T!vars, TouchIInv, T!Visible
<1> QED
  BY <1>1, <1>2, <1>3 DEF T!Next

LEMMA TouchIInvHolds == T!Spec => []TouchIInv
  BY TouchInitIInv, TouchStepIInv, PTL DEF T!Spec

(* What is stored, and every event that is no pullback, does not depend on *)
(* bars known later.                                                       *)
LEMMA TouchRatesAreSettled == ASSUME TouchIInv PROVE T!RatesAreSettled
<1>1. bars \in Seq(BarSet) /\ Len(bars) \in Nat
  BY DEF TouchIInv
<1>2. ASSUME NEW w \in 1..Len(bars)
      PROVE  TouchBegins(T!Visible(w), bars) /\ Len(T!Visible(w)) = w
  BY <1>1, TouchVisibleIs
<1>3. ASSUME NEW class \in T!Classes \ {"pullback_ema_touch"}, NEW w \in 1..Len(bars)
      PROVE  T!SettledAt(class, w)
  <2> SUFFICES ASSUME w >= T!Need[class]
               PROVE  T!Agree(T!Events(class, T!Visible(w)), T!Events(class, bars), w)
    BY DEF T!SettledAt
  <2> DEFINE p == T!Visible(w)
  <2>1. TouchBegins(p, bars) /\ Len(p) = w
    BY <1>2
  <2>2. ~(Len(p) < T!Need[class])
    <3>1. T!Need[class] \in Int /\ w \in Int
      BY TouchNeeds
    <3> QED
      BY <2>1, <3>1
  <2> HIDE DEF p
  <2>3. \A e : e \in T!Events(class, p) <=> e \in T!Events(class, bars) /\ e[1] <= w
    BY <2>1, <2>2, TouchEventsStay
  <2>4. T!Events(class, p) = {e \in T!Events(class, bars) : e[1] <= w}
    BY <2>3
  <2>5. ASSUME NEW e \in T!Events(class, p), T!Complete(p, e) PROVE T!Hit(p, e) = T!Hit(bars, e)
    <3>1. TouchSingle(T!Events(class, p), w)
      BY <2>1, TouchEventsAreSingle
    <3>2. e[1] \in Nat /\ e[1] >= 1
      BY <3>1 DEF TouchSingle
    <3>3. T!Hit(p, e) <=> T!Hit(bars, e)
      BY <2>1, <2>5, <3>2, TouchOutcomeStays
    <3> QED
      BY <3>3 DEF T!Hit
  <2> QED
    BY <2>4, <2>5 DEF T!Agree, p
<1>4. ASSUME NEW k \in DOMAIN stored, NEW l \in DOMAIN stored,
             k[1] = l[1], k[1] # "pullback_ema_touch", k[2] <= l[2]
      PROVE  stored[k].n <= stored[l].n /\ stored[k].hits <= stored[l].hits
  <2> DEFINE p == T!Visible(k[2])
             s == T!Visible(l[2])
  <2>1. /\ k[1] \in T!Classes \ {"pullback_ema_touch"} /\ k[2] \in 1..Len(bars)
           /\ l[2] \in 1..Len(bars)
        /\ stored[k] = T!Summary(k[1], p) /\ stored[l] = T!Summary(k[1], s)
    BY <1>4 DEF TouchIInv
  <2>2. TouchBegins(p, bars) /\ TouchBegins(s, bars) /\ Len(p) = k[2] /\ Len(s) = l[2]
    BY <1>2, <2>1
  <2> HIDE DEF p, s
  <2>3. TouchBegins(p, s)
    <3>1. \A t \in 1..Len(p) : t \in 1..Len(s)
      BY <1>1, <1>4, <2>1, <2>2
    <3> QED
      BY <1>4, <2>2, <3>1 DEF TouchBegins
  <2> QED
    BY <2>1, <2>3, TouchSummaryGrows
<1> QED
  BY <1>3, <1>4 DEF T!RatesAreSettled, TouchIInv

(* A pullback stands after a breakout, the first since.                    *)
LEMMA TouchPullbackIsFirst == ASSUME TouchIInv PROVE T!PullbackIsFirst
<1> DEFINE class == "pullback_ema_touch"
           E == T!Events(class, bars)
<1>1. Len(bars) \in Nat
  BY DEF TouchIInv
<1>2. CASE Len(bars) < T!Need[class]
  <2>1. E = {}
    BY <1>2 DEF T!Events
  <2> QED
    BY <2>1 DEF T!PullbackIsFirst, T!FirstOf
<1>3. CASE ~(Len(bars) < T!Need[class])
  <2>1. E = T!Pullbacks(bars)
    BY <1>3 DEF T!Events
  <2>2. Lookback <= Len(bars) /\ Lookback \in Nat
    BY <1>1, <1>3, TouchNeeds, TouchesAssumption DEF T!Classes
  <2>3. TouchSingle(E, Len(bars)) /\ TouchAfter(bars, E, Len(bars))
    BY <1>1, <2>1, <2>2, TouchPullbacksFollow
  <2> HIDE DEF E
  <2>4. T!FirstOf(E)
    <3> SUFFICES ASSUME NEW e \in E
                 PROVE  \E i \in Lookback + 1..e[1] - 1 :
                           /\ T!Breakout(bars, i) = e[2]
                           /\ \A v \in i + 1..e[1] : v >= EmaPeriod => ~T!TakenOut(bars, i, v, e[2])
                           /\ \A d \in E : d[1] <= i \/ d[1] >= e[1]
      BY DEF T!FirstOf
    <3>1. PICK i \in Lookback + 1..Len(bars) :
             /\ i < e[1] /\ T!Breakout(bars, i) = e[2]
             /\ \A v \in i + 1..e[1] : v >= EmaPeriod => ~T!TakenOut(bars, i, v, e[2])
             /\ \A d \in E : d[1] <= i \/ d[1] >= e[1]
      BY <2>3 DEF TouchAfter
    <3>2. e[1] \in 1..Len(bars)
      BY <2>3 DEF TouchSingle
    <3>3. i \in Lookback + 1..e[1] - 1
      BY <1>1, <2>2, <3>1, <3>2
    <3> QED
      BY <3>1, <3>3
  <2> QED
    BY <2>4 DEF T!PullbackIsFirst, E
<1> QED
  BY <1>2, <1>3

LEMMA TouchIInvIsHonest == TouchIInv => T!TypeOK /\ T!RatesAreHonest
<1> SUFFICES ASSUME TouchIInv PROVE T!TypeOK /\ T!RatesAreHonest
  OBVIOUS
<1>1. ASSUME NEW k \in DOMAIN stored
      PROVE  stored[k].hits <= stored[k].n /\ stored[k].n + stored[k].censored <= k[2]
  <2>1. k[1] \in T!Classes /\ k[2] \in 1..Len(bars) /\ stored[k] = T!Summary(k[1], T!Visible(k[2]))
    BY DEF TouchIInv
  <2>2. Len(T!Visible(k[2])) = k[2]
    BY <2>1, TouchVisibleIs DEF TouchIInv
  <2>3. k[2] \in Nat
    BY <2>1 DEF TouchIInv
  <2> HIDE DEF T!Visible
  <2>4. NMin \in Nat
    BY TouchesAssumption
  <2> QED
    BY <2>1, <2>2, <2>3, <2>4, TouchSummaryIs
<1>2. T!TypeOK
  BY <1>1 DEF TouchIInv, T!TypeOK
<1> QED
  BY <1>2, TouchRatesAreSettled, TouchPullbackIsFirst DEF T!RatesAreHonest

(* A step of the composition is one of this part, or leaves it alone.      *)
LEMMA TouchPart == ResearchSpec => T!Spec
<1>1. ResearchInit => T!Init
  BY DEF ResearchInit
<1>2. [ResearchNext]_researchVars => [T!Next]_T!vars
  BY DEF ResearchNext, researchVars, touchVars, T!vars
<1> QED
  BY <1>1, <1>2, PTL DEF ResearchSpec, T!Spec

-----------------------------------------------------------------------------
(* The base-rate script (InstrumentRates): loading, caching, reporting.    *)
RateTyped ==
    /\ rPc \in {"idle", "load", "hyperliquid", "coingecko", "polygon", "write", "compute"}
    /\ refresh \in BOOLEAN /\ offline \in BOOLEAN
    /\ vendor \in [R!Symbols \X R!Vendors -> DOMAIN Panel \cup {NoBars}]
    /\ cache \in [R!Symbols -> {NoBars, <<"torn">>} \cup (R!Vendors \X DOMAIN Panel)]
    /\ results \in Seq(R!Rows) /\ report \in Seq(R!Rows)
    /\ reports \in 0..MaxReports

(* The symbols are gone through in order, and a report has them all.       *)
RateInOrder(made) == \A i \in 1..Len(made) : made[i].symbol = Monitor[i]

RateUnderWay ==
    /\ rPc = "idle" => results = <<>>
    /\ Len(results) < Len(Monitor) /\ RateInOrder(results)
    /\ report # <<>> => Len(report) = Len(Monitor) /\ RateInOrder(report)

(* What is at hand or in a whole cache file, a vendor answered.            *)
RateIsAnswered(x, b) == b \in R!Vendors \X DOMAIN Panel /\ <<x, b[1], b[2]>> \in answered

RateAnswers ==
    /\ rPc = "write" => RateIsAnswered(R!Now, series)
    /\ rPc = "compute" => series = NoBars \/ RateIsAnswered(R!Now, series)
    /\ rPc \notin {"write", "compute"} => series = NoBars
    /\ \A x \in R!Symbols : cache[x] \notin {NoBars, <<"torn">>} => RateIsAnswered(x, cache[x])

(* An entry names where its series came from.                               *)
RateSourced(r) ==
    \/ r.series = NoBars
    \/ r.route = "bars-dir" /\ r.series = Local[r.symbol]
    \/ r.route \in {"cache", "live"} /\ <<r.symbol, r.source, r.series>> \in answered

RateRows ==
    /\ \A i \in 1..Len(results) : RateSourced(results[i])
    /\ \A i \in 1..Len(report) : RateSourced(report[i])

RateIInv == RateTyped /\ RateUnderWay /\ RateAnswers /\ RateRows /\ R!ModeIsKept

(* There is a symbol to report on, and each symbol is one the script       *)
(* knows.                                                                  *)
LEMMA RateMonitored ==
    /\ Len(Monitor) \in Nat \ {0} /\ DOMAIN Monitor = 1..Len(Monitor)
    /\ \A i \in 1..Len(Monitor) : Monitor[i] \in R!Symbols
BY RatesAssumption DEF R!Symbols

LEMMA RateNow == ASSUME RateUnderWay, RateTyped PROVE R!Now \in R!Symbols
<1>1. Len(results) \in Nat /\ Len(results) + 1 \in 1..Len(Monitor)
  BY RateMonitored DEF RateUnderWay, RateTyped
<1> QED
  BY <1>1, RateMonitored DEF R!Now

LEMMA RateInitIInv == R!Init => RateIInv
<1> SUFFICES ASSUME R!Init PROVE RateIInv
  OBVIOUS
<1>1. RateTyped
  <2>1. /\ vendor \in [R!Symbols \X R!Vendors -> DOMAIN Panel \cup {NoBars}]
        /\ cache \in [R!Symbols -> {NoBars, <<"torn">>} \cup (R!Vendors \X DOMAIN Panel)]
    BY Zenon DEF R!Init
  <2>2. results \in Seq(R!Rows) /\ report \in Seq(R!Rows) /\ reports \in 0..MaxReports
    BY RatesAssumption DEF R!Init
  <2> QED
    BY <2>1, <2>2 DEF R!Init, RateTyped
<1>2. RateUnderWay
  BY RateMonitored DEF R!Init, RateUnderWay, RateInOrder
<1>3. RateAnswers
  BY DEF R!Init, RateAnswers
<1>4. RateRows
  BY DEF R!Init, RateRows
<1>5. R!ModeIsKept
  BY DEF R!Init, R!ModeIsKept
<1> QED
  BY <1>1, <1>2, <1>3, <1>4, <1>5 DEF RateIInv

(* A row of the symbol at hand, and the report when it is the last.        *)
LEMMA RateDoneStep ==
    ASSUME RateIInv, rPc # "idle",
           NEW route \in {"bars-dir", "cache", "live", "none"},
           NEW source \in R!Vendors \cup {"file", NoBars}, NEW s \in DOMAIN Panel \cup {NoBars},
           RateSourced([symbol |-> R!Now, route |-> route, source |-> source, series |-> s]),
           refresh => route # "cache",
           R!Done(route, source, s), UNCHANGED <<refresh, offline, vendor, cache, answered,
                                                 reports>>
    PROVE  RateIInv'
<1> DEFINE entry == [symbol |-> R!Now, route |-> route, source |-> source, series |-> s]
           made == Append(results, entry)
           last == Len(made) = Len(Monitor)
<1> USE DEF RateIInv
<1>1. entry \in R!Rows
  BY RateNow DEF R!Rows
<1>2. /\ made \in Seq(R!Rows) /\ Len(made) = Len(results) + 1 /\ Len(results) \in Nat
      /\ \A i \in 1..Len(made) : made[i] = IF i = Len(results) + 1 THEN entry ELSE results[i]
  BY <1>1 DEF RateTyped
<1>3. RateInOrder(made) /\ \A i \in 1..Len(made) : RateSourced(made[i])
  <2>1. entry.symbol = Monitor[Len(results) + 1] /\ RateSourced(entry)
    BY DEF R!Now
  <2>2. \A i \in 1..Len(made) : i = Len(results) + 1 \/ i \in 1..Len(results)
    BY <1>2
  <2> HIDE DEF entry, made
  <2> QED
    BY <1>2, <2>1, <2>2 DEF RateUnderWay, RateInOrder, RateRows
<1>4. /\ results' = (IF last THEN <<>> ELSE made)
      /\ report' = (IF last THEN made ELSE report)
      /\ rPc' = (IF last THEN "idle" ELSE "load")
      /\ series' = NoBars
  BY DEF R!Done
<1>5. Len(made) <= Len(Monitor)
  BY <1>2, RateMonitored DEF RateUnderWay
<1>6. \A r : RateSourced(r)' <=> RateSourced(r)
  BY DEF RateSourced
<1>7. \A x \in R!Symbols : RateIsAnswered(x, cache[x])' <=> RateIsAnswered(x, cache[x])
  BY DEF RateIsAnswered
<1>8. refresh => \A i \in 1..Len(made) : made[i].route # "cache"
  <2>1. entry.route = route
    OBVIOUS
  <2> HIDE DEF entry, made
  <2> QED
    BY <1>2, <2>1 DEF R!ModeIsKept
<1> HIDE DEF entry, made
<1>9. RateTyped'
  <2>1. results' \in Seq(R!Rows) /\ report' \in Seq(R!Rows)
    BY <1>2, <1>4 DEF RateTyped
  <2> QED
    BY <1>4, <2>1 DEF RateTyped
<1>10. RateUnderWay'
  <2>1. CASE last
    BY <1>3, <1>4, <2>1, RateMonitored DEF RateUnderWay, RateInOrder
  <2>2. CASE ~last
    <3>1. Len(made) \in Nat /\ Len(made) # Len(Monitor)
      BY <1>2, <2>2
    <3>2. Len(made) < Len(Monitor)
      BY <1>5, <3>1, RateMonitored
    <3> QED
      BY <1>3, <1>4, <2>2, <3>2 DEF RateUnderWay, RateInOrder
  <2> QED
    BY <2>1, <2>2
<1>11. RateAnswers'
  <2>1. rPc' \notin {"write", "compute"} /\ series' = NoBars
    BY <1>4
  <2>2. \A x \in R!Symbols : cache'[x] \notin {NoBars, <<"torn">>} => RateIsAnswered(x, cache[x])'
    BY <1>7 DEF RateAnswers
  <2> QED
    BY <2>1, <2>2 DEF RateAnswers
<1>12. RateRows'
  BY <1>3, <1>4, <1>6 DEF RateRows
<1>13. R!ModeIsKept'
  BY <1>4, <1>8 DEF R!ModeIsKept
<1> QED
  BY <1>9, <1>10, <1>11, <1>12, <1>13

LEMMA RateStartStep ==
    ASSUME RateIInv, NEW fresh \in BOOLEAN, NEW off \in BOOLEAN, R!Start(fresh, off)
    PROVE  RateIInv'
<1> USE DEF RateIInv, R!Start
<1>1. RateTyped'
  BY RatesAssumption DEF RateTyped
<1>2. RateUnderWay'
  BY RateMonitored DEF RateUnderWay, RateInOrder
<1>3. RateAnswers'
  BY DEF RateAnswers, RateIsAnswered
<1>4. RateRows'
  BY DEF RateRows, RateSourced
<1>5. R!ModeIsKept'
  BY DEF R!ModeIsKept
<1> QED
  BY <1>1, <1>2, <1>3, <1>4, <1>5

LEMMA RateLoadStep == ASSUME RateIInv, R!Load PROVE RateIInv'
<1> DEFINE now == R!Now
           cached == Local[now] = NoBars /\ ~refresh /\ cache[now] # NoBars
<1>1. now \in R!Symbols
  BY RateNow DEF RateIInv
<1>2. rPc = "load" /\ UNCHANGED <<refresh, offline, vendor, cache, answered, reports>>
  BY DEF R!Load
<1>3. CASE Local[now] # NoBars /\ R!Done("bars-dir", "file", Local[now])
  <2>1. Local[now] \in DOMAIN Panel
    BY <1>1, <1>3, RatesAssumption
  <2>2. RateSourced([symbol |-> R!Now, route |-> "bars-dir", source |-> "file",
          series |-> Local[now]])
    BY DEF RateSourced
  <2> QED
    BY <1>2, <1>3, <2>1, <2>2, RateDoneStep
<1>4. CASE cached /\ cache[now] # <<"torn">> /\ R!Done("cache", cache[now][1], cache[now][2])
  <2>1. RateIsAnswered(now, cache[now])
    BY <1>1, <1>4 DEF RateIInv, RateAnswers
  <2>2. RateSourced([symbol |-> R!Now, route |-> "cache", source |-> cache[now][1],
                     series |-> cache[now][2]])
    BY <2>1 DEF RateSourced, RateIsAnswered
  <2>3. cache[now][1] \in R!Vendors /\ cache[now][2] \in DOMAIN Panel
    BY <2>1 DEF RateIsAnswered
  <2> QED
    BY <1>2, <1>4, <2>2, <2>3, RateDoneStep
<1>5. CASE R!Done("none", NoBars, NoBars)
  <2>1. RateSourced([symbol |-> R!Now, route |-> "none", source |-> NoBars, series |-> NoBars])
    BY DEF RateSourced
  <2> QED
    BY <1>2, <1>5, <2>1, RateDoneStep
<1>6. CASE rPc' = "idle" /\ results' = <<>> /\ UNCHANGED <<series, report>>
  <2> USE DEF RateIInv
  <2>1. RateTyped'
    BY <1>2, <1>6 DEF RateTyped
  <2>2. RateUnderWay'
    BY <1>2, <1>6, RateMonitored DEF RateUnderWay, RateInOrder
  <2>3. RateAnswers'
    BY <1>2, <1>6 DEF RateAnswers, RateIsAnswered
  <2>4. RateRows'
    BY <1>2, <1>6 DEF RateRows, RateSourced
  <2>5. R!ModeIsKept'
    BY <1>2, <1>6 DEF R!ModeIsKept
  <2> QED
    BY <2>1, <2>2, <2>3, <2>4, <2>5
<1>7. CASE /\ ~offline
           /\ rPc' = IF Kinds[now].crypto THEN "hyperliquid" ELSE "polygon"
           /\ UNCHANGED <<series, results, report>>
  <2> USE DEF RateIInv
  <2>1. RateTyped'
    BY <1>2, <1>7 DEF RateTyped
  <2>2. RateUnderWay'
    BY <1>2, <1>7 DEF RateUnderWay, RateInOrder
  <2>3. RateAnswers'
    BY <1>2, <1>7 DEF RateAnswers, RateIsAnswered
  <2>4. RateRows'
    BY <1>2, <1>7 DEF RateRows, RateSourced
  <2>5. R!ModeIsKept'
    BY <1>2, <1>7 DEF R!ModeIsKept
  <2> QED
    BY <2>1, <2>2, <2>3, <2>4, <2>5
<1> QED
  BY <1>3, <1>4, <1>5, <1>6, <1>7 DEF R!Load

LEMMA RateAskStep ==
    ASSUME RateIInv, NEW source \in R!Vendors, NEW answers \in BOOLEAN, R!Ask(source, answers)
    PROVE  RateIInv'
<1> USE DEF RateIInv
<1> DEFINE now == R!Now
           got == vendor[<<now, source>>]
<1>1. /\ rPc = source /\ rPc \in R!Vendors /\ now \in R!Symbols
      /\ UNCHANGED <<refresh, offline, vendor, cache, results, report, reports>>
      /\ R!Now' = now
  BY RateNow DEF R!Ask, R!Now
<1>2. rPc \notin {"idle", "load", "write", "compute"}
  BY <1>1 DEF R!Vendors
<1>3. got \in DOMAIN Panel \cup {NoBars}
  BY <1>1, Zenon DEF RateTyped
<1>4. /\ answered \subseteq answered'
      /\ rPc' \in {"coingecko", "polygon", "compute", "write"}
      /\ rPc' = "write" => RateIsAnswered(now, series)'
      /\ rPc' # "write" => series' = NoBars
  <2>1. CASE answers /\ got # NoBars
    <3>1. /\ series' = <<source, got>> /\ rPc' = "write"
          /\ answered' = answered \cup {<<now, source, got>>}
      BY <2>1 DEF R!Ask
    <3>2. series'[1] = source /\ series'[2] = got /\ series' \in R!Vendors \X DOMAIN Panel
      BY <1>3, <2>1, <3>1
    <3> HIDE DEF got
    <3>3. RateIsAnswered(now, series)'
      BY <1>1, <3>1, <3>2 DEF RateIsAnswered
    <3> QED
      BY <3>1, <3>3
  <2>2. CASE ~(answers /\ got # NoBars)
    <3>1. rPc' = R!After(source) /\ UNCHANGED <<series, answered>>
      BY <2>2 DEF R!Ask
    <3>2. rPc' \in {"coingecko", "polygon", "compute"}
      BY <3>1 DEF R!After, R!Vendors
    <3> QED
      BY <1>2, <3>1, <3>2 DEF RateAnswers
  <2> QED
    BY <2>1, <2>2
<1> HIDE DEF now, got
<1>5. RateTyped'
  BY <1>1, <1>4 DEF RateTyped
<1>6. RateUnderWay'
  BY <1>1, <1>2, <1>4 DEF RateUnderWay, RateInOrder
<1>7. RateAnswers'
  <2>1. \A x \in R!Symbols : RateIsAnswered(x, cache[x]) => RateIsAnswered(x, cache[x])'
    BY <1>1, <1>4 DEF RateIsAnswered
  <2>2. RateIsAnswered(now, series)' => RateIsAnswered(R!Now, series)'
    BY DEF now
  <2> QED
    BY <1>1, <1>4, <2>1, <2>2 DEF RateAnswers
<1>8. RateRows'
  BY <1>1, <1>4 DEF RateRows, RateSourced
<1>9. R!ModeIsKept'
  BY <1>1, <1>2 DEF R!ModeIsKept
<1> QED
  BY <1>5, <1>6, <1>7, <1>8, <1>9

LEMMA RateWriteStep == ASSUME RateIInv, R!Write PROVE RateIInv'
<1> USE DEF RateIInv
<1>1. /\ rPc = "write" /\ rPc' = "compute" /\ cache' = [cache EXCEPT ![R!Now] = series]
      /\ UNCHANGED <<refresh, offline, vendor, series, results, report, answered, reports>>
      /\ R!Now \in R!Symbols /\ R!Now' = R!Now
  BY RateNow DEF R!Write, R!Now
<1>2. RateIsAnswered(R!Now, series) /\ series \in R!Vendors \X DOMAIN Panel
  BY <1>1 DEF RateAnswers, RateIsAnswered
<1>3. \A x \in R!Symbols : cache'[x] = IF x = R!Now THEN series ELSE cache[x]
  BY <1>1 DEF RateTyped
<1>4. RateTyped'
  <2>1. cache' \in [R!Symbols -> {NoBars, <<"torn">>} \cup (R!Vendors \X DOMAIN Panel)]
    <3> DEFINE C == {NoBars, <<"torn">>} \cup (R!Vendors \X DOMAIN Panel)
    <3>1. series \in C /\ cache \in [R!Symbols -> C]
      BY <1>2 DEF RateTyped
    <3> HIDE DEF C
    <3>2. cache' \in [R!Symbols -> C]
      BY <1>1, <3>1
    <3> QED
      BY <3>2 DEF C
  <2> QED
    BY <1>1, <2>1 DEF RateTyped
<1>5. RateUnderWay'
  BY <1>1 DEF RateUnderWay, RateInOrder
<1>6. RateAnswers'
  <2>1. \A x, b : RateIsAnswered(x, b)' <=> RateIsAnswered(x, b')
    BY <1>1 DEF RateIsAnswered
  <2>2. RateIsAnswered(R!Now, series)'
    BY <1>1, <1>2 DEF RateIsAnswered
  <2>3. ASSUME NEW x \in R!Symbols, cache'[x] \notin {NoBars, <<"torn">>}
        PROVE  RateIsAnswered(x, cache[x])'
    <3>1. CASE x = R!Now
      BY <1>1, <1>2, <1>3, <3>1 DEF RateIsAnswered
    <3>2. CASE x # R!Now
      <4>1. cache'[x] = cache[x] /\ RateIsAnswered(x, cache[x])
        BY <1>3, <2>3, <3>2 DEF RateAnswers
      <4> QED
        BY <1>1, <4>1 DEF RateIsAnswered
    <3> QED
      BY <3>1, <3>2
  <2> QED
    BY <1>1, <2>2, <2>3 DEF RateAnswers
<1>7. RateRows'
  BY <1>1 DEF RateRows, RateSourced
<1>8. R!ModeIsKept'
  BY <1>1 DEF R!ModeIsKept
<1> QED
  BY <1>4, <1>5, <1>6, <1>7, <1>8

LEMMA RateComputeStep == ASSUME RateIInv, R!Compute PROVE RateIInv'
<1>1. rPc = "compute" /\ UNCHANGED <<refresh, offline, vendor, cache, answered, reports>>
  BY DEF R!Compute
<1>2. CASE series = NoBars
  <2>1. RateSourced([symbol |-> R!Now, route |-> "none", source |-> NoBars, series |-> NoBars])
    BY DEF RateSourced
  <2>2. R!Done("none", NoBars, NoBars)
    BY <1>2 DEF R!Compute
  <2> QED
    BY <1>1, <2>1, <2>2, RateDoneStep
<1>3. CASE series # NoBars
  <2>1. RateIsAnswered(R!Now, series)
    BY <1>1, <1>3 DEF RateIInv, RateAnswers
  <2>2. series[1] \in R!Vendors /\ series[2] \in DOMAIN Panel
    BY <2>1 DEF RateIsAnswered
  <2>3. RateSourced([symbol |-> R!Now, route |-> "live", source |-> series[1],
          series |-> series[2]])
    BY <2>1 DEF RateSourced, RateIsAnswered
  <2>4. R!Done("live", series[1], series[2])
    BY <1>3 DEF R!Compute
  <2> QED
    BY <1>1, <2>2, <2>3, <2>4, RateDoneStep
<1> QED
  BY <1>2, <1>3

LEMMA RateCrashStep == ASSUME RateIInv, R!Crash PROVE RateIInv'
<1> USE DEF RateIInv
<1>1. /\ rPc' = "idle" /\ series' = NoBars /\ results' = <<>>
      /\ UNCHANGED <<refresh, offline, vendor, report, answered, reports>>
      /\ cache' = cache \/ cache' = [cache EXCEPT ![R!Now] = <<"torn">>]
      /\ R!Now \in R!Symbols
  BY RateNow DEF R!Crash
<1>2. \A x \in R!Symbols : cache'[x] = cache[x] \/ cache'[x] = <<"torn">>
  BY <1>1 DEF RateTyped
<1>3. RateTyped'
  <2> DEFINE C == {NoBars, <<"torn">>} \cup (R!Vendors \X DOMAIN Panel)
  <2>1. <<"torn">> \in C /\ cache \in [R!Symbols -> C]
    BY DEF RateTyped
  <2> HIDE DEF C
  <2>2. cache' \in [R!Symbols -> C]
    BY <1>1, <2>1
  <2> QED
    BY <1>1, <2>2 DEF RateTyped, C
<1>4. RateUnderWay'
  BY <1>1, RateMonitored DEF RateUnderWay, RateInOrder
<1>5. RateAnswers'
  <2>1. ASSUME NEW x \in R!Symbols, cache'[x] \notin {NoBars, <<"torn">>}
        PROVE  RateIsAnswered(x, cache[x])'
    <3>1. cache'[x] = cache[x] /\ RateIsAnswered(x, cache[x])
      BY <1>2, <2>1 DEF RateAnswers
    <3> QED
      BY <1>1, <3>1 DEF RateIsAnswered
  <2> QED
    BY <1>1, <2>1 DEF RateAnswers
<1>6. RateRows'
  BY <1>1 DEF RateRows, RateSourced
<1>7. R!ModeIsKept'
  BY <1>1 DEF R!ModeIsKept
<1> QED
  BY <1>3, <1>4, <1>5, <1>6, <1>7

LEMMA RateReviseStep ==
    ASSUME RateIInv, NEW k \in R!Symbols \X R!Vendors, NEW v \in Answers[k], R!Revise(k, v)
    PROVE  RateIInv'
<1> USE DEF RateIInv, R!Revise
<1>1. RateTyped'
  <2>1. v \in DOMAIN Panel \cup {NoBars}
    BY RatesAssumption
  <2>2. vendor' \in [R!Symbols \X R!Vendors -> DOMAIN Panel \cup {NoBars}]
    BY <2>1 DEF RateTyped
  <2> QED
    BY <2>2 DEF RateTyped
<1>2. RateUnderWay'
  BY DEF RateUnderWay, RateInOrder
<1>3. RateAnswers'
  BY DEF RateAnswers, RateIsAnswered
<1>4. RateRows'
  BY DEF RateRows, RateSourced
<1>5. R!ModeIsKept'
  BY DEF R!ModeIsKept
<1> QED
  BY <1>1, <1>2, <1>3, <1>4, <1>5

LEMMA RateStutterStep == ASSUME RateIInv, UNCHANGED R!vars PROVE RateIInv'
<1> USE DEF RateIInv, R!vars
<1>1. RateTyped'
  BY DEF RateTyped
<1>2. RateUnderWay'
  BY DEF RateUnderWay, RateInOrder
<1>3. RateAnswers'
  BY DEF RateAnswers, RateIsAnswered, R!Now
<1>4. RateRows'
  BY DEF RateRows, RateSourced
<1>5. R!ModeIsKept'
  BY DEF R!ModeIsKept
<1> QED
  BY <1>1, <1>2, <1>3, <1>4, <1>5

LEMMA RateStepIInv == RateIInv /\ [R!Next]_R!vars => RateIInv'
<1> SUFFICES ASSUME RateIInv, [R!Next]_R!vars PROVE RateIInv'
  OBVIOUS
<1>1. ASSUME NEW fresh \in BOOLEAN, NEW off \in BOOLEAN, R!Start(fresh, off) PROVE RateIInv'
  BY <1>1, RateStartStep
<1>2. ASSUME NEW source \in R!Vendors, NEW answers \in BOOLEAN, R!Ask(source, answers)
      PROVE  RateIInv'
  BY <1>2, RateAskStep
<1>3. ASSUME NEW k \in R!Symbols \X R!Vendors, NEW v \in Answers[k], R!Revise(k, v)
      PROVE  RateIInv'
  BY <1>3, RateReviseStep
<1>4. R!Load \/ R!Write \/ R!Compute \/ R!Crash \/ UNCHANGED R!vars => RateIInv'
  BY RateLoadStep, RateWriteStep, RateComputeStep, RateCrashStep, RateStutterStep
<1> QED
  BY <1>1, <1>2, <1>3, <1>4 DEF R!Next

LEMMA RateIInvHolds == R!Spec => []RateIInv
  BY RateInitIInv, RateStepIInv, PTL DEF R!Spec

(* A report has a row for every symbol, in order, and each series came     *)
(* from where its row says.                                                *)
LEMMA RateReportIsWhole == ASSUME RateIInv PROVE R!ReportIsWhole /\ R!NothingIsInvented
<1> USE DEF RateIInv
<1>1. /\ report \in Seq(R!Rows) /\ Len(report) \in Nat
      /\ \A i \in 1..Len(report) : report[i] \in R!Rows
  BY DEF RateTyped
<1>2. ASSUME report # <<>> PROVE [i \in 1..Len(report) |-> report[i].symbol] = Monitor
  <2>1. /\ Monitor \in Seq(DOMAIN Kinds) /\ DOMAIN Monitor = 1..Len(Monitor)
        /\ Monitor = [i \in 1..Len(Monitor) |-> Monitor[i]]
    BY RatesAssumption
  <2>2. Len(report) = Len(Monitor) /\ \A i \in 1..Len(report) : report[i].symbol = Monitor[i]
    BY <1>2 DEF RateUnderWay, RateInOrder
  <2> QED
    BY <2>1, <2>2
<1>3. \A r : R!Status(r) # "void" <=> ~R!Void(r)
  BY DEF R!Status, R!Exclusion
<1>4. R!VoidExcludedPool(report) = {i \in R!FullPool(report) : R!Status(report[i]) # "void"}
  BY <1>3 DEF R!VoidExcludedPool, R!FullPool, R!Exclusion
<1>5. \A i \in 1..Len(report) :
         R!Flag(report[i]) /\ R!HasCompute(report[i]) => i \in R!VoidExcludedPool(report)
  BY DEF R!VoidExcludedPool, R!Exclusion, R!Flag
<1>6. ASSUME NEW r, r.series = NoBars PROVE R!Status(r) = "excluded"
  <2>1. R!BarsOf(r) = <<>> /\ Len(R!BarsOf(r)) = 0
    BY <1>6 DEF R!BarsOf
  <2>2. ~R!Void(r) /\ ~R!HasCompute(r)
    BY <2>1, RatesAssumption DEF R!Void, R!HasCompute
  <2> QED
    BY <2>2 DEF R!Status, R!Exclusion
<1>7. R!NothingIsInvented
  BY <1>6 DEF R!NothingIsInvented, RateRows, RateSourced
<1> QED
  BY <1>2, <1>4, <1>5, <1>7 DEF R!ReportIsWhole

(* The average true range of a series of bars.                             *)
RateBars(s) ==
    /\ s \in Seq([low : Nat, high : Nat, close : Nat])
    /\ \A t \in 1..Len(s) : s[t].low <= s[t].high

(* A bar has its numbers,                                                  *)
LEMMA RateBarIs ==
    ASSUME NEW s, RateBars(s)
    PROVE  /\ Len(s) \in Nat
           /\ \A u \in 1..Len(s) : s[u] \in [low : Nat, high : Nat, close : Nat]
<1> DEFINE OneBar == [low : Nat, high : Nat, close : Nat]
<1>1. s \in Seq(OneBar)
  BY DEF RateBars
<1> HIDE DEF OneBar
<1>2. Len(s) \in Nat /\ \A u \in 1..Len(s) : s[u] \in OneBar
  BY <1>1
<1> QED
  BY <1>2 DEF OneBar

(* the larger of two is one of them,                                       *)
LEMMA RateLarger ==
    ASSUME NEW a \in Int, NEW b \in Int
    PROVE  R!Larger({a, b}) \in {a, b} /\ a <= R!Larger({a, b}) /\ b <= R!Larger({a, b})
<1>1. \E x \in {a, b} : \A y \in {a, b} : y <= x
  <2>1. CASE a <= b
    BY <2>1
  <2>2. CASE ~(a <= b)
    BY <2>2
  <2> QED
    BY <2>1, <2>2
<1> QED
  BY <1>1 DEF R!Larger

(* and a true range is a number;                                           *)
LEMMA RateTrueRange ==
    ASSUME NEW s, RateBars(s), NEW t \in 2..Len(s)
    PROVE  R!TrueRange(s, t) \in Nat
<1>1. /\ s[t].high \in Nat /\ s[t].low \in Nat /\ s[t - 1].close \in Nat /\ s[t].low <= s[t].high
  <2>1. Len(s) \in Nat /\ \A u \in 1..Len(s) : s[u] \in [low : Nat, high : Nat, close : Nat]
    BY RateBarIs
  <2>2. t \in 1..Len(s) /\ t - 1 \in 1..Len(s)
    BY <2>1
  <2>3. s[t].low <= s[t].high
    BY <2>2 DEF RateBars
  <2> QED
    BY <2>1, <2>2, <2>3
<1> DEFINE up == R!Larger({s[t].high, s[t - 1].close})
           down == R!Larger({-s[t].low, -s[t - 1].close})
<1>2. up \in Int /\ s[t].high <= up
  <2>1. s[t].high \in Int /\ s[t - 1].close \in Int
    BY <1>1
  <2> QED
    BY <2>1, RateLarger
<1>3. -s[t].low \in Int /\ -s[t - 1].close \in Int
  BY <1>1
<1>4. down \in Int /\ -s[t].low <= down
  BY <1>3, RateLarger
<1>5. R!TrueRange(s, t) = up + down
  BY DEF R!TrueRange
<1> HIDE DEF up, down
<1> QED
  BY <1>1, <1>2, <1>4, <1>5

RateRanges(s) == [t \in 2..Len(s) |-> R!TrueRange(s, t)]
RateFirst(s, t) == R!MapThenSumSet(LAMBDA u : R!TrueRange(s, u), 2..t)

(* The average true range of the script, as the recursive function it is,  *)
LEMMA RateAtrIs ==
    ASSUME NEW s, RateBars(s)
    PROVE  Smoothed(R!Atr(s, AtrPeriod), AtrPeriod + 1, Len(s), RateFirst(s, AtrPeriod + 1),
                    AtrPeriod, AtrPeriod - 1, AtrPeriod, RateRanges(s))
<1> DEFINE lo == AtrPeriod + 1
           Recurs(f) == f = [t \in lo..Len(s) |->
                           IF t = lo THEN << RateFirst(s, t), AtrPeriod >>
                           ELSE << f[t - 1][1] * (AtrPeriod - 1) + R!TrueRange(s, t) * f[t - 1][2],
                                   f[t - 1][2] * AtrPeriod >>]
           Same(f) == Smoothed(f, lo, Len(s), RateFirst(s, lo),
                               AtrPeriod, AtrPeriod - 1, AtrPeriod, RateRanges(s))
<1>1. lo \in Nat /\ lo >= 2 /\ Len(s) \in Nat
  BY RatesAssumption DEF RateBars
<1>2. \A f : Same(f) <=> Recurs(f)
  <2> TAKE f
  <2>1. \A t \in lo..Len(s) : RateRanges(s)[t] = R!TrueRange(s, t)
    <3>1. \A t \in lo..Len(s) : t \in 2..Len(s)
      BY <1>1
    <3> QED
      BY <3>1 DEF RateRanges
  <2> HIDE DEF lo
  <2> QED
    BY <2>1 DEF Smoothed
<1>3. \E f : Same(f)
  BY <1>1, SmoothedExists
<1>4. \E f : Recurs(f)
  <2> HIDE DEF Recurs, Same
  <2> QED
    BY <1>2, <1>3
<1>5. R!Atr(s, AtrPeriod) = CHOOSE f : Recurs(f)
  BY DEF R!Atr, RateFirst
<1>6. Recurs(R!Atr(s, AtrPeriod))
  <2> HIDE DEF Recurs
  <2> QED
    BY <1>4, <1>5
<1>7. Same(R!Atr(s, AtrPeriod))
  <2> HIDE DEF Recurs, Same
  <2> QED
    BY <1>2, <1>6
<1> QED
  BY <1>7

(* so is the first sum of them,                                            *)
LEMMA RateFirstIsNat ==
    ASSUME NEW s, RateBars(s), NEW n \in Nat, n <= Len(s)
    PROVE  RateFirst(s, n) \in Nat
<1> DEFINE w == [t \in 2..n |-> R!TrueRange(s, t)]
           g == CHOOSE f : AreSums(f, 2..n, w)
<1>1. w \in [2..n -> Nat]
  <2>1. \A t \in 2..n : t \in 2..Len(s)
    BY DEF RateBars
  <2> QED
    BY <2>1, RateTrueRange
<1>2. IsFiniteSet(2..n)
  BY FS_Interval
<1>3. RateFirst(s, n) = g[2..n]
  BY DEF RateFirst, R!MapThenSumSet, R!MapThenFoldSet, AreSums, Pick
<1>4. AreSums(g, 2..n, w)
  <2> HIDE DEF w
  <2> QED
    BY <1>1, <1>2, SumsExist
<1> HIDE DEF g, w
<1>5. 2..n \in SUBSET (2..n)
  OBVIOUS
<1> QED
  BY <1>1, <1>2, <1>3, <1>4, <1>5, SumsAreNat

(* has a number for numerator and denominator at every bar.                *)
LEMMA RateAtrIsNat ==
    ASSUME NEW s, RateBars(s), NEW t \in AtrPeriod + 1..Len(s)
    PROVE  R!Atr(s, AtrPeriod)[t][1] \in Nat /\ R!Atr(s, AtrPeriod)[t][2] \in Nat
<1> DEFINE lo == AtrPeriod + 1
<1>1. /\ lo \in Nat /\ lo >= 2 /\ Len(s) \in Nat /\ lo <= Len(s)
      /\ AtrPeriod \in Nat /\ AtrPeriod - 1 \in Nat
  <2>1. AtrPeriod \in Nat /\ AtrPeriod >= 1
    BY RatesAssumption
  <2>2. Len(s) \in Nat
    BY DEF RateBars
  <2>3. t \in lo..Len(s)
    BY DEF lo
  <2>4. lo = AtrPeriod + 1
    BY DEF lo
  <2> HIDE DEF lo
  <2> QED
    BY ONLY <2>1, <2>2, <2>3, <2>4
<1>2. RateFirst(s, lo) \in Nat
  BY <1>1, RateFirstIsNat
<1>3. \A u \in lo..Len(s) : RateRanges(s)[u] \in Nat
  <2>1. \A u \in lo..Len(s) : u \in 2..Len(s)
    BY <1>1
  <2> QED
    BY <2>1, RateTrueRange DEF RateRanges
<1>4. Smoothed(R!Atr(s, AtrPeriod), lo, Len(s), RateFirst(s, lo),
                    AtrPeriod, AtrPeriod - 1, AtrPeriod, RateRanges(s))
  BY RateAtrIs
<1> HIDE DEF lo
<1>5. \A u \in lo..Len(s) : R!Atr(s, AtrPeriod)[u][1] \in Nat /\ R!Atr(s, AtrPeriod)[u][2] \in Nat
  BY <1>1, <1>2, <1>3, <1>4, SmoothedIsNat
<1> QED
  BY <1>5 DEF lo

(* The bars of a trial's time that touch either edge; `paid` is the cost   *)
(* taken off both, `scale` what prices are multiplied by.                  *)
RateCost(s, i, net) == IF net THEN s[i].close * Cost[1] * R!Atr(s, AtrPeriod)[i][2] ELSE 0
RateScale(s, i) == R!Atr(s, AtrPeriod)[i][2] * Cost[2]
RateStop(s, i) == StopR * R!Atr(s, AtrPeriod)[i][1] * Cost[2]
RateTarget(s, i) == TargetR * R!Atr(s, AtrPeriod)[i][1] * Cost[2]

RateTouches(s, i, side, paid, t) ==
    LET scale == RateScale(s, i)
        stop == s[i].close * scale - side * (RateStop(s, i) - paid)
        target == s[i].close * scale + side * (RateTarget(s, i) - paid)
    IN  \/ IF side = 1 THEN s[t].high * scale >= target ELSE s[t].low * scale <= target
        \/ IF side = 1 THEN s[t].low * scale <= stop ELSE s[t].high * scale >= stop

RateHits(s, i, side, net) ==
    {t \in i + 1..Len(s) : t <= i + BracketBars /\ RateTouches(s, i, side, RateCost(s, i, net), t)}

(* A trial times out when no bar in time touches an edge.                  *)
LEMMA RateTimeoutIs ==
    ASSUME NEW s, NEW i, NEW side, NEW net
    PROVE  R!Outcome(s, i, side, net) = "timeout" <=> RateHits(s, i, side, net) = {}
BY DEF R!Outcome, RateHits, RateTouches, RateCost, RateScale, RateStop, RateTarget

(* Costs bring both edges nearer.                                          *)
LEMMA RateNetTouches ==
    ASSUME NEW s, RateBars(s), NEW i \in AtrPeriod + 1..Len(s), NEW side \in {1, -1},
           NEW t \in 1..Len(s), RateTouches(s, i, side, RateCost(s, i, FALSE), t)
    PROVE  RateTouches(s, i, side, RateCost(s, i, TRUE), t)
<1> DEFINE a == R!Atr(s, AtrPeriod)[i]
           scale == RateScale(s, i)
           paid == RateCost(s, i, TRUE)
           x == RateStop(s, i)
           y == RateTarget(s, i)
           entry == s[i].close * scale
           high == s[t].high * scale
           low == s[t].low * scale
<1>1. a[1] \in Nat /\ a[2] \in Nat
  BY RateAtrIsNat
<1>2. s[i].close \in Nat /\ s[t].high \in Nat /\ s[t].low \in Nat
  <2>1. Len(s) \in Nat /\ AtrPeriod \in Nat /\ \A u \in 1..Len(s) :
          s[u] \in [low : Nat, high : Nat, close : Nat]
    BY RateBarIs, RatesAssumption
  <2>2. i \in 1..Len(s)
    BY <2>1
  <2> QED
    BY <2>1, <2>2
<1>3. /\ \A p, q \in Nat : p * q \in Nat
      /\ Cost[1] \in Nat /\ Cost[2] \in Nat /\ StopR \in Nat /\ TargetR \in Nat
  BY RatesAssumption
<1> HIDE DEF a
<1>4. scale \in Nat
  BY <1>1, <1>3 DEF RateScale, a
<1>5. paid \in Nat /\ RateCost(s, i, FALSE) = 0
  BY <1>1, <1>2, <1>3 DEF RateCost, a
<1>6. x \in Nat /\ y \in Nat
  BY <1>1, <1>3 DEF RateStop, RateTarget, a
<1> HIDE DEF scale, x, y, paid
<1>7. entry \in Nat /\ high \in Nat /\ low \in Nat
  BY <1>2, <1>3, <1>4
<1>8. \A p : RateTouches(s, i, side, p, t) <=>
         \/ IF side = 1 THEN high >= entry + side * (y - p) ELSE low <= entry + side * (y - p)
         \/ IF side = 1 THEN low <= entry - side * (x - p) ELSE high >= entry - side * (x - p)
  BY DEF RateTouches, scale, x, y
<1> HIDE DEF entry, high, low
<1>9. ASSUME NEW p \in Nat
      PROVE  /\ side = 1 => (RateTouches(s, i, side, p, t)
                              <=> high >= entry + (y - p) \/ low <= entry - (x - p))
             /\ side = -1 => (RateTouches(s, i, side, p, t)
                               <=> low <= entry - (y - p) \/ high >= entry + (x - p))
  <2>1. CASE side = 1
    <3>1. 1 * (y - p) = y - p /\ 1 * (x - p) = x - p
      BY <1>6
    <3>2. RateTouches(s, i, side, p, t)
          <=> high >= entry + 1 * (y - p) \/ low <= entry - 1 * (x - p)
      BY <1>8, <2>1
    <3> QED
      BY <2>1, <3>1, <3>2
  <2>2. CASE side = -1
    <3>1. entry + (-1) * (y - p) = entry - (y - p) /\ entry - (-1) * (x - p) = entry + (x - p)
      BY <1>6, <1>7
    <3>2. RateTouches(s, i, side, p, t)
          <=> low <= entry + (-1) * (y - p) \/ high >= entry - (-1) * (x - p)
      BY <1>8, <2>2
    <3> QED
      BY <2>2, <3>1, <3>2
  <2> QED
    BY <2>1, <2>2
<1>10. RateTouches(s, i, side, 0, t) => RateTouches(s, i, side, paid, t)
  <2>1. 0 \in Nat /\ paid \in Nat
    BY <1>5
  <2>2. CASE side = 1
    <3>1. high >= entry + (y - 0) \/ low <= entry - (x - 0)
          => high >= entry + (y - paid) \/ low <= entry - (x - paid)
      BY <1>5, <1>6, <1>7
    <3> QED
      BY <1>9, <2>1, <2>2, <3>1
  <2>3. CASE side = -1
    <3>1. low <= entry - (y - 0) \/ high >= entry + (x - 0)
          => low <= entry - (y - paid) \/ high >= entry + (x - paid)
      BY <1>5, <1>6, <1>7
    <3> QED
      BY <1>9, <2>1, <2>3, <3>1
  <2> QED
    BY <2>2, <2>3
<1> QED
  BY <1>5, <1>10 DEF paid

(* A trial that ended in time gross ends in time net of cost.              *)
LEMMA RateNetEndsSooner == ASSUME RateIInv PROVE R!NetEndsSooner
<1> SUFFICES ASSUME NEW n \in R!FullPool(report), NEW t \in R!Trials(R!BarsOf(report[n])),
                    NEW side \in {1, -1}
             PROVE  LET s == R!BarsOf(report[n]) IN
                    /\ R!Outcome(s, t, side, TRUE) = "timeout"
                       => R!Outcome(s, t, side, FALSE) = "timeout"
                    /\ R!Regime(s, t) # "none" => t >= SmaSlow
  BY DEF R!NetEndsSooner
<1> DEFINE r == report[n]
           s == R!BarsOf(r)
<1>1. r \in R!Rows /\ Len(s) >= MinBars
  BY DEF R!FullPool, R!HasCompute, RateIInv, RateTyped
<1>2. RateBars(s)
  <2>1. r.series \in DOMAIN Panel \cup {NoBars}
    BY <1>1 DEF R!Rows
  <2> HIDE DEF r
  <2>2. r.series # NoBars
    <3>1. r.series = NoBars => Len(s) = 0
      BY DEF R!BarsOf
    <3> QED
      BY <1>1, <3>1, RatesAssumption
  <2>3. s = Panel[r.series].bars /\ r.series \in DOMAIN Panel
    BY <2>1, <2>2 DEF R!BarsOf
  <2> QED
    BY <2>3, RatesAssumption DEF RateBars
<1>3. Len(s) \in Nat
  BY <1>2, RateBarIs
<1> HIDE DEF s
<1>4. t \in Nat /\ t \in AtrPeriod + 1..Len(s)
  <2>1. t \in AtrPeriod + 1..Len(s) - 1
    BY DEF R!Trials, s
  <2> QED
    BY <1>3, <2>1, RatesAssumption
<1>5. RateHits(s, t, side, FALSE) \subseteq RateHits(s, t, side, TRUE)
  <2>1. \A u \in t + 1..Len(s) : u \in 1..Len(s)
    BY <1>3, <1>4
  <2> QED
    BY <1>2, <1>4, <2>1, RateNetTouches DEF RateHits
<1>6. R!Outcome(s, t, side, TRUE) = "timeout" => R!Outcome(s, t, side, FALSE) = "timeout"
  BY <1>5, RateTimeoutIs
<1>7. R!Regime(s, t) # "none" => t >= SmaSlow
  <2>1. R!Regime(s, t) # "none" => ~(t < SmaSlow)
    BY DEF R!Regime
  <2> QED
    BY <1>4, <2>1, RatesAssumption
<1> QED
  BY <1>6, <1>7 DEF s

LEMMA RateIInvIsSound == RateIInv => R!TypeOK /\ R!RatesAreSound
<1> SUFFICES ASSUME RateIInv PROVE R!TypeOK /\ R!RatesAreSound
  OBVIOUS
<1>1. R!TypeOK
  BY DEF RateIInv, RateTyped, R!TypeOK
<1> QED
  BY <1>1, RateReportIsWhole, RateNetEndsSooner DEF RateIInv, R!RatesAreSound

(* A step of the composition is one of this part, or leaves it alone.      *)
LEMMA RatePart == ResearchSpec => R!Spec
<1>1. ResearchInit => R!Init
  BY DEF ResearchInit
<1>2. [ResearchNext]_researchVars => [R!Next]_R!vars
  BY DEF ResearchNext, researchVars, rateVars, R!vars
<1> QED
  BY <1>1, <1>2, PTL DEF ResearchSpec, R!Spec

-----------------------------------------------------------------------------
(* The listings screen (Listings): rows, scans, what a scan leaves.        *)
ListCalendar == [known : Nat, ingested : Nat, deal : Deals]
ListPanel == [known : Nat, ingested : Nat, inst : Traded, day : Nat, close : Nat, volume : BOOLEAN]
ListEvents == [known : Nat, ingested : Nat]
ListClosed == [known : Nat, ingested : Nat, ret : BOOLEAN]

(* The instance counts as the library does.                                *)
LEMMA ListSameCardinality == \A s : I!Cardinality(s) = Cardinality(s)
BY DEF I!Cardinality, Cardinality

(* In an order that is total, each of n rows has a place of its own.       *)
LEMMA ListPlaces ==
    ASSUME NEW at, IsFiniteSet(at), NEW before \in [at -> SUBSET at],
           \A i \in at : i \notin before[i],
           \A i, j \in at : i # j => j \in before[i] \/ i \in before[j],
           \A i, j \in at : j \in before[i] => before[j] \subseteq before[i]
    PROVE  /\ Cardinality(at) \in Nat
           /\ \A k \in 1..Cardinality(at) : I!Place(before, k) \in at
           /\ \A k, l \in 1..Cardinality(at) :
                 k < l => I!Place(before, k) \in before[I!Place(before, l)]
           /\ \A i \in at : \E k \in 1..Cardinality(at) : I!Place(before, k) = i
<1> DEFINE n == Cardinality(at)
           rank == [i \in at |-> Cardinality(before[i])]
<1>1. n \in Nat
  BY FS_CardinalityType
<1>2. \A i \in at : IsFiniteSet(before[i]) /\ rank[i] \in Nat
  BY FS_Subset, FS_CardinalityType
<1>3. \A i \in at : rank[i] < n
  <2> SUFFICES ASSUME NEW i \in at PROVE rank[i] < n
    OBVIOUS
  <2>1. before[i] \subseteq at /\ before[i] # at
    OBVIOUS
  <2>2. Cardinality(before[i]) <= n /\ (n = Cardinality(before[i]) => at = before[i])
    BY <2>1, FS_Subset
  <2> QED
    BY <1>1, <1>2, <2>1, <2>2
<1>4. \A i, j \in at : j \in before[i] => rank[j] < rank[i]
  <2> SUFFICES ASSUME NEW i \in at, NEW j \in at, j \in before[i] PROVE rank[j] < rank[i]
    OBVIOUS
  <2>1. before[j] \subseteq before[i] /\ before[j] # before[i]
    OBVIOUS
  <2>2. /\ Cardinality(before[j]) <= Cardinality(before[i])
        /\ (Cardinality(before[i]) = Cardinality(before[j]) => before[i] = before[j])
    BY <1>2, <2>1, FS_Subset
  <2> QED
    BY <1>2, <2>1, <2>2
<1>5. \A i, j \in at : rank[i] = rank[j] => i = j
  BY <1>2, <1>4
<1>6. rank \in Injection(at, 0..(n - 1))
  <2>1. rank \in [at -> 0..(n - 1)]
    BY <1>1, <1>2, <1>3
  <2> HIDE DEF rank
  <2> QED
    BY <1>5, <2>1 DEF Injection, IsInjective
<1>7. IsFiniteSet(0..(n - 1)) /\ Cardinality(0..(n - 1)) = n
  BY <1>1, FS_Interval
<1>8. rank \in Surjection(at, 0..(n - 1))
  BY <1>6, <1>7, FS_Injection
<1>9. \A k \in 0..(n - 1) : \E i \in at : rank[i] = k
  BY <1>8 DEF Surjection
<1>10. \A k \in 1..n : I!Place(before, k) \in at /\ rank[I!Place(before, k)] = k - 1
  <2> SUFFICES ASSUME NEW k \in 1..n
               PROVE  I!Place(before, k) \in at /\ rank[I!Place(before, k)] = k - 1
    OBVIOUS
  <2>1. k - 1 \in 0..(n - 1)
    BY <1>1
  <2>2. \E i \in at : Cardinality(before[i]) = k - 1
    BY <1>9, <2>1
  <2>3. I!Place(before, k) = CHOOSE i \in at : Cardinality(before[i]) = k - 1
    BY ListSameCardinality DEF I!Place
  <2> QED
    BY <2>2, <2>3
<1>11. \A k, l \in 1..n : k < l => I!Place(before, k) \in before[I!Place(before, l)]
  <2> SUFFICES ASSUME NEW k \in 1..n, NEW l \in 1..n, k < l
               PROVE  I!Place(before, k) \in before[I!Place(before, l)]
    OBVIOUS
  <2>1. I!Place(before, k) # I!Place(before, l)
    <3>1. rank[I!Place(before, k)] = k - 1 /\ rank[I!Place(before, l)] = l - 1
      BY <1>10
    <3>2. k - 1 # l - 1
      BY <1>1
    <3> HIDE DEF rank
    <3> QED
      BY <3>1, <3>2
  <2>2. ~(I!Place(before, l) \in before[I!Place(before, k)])
    <3>1. rank[I!Place(before, k)] = k - 1 /\ rank[I!Place(before, l)] = l - 1
      BY <1>10
    <3>2. ~(l - 1 < k - 1)
      BY <1>1
    <3> HIDE DEF rank
    <3> QED
      BY <1>4, <1>10, <3>1, <3>2
  <2> QED
    BY <1>10, <2>1, <2>2
<1>12. \A i \in at : \E k \in 1..n : I!Place(before, k) = i
  <2> SUFFICES ASSUME NEW i \in at PROVE \E k \in 1..n : I!Place(before, k) = i
    OBVIOUS
  <2> DEFINE k == rank[i] + 1
  <2>1. k \in 1..n /\ k - 1 = rank[i]
    BY <1>1, <1>2, <1>3
  <2> HIDE DEF k
  <2>2. rank[I!Place(before, k)] = rank[i] /\ I!Place(before, k) \in at
    BY <1>10, <2>1
  <2> QED
    BY <1>5, <2>1, <2>2
<1> QED
  BY <1>1, <1>10, <1>11, <1>12

(* What is kept of a file has its order, and nothing else.                 *)
LEMMA ListKept ==
    ASSUME NEW file, NEW at, at \subseteq Nat, IsFiniteSet(at)
    PROVE  LET before == [i \in at |-> {j \in at : j < i}]
               n == Cardinality(at)
               place(k) == I!Place(before, k)
           IN  /\ I!Kept(file, at) = [k \in 1..n |-> file[place(k)]]
               /\ n \in Nat
               /\ \A k \in 1..n : place(k) \in at
               /\ \A k, l \in 1..n : k < l => place(k) < place(l)
               /\ \A i \in at : \E k \in 1..n : place(k) = i
<1> DEFINE before == [i \in at |-> {j \in at : j < i}]
           n == Cardinality(at)
<1>1. /\ before \in [at -> SUBSET at]
      /\ \A i \in at : i \notin before[i]
      /\ \A i, j \in at : i # j => j \in before[i] \/ i \in before[j]
      /\ \A i, j \in at : j \in before[i] => before[j] \subseteq before[i]
  <2>1. before \in [at -> SUBSET at]
    OBVIOUS
  <2>2. \A i \in at : before[i] = {j \in at : j < i}
    OBVIOUS
  <2>3. \A i, j \in at : i # j => j < i \/ i < j
    OBVIOUS
  <2>4. \A i, j, k \in at : j < i /\ k < j => k < i
    OBVIOUS
  <2>5. \A i \in at : ~(i < i)
    OBVIOUS
  <2> HIDE DEF before
  <2>6. \A i \in at : i \notin before[i]
    BY <2>2, <2>5
  <2>7. \A i, j \in at : i # j => j \in before[i] \/ i \in before[j]
    BY <2>2, <2>3
  <2>8. \A i, j \in at : j \in before[i] => before[j] \subseteq before[i]
    BY <2>2, <2>4
  <2> QED
    BY <2>1, <2>6, <2>7, <2>8
<1>2. DOMAIN before = at /\ \A i, j \in at : j \in before[i] <=> j < i
  OBVIOUS
<1>3. I!Kept(file, at) = [k \in 1..n |-> file[I!Place(before, k)]]
  BY <1>2, ListSameCardinality DEF I!Kept, I!Arranged
<1> HIDE DEF before
<1>4. /\ n \in Nat
      /\ \A k \in 1..n : I!Place(before, k) \in at
      /\ \A k, l \in 1..n : k < l => I!Place(before, k) \in before[I!Place(before, l)]
      /\ \A i \in at : \E k \in 1..n : I!Place(before, k) = i
  <2>1. IsFiniteSet(at)
    OBVIOUS
  <2>2. before \in [at -> SUBSET at]
    BY <1>1
  <2>3. \A i \in at : i \notin before[i]
    BY <1>1
  <2>4. \A i, j \in at : i # j => j \in before[i] \/ i \in before[j]
    BY <1>1
  <2>5. \A i, j \in at : j \in before[i] => before[j] \subseteq before[i]
    BY <1>1
  <2>6. n \in Nat
    BY <2>1, FS_CardinalityType
  <2>7. \A k \in 1..n : I!Place(before, k) \in at
    BY <2>1, <2>2, <2>3, <2>4, <2>5, ListPlaces
  <2>8. \A k, l \in 1..n : k < l => I!Place(before, k) \in before[I!Place(before, l)]
    BY <2>1, <2>2, <2>3, <2>4, <2>5, ListPlaces
  <2>9. \A i \in at : \E k \in 1..n : I!Place(before, k) = i
    BY ONLY <2>1, <2>2, <2>3, <2>4, <2>5, ListPlaces DEF n
  <2> QED
    BY <2>6, <2>7, <2>8, <2>9
<1>5. \A k, l \in 1..n : k < l => I!Place(before, k) < I!Place(before, l)
  BY <1>2, <1>4
<1> QED
  BY <1>3, <1>4, <1>5 DEF before

ListPast(file, t) == \A i \in 1..Len(file) :
    file[i].known <= file[i].ingested /\ file[i].ingested <= t

ListTyped ==
    /\ lNow \in 1..MaxTime /\ stamped \in BOOLEAN /\ scans \in 0..MaxScans
    /\ deals \in Seq(ListCalendar) /\ prices \in Seq(ListPanel)
    /\ events \in Seq(ListEvents) /\ outcomes \in Seq(ListClosed)
    /\ ListPast(deals, lNow) /\ ListPast(prices, lNow)
    /\ ListPast(events, lNow) /\ ListPast(outcomes, lNow)

(* What is true of a run on its own: of each idea, and of the whole.       *)
ListIdeaIsFair(idea, r) ==
    /\ idea.observe = (idea.liquidity = "untradeable")
    /\ idea.track.status = "ok" => I!Unsaid(idea) \subseteq {"liquidity"}
    /\ idea.verdict = "MONITOR" => ~idea.observe /\ r.snap.base.claimed
    /\ idea.math = r.math[idea.inst]

ListRunIsFair(r) ==
    /\ r.percent \in 0..100
    /\ r.empty = (~r.missing /\ r.snap.ideas = <<>> /\ r.snap.index = <<>>)
    /\ r.status = IF r.empty \/ r.snap.quality = "ok" THEN "OK" ELSE "DEGRADED"
    /\ r.snap.quality = I!Quality(r.snap.ideas, r.missing)
    /\ r.snap.base.claimed => r.snap.base.n >= DealsNMin
    /\ r.snap.ideas # <<>> => 1 \in DOMAIN r.snap.ideas
    /\ \A i \in DOMAIN r.snap.ideas : ListIdeaIsFair(r.snap.ideas[i], r)

(* A close below the level and a later one, as the bars became known, that *)
(* is not: both are in the panel still.                                    *)
ListFellAndRose(inst, cut, level) ==
    \E q, t \in DOMAIN prices :
        /\ prices[q].inst = inst /\ I!Visible(prices[q], cut)
        /\ prices[t].inst = inst /\ I!Visible(prices[t], cut)
        /\ q # t /\ I!ComesFirst(q, t)
        /\ prices[q].close < level /\ level <= prices[t].close

ListIsEarned(r, cut) ==
    \A i \in DOMAIN r.snap.ideas : r.snap.ideas[i].verdict = "MONITOR" =>
        \E level \in {r.snap.ideas[i].price, r.snap.ideas[i].track.vwap} \ {NoBars} :
            ListFellAndRose(r.snap.ideas[i].inst, cut, level)

ListRuns ==
    \A c \in DOMAIN sessions :
        /\ c \in Nat /\ c < lNow
        /\ ListRunIsFair(sessions[c]) /\ ListIsEarned(sessions[c], c)

ListIInv == ListTyped /\ ListRuns /\ I!ReplayIsStable

-----------------------------------------------------------------------------
LEMMA ListVisible ==
    ASSUME NEW file, NEW n \in Nat, DOMAIN file = 1..n, NEW cut
    PROVE  LET at == {i \in 1..n : I!Visible(file[i], cut)}
               seen == I!VisibleRows(file, cut)
           IN  /\ at \subseteq Nat /\ IsFiniteSet(at) /\ Cardinality(at) <= n
               /\ Cardinality(at) \in Nat
               /\ seen = I!Kept(file, at)
               /\ DOMAIN seen = 1..Cardinality(at)
               /\ \A k \in DOMAIN seen : \E i \in 1..n : seen[k] = file[i]
<1> DEFINE at == {i \in 1..n : I!Visible(file[i], cut)}
           before == [i \in at |-> {j \in at : j < i}]
<1>1. IsFiniteSet(1..n) /\ Cardinality(1..n) = n
  BY FS_Interval
<1>2. IsFiniteSet(at) /\ Cardinality(at) <= n /\ at \subseteq Nat
  BY <1>1, FS_Subset
<1>3. I!VisibleRows(file, cut) = I!Kept(file, at)
  BY DEF I!VisibleRows
<1>4. at \subseteq 1..n
  OBVIOUS
<1> HIDE DEF at
<1>5. /\ I!Kept(file, at) = [k \in 1..Cardinality(at) |-> file[I!Place(before, k)]]
      /\ Cardinality(at) \in Nat
      /\ \A k \in 1..Cardinality(at) : I!Place(before, k) \in at
  BY ONLY <1>2, ListKept
<1> HIDE DEF before
<1>6. \A k \in 1..Cardinality(at) : \E i \in 1..n : I!Kept(file, at)[k] = file[i]
  BY <1>4, <1>5
<1> QED
  BY <1>2, <1>3, <1>5, <1>6 DEF at

(* Rows that come later than a cut are not seen at the cut.                *)
LEMMA ListKeptSame ==
    ASSUME NEW file, NEW more, NEW at, at \subseteq Nat, IsFiniteSet(at),
           \A i \in at : file[i] = more[i]
    PROVE  I!Kept(file, at) = I!Kept(more, at)
<1> DEFINE before == [i \in at |-> {j \in at : j < i}]
<1>1. /\ I!Kept(file, at) = [k \in 1..Cardinality(at) |-> file[I!Place(before, k)]]
      /\ \A k \in 1..Cardinality(at) : I!Place(before, k) \in at
  BY ListKept
<1>2. I!Kept(more, at) = [k \in 1..Cardinality(at) |-> more[I!Place(before, k)]]
  BY ListKept
<1> HIDE DEF before
<1> QED
  BY <1>1, <1>2

(* A row that is not visible at a cut changes nothing of what is seen at   *)
(* it,                                                                     *)
LEMMA ListVisibleSame ==
    ASSUME NEW K, NEW file \in Seq(K), NEW entry \in K, NEW cut, ~I!Visible(entry, cut)
    PROVE  I!VisibleRows(Append(file, entry), cut) = I!VisibleRows(file, cut)
<1> DEFINE n == Len(file)
           more == Append(file, entry)
           at == {i \in 1..n : I!Visible(file[i], cut)}
<1>1. /\ n \in Nat /\ DOMAIN file = 1..n /\ DOMAIN more = 1..(n + 1)
      /\ more[n + 1] = entry /\ \A i \in 1..n : more[i] = file[i]
  OBVIOUS
<1> HIDE DEF n, more
<1>2. {i \in 1..(n + 1) : I!Visible(more[i], cut)} = at
  BY <1>1
<1>3. I!VisibleRows(file, cut) = I!Kept(file, at) /\ at \subseteq Nat /\ IsFiniteSet(at)
  <2>1. IsFiniteSet(1..n) /\ at \subseteq 1..n
    <3>1. n \in Int /\ 1 \in Int
      BY <1>1
    <3>2. IsFiniteSet(1..n)
      BY ONLY <3>1, FS_Interval
    <3> QED
      BY <3>2
  <2>2. IsFiniteSet(at)
    BY <2>1, FS_Subset
  <2>3. I!VisibleRows(file, cut) = I!Kept(file, at)
    <3>1. 1..n = DOMAIN file
      BY <1>1
    <3> QED
      BY ONLY <3>1 DEF I!VisibleRows
  <2>4. at \subseteq Nat
    <3>1. 1..n \subseteq Nat
      BY <1>1
    <3> QED
      BY ONLY <2>1, <3>1
  <2> QED
    BY ONLY <2>2, <2>3, <2>4
<1>4. I!VisibleRows(more, cut) = I!Kept(more, at)
  BY <1>1, <1>2 DEF I!VisibleRows
<1>5. \A i \in at : file[i] = more[i]
  BY <1>1
<1> HIDE DEF at
<1>6. I!Kept(file, at) = I!Kept(more, at)
  BY <1>3, <1>5, ListKeptSame
<1> QED
  BY <1>3, <1>4, <1>6 DEF more

(* The bars of an instrument at a cut are in the order they became known.  *)
ListSeen(inst, cut) ==
    {i \in 1..Len(prices) : prices[i].inst = inst /\ I!Visible(prices[i], cut)}
ListOrder(at) == [i \in at |-> {j \in at : I!ComesFirst(j, i)}]
ListPlace(inst, cut, k) == I!Place(ListOrder(ListSeen(inst, cut)), k)
ListCount(inst, cut) == Cardinality(ListSeen(inst, cut))

LEMMA ListBars ==
    ASSUME ListTyped, NEW inst, NEW cut
    PROVE  /\ ListCount(inst, cut) \in Nat
           /\ I!BarsOf(inst, cut) =
                 [k \in 1..ListCount(inst, cut) |-> prices[ListPlace(inst, cut, k)]]
           /\ \A k \in 1..ListCount(inst, cut) : ListPlace(inst, cut, k) \in ListSeen(inst, cut)
           /\ \A k, l \in 1..ListCount(inst, cut) :
                 k < l => I!ComesFirst(ListPlace(inst, cut, k), ListPlace(inst, cut, l))
           /\ \A i \in ListSeen(inst, cut) :
                 \E k \in 1..ListCount(inst, cut) : ListPlace(inst, cut, k) = i
<1> DEFINE at == ListSeen(inst, cut)
           before == ListOrder(at)
           n == ListCount(inst, cut)
<1>1. Len(prices) \in Nat /\ DOMAIN prices = 1..Len(prices)
  BY DEF ListTyped
<1>2. \A i \in 1..Len(prices) : /\ prices[i].known \in Nat /\ prices[i].day \in Nat
  <2>1. \A i \in 1..Len(prices) : prices[i] \in ListPanel
    BY <1>1 DEF ListTyped
  <2> QED
    BY <2>1 DEF ListPanel
<1>3. IsFiniteSet(1..Len(prices))
  <2>1. Len(prices) \in Int /\ 1 \in Int
    BY <1>1
  <2> QED
    BY ONLY <2>1, FS_Interval
<1>4. at \subseteq 1..Len(prices) /\ n = Cardinality(at)
  BY DEF ListSeen, ListCount
<1>5. IsFiniteSet(at)
  BY <1>3, <1>4, FS_Subset
<1>6. /\ \A i \in at : ~I!ComesFirst(i, i)
      /\ \A i, j \in at : i # j => I!ComesFirst(j, i) \/ I!ComesFirst(i, j)
      /\ \A i, j, k \in at : I!ComesFirst(j, i) /\ I!ComesFirst(k, j) => I!ComesFirst(k, i)
  <2>1. \A i \in at : i \in Nat /\ prices[i].known \in Nat /\ prices[i].day \in Nat
    BY <1>1, <1>2, <1>4
  <2> HIDE DEF at
  <2> QED
    BY <2>1 DEF I!ComesFirst, I!Earlier
<1>7. I!BarsOf(inst, cut) = [k \in 1..n |-> prices[I!Place(before, k)]]
  BY <1>1, ListSameCardinality
     DEF I!BarsOf, I!InKnowledgeOrder, I!Arranged, ListSeen, ListOrder, ListCount
<1> HIDE DEF at
<1>8. /\ before \in [at -> SUBSET at]
      /\ \A i, j \in at : j \in before[i] <=> I!ComesFirst(j, i)
  BY DEF ListOrder
<1> HIDE DEF before
<1>9. \A i \in at : i \notin before[i]
  BY <1>6, <1>8
<1>10. \A i, j \in at : i # j => j \in before[i] \/ i \in before[j]
  BY <1>6, <1>8
<1>11. \A i, j \in at : j \in before[i] => before[j] \subseteq before[i]
  <2>1. \A i \in at : before[i] \subseteq at
    BY <1>8
  <2> QED
    BY <1>6, <1>8, <2>1
<1>12. n \in Nat
  BY <1>4, <1>5, FS_CardinalityType
<1>13. n = Cardinality(at)
  BY <1>4
<1> HIDE DEF n
<1>14. \A k \in 1..n : I!Place(before, k) \in at
  BY ONLY <1>5, <1>8, <1>9, <1>10, <1>11, <1>13, ListPlaces
<1>15. \A k, l \in 1..n : k < l => I!Place(before, k) \in before[I!Place(before, l)]
  BY ONLY <1>5, <1>8, <1>9, <1>10, <1>11, <1>13, ListPlaces
<1>16. \A i \in at : \E k \in 1..n : I!Place(before, k) = i
  BY ONLY <1>5, <1>8, <1>9, <1>10, <1>11, <1>13, ListPlaces
<1>17. \A k, l \in 1..n : k < l => I!ComesFirst(I!Place(before, k), I!Place(before, l))
  BY <1>8, <1>14, <1>15
<1> QED
  BY <1>7, <1>12, <1>14, <1>16, <1>17 DEF before, at, n, ListPlace

(* A bar that was not known, or not yet ingested, at a cut is not seen.    *)
LEMMA ListBarsSame ==
    ASSUME ListTyped, NEW entry \in ListPanel, prices' = Append(prices, entry),
           NEW cut, ~I!Visible(entry, cut)
    PROVE  \A x : I!BarsOf(x, cut)' = I!BarsOf(x, cut)
<1> SUFFICES ASSUME NEW x PROVE I!BarsOf(x, cut)' = I!BarsOf(x, cut)
  OBVIOUS
<1> DEFINE n == Len(prices)
           at == ListSeen(x, cut)
           before == ListOrder(at)
           more == Append(prices, entry)
           later(j, i) == \/ I!Earlier(more[j], more[i])
                          \/ ~I!Earlier(more[i], more[j]) /\ j < i
<1>1. /\ n \in Nat /\ DOMAIN prices = 1..n /\ DOMAIN more = 1..(n + 1)
      /\ more[n + 1] = entry /\ \A i \in 1..n : more[i] = prices[i]
  BY DEF ListTyped
<1>2. {i \in DOMAIN more : more[i].inst = x /\ I!Visible(more[i], cut)} = at
  <2> HIDE DEF more
  <2> QED
    BY <1>1 DEF ListSeen
<1>3. I!BarsOf(x, cut) = [k \in 1..Cardinality(at) |-> prices[I!Place(before, k)]]
  BY ListBars DEF ListPlace, ListCount
<1>4. \A k \in 1..Cardinality(at) : I!Place(before, k) \in at
  BY ListBars DEF ListPlace, ListCount
<1>5. I!BarsOf(x, cut)' =
        LET now_at == {i \in DOMAIN more : more[i].inst = x /\ I!Visible(more[i], cut)}
            b == [i \in now_at |-> {j \in now_at : later(j, i)}]
        IN  [k \in 1..Cardinality(now_at) |-> more[I!Place(b, k)]]
  BY ListSameCardinality
     DEF I!BarsOf, I!InKnowledgeOrder, I!Arranged, I!ComesFirst
<1>6. \A i, j \in at : later(j, i) <=> I!ComesFirst(j, i)
  <2>1. at \subseteq 1..n
    BY DEF ListSeen
  <2> HIDE DEF at, n, more
  <2> QED
    BY <1>1, <2>1 DEF I!ComesFirst
<1>7. [i \in at |-> {j \in at : later(j, i)}] = before
  <2> HIDE DEF at, later
  <2> QED
    BY <1>6 DEF ListOrder
<1>8. I!BarsOf(x, cut)' = [k \in 1..Cardinality(at) |-> more[I!Place(before, k)]]
  <2> HIDE DEF at, later, more, before
  <2> QED
    BY <1>2, <1>5, <1>7
<1>9. at \subseteq 1..n
  BY DEF ListSeen
<1> HIDE DEF at, before, more, n
<1> QED
  BY <1>1, <1>3, <1>4, <1>8, <1>9

(* hence neither the track of a deal                                       *)
LEMMA ListTrackSame ==
    ASSUME NEW d, NEW cut, \A x : I!BarsOf(x, cut)' = I!BarsOf(x, cut)
    PROVE  I!Track(d, cut)' = I!Track(d, cut)
<1>1. I!BarsOf(d.inst, cut)' = I!BarsOf(d.inst, cut)
  OBVIOUS
<1> QED
  BY ONLY <1>1 DEF I!Track

(* nor the whole snapshot.                                                 *)
LEMMA ListSnapshotSame ==
    ASSUME NEW cut, NEW missing, NEW math,
           I!VisibleRows(deals, cut)' = I!VisibleRows(deals, cut),
           I!VisibleRows(events, cut)' = I!VisibleRows(events, cut),
           I!VisibleRows(outcomes, cut)' = I!VisibleRows(outcomes, cut),
           \A x : I!BarsOf(x, cut)' = I!BarsOf(x, cut)
    PROVE  I!Snapshot(cut, missing, math)' = I!Snapshot(cut, missing, math)
<1>1. \A d : I!Track(d, cut)' = I!Track(d, cut)
  BY ListTrackSame
<1>2. I!BaseRate(cut)' = I!BaseRate(cut)
  BY DEF I!BaseRate
<1> QED
  BY <1>1, <1>2 DEF I!Snapshot

(* A sequence of no rows is the empty one.                                 *)
LEMMA ListNone == ASSUME NEW f, f = [k \in 1..0 |-> f[k]] PROVE f = <<>>
<1>1. f \in Seq({}) /\ Len(f) = 0
  OBVIOUS
<1> QED
  BY <1>1

(* What is kept of the bars seen: some of them, in their order.            *)
ListTakenFrom(rest, seen, n) ==
    /\ \E p \in Nat : DOMAIN rest = 1..p
    /\ \A k \in DOMAIN rest : \E i \in 1..n : rest[k] = seen[i]
    /\ \A k, l \in DOMAIN rest : k < l =>
          \E i, j \in 1..n : i < j /\ rest[k] = seen[i] /\ rest[l] = seen[j]
    /\ n = 0 => rest = <<>>

(* Rows kept are taken from the rows there were, in their order.           *)
LEMMA ListRest ==
    ASSUME NEW seen, NEW n \in Nat, NEW at, at \subseteq 1..n
    PROVE  ListTakenFrom(I!Kept(seen, at), seen, n)
<1> DEFINE before == [i \in at |-> {j \in at : j < i}]
           p == Cardinality(at)
           post == I!Kept(seen, at)
<1>1. IsFiniteSet(at) /\ at \subseteq Nat
  <2>1. n \in Int /\ 1 \in Int
    OBVIOUS
  <2>2. IsFiniteSet(1..n)
    BY ONLY <2>1, FS_Interval
  <2>3. IsFiniteSet(at)
    BY <2>2, FS_Subset
  <2> QED
    BY <2>3
<1>2. /\ post = [k \in 1..p |-> seen[I!Place(before, k)]]
      /\ p \in Nat
      /\ \A k \in 1..p : I!Place(before, k) \in at
      /\ \A k, l \in 1..p : k < l => I!Place(before, k) < I!Place(before, l)
  BY ONLY <1>1, ListKept
<1>3. n = 0 => at = {}
  OBVIOUS
<1>4. at = {} => p = 0
  BY FS_EmptySet
<1> HIDE DEF before, p
<1>5. p = 0 => post = <<>>
  <2> SUFFICES ASSUME p = 0 PROVE post = <<>>
    OBVIOUS
  <2>1. post = [k \in 1..0 |-> post[k]]
    BY <1>2
  <2> QED
    BY <2>1, ListNone
<1>6. DOMAIN post = 1..p
  BY <1>2
<1>7. \A k \in 1..p : I!Place(before, k) \in 1..n /\ post[k] = seen[I!Place(before, k)]
  BY <1>2
<1> HIDE DEF post
<1>8. \A k \in DOMAIN post : \E i \in 1..n : post[k] = seen[i]
  BY <1>6, <1>7
<1>9. \A k, l \in DOMAIN post : k < l =>
          \E i, j \in 1..n : i < j /\ post[k] = seen[i] /\ post[l] = seen[j]
  BY <1>2, <1>6, <1>7
<1>10. ListTakenFrom(post, seen, n)
  BY <1>2, <1>3, <1>4, <1>5, <1>6, <1>8, <1>9 DEF ListTakenFrom
<1> QED
  BY <1>10 DEF post

ListPost(d, seen) ==
    I!Kept(seen, {i \in DOMAIN seen : d.listed # NoBars /\ seen[i].day >= d.listed})
ListFirst(d, post) == I!Kept(post, {i \in DOMAIN post : post[i].day = d.listed})

(* The bars since the listing day are taken from the bars seen, and a      *)
(* first day is one of them.                                               *)
LEMMA ListPostIs ==
    ASSUME NEW d, NEW n \in Nat, NEW seen, DOMAIN seen = 1..n
    PROVE  /\ ListTakenFrom(ListPost(d, seen), seen, n)
           /\ ListFirst(d, ListPost(d, seen)) # <<>> => 1 \in DOMAIN ListPost(d, seen)
<1> DEFINE at == {i \in DOMAIN seen : d.listed # NoBars /\ seen[i].day >= d.listed}
           post == ListPost(d, seen)
<1>1. at \subseteq 1..n /\ post = I!Kept(seen, at)
  BY DEF ListPost
<1> HIDE DEF at, post
<1>2. ListTakenFrom(post, seen, n)
  BY <1>1, ListRest
<1>3. ListFirst(d, post) # <<>> => 1 \in DOMAIN post
  <2>1. PICK k \in Nat : DOMAIN post = 1..k
    BY <1>2 DEF ListTakenFrom
  <2> DEFINE on == {i \in DOMAIN post : post[i].day = d.listed}
  <2>2. ListFirst(d, post) = I!Kept(post, on) /\ on \subseteq 1..k
    BY <2>1 DEF ListFirst
  <2> HIDE DEF on
  <2>3. ListTakenFrom(I!Kept(post, on), post, k)
    BY <2>1, <2>2, ListRest
  <2> QED
    BY <2>1, <2>2, <2>3 DEF ListTakenFrom
<1> QED
  BY <1>2, <1>3 DEF post

(* A row of the panel has a close, a day and the time it became known.     *)
LEMMA ListBarIs ==
    ASSUME ListTyped, NEW i \in 1..Len(prices)
    PROVE  /\ prices[i] \in ListPanel /\ prices[i].known \in Nat /\ prices[i].day \in Nat
           /\ prices[i].close \in Nat
<1>1. prices \in Seq(ListPanel) /\ Len(prices) \in Nat /\ DOMAIN prices = 1..Len(prices)
  BY DEF ListTyped
<1>2. prices[i] \in ListPanel
  BY <1>1
<1> QED
  BY <1>2 DEF ListPanel

ListTrackOf(d, seen) ==
    I!Tracked(d, seen, ListPost(d, seen), ListFirst(d, ListPost(d, seen)),
              I!Gaps(d, seen, ListPost(d, seen), ListFirst(d, ListPost(d, seen))))

(* A track is a function of its deal and of the bars seen.                 *)
LEMMA ListTrackIs ==
    ASSUME NEW d, NEW cut PROVE I!Track(d, cut) = ListTrackOf(d, I!BarsOf(d.inst, cut))
BY DEF I!Track, ListTrackOf, ListPost, ListFirst

(* A track without a gap has a number of each kind.                        *)
LEMMA ListOkIsWhole ==
    ASSUME ListTyped, NEW d, NEW cut, I!Track(d, cut).status = "ok"
    PROVE  LET t == I!Track(d, cut) IN
           d.offer # NoBars /\ NoBars \notin {t.ret30, t.ret90, t.vwap, t.trough}
<1> DEFINE seen == I!BarsOf(d.inst, cut)
           n == ListCount(d.inst, cut)
           post == ListPost(d, seen)
           first == ListFirst(d, post)
           gaps == I!Gaps(d, seen, post, first)
           t == I!Track(d, cut)
<1>1. t = I!Tracked(d, seen, post, first, gaps)
  BY ListTrackIs DEF ListTrackOf
<1>2. n \in Nat /\ DOMAIN seen = 1..n /\ \A k \in 1..n : seen[k].close \in Nat
  <2>1. /\ n \in Nat /\ seen = [k \in 1..n |-> prices[ListPlace(d.inst, cut, k)]]
        /\ \A k \in 1..n : ListPlace(d.inst, cut, k) \in ListSeen(d.inst, cut)
    BY ListBars
  <2>2. ListSeen(d.inst, cut) \subseteq 1..Len(prices)
    BY DEF ListSeen
  <2> HIDE DEF seen, n
  <2>3. \A k \in 1..n : prices[ListPlace(d.inst, cut, k)].close \in Nat
    BY <2>1, <2>2, ListBarIs
  <2> QED
    BY <2>1, <2>3
<1> HIDE DEF n, seen
<1>3. ListTakenFrom(post, seen, n) /\ (first # <<>> => 1 \in DOMAIN post)
  BY <1>2, ListPostIs
<1> HIDE DEF post, first
<1>4. seen # <<>> /\ gaps = {}
  <2> HIDE DEF gaps, t
  <2>1. t.status = (IF seen = <<>> THEN "unavailable" ELSE IF gaps # {} THEN "partial" ELSE "ok")
    BY <1>1 DEF I!Tracked
  <2> QED
    BY <2>1 DEF t
<1>5. d.listed # NoBars
  <2>1. d.listed = NoBars => "listing_date" \in gaps
    BY DEF I!Gaps
  <2> QED
    BY <1>4, <2>1
<1>6. first # <<>>
  <2>1. first = <<>> => "day1_bars" \in gaps
    BY <1>5 DEF I!Gaps
  <2> QED
    BY <1>4, <2>1
<1>7. I!Vwap(first) # NoBars
  <2>1. I!Vwap(first) = NoBars => "day1_vwap" \in gaps
    BY <1>6 DEF I!Gaps
  <2> QED
    BY <1>4, <2>1
<1>8. d.offer # NoBars
  <2>1. d.offer = NoBars => "offer_price" \in gaps
    BY DEF I!Gaps
  <2> QED
    BY <1>4, <2>1
<1>9. I!Path(d, post, Spans[1]) # NoBars
  <2>1. I!Path(d, post, Spans[1]) = NoBars => "ret_30d" \in gaps
    BY <1>4, <1>5 DEF I!Gaps
  <2> QED
    BY <1>4, <2>1
<1>10. I!Path(d, post, Spans[2]) # NoBars
  <2>1. I!Path(d, post, Spans[2]) = NoBars => "ret_90d" \in gaps
    BY <1>4, <1>5 DEF I!Gaps
  <2> QED
    BY <1>4, <2>1
<1>11. I!Min({post[i].close : i \in DOMAIN post}) \in Nat
  <2> DEFINE low == {post[i].close : i \in DOMAIN post}
  <2>1. \A i \in DOMAIN post : post[i].close \in Nat
    BY <1>2, <1>3 DEF ListTakenFrom
  <2>2. low \subseteq Nat /\ low # {}
    BY <1>3, <1>6, <2>1
  <2> HIDE DEF low
  <2>3. \E x \in low : \A y \in low : x <= y
    BY <2>2, NatLeast
  <2> QED
    BY <2>2, <2>3 DEF I!Min, low
<1> HIDE DEF gaps, t
<1>12. /\ t.ret30 = I!Path(d, post, Spans[1]) /\ t.ret90 = I!Path(d, post, Spans[2])
       /\ t.vwap = I!Vwap(first) /\ t.trough = I!Min({post[i].close : i \in DOMAIN post})
  BY <1>1, <1>6 DEF I!Tracked
<1> QED
  BY <1>7, <1>8, <1>9, <1>10, <1>11, <1>12, ListingsAssumption DEF t

(* A level that is said to be reclaimed was fallen below and met again.    *)
LEMMA ListReclaimedIs ==
    ASSUME ListTyped, NEW d, NEW cut, NEW level,
           I!Reclaimed(ListPost(d, I!BarsOf(d.inst, cut)), level) = TRUE
    PROVE  level # NoBars /\ ListFellAndRose(d.inst, cut, level)
<1> DEFINE seen == I!BarsOf(d.inst, cut)
           n == ListCount(d.inst, cut)
           post == ListPost(d, seen)
           place(k) == ListPlace(d.inst, cut, k)
<1>1. /\ n \in Nat /\ seen = [k \in 1..n |-> prices[place(k)]]
      /\ \A k \in 1..n : place(k) \in ListSeen(d.inst, cut)
      /\ \A k, l \in 1..n : k < l => I!ComesFirst(place(k), place(l))
  BY ListBars
<1>2. ListTakenFrom(post, seen, n)
  <2>1. DOMAIN seen = 1..n
    BY <1>1
  <2> HIDE DEF seen, n
  <2> QED
    BY <1>1, <2>1, ListPostIs
<1> HIDE DEF seen, n, post
<1>3. /\ level # NoBars
      /\ \E i, j \in DOMAIN post : i < j /\ post[i].close < level /\ level <= post[j].close
  <2>1. I!Reclaimed(post, level) = TRUE
    BY DEF post, seen
  <2>2. I!Reclaimed(post, level) # NoBars
    BY <2>1, ListingsAssumption
  <2> QED
    BY <2>1, <2>2 DEF I!Reclaimed
<1>4. PICK k, l \in DOMAIN post : k < l /\ post[k].close < level /\ level <= post[l].close
  BY <1>3
<1>5. PICK i, j \in 1..n : i < j /\ post[k] = seen[i] /\ post[l] = seen[j]
  BY <1>2, <1>4 DEF ListTakenFrom
<1>6. /\ place(i) \in ListSeen(d.inst, cut) /\ place(j) \in ListSeen(d.inst, cut)
      /\ I!ComesFirst(place(i), place(j))
      /\ prices[place(i)].close < level /\ level <= prices[place(j)].close
  BY <1>1, <1>4, <1>5
<1>7. place(i) # place(j)
  <2>1. place(i) \in 1..Len(prices) /\ Len(prices) \in Nat
    BY <1>6 DEF ListSeen, ListTyped
  <2>2. prices[place(i)].known \in Nat /\ prices[place(i)].day \in Nat
    BY <2>1, ListBarIs
  <2>3. ~I!ComesFirst(place(i), place(i))
    BY <2>1, <2>2 DEF I!ComesFirst, I!Earlier
  <2> QED
    BY <1>6, <2>3
<1>8. DOMAIN prices = 1..Len(prices)
  BY DEF ListTyped
<1> HIDE DEF place
<1> QED
  BY <1>3, <1>6, <1>7, <1>8 DEF ListFellAndRose, ListSeen

(* What is put together by position is a sequence, of that length.         *)
LEMMA ListLen ==
    ASSUME NEW k \in Nat, NEW f, f = [i \in 1..k |-> f[i]]
    PROVE  f \in Seq({f[i] : i \in 1..k}) /\ Len(f) = k /\ (f = <<>> <=> k = 0)
<1>1. f \in Seq({f[i] : i \in 1..k}) /\ Len(f) = k
  OBVIOUS
<1> QED
  BY <1>1

(* A share of a number in percent is at most a hundred.                    *)
LEMMA ListShare ==
    ASSUME NEW a \in Nat, NEW b \in Nat, a <= b, b > 0
    PROVE  (100 * a) \div b \in 0..100
<1> DEFINE x == 100 * a
           q == x \div b
           m == x % b
<1>1. x \in Nat /\ x <= 100 * b
  OBVIOUS
<1> HIDE DEF x
<1>2. q \in Int /\ m \in 0..(b - 1) /\ x = b * q + m
  BY <1>1
<1> HIDE DEF q, m
<1>3. q >= 0
  <2> SUFFICES ASSUME q <= -1 PROVE FALSE
    BY <1>2
  <2>1. b * q <= b * (-1)
    BY <1>2
  <2> QED
    BY <1>1, <1>2, <2>1
<1>4. q <= 100
  <2> SUFFICES ASSUME q >= 101 PROVE FALSE
    BY <1>2
  <2>1. b * q >= b * 101
    BY <1>2
  <2> QED
    BY <1>1, <1>2, <2>1
<1> QED
  BY <1>2, <1>3, <1>4 DEF q, x

(* An idea follows its own track and liquidity; a MONITOR needs a reclaim  *)
(* that two bars of the panel show.                                        *)
LEMMA ListIdeaIs ==
    ASSUME ListTyped, NEW d, NEW cut, NEW claimed \in BOOLEAN, NEW math
    PROVE  LET idea == I!Idea(d, I!Track(d, cut), claimed, math) IN
           /\ idea.observe = (idea.liquidity = "untradeable")
           /\ idea.track.status = "ok" => I!Unsaid(idea) \subseteq {"liquidity"}
           /\ idea.math = math[idea.inst]
           /\ idea.verdict = "MONITOR" =>
                 /\ ~idea.observe /\ claimed
                 /\ \E level \in {idea.price, idea.track.vwap} \ {NoBars} :
                       ListFellAndRose(idea.inst, cut, level)
<1> DEFINE t == I!Track(d, cut)
           idea == I!Idea(d, t, claimed, math)
           seen == I!BarsOf(d.inst, cut)
           post == ListPost(d, seen)
           first == ListFirst(d, post)
<1>1. t = I!Tracked(d, seen, post, first, I!Gaps(d, seen, post, first))
  BY ListTrackIs DEF ListTrackOf
<1> HIDE DEF seen, post, first
<1>2. /\ t.offer = I!Reclaimed(post, d.offer) /\ t.vwap = I!Vwap(first)
      /\ t.day1 = I!Reclaimed(post, I!Vwap(first))
  <2> HIDE DEF t
  <2> QED
    BY <1>1 DEF I!Tracked
<1>3. t.status = "ok" => d.offer # NoBars /\ NoBars \notin {t.ret30, t.ret90, t.vwap, t.trough}
  BY ListOkIsWhole
<1> HIDE DEF t
<1>4. /\ idea.inst = d.inst /\ idea.price = d.offer /\ idea.track = t
      /\ idea.liquidity = I!Liquidity(d) /\ idea.observe = (I!Liquidity(d) = "untradeable")
      /\ idea.verdict = I!Verdict(d, t, claimed) /\ idea.math = math[d.inst]
  BY DEF I!Idea
<1> HIDE DEF idea
<1>5. t.status = "ok" => I!Unsaid(idea) \subseteq {"liquidity"}
  BY <1>3, <1>4 DEF I!Unsaid
<1>6. ASSUME idea.verdict = "MONITOR"
      PROVE  /\ ~idea.observe /\ claimed
             /\ \E level \in {idea.price, idea.track.vwap} \ {NoBars} :
                   ListFellAndRose(idea.inst, cut, level)
  <2>1. /\ I!Liquidity(d) # "untradeable" /\ claimed
        /\ t.offer = TRUE \/ t.day1 = TRUE
    BY <1>4, <1>6 DEF I!Verdict
  <2>2. t.offer = TRUE => d.offer # NoBars /\ ListFellAndRose(d.inst, cut, d.offer)
    BY <1>2, ListReclaimedIs DEF post, seen
  <2>3. t.day1 = TRUE => t.vwap # NoBars /\ ListFellAndRose(d.inst, cut, t.vwap)
    BY <1>2, ListReclaimedIs DEF post, seen
  <2> QED
    BY <1>4, <2>1, <2>2, <2>3
<1> QED
  BY <1>4, <1>5, <1>6 DEF idea, t

(* What is visible of a file is no more than the file.                     *)
LEMMA ListVisibleLen ==
    ASSUME NEW K, NEW file \in Seq(K), NEW cut
    PROVE  \E k \in Nat :
              /\ k <= Len(file) /\ I!VisibleRows(file,
                 cut) = [i \in 1..k |-> I!VisibleRows(file, cut)[i]]
<1> DEFINE n == Len(file)
           at == {i \in 1..n : I!Visible(file[i], cut)}
           before == [i \in at |-> {j \in at : j < i}]
<1>1. n \in Nat /\ DOMAIN file = 1..n
  OBVIOUS
<1> HIDE DEF n
<1>2. IsFiniteSet(1..n) /\ Cardinality(1..n) = n
  <2>1. n \in Int /\ 1 \in Int
    BY <1>1
  <2>2. IsFiniteSet(1..n) /\ Cardinality(1..n) = IF 1 > n THEN 0 ELSE n - 1 + 1
    BY ONLY <2>1, FS_Interval
  <2> QED
    BY <1>1, <2>2
<1>3. IsFiniteSet(at) /\ Cardinality(at) <= n /\ at \subseteq Nat
  BY <1>1, <1>2, FS_Subset
<1>4. I!VisibleRows(file, cut) = I!Kept(file, at)
  BY <1>1 DEF I!VisibleRows
<1> HIDE DEF at
<1>5. /\ I!Kept(file, at) = [k \in 1..Cardinality(at) |-> file[I!Place(before, k)]]
      /\ Cardinality(at) \in Nat
  BY ONLY <1>3, ListKept
<1> HIDE DEF before
<1>6. I!VisibleRows(file, cut) = [i \in 1..Cardinality(at) |-> I!VisibleRows(file, cut)[i]]
  BY <1>4, <1>5
<1> QED
  BY <1>3, <1>5, <1>6 DEF n

(* What a scan of a day finds: as many ideas as deals are visible.         *)
ListIsFound(snap, cut, missing, math) ==
    /\ \E k \in 0..Len(deals) : snap.ideas = [i \in 1..k |-> snap.ideas[i]]
    /\ \E k \in 0..Len(events) : snap.index = [i \in 1..k |-> snap.index[i]]
    /\ \A i \in DOMAIN snap.ideas : \E d :
          snap.ideas[i] = I!Idea(d, I!Track(d, cut), snap.base.claimed, math)
    /\ snap.base.claimed \in BOOLEAN
    /\ snap.base.claimed => snap.base.n >= DealsNMin
    /\ snap.quality = I!Quality(snap.ideas, missing)

(* A snapshot has an idea for every visible deal, and its quality follows  *)
(* from them.                                                              *)
LEMMA ListSnapshotIs ==
    ASSUME ListTyped, NEW cut, NEW missing \in BOOLEAN, NEW math
    PROVE  ListIsFound(I!Snapshot(cut, missing, math), cut, missing, math)
<1> DEFINE seen == IF missing THEN <<>> ELSE I!VisibleRows(deals, cut)
           found == IF missing THEN <<>> ELSE I!VisibleRows(events, cut)
           base == I!BaseRate(cut)
           shown == [i \in DOMAIN seen |->
                       I!Idea(seen[i].deal, I!Track(seen[i].deal, cut), base.claimed, math)]
           snap == I!Snapshot(cut, missing, math)
<1>1. snap = [ideas |-> shown, base |-> base, quality |-> I!Quality(shown, missing),
              index |-> found]
  BY DEF I!Snapshot
<1>2. Len(deals) \in Nat /\ Len(events) \in Nat
  BY DEF ListTyped
<1>3. \E k \in 0..Len(deals) : DOMAIN seen = 1..k
  <2>1. CASE missing
    <3>1. DOMAIN seen = 1..0 /\ 0 \in 0..Len(deals)
      BY <1>2, <2>1
    <3> QED
      BY <3>1
  <2>2. CASE ~missing
    <3>1. deals \in Seq(ListCalendar)
      BY DEF ListTyped
    <3>2. PICK k \in Nat : /\ k <= Len(deals)
                           /\ I!VisibleRows(deals, cut) = [i \in 1..k |-> I!VisibleRows(deals,
                              cut)[i]]
      BY <3>1, ListVisibleLen
    <3>3. DOMAIN seen = 1..k /\ k \in 0..Len(deals)
      BY <1>2, <2>2, <3>2
    <3> QED
      BY <3>3
  <2> QED
    BY <2>1, <2>2
<1>4. \E k \in 0..Len(events) : found = [i \in 1..k |-> found[i]]
  <2>1. CASE missing
    <3>1. found = [i \in 1..0 |-> found[i]] /\ 0 \in 0..Len(events)
      BY <1>2, <2>1
    <3> QED
      BY <3>1
  <2>2. CASE ~missing
    <3>1. events \in Seq(ListEvents)
      BY DEF ListTyped
    <3>2. PICK k \in Nat : /\ k <= Len(events)
                           /\ I!VisibleRows(events,
                              cut) = [i \in 1..k |-> I!VisibleRows(events, cut)[i]]
      BY <3>1, ListVisibleLen
    <3>3. found = [i \in 1..k |-> found[i]] /\ k \in 0..Len(events)
      BY <1>2, <2>2, <3>2
    <3> QED
      BY <3>3
  <2> QED
    BY <2>1, <2>2
<1>5. base.claimed \in BOOLEAN /\ (base.claimed => base.n >= DealsNMin)
  <2>1. base.claimed \in BOOLEAN
    BY Zenon DEF I!BaseRate
  <2>2. base.claimed => base.n >= DealsNMin
    BY DEF I!BaseRate
  <2> QED
    BY <2>1, <2>2
<1> HIDE DEF seen, found, base
<1>6. \E k \in 0..Len(deals) : shown = [i \in 1..k |-> shown[i]]
  BY <1>3
<1>7. \A i \in DOMAIN shown : \E d : shown[i] = I!Idea(d, I!Track(d, cut), base.claimed, math)
  OBVIOUS
<1>8. snap.ideas = shown /\ snap.base = base /\ snap.index = found
      /\ snap.quality = I!Quality(shown, missing)
  <2> HIDE DEF snap, shown
  <2> QED
    BY <1>1
<1> HIDE DEF snap, shown
<1> QED
  BY <1>4, <1>5, <1>6, <1>7, <1>8 DEF snap, ListIsFound

(* A run is what its snapshot says.                                        *)
LEMMA ListRunIs ==
    ASSUME ListTyped, NEW cut, NEW missing \in BOOLEAN, NEW math
    PROVE  LET r == I!Run(cut, missing, math) IN
           /\ ListRunIsFair(r) /\ ListIsEarned(r, cut)
           /\ r.missing = missing /\ r.math = math /\ r.snap = I!Snapshot(cut, missing, math)
<1> DEFINE snap == I!Snapshot(cut, missing, math)
           r == I!RunOf(snap, missing, math)
           empty == ~missing /\ snap.ideas = <<>> /\ snap.index = <<>>
<1>1. I!Run(cut, missing, math) = r
  BY DEF I!Run
<1>2. /\ \E k \in 0..Len(deals) : snap.ideas = [i \in 1..k |-> snap.ideas[i]]
      /\ \E k \in 0..Len(events) : snap.index = [i \in 1..k |-> snap.index[i]]
      /\ \A i \in DOMAIN snap.ideas : \E d :
            snap.ideas[i] = I!Idea(d, I!Track(d, cut), snap.base.claimed, math)
      /\ snap.base.claimed \in BOOLEAN
      /\ snap.base.claimed => snap.base.n >= DealsNMin
      /\ snap.quality = I!Quality(snap.ideas, missing)
  <2>1. ListIsFound(snap, cut, missing, math)
    BY ListSnapshotIs
  <2> HIDE DEF snap
  <2> QED
    BY <2>1 DEF ListIsFound
<1> HIDE DEF snap
<1>3. r.missing = missing /\ r.math = math /\ r.snap = snap /\ r.empty = empty
  BY DEF I!RunOf
<1>4. r.status = IF empty \/ snap.quality = "ok" THEN "OK" ELSE "DEGRADED"
  BY DEF I!RunOf
<1>5. r.percent \in 0..100
  <2>1. PICK k \in 0..Len(deals) : snap.ideas = [i \in 1..k |-> snap.ideas[i]]
    BY <1>2
  <2>2. PICK l \in 0..Len(events) : snap.index = [i \in 1..l |-> snap.index[i]]
    BY <1>2
  <2>3. Len(snap.ideas) = k /\ (snap.ideas = <<>> <=> k = 0) /\ k \in Nat
    BY <2>1, ListLen
  <2>4. Len(snap.index) = l /\ (snap.index = <<>> <=> l = 0) /\ l \in Nat
    BY <2>2, ListLen
  <2>5. Len(deals) \in Nat /\ Len(events) \in Nat
    BY DEF ListTyped
  <2>6. r.percent = IF empty THEN 100
                    ELSE IF missing THEN 0
                    ELSE (100 * (k + l)) \div (Len(deals) + Len(events))
    BY <2>3, <2>4 DEF I!RunOf
  <2>7. ASSUME ~empty, ~missing
        PROVE  (100 * (k + l)) \div (Len(deals) + Len(events)) \in 0..100
    <3>1. k + l > 0
      BY <2>3, <2>4, <2>7
    <3>2. /\ k + l \in Nat /\ Len(deals) + Len(events) \in Nat
          /\ k + l <= Len(deals) + Len(events) /\ Len(deals) + Len(events) > 0
      BY <2>5, <3>1
    <3> QED
      BY <3>2, ListShare
  <2> QED
    BY <2>6, <2>7
<1> HIDE DEF r
<1>6. \A i \in DOMAIN snap.ideas : ListIdeaIsFair(snap.ideas[i], r)
  <2> SUFFICES ASSUME NEW i \in DOMAIN snap.ideas PROVE ListIdeaIsFair(snap.ideas[i], r)
    OBVIOUS
  <2>1. PICK d : snap.ideas[i] = I!Idea(d, I!Track(d, cut), snap.base.claimed, math)
    BY <1>2
  <2> QED
    BY <1>2, <1>3, <2>1, ListIdeaIs DEF ListIdeaIsFair
<1>7. ListIsEarned(r, cut)
  <2> SUFFICES ASSUME NEW i \in DOMAIN snap.ideas, snap.ideas[i].verdict = "MONITOR"
               PROVE  \E level \in {snap.ideas[i].price, snap.ideas[i].track.vwap} \ {NoBars} :
                         ListFellAndRose(snap.ideas[i].inst, cut, level)
    BY <1>3 DEF ListIsEarned
  <2>1. PICK d : snap.ideas[i] = I!Idea(d, I!Track(d, cut), snap.base.claimed, math)
    BY <1>2
  <2> QED
    BY <1>2, <2>1, ListIdeaIs
<1>8. snap.ideas # <<>> => 1 \in DOMAIN snap.ideas
  <2>1. PICK k \in 0..Len(deals) : snap.ideas = [i \in 1..k |-> snap.ideas[i]]
    BY <1>2
  <2>2. (snap.ideas = <<>> <=> k = 0) /\ k \in Nat
    BY <2>1, ListLen
  <2>3. DOMAIN snap.ideas = 1..k
    BY <2>1
  <2> QED
    BY <2>2, <2>3
<1>9. ListRunIsFair(r)
  BY <1>2, <1>3, <1>4, <1>5, <1>6, <1>8 DEF ListRunIsFair
<1> QED
  BY <1>1, <1>3, <1>7, <1>9 DEF snap

LEMMA ListInitIInv == I!Init => ListIInv
<1> SUFFICES ASSUME I!Init PROVE ListIInv
  OBVIOUS
<1>1. ListTyped
  <2>1. lNow \in 1..MaxTime /\ scans \in 0..MaxScans /\ stamped \in BOOLEAN
    BY ListingsAssumption DEF I!Init
  <2>2. deals = <<>> /\ prices = <<>> /\ events = <<>> /\ outcomes = <<>>
    BY DEF I!Init
  <2> QED
    BY <2>1, <2>2 DEF ListTyped, ListPast
<1>2. DOMAIN sessions = {}
  BY DEF I!Init, I!NoRuns
<1> QED
  BY <1>1, <1>2 DEF ListIInv, ListRuns, I!ReplayIsStable

(* One more row of a file, ingested by now and known before.               *)
LEMMA ListAppended ==
    ASSUME NEW K, NEW file \in Seq(K), NEW t, ListPast(file, t), NEW entry \in K,
           entry.known <= entry.ingested, entry.ingested <= t
    PROVE  Append(file, entry) \in Seq(K) /\ ListPast(Append(file, entry), t)
<1> DEFINE more == Append(file, entry)
<1>1. /\ more \in Seq(K) /\ Len(more) = Len(file) + 1 /\ Len(file) \in Nat
      /\ \A i \in 1..Len(more) : more[i] = IF i = Len(file) + 1 THEN entry ELSE file[i]
  OBVIOUS
<1>2. \A i \in 1..Len(more) : more[i].known <= more[i].ingested /\ more[i].ingested <= t
  <2> SUFFICES ASSUME NEW i \in 1..Len(more)
               PROVE  more[i].known <= more[i].ingested /\ more[i].ingested <= t
    OBVIOUS
  <2>1. i = Len(file) + 1 \/ i \in 1..Len(file)
    BY <1>1
  <2> HIDE DEF more
  <2> QED
    BY <1>1, <2>1 DEF ListPast
<1> HIDE DEF more
<1>3. ListPast(more, t)
  BY <1>2 DEF ListPast
<1> QED
  BY <1>1, <1>3 DEF more

(* What is ingested by now and known before is two numbers.                *)
LEMMA ListStampIs ==
    ASSUME ListTyped, NEW k \in Nat, k <= lNow
    PROVE  /\ I!Ingested(k) \in Nat /\ k <= I!Ingested(k) /\ I!Ingested(k) <= lNow
           /\ stamped => I!Ingested(k) = lNow
<1>1. lNow \in Nat
  BY ListingsAssumption DEF ListTyped
<1> QED
  BY <1>1 DEF I!Ingested

(* What fell and rose by the panel does so by a longer one.                *)
LEMMA ListStillFell ==
    ASSUME ListTyped, NEW inst, NEW cut, NEW level, ListFellAndRose(inst, cut, level),
           prices' = prices \/ \E entry \in ListPanel : prices' = Append(prices, entry)
    PROVE  ListFellAndRose(inst, cut, level)'
<1>1. PICK q, t \in DOMAIN prices :
         /\ prices[q].inst = inst /\ I!Visible(prices[q], cut)
         /\ prices[t].inst = inst /\ I!Visible(prices[t], cut)
         /\ q # t /\ I!ComesFirst(q, t)
         /\ prices[q].close < level /\ level <= prices[t].close
  BY DEF ListFellAndRose
<1>2. q \in DOMAIN prices' /\ t \in DOMAIN prices' /\ prices'[q] = prices[q]
        /\ prices'[t] = prices[t]
  <2>1. prices \in Seq(ListPanel) /\ DOMAIN prices = 1..Len(prices) /\ Len(prices) \in Nat
    BY DEF ListTyped
  <2>2. CASE prices' = prices
    BY <2>2
  <2>3. CASE \E entry \in ListPanel : prices' = Append(prices, entry)
    <3>1. PICK entry \in ListPanel : prices' = Append(prices, entry)
      BY <2>3
    <3>2. /\ DOMAIN Append(prices, entry) = 1..(Len(prices) + 1)
          /\ \A i \in 1..Len(prices) : Append(prices, entry)[i] = prices[i]
      BY <2>1
    <3> DEFINE more == Append(prices, entry)
    <3>3. 1..Len(prices) \subseteq 1..(Len(prices) + 1)
      BY <2>1
    <3> HIDE DEF more
    <3>4. q \in DOMAIN more /\ t \in DOMAIN more /\ more[q] = prices[q] /\ more[t] = prices[t]
      BY <2>1, <3>2, <3>3 DEF more
    <3> QED
      BY <3>1, <3>4 DEF more
  <2> QED
    BY <2>2, <2>3
<1>3. I!ComesFirst(q, t)'
  BY <1>1, <1>2 DEF I!ComesFirst, I!Earlier
<1>4. I!Visible(prices'[q], cut) /\ I!Visible(prices'[t], cut)
  BY <1>1, <1>2
<1> QED
  BY <1>1, <1>2, <1>3, <1>4 DEF ListFellAndRose, I!Visible

(* Rows may come while the runs rest, if no scan made sees them.           *)
LEMMA ListRowsCome ==
    ASSUME ListIInv, ListTyped', UNCHANGED <<stamped, sessions>>, lNow <= lNow',
           prices' = prices \/ \E entry \in ListPanel : prices' = Append(prices, entry),
           stamped => \A c \in DOMAIN sessions :
               /\ I!VisibleRows(deals, c)' = I!VisibleRows(deals, c)
               /\ I!VisibleRows(events, c)' = I!VisibleRows(events, c)
               /\ I!VisibleRows(outcomes, c)' = I!VisibleRows(outcomes, c)
               /\ \A x : I!BarsOf(x, c)' = I!BarsOf(x, c)
    PROVE  ListIInv'
<1> USE DEF ListIInv
<1>1. lNow \in Nat /\ lNow' \in Nat
  BY ListingsAssumption DEF ListTyped
<1>2. ListRuns'
  <2> SUFFICES ASSUME NEW c \in DOMAIN sessions
               PROVE  /\ c \in Nat /\ c < lNow'
                      /\ ListRunIsFair(sessions[c]) /\ ListIsEarned(sessions[c], c)'
    BY DEF ListRuns
  <2>1. /\ c \in Nat /\ c < lNow
        /\ ListRunIsFair(sessions[c]) /\ ListIsEarned(sessions[c], c)
    BY DEF ListRuns
  <2>2. \A x, level : ListFellAndRose(x, c, level) => ListFellAndRose(x, c, level)'
    BY ListStillFell
  <2>3. ListIsEarned(sessions[c], c)'
    BY <2>1, <2>2 DEF ListIsEarned
  <2> QED
    BY <1>1, <2>1, <2>3
<1>3. I!ReplayIsStable'
  <2> SUFFICES ASSUME stamped, NEW c \in DOMAIN sessions
               PROVE  I!Snapshot(c, sessions[c].missing, sessions[c].math)' = sessions[c].snap
    BY DEF I!ReplayIsStable
  <2>1. \A m, h : I!Snapshot(c, m, h)' = I!Snapshot(c, m, h)
    BY ListSnapshotSame
  <2>2. I!Snapshot(c, sessions[c].missing, sessions[c].math) = sessions[c].snap
    BY DEF I!ReplayIsStable
  <2> QED
    BY <2>1, <2>2
<1> QED
  BY <1>2, <1>3

(* A row ingested today is not seen at the cut of a day that is over.      *)
LEMMA ListUnseen ==
    ASSUME ListIInv, stamped, NEW c \in DOMAIN sessions, NEW entry, entry.ingested = lNow
    PROVE  ~I!Visible(entry, c)
<1>1. c \in Nat /\ c < lNow /\ lNow \in Nat
  BY ListingsAssumption DEF ListIInv, ListRuns, ListTyped
<1> QED
  BY <1>1 DEF I!Visible

(* A row that becomes known today is not visible at a cut before today.    *)
LEMMA ListAddDealStep ==
    ASSUME ListIInv, NEW d \in Deals, I!AddDeal(d) PROVE ListIInv'
<1> DEFINE entry == [known |-> lNow, ingested |-> I!Ingested(lNow), deal |-> d]
<1>1. /\ deals' = Append(deals, entry)
      /\ UNCHANGED <<lNow, prices, events, outcomes, stamped, sessions, scans>>
  BY DEF I!AddDeal
<1>2. ListTyped /\ lNow \in Nat
  BY ListingsAssumption DEF ListIInv, ListTyped
<1>3. /\ entry \in ListCalendar /\ entry.known <= entry.ingested /\ entry.ingested <= lNow
      /\ stamped => entry.ingested = lNow
  BY <1>2, ListStampIs DEF ListCalendar
<1>4. deals \in Seq(ListCalendar) /\ ListPast(deals, lNow)
  BY <1>2 DEF ListTyped
<1> HIDE DEF entry
<1>5. deals' \in Seq(ListCalendar) /\ ListPast(deals, lNow)'
  <2>1. Append(deals, entry) \in Seq(ListCalendar) /\ ListPast(Append(deals, entry), lNow)
    BY <1>1, <1>3, <1>4, ListAppended
  <2> QED
    BY <1>1, <2>1
<1>6. ListTyped'
  BY <1>1, <1>2, <1>5 DEF ListTyped, ListPast
<1>7. stamped => \A c \in DOMAIN sessions :
         /\ I!VisibleRows(deals, c)' = I!VisibleRows(deals, c)
         /\ I!VisibleRows(events, c)' = I!VisibleRows(events, c)
         /\ I!VisibleRows(outcomes, c)' = I!VisibleRows(outcomes, c)
         /\ \A x : I!BarsOf(x, c)' = I!BarsOf(x, c)
  <2> SUFFICES ASSUME stamped, NEW c \in DOMAIN sessions
               PROVE  /\ I!VisibleRows(deals, c)' = I!VisibleRows(deals, c)
                      /\ I!VisibleRows(events, c)' = I!VisibleRows(events, c)
                      /\ I!VisibleRows(outcomes, c)' = I!VisibleRows(outcomes, c)
                      /\ \A x : I!BarsOf(x, c)' = I!BarsOf(x, c)
    OBVIOUS
  <2>1. ~I!Visible(entry, c)
    BY <1>3, ListUnseen
  <2>2. I!VisibleRows(Append(deals, entry), c) = I!VisibleRows(deals, c)
    BY <1>3, <1>4, <2>1, ListVisibleSame
  <2>3. \A x : I!BarsOf(x, c)' = I!BarsOf(x, c)
    BY <1>1 DEF I!BarsOf, I!InKnowledgeOrder, I!ComesFirst
  <2> QED
    BY <1>1, <2>2, <2>3
<1> QED
  BY <1>1, <1>2, <1>6, <1>7, ListRowsCome

LEMMA ListAddEventStep == ASSUME ListIInv, I!AddEvent PROVE ListIInv'
<1> DEFINE entry == [known |-> lNow, ingested |-> I!Ingested(lNow)]
<1>1. /\ events' = Append(events, entry)
      /\ UNCHANGED <<lNow, deals, prices, outcomes, stamped, sessions, scans>>
  BY DEF I!AddEvent
<1>2. ListTyped /\ lNow \in Nat
  BY ListingsAssumption DEF ListIInv, ListTyped
<1>3. /\ entry \in ListEvents /\ entry.known <= entry.ingested /\ entry.ingested <= lNow
      /\ stamped => entry.ingested = lNow
  BY <1>2, ListStampIs DEF ListEvents
<1>4. events \in Seq(ListEvents) /\ ListPast(events, lNow)
  BY <1>2 DEF ListTyped
<1> HIDE DEF entry
<1>5. events' \in Seq(ListEvents) /\ ListPast(events, lNow)'
  <2>1. Append(events, entry) \in Seq(ListEvents) /\ ListPast(Append(events, entry), lNow)
    BY <1>1, <1>3, <1>4, ListAppended
  <2> QED
    BY <1>1, <2>1
<1>6. ListTyped'
  BY <1>1, <1>2, <1>5 DEF ListTyped, ListPast
<1>7. stamped => \A c \in DOMAIN sessions :
         /\ I!VisibleRows(deals, c)' = I!VisibleRows(deals, c)
         /\ I!VisibleRows(events, c)' = I!VisibleRows(events, c)
         /\ I!VisibleRows(outcomes, c)' = I!VisibleRows(outcomes, c)
         /\ \A x : I!BarsOf(x, c)' = I!BarsOf(x, c)
  <2> SUFFICES ASSUME stamped, NEW c \in DOMAIN sessions
               PROVE  /\ I!VisibleRows(deals, c)' = I!VisibleRows(deals, c)
                      /\ I!VisibleRows(events, c)' = I!VisibleRows(events, c)
                      /\ I!VisibleRows(outcomes, c)' = I!VisibleRows(outcomes, c)
                      /\ \A x : I!BarsOf(x, c)' = I!BarsOf(x, c)
    OBVIOUS
  <2>1. ~I!Visible(entry, c)
    BY <1>3, ListUnseen
  <2>2. I!VisibleRows(Append(events, entry), c) = I!VisibleRows(events, c)
    BY <1>3, <1>4, <2>1, ListVisibleSame
  <2>3. \A x : I!BarsOf(x, c)' = I!BarsOf(x, c)
    BY <1>1 DEF I!BarsOf, I!InKnowledgeOrder, I!ComesFirst
  <2> QED
    BY <1>1, <2>2, <2>3
<1> QED
  BY <1>1, <1>2, <1>6, <1>7, ListRowsCome

LEMMA ListAddOutcomeStep ==
    ASSUME ListIInv, NEW ret \in BOOLEAN, I!AddOutcome(ret) PROVE ListIInv'
<1> DEFINE entry == [known |-> lNow, ingested |-> I!Ingested(lNow), ret |-> ret]
<1>1. /\ outcomes' = Append(outcomes, entry)
      /\ UNCHANGED <<lNow, deals, prices, events, stamped, sessions, scans>>
  BY DEF I!AddOutcome
<1>2. ListTyped /\ lNow \in Nat
  BY ListingsAssumption DEF ListIInv, ListTyped
<1>3. /\ entry \in ListClosed /\ entry.known <= entry.ingested /\ entry.ingested <= lNow
      /\ stamped => entry.ingested = lNow
  BY <1>2, ListStampIs DEF ListClosed
<1>4. outcomes \in Seq(ListClosed) /\ ListPast(outcomes, lNow)
  BY <1>2 DEF ListTyped
<1> HIDE DEF entry
<1>5. outcomes' \in Seq(ListClosed) /\ ListPast(outcomes, lNow)'
  <2>1. Append(outcomes, entry) \in Seq(ListClosed) /\ ListPast(Append(outcomes, entry), lNow)
    BY <1>1, <1>3, <1>4, ListAppended
  <2> QED
    BY <1>1, <2>1
<1>6. ListTyped'
  BY <1>1, <1>2, <1>5 DEF ListTyped, ListPast
<1>7. stamped => \A c \in DOMAIN sessions :
         /\ I!VisibleRows(deals, c)' = I!VisibleRows(deals, c)
         /\ I!VisibleRows(events, c)' = I!VisibleRows(events, c)
         /\ I!VisibleRows(outcomes, c)' = I!VisibleRows(outcomes, c)
         /\ \A x : I!BarsOf(x, c)' = I!BarsOf(x, c)
  <2> SUFFICES ASSUME stamped, NEW c \in DOMAIN sessions
               PROVE  /\ I!VisibleRows(deals, c)' = I!VisibleRows(deals, c)
                      /\ I!VisibleRows(events, c)' = I!VisibleRows(events, c)
                      /\ I!VisibleRows(outcomes, c)' = I!VisibleRows(outcomes, c)
                      /\ \A x : I!BarsOf(x, c)' = I!BarsOf(x, c)
    OBVIOUS
  <2>1. ~I!Visible(entry, c)
    BY <1>3, ListUnseen
  <2>2. I!VisibleRows(Append(outcomes, entry), c) = I!VisibleRows(outcomes, c)
    BY <1>3, <1>4, <2>1, ListVisibleSame
  <2>3. \A x : I!BarsOf(x, c)' = I!BarsOf(x, c)
    BY <1>1 DEF I!BarsOf, I!InKnowledgeOrder, I!ComesFirst
  <2> QED
    BY <1>1, <2>2, <2>3
<1> QED
  BY <1>1, <1>2, <1>6, <1>7, ListRowsCome

LEMMA ListAddBarStep ==
    ASSUME ListIInv, NEW n \in Traded, NEW w \in 1..MaxTime, NEW p \in Prints,
           NEW k \in 1..MaxTime, I!AddBar(n, w, p, k)
    PROVE  ListIInv'
<1> DEFINE entry == [known |-> k, ingested |-> I!Ingested(k), inst |-> n, day |-> w,
                     close |-> p.close, volume |-> p.volume]
<1>1. /\ prices' = Append(prices, entry) /\ k <= lNow
      /\ UNCHANGED <<lNow, deals, events, outcomes, stamped, sessions, scans>>
  BY DEF I!AddBar
<1>2. ListTyped /\ lNow \in Nat /\ k \in Nat /\ w \in Nat
  BY ListingsAssumption DEF ListIInv, ListTyped
<1>3. /\ entry \in ListPanel /\ entry.known <= entry.ingested /\ entry.ingested <= lNow
      /\ stamped => entry.ingested = lNow
  <2>1. p.close \in Nat /\ p.volume \in BOOLEAN
    BY ListingsAssumption
  <2>2. I!Ingested(k) \in Nat /\ k <= I!Ingested(k) /\ I!Ingested(k) <= lNow
        /\ (stamped => I!Ingested(k) = lNow)
    BY <1>1, <1>2, ListStampIs
  <2> QED
    BY <1>2, <2>1, <2>2 DEF ListPanel
<1>4. prices \in Seq(ListPanel) /\ ListPast(prices, lNow)
  BY <1>2 DEF ListTyped
<1> HIDE DEF entry
<1>5. prices' \in Seq(ListPanel) /\ ListPast(prices, lNow)'
  <2>1. Append(prices, entry) \in Seq(ListPanel) /\ ListPast(Append(prices, entry), lNow)
    BY <1>1, <1>3, <1>4, ListAppended
  <2> QED
    BY <1>1, <2>1
<1>6. ListTyped'
  BY <1>1, <1>2, <1>5 DEF ListTyped, ListPast
<1>7. stamped => \A c \in DOMAIN sessions :
         /\ I!VisibleRows(deals, c)' = I!VisibleRows(deals, c)
         /\ I!VisibleRows(events, c)' = I!VisibleRows(events, c)
         /\ I!VisibleRows(outcomes, c)' = I!VisibleRows(outcomes, c)
         /\ \A x : I!BarsOf(x, c)' = I!BarsOf(x, c)
  <2> SUFFICES ASSUME stamped, NEW c \in DOMAIN sessions
               PROVE  /\ I!VisibleRows(deals, c)' = I!VisibleRows(deals, c)
                      /\ I!VisibleRows(events, c)' = I!VisibleRows(events, c)
                      /\ I!VisibleRows(outcomes, c)' = I!VisibleRows(outcomes, c)
                      /\ \A x : I!BarsOf(x, c)' = I!BarsOf(x, c)
    OBVIOUS
  <2>1. ~I!Visible(entry, c)
    BY <1>3, ListUnseen
  <2>2. \A x : I!BarsOf(x, c)' = I!BarsOf(x, c)
    BY <1>1, <1>2, <1>3, <2>1, ListBarsSame
  <2> QED
    BY <1>1, <2>2
<1> QED
  BY <1>1, <1>2, <1>3, <1>6, <1>7, ListRowsCome

LEMMA ListTickStep == ASSUME ListIInv, I!Tick PROVE ListIInv'
<1>1. /\ lNow < MaxTime /\ lNow' = lNow + 1
      /\ UNCHANGED <<deals, prices, events, outcomes, stamped, sessions, scans>>
  BY DEF I!Tick
<1>2. ListTyped /\ lNow \in Nat
  BY ListingsAssumption DEF ListIInv, ListTyped
<1>3. ListTyped'
  <2>1. lNow' \in 1..MaxTime
    BY <1>1, <1>2, ListingsAssumption
  <2>2. ASSUME NEW K, K \subseteq [known : Nat, ingested : Nat] \cup ListCalendar \cup ListPanel
                                   \cup ListClosed, NEW file \in Seq(K), ListPast(file, lNow)
        PROVE  ListPast(file, lNow + 1)
    <3>1. \A i \in 1..Len(file) : file[i].ingested \in Nat
      <4>1. \A i \in 1..Len(file) : file[i] \in K
        BY <2>2
      <4> QED
        BY <2>2, <4>1 DEF ListCalendar, ListPanel, ListClosed
    <3> QED
      BY <1>2, <2>2, <3>1 DEF ListPast
  <2>3. /\ ListPast(deals, lNow + 1) /\ ListPast(prices, lNow + 1)
        /\ ListPast(events, lNow + 1) /\ ListPast(outcomes, lNow + 1)
    <3>1. deals \in Seq(ListCalendar) /\ ListPast(deals, lNow)
      BY <1>2 DEF ListTyped
    <3>2. prices \in Seq(ListPanel) /\ ListPast(prices, lNow)
      BY <1>2 DEF ListTyped
    <3>3. events \in Seq(ListEvents) /\ ListPast(events, lNow)
      BY <1>2 DEF ListTyped
    <3>4. outcomes \in Seq(ListClosed) /\ ListPast(outcomes, lNow)
      BY <1>2 DEF ListTyped
    <3>5. ListEvents = [known : Nat, ingested : Nat]
      BY DEF ListEvents
    <3> QED
      BY <2>2, <3>1, <3>2, <3>3, <3>4, <3>5
  <2> QED
    BY <1>1, <1>2, <2>1, <2>3 DEF ListTyped
<1>4. \A c : /\ I!VisibleRows(deals, c)' = I!VisibleRows(deals, c)
            /\ I!VisibleRows(events, c)' = I!VisibleRows(events, c)
            /\ I!VisibleRows(outcomes, c)' = I!VisibleRows(outcomes, c)
            /\ \A x : I!BarsOf(x, c)' = I!BarsOf(x, c)
  BY <1>1 DEF I!BarsOf, I!InKnowledgeOrder, I!ComesFirst
<1> QED
  BY <1>1, <1>2, <1>3, <1>4, ListRowsCome

(* A scan files a run of a day before today, made of what is visible at    *)
(* it.                                                                     *)
LEMMA ListScanStep ==
    ASSUME ListIInv, NEW cut \in 1..MaxTime, NEW missing \in BOOLEAN, NEW math,
           I!Scan(cut, missing, math)
    PROVE  ListIInv'
<1> DEFINE r == I!Run(cut, missing, math)
<1>1. /\ scans < MaxScans /\ cut < lNow /\ scans' = scans + 1
      /\ sessions' = [c \in DOMAIN sessions \cup {cut} |-> IF c = cut THEN r ELSE sessions[c]]
      /\ UNCHANGED <<lNow, deals, prices, events, outcomes, stamped>>
  BY DEF I!Scan
<1>2. ListTyped /\ cut \in Nat
  BY ListingsAssumption DEF ListIInv
<1>3. /\ ListRunIsFair(r) /\ ListIsEarned(r, cut)
      /\ r.missing = missing /\ r.math = math /\ r.snap = I!Snapshot(cut, missing, math)
  <2>1. ListTyped
    BY <1>2
  <2> QED
    BY ONLY <2>1, missing \in BOOLEAN, ListRunIs
<1> HIDE DEF r
<1>4. ListTyped'
  BY <1>1, <1>2, ListingsAssumption DEF ListTyped, ListPast
<1>5. /\ DOMAIN sessions' = DOMAIN sessions \cup {cut}
      /\ \A c \in DOMAIN sessions' : sessions'[c] = IF c = cut THEN r ELSE sessions[c]
  BY <1>1
<1>6. \A s, c : ListIsEarned(s, c)' <=> ListIsEarned(s, c)
  BY <1>1 DEF ListIsEarned, ListFellAndRose, I!Visible, I!ComesFirst
<1>7. ListRuns'
  <2> SUFFICES ASSUME NEW c \in DOMAIN sessions'
               PROVE  /\ c \in Nat /\ c < lNow
                      /\ ListRunIsFair(sessions'[c]) /\ ListIsEarned(sessions'[c], c)
    BY <1>1, <1>6 DEF ListRuns
  <2>1. CASE c = cut
    BY <1>1, <1>2, <1>3, <1>5, <2>1
  <2>2. CASE c # cut
    BY <1>5, <2>2 DEF ListIInv, ListRuns
  <2> QED
    BY <2>1, <2>2
<1>8. I!ReplayIsStable'
  <2>1. \A c, m, h : I!Snapshot(c, m, h)' = I!Snapshot(c, m, h)
    <3> SUFFICES ASSUME NEW c, NEW m, NEW h
                 PROVE  I!Snapshot(c, m, h)' = I!Snapshot(c, m, h)
      OBVIOUS
    <3>1. /\ I!VisibleRows(deals, c)' = I!VisibleRows(deals, c)
          /\ I!VisibleRows(events, c)' = I!VisibleRows(events, c)
          /\ I!VisibleRows(outcomes, c)' = I!VisibleRows(outcomes, c)
          /\ \A x : I!BarsOf(x, c)' = I!BarsOf(x, c)
      BY <1>1 DEF I!BarsOf, I!InKnowledgeOrder, I!ComesFirst
    <3> QED
      BY <3>1, ListSnapshotSame
  <2> SUFFICES ASSUME stamped, NEW c \in DOMAIN sessions'
               PROVE  I!Snapshot(c, sessions'[c].missing, sessions'[c].math) = sessions'[c].snap
    BY <1>1, <2>1 DEF I!ReplayIsStable
  <2>2. CASE c = cut
    BY <1>3, <1>5, <2>2
  <2>3. CASE c # cut
    BY <1>5, <2>3 DEF ListIInv, I!ReplayIsStable
  <2> QED
    BY <2>2, <2>3
<1> QED
  BY <1>4, <1>7, <1>8 DEF ListIInv

LEMMA ListStep == ListIInv /\ [I!Next]_I!vars => ListIInv'
<1> SUFFICES ASSUME ListIInv, [I!Next]_I!vars PROVE ListIInv'
  OBVIOUS
<1>1. CASE UNCHANGED I!vars
  <2>1. UNCHANGED <<lNow, deals, prices, events, outcomes, stamped, sessions, scans>>
    BY <1>1 DEF I!vars
  <2>2. ListTyped'
    BY <2>1 DEF ListIInv, ListTyped, ListPast
  <2>3. \A c : /\ I!VisibleRows(deals, c)' = I!VisibleRows(deals, c)
              /\ I!VisibleRows(events, c)' = I!VisibleRows(events, c)
              /\ I!VisibleRows(outcomes, c)' = I!VisibleRows(outcomes, c)
              /\ \A x : I!BarsOf(x, c)' = I!BarsOf(x, c)
    BY <2>1 DEF I!BarsOf, I!InKnowledgeOrder, I!ComesFirst
  <2>4. lNow <= lNow'
    BY <2>1, ListingsAssumption DEF ListIInv, ListTyped
  <2> QED
    BY <2>1, <2>2, <2>3, <2>4, ListRowsCome
<1>2. CASE \E d \in Deals : I!AddDeal(d)
  BY <1>2, ListAddDealStep
<1>3. CASE \E n \in Traded, w, k \in 1..MaxTime, p \in Prints : I!AddBar(n, w, p, k)
  BY <1>3, ListAddBarStep
<1>4. CASE I!AddEvent
  BY <1>4, ListAddEventStep
<1>5. CASE \E ret \in BOOLEAN : I!AddOutcome(ret)
  BY <1>5, ListAddOutcomeStep
<1>6. CASE I!Tick
  BY <1>6, ListTickStep
<1>7. CASE \E cut \in 1..MaxTime, missing \in BOOLEAN, math \in Hashes : I!Scan(cut, missing, math)
  BY <1>7, ListScanStep
<1> QED
  BY <1>1, <1>2, <1>3, <1>4, <1>5, <1>6, <1>7 DEF I!Next

-----------------------------------------------------------------------------
(* What fell and rose did so in the order of days, where that is the order *)
(* in which the bars became known.                                         *)
LEMMA ListCameBack ==
    ASSUME ListTyped, NEW inst, NEW cut, NEW level, ListFellAndRose(inst, cut, level),
           I!Ordered(inst, cut)
    PROVE  I!CameBack(inst, cut, level)
<1>1. PICK q, t \in DOMAIN prices :
         /\ prices[q].inst = inst /\ I!Visible(prices[q], cut)
         /\ prices[t].inst = inst /\ I!Visible(prices[t], cut)
         /\ q # t /\ I!ComesFirst(q, t)
         /\ prices[q].close < level /\ level <= prices[t].close
  BY DEF ListFellAndRose
<1>2. DOMAIN prices = 1..Len(prices) /\ Len(prices) \in Nat
  BY DEF ListTyped
<1>3. q \in ListSeen(inst, cut) /\ t \in ListSeen(inst, cut)
  BY <1>1, <1>2 DEF ListSeen
<1> DEFINE n == ListCount(inst, cut)
           place(k) == ListPlace(inst, cut, k)
           seen == I!BarsOf(inst, cut)
<1>4. /\ n \in Nat /\ seen = [k \in 1..n |-> prices[place(k)]]
      /\ \A k, l \in 1..n : k < l => I!ComesFirst(place(k), place(l))
      /\ \A i \in ListSeen(inst, cut) : \E k \in 1..n : place(k) = i
  BY ListBars
<1>5. PICK k \in 1..n : place(k) = q
  BY <1>3, <1>4
<1>6. PICK l \in 1..n : place(l) = t
  BY <1>3, <1>4
<1>7. k < l
  <2>1. ~I!ComesFirst(t, q)
    <3>1. /\ prices[q].known \in Nat /\ prices[q].day \in Nat /\ prices[t].known \in Nat
          /\ prices[t].day \in Nat /\ q \in Nat /\ t \in Nat
      BY <1>1, <1>2, ListBarIs
    <3> QED
      BY <1>1, <3>1 DEF I!ComesFirst, I!Earlier
  <2>2. k # l
    BY <1>1, <1>5, <1>6
  <2>3. ~(l < k)
    BY <1>4, <1>5, <1>6, <2>1
  <2> HIDE DEF n, place
  <2> QED
    BY <1>4, <2>2, <2>3
<1>8. prices[q].day < prices[t].day
  <2>1. \A i, j \in DOMAIN seen : i < j => seen[i].day < seen[j].day
    BY DEF I!Ordered
  <2> HIDE DEF seen, n, place
  <2>2. seen[k] = prices[q] /\ seen[l] = prices[t] /\ k \in DOMAIN seen /\ l \in DOMAIN seen
    BY <1>4, <1>5, <1>6
  <2> QED
    BY <1>7, <2>1, <2>2
<1> QED
  BY <1>1, <1>8 DEF I!CameBack

LEMMA ListOk == ASSUME ListIInv PROVE I!OkHasEveryNumber
<1> SUFFICES ASSUME NEW c \in DOMAIN sessions, sessions[c].status = "OK",
                    NEW i \in DOMAIN sessions[c].snap.ideas
             PROVE  I!Unsaid(sessions[c].snap.ideas[i]) \subseteq {"liquidity"}
  BY DEF I!OkHasEveryNumber
<1> DEFINE r == sessions[c]
<1>1. ListRunIsFair(r)
  BY DEF ListIInv, ListRuns
<1> HIDE DEF r
<1>2. r.status = "OK" /\ i \in DOMAIN r.snap.ideas
  BY DEF r
<1>3. ~r.empty
  <2>1. r.empty => r.snap.ideas = <<>>
    BY <1>1 DEF ListRunIsFair
  <2>2. DOMAIN <<>> = {}
    OBVIOUS
  <2> QED
    BY <1>2, <2>1, <2>2
<1>4. r.snap.quality = "ok" /\ r.snap.quality = I!Quality(r.snap.ideas, r.missing)
  BY <1>1, <1>2, <1>3 DEF ListRunIsFair
<1>5. r.snap.ideas[i].track.status = "ok"
  BY <1>2, <1>4 DEF I!Quality
<1>6. I!Unsaid(r.snap.ideas[i]) \subseteq {"liquidity"}
  BY <1>1, <1>2, <1>5 DEF ListRunIsFair, ListIdeaIsFair
<1> QED
  BY <1>6 DEF r

LEMMA ListMonitor == ASSUME ListIInv PROVE I!MonitorIsEarned
<1> SUFFICES ASSUME NEW c \in DOMAIN sessions, NEW i \in DOMAIN sessions[c].snap.ideas,
                    sessions[c].snap.ideas[i].verdict = "MONITOR"
             PROVE  LET idea == sessions[c].snap.ideas[i] IN
                    /\ ~idea.observe /\ sessions[c].snap.base.n >= DealsNMin
                    /\ I!Ordered(idea.inst, c) =>
                          \/ idea.price # NoBars /\ I!CameBack(idea.inst, c, idea.price)
                          \/ idea.track.vwap # NoBars /\ I!CameBack(idea.inst, c, idea.track.vwap)
  BY DEF I!MonitorIsEarned
<1> DEFINE r == sessions[c]
           idea == r.snap.ideas[i]
<1>1. ListRunIsFair(r) /\ ListIsEarned(r, c) /\ ListTyped
  BY DEF ListIInv, ListRuns
<1> HIDE DEF r
<1>2. i \in DOMAIN r.snap.ideas /\ idea.verdict = "MONITOR"
  BY DEF r
<1>3. ~idea.observe /\ r.snap.base.n >= DealsNMin
  BY <1>1, <1>2 DEF ListRunIsFair, ListIdeaIsFair
<1>4. PICK level \in {idea.price, idea.track.vwap} \ {NoBars} :
         ListFellAndRose(idea.inst, c, level)
  BY <1>1, <1>2 DEF ListIsEarned
<1>5. I!Ordered(idea.inst, c) => I!CameBack(idea.inst, c, level)
  BY <1>1, <1>4, ListCameBack
<1> HIDE DEF idea
<1>6. I!Ordered(idea.inst, c) =>
         \/ idea.price # NoBars /\ I!CameBack(idea.inst, c, idea.price)
         \/ idea.track.vwap # NoBars /\ I!CameBack(idea.inst, c, idea.track.vwap)
  BY <1>4, <1>5
<1> QED
  BY <1>3, <1>6 DEF idea, r

LEMMA ListCard == ASSUME ListIInv PROVE I!CardFollowsRun
<1> SUFFICES ASSUME NEW c \in DOMAIN sessions
             PROVE  LET card == I!Card(sessions[c]) IN
                    /\ card.inst # NoBars => card.math = sessions[c].math[card.inst]
                    /\ card.permission = "research" =>
                          sessions[c].snap.ideas[1].liquidity # "untradeable"
                    /\ card.state = "no_listing_day" =>
                          ~sessions[c].missing /\ sessions[c].status = "OK"
                    /\ card.state = "reclaim_watch" => sessions[c].snap.base.claimed
  BY DEF I!CardFollowsRun
<1> DEFINE r == sessions[c]
           card == I!Card(r)
           idea == r.snap.ideas[1]
<1>1. ListRunIsFair(r)
  BY DEF ListIInv, ListRuns
<1> HIDE DEF r
<1>2. CASE r.snap.ideas = <<>>
  <2>1. card = [inst |-> NoBars, math |-> NoBars, permission |-> "none",
                state |-> IF r.empty THEN "no_listing_day" ELSE "unavailable"]
    BY <1>2 DEF I!Card
  <2>2. r.empty => ~r.missing /\ r.status = "OK"
    BY <1>1 DEF ListRunIsFair
  <2> HIDE DEF card
  <2> QED
    BY <2>1, <2>2 DEF card, r
<1>3. CASE r.snap.ideas # <<>>
  <2>1. ListIdeaIsFair(idea, r)
    BY <1>1, <1>3 DEF ListRunIsFair
  <2>2. card = [inst |-> idea.inst, math |-> idea.math,
                permission |-> IF idea.observe THEN "observation_only" ELSE "research",
                state |-> CASE idea.observe -> "observation_only"
                            [] ~idea.observe /\ idea.verdict = "INSUFFICIENT_DATA" -> "thin_history"
                            [] idea.verdict = "MONITOR" -> "reclaim_watch"
                            [] OTHER -> "listed_watch"]
    BY <1>3 DEF I!Card
  <2> HIDE DEF card, idea
  <2>3. /\ card.inst = idea.inst /\ card.math = idea.math
        /\ card.permission = IF idea.observe THEN "observation_only" ELSE "research"
        /\ card.state = CASE idea.observe -> "observation_only"
                          [] ~idea.observe /\ idea.verdict = "INSUFFICIENT_DATA" -> "thin_history"
                          [] idea.verdict = "MONITOR" -> "reclaim_watch"
                          [] OTHER -> "listed_watch"
    BY <2>2
  <2>4. card.math = r.math[card.inst]
    BY <2>1, <2>3 DEF ListIdeaIsFair
  <2>5. card.permission = "research" => idea.liquidity # "untradeable"
    BY <2>1, <2>3 DEF ListIdeaIsFair
  <2>6. card.state # "no_listing_day"
    BY <2>3
  <2>7. card.state = "reclaim_watch" => r.snap.base.claimed
    BY <2>1, <2>3 DEF ListIdeaIsFair
  <2> QED
    BY <2>4, <2>5, <2>6, <2>7 DEF card, idea, r
<1> QED
  BY <1>2, <1>3

LEMMA ListIInvIsHonest == ListIInv => I!TypeOK /\ I!ListingsAreHonest
<1> SUFFICES ASSUME ListIInv PROVE I!TypeOK /\ I!ListingsAreHonest
  OBVIOUS
<1>1. I!TypeOK
  <2>1. /\ lNow \in 1..MaxTime /\ stamped \in BOOLEAN /\ scans \in 0..MaxScans
    BY DEF ListIInv, ListTyped
  <2>2. \A file \in {deals, prices, events, outcomes} : \A i \in DOMAIN file :
          file[i].known <= file[i].ingested /\ file[i].ingested <= lNow
    <3>1. /\ DOMAIN deals = 1..Len(deals) /\ DOMAIN prices = 1..Len(prices)
          /\ DOMAIN events = 1..Len(events) /\ DOMAIN outcomes = 1..Len(outcomes)
      BY DEF ListIInv, ListTyped
    <3> QED
      BY <3>1 DEF ListIInv, ListTyped, ListPast
  <2>3. \A c \in DOMAIN sessions : /\ c <= lNow /\ sessions[c].status \in {"OK", "DEGRADED"}
                                   /\ sessions[c].percent \in 0..100
    <3> SUFFICES ASSUME NEW c \in DOMAIN sessions
                 PROVE  /\ c <= lNow /\ sessions[c].status \in {"OK", "DEGRADED"}
                        /\ sessions[c].percent \in 0..100
      OBVIOUS
    <3>1. c \in Nat /\ c < lNow /\ ListRunIsFair(sessions[c])
      BY DEF ListIInv, ListRuns
    <3>2. lNow \in Nat
      BY <2>1, ListingsAssumption
    <3> QED
      BY <3>1, <3>2 DEF ListRunIsFair
  <2> QED
    BY <2>1, <2>2, <2>3 DEF I!TypeOK
<1> QED
  BY <1>1, ListOk, ListMonitor, ListCard DEF ListIInv, I!ListingsAreHonest

LEMMA ListIInvHolds == I!Spec => []ListIInv
  BY ListInitIInv, ListStep, PTL DEF I!Spec

(* A step of the composition is one of this part, or leaves it alone.      *)
LEMMA ListPart == ResearchSpec => I!Spec
<1>1. ResearchInit => I!Init
  BY DEF ResearchInit
<1>2. [ResearchNext]_researchVars => [I!Next]_I!vars
  BY DEF ResearchNext, researchVars, listingVars, I!vars
<1> QED
  BY <1>1, <1>2, PTL DEF ResearchSpec, I!Spec

-----------------------------------------------------------------------------
(* Events and screens of a past day do not change with later rows, base    *)
(* rates are claimed above their minimum only, and no row is invented or   *)
(* left out: of the price study, the rates script and the listings screen. *)
THEOREM RatesCorrect == ResearchSpec => []RatesAreHonest
<1>1. TouchIInv /\ RateIInv /\ ListIInv => RatesAreHonest
  BY TouchIInvIsHonest, RateIInvIsSound, ListIInvIsHonest DEF RatesAreHonest
<1> QED
  BY <1>1, TouchPart, RatePart, ListPart, TouchIInvHolds, RateIInvHolds, ListIInvHolds, PTL

(* The thesis workspace is the composition's own.                          *)
LEMMA ThesisPart == ResearchSpec => Spec
<1>1. ResearchInit => Init
  BY DEF ResearchInit
<1>2. [ResearchNext]_researchVars => [Next]_vars
  BY DEF ResearchNext, researchVars
<1> QED
  BY <1>1, <1>2, PTL DEF ResearchSpec, Spec

(* Every part is of its types, whichever the composition runs: the thesis  *)
(* workspace as long as one command runs at a time.                        *)
THEOREM ResearchTypeCorrect == OneCommand /\ ResearchSpec => []ResearchTypeOK
<1>1. /\ TypeOK /\ DeskIInv /\ IdeaIInv /\ BoardIInv
      /\ TouchIInv /\ RateIInv /\ WatchIInv /\ QueueIInv /\ ListIInv
      /\ part \in {"thesis", "desk", "ideas", "board", "touches", "rates", "watch", "queue",
                   "listings"}
      => ResearchTypeOK
  BY DeskIInvIsBounded, IdeaIInvIsGated, BoardIInvIsHonest, TouchIInvIsHonest, RateIInvIsSound,
     WatchIInvIsHonest, QueueIInvIsHonest, ListIInvIsHonest DEF ResearchTypeOK
<1>2. ResearchSpec => [](part \in {"thesis", "desk", "ideas", "board", "touches", "rates",
                                   "watch", "queue", "listings"})
  <2>1. ResearchInit => part \in {"thesis", "desk", "ideas", "board", "touches", "rates",
                                  "watch", "queue", "listings"}
    BY DEF ResearchInit
  <2>2. ASSUME [ResearchNext]_researchVars PROVE part' = part
    BY <2>2 DEF ResearchNext, researchVars
  <2>3. /\ part \in {"thesis", "desk", "ideas", "board", "touches", "rates", "watch", "queue",
                     "listings"}
        /\ [ResearchNext]_researchVars
        => (part \in {"thesis", "desk", "ideas", "board", "touches", "rates", "watch", "queue",
                      "listings"})'
    BY <2>2
  <2> QED
    BY <2>1, <2>3, PTL DEF ResearchSpec
<1> QED
  BY <1>1, <1>2, TypeCorrect, ThesisPart, DeskPart, DeskIInvHolds, IdeaPart, IdeaIInvHolds,
     BoardPart, BoardIInvHolds, TouchPart, TouchIInvHolds, RatePart, RateIInvHolds,
     WatchPart, WatchIInvHolds, QueuePart, QueueIInvHolds, ListPart, ListIInvHolds, PTL
=============================================================================
