------------------------------ MODULE Feeds_proofs ------------------------------
(***************************************************************************)
(* Theorems about Feeds, part by part: the delivery of packs, source       *)
(* health, the vendor adapters, the history pull, the retain capture, the  *)
(* Market Pulse, the morning brief, the alerts and the worker.  A part's   *)
(* lemmas are about its own specification, its theorem about the           *)
(* composition; delivery and source health are modules Feeds EXTENDS, and  *)
(* their theorems are about their own specifications.                      *)
(***************************************************************************)
EXTENDS Feeds, FiniteSetTheorems, SequenceTheorems, TLAPS

-----------------------------------------------------------------------------
(* Counting and adding: what the parts need of finite sets of numbers.     *)
(* Of a finite set of numbers, each has less before it than those after    *)
(* it, and for each number less than the size one has that many before it. *)
LEMMA Ranks ==
    ASSUME NEW S, S \subseteq Nat, IsFiniteSet(S)
    PROVE  LET n == Cardinality(S)
               before(x) == {y \in S : y < x}
           IN  /\ n \in Nat
               /\ \A x \in S : IsFiniteSet(before(x)) /\ Cardinality(before(x)) \in 0..(n - 1)
               /\ \A x, y \in S : x < y => Cardinality(before(x)) < Cardinality(before(y))
               /\ \A k \in 0..(n - 1) : \E x \in S : Cardinality(before(x)) = k
<1> DEFINE n == Cardinality(S)
           before(x) == {y \in S : y < x}
           rank == [x \in S |-> Cardinality(before(x))]
<1>1. n \in Nat
  BY FS_CardinalityType
<1>2. \A x \in S : IsFiniteSet(before(x)) /\ Cardinality(before(x)) \in 0..(n - 1)
  <2> TAKE x \in S
  <2>1. IsFiniteSet(S \ {x}) /\ Cardinality(S \ {x}) = n - 1
    BY FS_RemoveElement
  <2>2. before(x) \in SUBSET (S \ {x})
    OBVIOUS
  <2>3. IsFiniteSet(before(x)) /\ Cardinality(before(x)) <= n - 1
    BY <2>1, <2>2, FS_Subset
  <2>4. Cardinality(before(x)) \in Nat
    BY <2>3, FS_CardinalityType
  <2> QED
    BY <2>3, <2>4, <1>1
<1>3. \A x, y \in S : x < y => Cardinality(before(x)) < Cardinality(before(y))
  <2> SUFFICES ASSUME NEW x \in S, NEW y \in S, x < y
               PROVE  Cardinality(before(x)) < Cardinality(before(y))
    OBVIOUS
  <2>1. x \in before(y) /\ x \notin before(x)
    OBVIOUS
  <2>2. before(x) \in SUBSET before(y)
    <3>1. \A w \in S : w \in Nat /\ x \in Nat /\ y \in Nat
      OBVIOUS
    <3>2. \A w \in S : w < x => w < y
      BY <3>1
    <3> QED
      BY <3>2
  <2>3. /\ Cardinality(before(x)) <= Cardinality(before(y))
        /\ Cardinality(before(x)) # Cardinality(before(y))
    BY <2>1, <2>2, <1>2, FS_Subset
  <2> QED
    BY <2>3, <1>2, <1>1
<1>4. \A x, y \in S : Cardinality(before(x)) = Cardinality(before(y)) => x = y
  <2>1. \A x, y \in S : x = y \/ x < y \/ y < x
    OBVIOUS
  <2>2. \A x \in S : ~(Cardinality(before(x)) < Cardinality(before(x)))
    BY <1>1, <1>2
  <2> HIDE DEF before
  <2> QED
    BY <1>3, <2>1, <2>2
<1>5. rank \in Injection(S, 0..(n - 1))
  BY <1>2, <1>4 DEF Injection, IsInjective
<1>6. IsFiniteSet(0..(n - 1)) /\ Cardinality(0..(n - 1)) = n
  <2> HIDE DEF n
  <2>1. 0 \in Int /\ n - 1 \in Int /\ (IF 0 > n - 1 THEN 0 ELSE (n - 1) - 0 + 1) = n
    BY <1>1
  <2>2. \A a, b \in Int : /\ IsFiniteSet(a..b)
                          /\ Cardinality(a..b) = IF a > b THEN 0 ELSE b - a + 1
    BY FS_Interval
  <2> QED
    BY <2>1, <2>2
<1>7. rank \in Surjection(S, 0..(n - 1))
  BY <1>5, <1>6, FS_Injection
<1>8. \A k \in 0..(n - 1) : \E x \in S : Cardinality(before(x)) = k
  BY <1>7 DEF Surjection
<1> QED
  BY <1>1, <1>2, <1>3, <1>8

(* A set of natural numbers has a least one.                               *)
LEMMA NatLeast ==
    ASSUME NEW S, S \subseteq Nat, S # {}
    PROVE  \E x \in S : \A y \in S : x <= y
<1>1. PICK z \in S : z \in Nat
  OBVIOUS
<1> DEFINE T == {y \in S : y <= z}
<1>2. T \subseteq Nat /\ z \in T /\ IsFiniteSet(T)
  <2>1. T \in SUBSET (0..z) /\ z <= z
    <3>1. \A y \in T : y \in Nat /\ y <= z
      OBVIOUS
    <3> HIDE DEF T
    <3> QED
      BY <1>1, <3>1
  <2>2. IsFiniteSet(0..z)
    BY <1>1, FS_Interval
  <2> QED
    BY <1>1, <2>1, <2>2, FS_Subset
<1>3. Cardinality(T) \in Nat /\ Cardinality(T) # 0
  BY <1>2, FS_CardinalityType, FS_EmptySet
<1>4. PICK x \in T : Cardinality({y \in T : y < x}) = 0
  <2>1. 0 \in 0..(Cardinality(T) - 1)
    BY <1>3
  <2> HIDE DEF T
  <2> QED
    BY <1>2, <2>1, Ranks
<1>5. {y \in T : y < x} = {}
  <2> HIDE DEF T
  <2>1. IsFiniteSet({y \in T : y < x})
    BY <1>2, Ranks
  <2> QED
    BY <1>4, <2>1, FS_EmptySet
<1>6. \A y \in S : x <= y
  <2> TAKE y \in S
  <2>1. x \in Nat /\ x <= z /\ y \in Nat
    OBVIOUS
  <2>2. CASE y <= z
    BY <1>5, <2>1, <2>2
  <2>3. CASE ~(y <= z)
    BY <1>1, <2>1, <2>3
  <2> QED
    BY <2>2, <2>3
<1> QED
  BY <1>6

(* One that is bounded has a greatest one.                                 *)
LEMMA NatGreatest ==
    ASSUME NEW S, S \subseteq Nat, S # {}, NEW b \in Nat, \A x \in S : x <= b
    PROVE  \E x \in S : \A y \in S : x >= y
<1> DEFINE T == {b - x : x \in S}
<1>1. T \subseteq Nat /\ T # {}
  <2>1. \A x \in S : b - x \in Nat
    OBVIOUS
  <2> QED
    BY <2>1
<1>2. PICK t \in T : \A u \in T : t <= u
  BY <1>1, NatLeast
<1>3. PICK x \in S : t = b - x
  OBVIOUS
<1>4. \A y \in S : x >= y
  <2> TAKE y \in S
  <2>1. b - x <= b - y
    BY <1>2, <1>3
  <2>2. x \in Nat /\ y \in Nat
    BY <1>3
  <2> QED
    BY <2>1, <2>2
<1> QED
  BY <1>3, <1>4

(* Induction over the natural numbers, for a set of them.                  *)
LEMMA NatInduct ==
    ASSUME NEW S, 0 \in S, \A n \in Nat : n \in S => n + 1 \in S
    PROVE  Nat \subseteq S
<1> DEFINE T == Nat \ S
<1> SUFFICES ASSUME T # {} PROVE FALSE
  OBVIOUS
<1>1. PICK x \in T : \A y \in T : x <= y
  BY NatLeast
<1>2. x \in Nat /\ x # 0 /\ x \notin S
  BY <1>1
<1>3. x - 1 \in Nat /\ x - 1 \notin T
  BY <1>1, <1>2
<1>4. x - 1 \in S /\ (x - 1) + 1 = x
  BY <1>2, <1>3
<1> QED
  BY <1>2, <1>3, <1>4

(* Induction over the subsets of a finite set: a family has them all if it *)
(* has each one that it has without any one of its elements.               *)
LEMMA FiniteInduct ==
    ASSUME NEW S, IsFiniteSet(S), NEW F,
           \A C \in SUBSET S : (\A x \in C : C \ {x} \in F) => C \in F
    PROVE  \A C \in SUBSET S : C \in F
<1> DEFINE D == {n \in Nat : \A C \in SUBSET S : Cardinality(C) = n => C \in F}
<1>1. \A C \in SUBSET S : IsFiniteSet(C) /\ Cardinality(C) \in Nat
  BY FS_Subset, FS_CardinalityType
<1>2. 0 \in D
  <2>1. \A C \in SUBSET S : Cardinality(C) = 0 => C = {}
    BY <1>1, FS_EmptySet
  <2> QED
    BY <2>1
<1>3. ASSUME NEW n \in Nat, n \in D PROVE n + 1 \in D
  <2> SUFFICES ASSUME NEW C \in SUBSET S, Cardinality(C) = n + 1 PROVE C \in F
    OBVIOUS
  <2>1. ASSUME NEW x \in C PROVE C \ {x} \in F
    <3>1. Cardinality(C \ {x}) = Cardinality(C) - 1
      BY <1>1, FS_RemoveElement
    <3>2. C \ {x} \in SUBSET S /\ Cardinality(C \ {x}) = n
      BY <1>3, <3>1
    <3> QED
      BY <1>3, <3>2
  <2> QED
    BY <2>1
<1>4. Nat \subseteq D
  <2> HIDE DEF D
  <2> QED
    BY <1>2, <1>3, NatInduct
<1> QED
  BY <1>1, <1>4

(* A finite set of natural numbers has a greatest one.                     *)
LEMMA FiniteGreatest ==
    ASSUME NEW S, S \subseteq Nat, IsFiniteSet(S), S # {}
    PROVE  \E x \in S : \A y \in S : x >= y
<1> DEFINE F == {C \in SUBSET S : C = {} \/ \E x \in C : \A y \in C : x >= y}
<1>1. ASSUME NEW C \in SUBSET S, \A x \in C : C \ {x} \in F PROVE C \in F
  <2> SUFFICES ASSUME C # {} PROVE \E x \in C : \A y \in C : x >= y
    OBVIOUS
  <2>1. PICK c \in C : TRUE
    OBVIOUS
  <2>2. CASE C \ {c} = {}
    BY <2>1, <2>2
  <2>3. CASE C \ {c} # {}
    <3>1. PICK x \in C \ {c} : \A y \in C \ {c} : x >= y
      BY <1>1, <2>1, <2>3
    <3>2. x \in Nat /\ c \in Nat
      BY <2>1
    <3>3. CASE x >= c
      BY <3>1, <3>3
    <3>4. CASE c > x
      <4>1. \A y \in C \ {c} : y \in Nat /\ c >= y
        BY <3>1, <3>2, <3>4
      <4> QED
        BY <2>1, <3>2, <4>1
    <3> QED
      BY <3>2, <3>3, <3>4
  <2> QED
    BY <2>2, <2>3
<1>2. \A C \in SUBSET S : C \in F
  <2> HIDE DEF F
  <2> QED
    BY <1>1, FiniteInduct
<1> QED
  BY <1>2

(* The sums of the weights w of the subsets of S, as MapThenSumSet adds    *)
(* them up: in the order of CHOOSE.                                        *)
Pick(s) == CHOOSE x \in s : TRUE
AreSums(g, S, w) ==
    g = [s \in SUBSET S |-> IF s = {} THEN 0 ELSE w[Pick(s)] + g[s \ {Pick(s)}]]

LEMMA PickIsIn == ASSUME NEW s, s # {} PROVE Pick(s) \in s
BY DEF Pick

(* There are such sums,                                                    *)
LEMMA SumsExist ==
    ASSUME NEW S, IsFiniteSet(S), NEW w \in [S -> Nat]
    PROVE  \E g : AreSums(g, S, w)
<1> DEFINE Upto(n) == {s \in SUBSET S : Cardinality(s) <= n}
           Is(g, n) == g = [s \in Upto(n) |-> IF s = {} THEN 0 ELSE w[Pick(s)] + g[s \ {Pick(s)}]]
           D == {n \in Nat : \E g : Is(g, n)}
<1>1. \A s \in SUBSET S : IsFiniteSet(s) /\ Cardinality(s) \in Nat
        /\ Cardinality(s) <= Cardinality(S)
  BY FS_Subset, FS_CardinalityType
<1>2. \A s \in SUBSET S : s # {} =>
          /\ s \ {Pick(s)} \in SUBSET S
          /\ Cardinality(s \ {Pick(s)}) = Cardinality(s) - 1
  BY <1>1, PickIsIn, FS_RemoveElement
<1>3. 0 \in D
  <2> DEFINE g == [s \in Upto(0) |-> 0]
  <2>1. \A s \in Upto(0) : s = {}
    BY <1>1, FS_EmptySet
  <2>2. g = [s \in Upto(0) |-> IF s = {} THEN 0 ELSE w[Pick(s)] + g[s \ {Pick(s)}]]
    BY <2>1
  <2> QED
    BY <2>2
<1>4. ASSUME NEW n \in Nat, n \in D PROVE n + 1 \in D
  <2>1. PICK g : Is(g, n)
    BY <1>4
  <2> DEFINE h == [s \in Upto(n + 1) |-> IF s = {} THEN 0 ELSE w[Pick(s)] + g[s \ {Pick(s)}]]
  <2>2. \A s \in Upto(n) : s \in Upto(n + 1) /\ h[s] = g[s]
    <3> TAKE s \in Upto(n)
    <3>1. s \in Upto(n + 1)
      BY <1>1
    <3>2. g[s] = IF s = {} THEN 0 ELSE w[Pick(s)] + g[s \ {Pick(s)}]
      BY <2>1
    <3> QED
      BY <3>1, <3>2
  <2>3. \A s \in Upto(n + 1) : s # {} => s \ {Pick(s)} \in Upto(n)
    BY <1>1, <1>2
  <2>4. \A s \in Upto(n + 1) : s # {} => h[s \ {Pick(s)}] = g[s \ {Pick(s)}]
    <3> HIDE DEF h
    <3> QED
      BY <2>2, <2>3
  <2>5. h = [s \in Upto(n + 1) |-> IF s = {} THEN 0 ELSE w[Pick(s)] + h[s \ {Pick(s)}]]
    BY <2>4
  <2>6. Is(h, n + 1)
    BY <2>5
  <2>7. \E f : Is(f, n + 1)
    <3> HIDE DEF h, Is
    <3> QED
      BY <2>6
  <2> HIDE DEF Is
  <2> QED
    BY <2>7
<1>5. Cardinality(S) \in D
  <2>1. Nat \subseteq D
    <3> HIDE DEF D
    <3> QED
      BY <1>3, <1>4, NatInduct
  <2> QED
    BY <2>1, <1>1
<1>6. Upto(Cardinality(S)) = SUBSET S
  BY <1>1
<1> QED
  BY <1>5, <1>6 DEF AreSums

(* they are numbers,                                                       *)
LEMMA SumsAreNat ==
    ASSUME NEW S, IsFiniteSet(S), NEW w \in [S -> Nat], NEW g, AreSums(g, S, w)
    PROVE  \A C \in SUBSET S : g[C] \in Nat
<1> DEFINE F == {C \in SUBSET S : g[C] \in Nat}
<1>1. ASSUME NEW C \in SUBSET S, \A x \in C : C \ {x} \in F PROVE C \in F
  <2>1. g[C] = IF C = {} THEN 0 ELSE w[Pick(C)] + g[C \ {Pick(C)}]
    BY DEF AreSums
  <2>2. C # {} => w[Pick(C)] \in Nat /\ g[C \ {Pick(C)}] \in Nat
    BY <1>1, PickIsIn
  <2>3. g[C] \in Nat
    BY <2>1, <2>2
  <2> QED
    BY <2>3
<1>2. \A C \in SUBSET S : C \in F
  <2> HIDE DEF F
  <2> QED
    BY <1>1, FiniteInduct
<1> QED
  BY <1>2

(* add an element whatever the order of CHOOSE,                            *)
LEMMA SumsAdd ==
    ASSUME NEW S, IsFiniteSet(S), NEW w \in [S -> Nat], NEW g, AreSums(g, S, w)
    PROVE  \A C \in SUBSET S : \A x \in S \ C : g[C \cup {x}] = g[C] + w[x]
<1> DEFINE F == {C \in SUBSET S : \A x \in S \ C : g[C \cup {x}] = g[C] + w[x]}
<1>1. \A C \in SUBSET S : g[C] \in Nat
  BY SumsAreNat
<1>2. ASSUME NEW C \in SUBSET S, \A x \in C : C \ {x} \in F PROVE C \in F
  <2> SUFFICES ASSUME NEW x \in S \ C PROVE g[C \cup {x}] = g[C] + w[x]
    OBVIOUS
  <2> DEFINE B == C \cup {x}
             c == Pick(B)
  <2>1. B \in SUBSET S /\ B # {} /\ c \in B
    BY PickIsIn
  <2>2. g[B] = w[c] + g[B \ {c}]
    BY <2>1 DEF AreSums
  <2>3. CASE c = x
    <3>1. B \ {c} = C
      BY <2>3
    <3>2. w[x] \in Nat /\ g[C] \in Nat
      BY <1>1
    <3>3. g[B] = w[x] + g[C]
      BY <2>2, <2>3, <3>1
    <3> QED
      BY <3>2, <3>3
  <2>4. CASE c # x
    <3> HIDE DEF c
    <3>1. c \in C /\ C \ {c} \in F /\ c \in S \ (C \ {c}) /\ x \in S \ (C \ {c})
      BY <1>2, <2>1, <2>4
    <3>2. B \ {c} = (C \ {c}) \cup {x} /\ C = (C \ {c}) \cup {c}
      BY <2>4, <3>1
    <3>3. g[B \ {c}] = g[C \ {c}] + w[x] /\ g[C] = g[C \ {c}] + w[c]
      BY <3>1, <3>2
    <3>4. w[x] \in Nat /\ w[c] \in Nat /\ g[C \ {c}] \in Nat
      BY <1>1, <3>1
    <3> QED
      BY <2>2, <3>3, <3>4
  <2> QED
    BY <2>3, <2>4
<1>3. \A C \in SUBSET S : C \in F
  <2> HIDE DEF F
  <2> QED
    BY <1>2, FiniteInduct
<1> QED
  BY <1>3

(* grow with the set,                                                      *)
LEMMA SumsGrow ==
    ASSUME NEW S, IsFiniteSet(S), NEW w \in [S -> Nat], NEW g, AreSums(g, S, w)
    PROVE  \A C \in SUBSET S : \A B \in SUBSET C : g[B] <= g[C]
<1>0. ASSUME NEW D \in SUBSET S, NEW x \in S \ D PROVE g[D \cup {x}] = g[D] + w[x]
  BY SumsAdd
<1> DEFINE F == {C \in SUBSET S : \A B \in SUBSET C : g[B] <= g[C]}
<1>1. \A C \in SUBSET S : g[C] \in Nat
  BY SumsAreNat
<1>2. ASSUME NEW C \in SUBSET S, \A x \in C : C \ {x} \in F PROVE C \in F
  <2> SUFFICES ASSUME NEW B \in SUBSET C, B # C PROVE g[B] <= g[C]
    BY <1>1
  <2>1. PICK c \in C : c \notin B
    OBVIOUS
  <2>2. g[B] <= g[C \ {c}]
    BY <1>2, <2>1
  <2>3. g[(C \ {c}) \cup {c}] = g[C \ {c}] + w[c]
    <3>1. C \ {c} \in SUBSET S /\ c \in S \ (C \ {c})
      BY <2>1
    <3> QED
      BY <1>0, <3>1
  <2>4. C = (C \ {c}) \cup {c}
    BY <2>1
  <2>5. g[B] \in Nat /\ g[C] \in Nat /\ g[C \ {c}] \in Nat /\ w[c] \in Nat
    BY <1>1, <2>1
  <2> QED
    BY <2>2, <2>3, <2>4, <2>5
<1>3. \A C \in SUBSET S : C \in F
  <2> HIDE DEF F
  <2> QED
    BY <1>2, FiniteInduct
<1> QED
  BY <1>3

(* and are the same from any larger set.                                   *)
LEMMA SumsAgree ==
    ASSUME NEW S, IsFiniteSet(S), NEW w \in [S -> Nat], NEW g, AreSums(g, S, w),
           NEW T \in SUBSET S, NEW v \in [T -> Nat], \A x \in T : v[x] = w[x],
           NEW h, AreSums(h, T, v)
    PROVE  h[T] = g[T]
<1> DEFINE F == {C \in SUBSET T : h[C] = g[C]}
<1>1. ASSUME NEW C \in SUBSET T, \A x \in C : C \ {x} \in F PROVE C \in F
  <2>1. h[C] = IF C = {} THEN 0 ELSE v[Pick(C)] + h[C \ {Pick(C)}]
    BY DEF AreSums
  <2>2. g[C] = IF C = {} THEN 0 ELSE w[Pick(C)] + g[C \ {Pick(C)}]
    <3>1. C \in SUBSET S
      OBVIOUS
    <3> QED
      BY <3>1 DEF AreSums
  <2> QED
    BY <1>1, <2>1, <2>2, PickIsIn
<1>2. IsFiniteSet(T)
  BY FS_Subset
<1>3. \A C \in SUBSET T : C \in F
  <2> HIDE DEF F
  <2> QED
    BY <1>1, <1>2, FiniteInduct
<1> QED
  BY <1>3

-----------------------------------------------------------------------------
(* The delivery of packs (PrincipalDelivery).                              *)
(* A call of the command line is one to the Principal's direct message.    *)
RoutedCalls == {c \in Calls : c.cli => c.dm}

Routed == todo \in Seq(RoutedCalls)

(* Nothing is on the wire between two commands.                            *)
Idle == todo = <<>> => pos = Start

Running == todo # <<>> /\ pos # Start

(* A call that has begun passed every gate, and what the gates read (the   *)
(* environment, the store) has not changed under it since.                 *)
Gated ==
    Running => /\ ResolveChat(Now) \in Chats
               /\ Now.dm => env.dm # env.group
               /\ ~Seen(Now)
               /\ pos.chunk \in 1..LastPart(Now)

(* Every part before the current one is in the chat, and the current one   *)
(* too once Telegram has answered.                                         *)
Progress ==
    Running => \A n \in 1..pos.chunk :
        n < pos.chunk \/ pos.attempt = 0 => n \in PartsIn(ResolveChat(Now), Key(Now))

(* A chat holds all the text of a pack.                                    *)
HasText(x, k) == 1..ChunkCount[k[2]] \subseteq PartsIn(x, k)

(* PartialIsRecorded with the chat: only the chat of the running call may  *)
(* hold a part of an unrecorded pack.                                      *)
Recorded ==
    \A x \in Chats, k \in Keys :
        \/ PartsIn(x, k) = {}
        \/ HasText(x, k)
        \/ k \in failed
        \/ Running /\ Key(Now) = k /\ ResolveChat(Now) = x

(* CleanExitMeansWhole, and the chat of a clean exit is a chat.            *)
Clean ==
    \A r \in done : (r.cli /\ r.rc = 0 /\ r.reason # "no_send") =>
        r.chat \in Chats /\ HasText(r.chat, r.key)

IInv ==
    /\ TypeOK
    /\ Routed
    /\ Idle
    /\ Gated
    /\ Progress
    /\ Recorded
    /\ Clean
    /\ ChunksInOrder
-----------------------------------------------------------------------------
(* The call in hand, and the calls behind it.                              *)
LEMMA NowIsACall ==
    ASSUME TypeOK, Routed, todo # <<>>
    PROVE  /\ Now \in Calls /\ (Now.cli => Now.dm)
           /\ Tail(todo) \in Seq(RoutedCalls)
           /\ Key(Now) \in Keys /\ Key(Now)[2] = Now.pack
           /\ ChunkCount[Now.pack] \in Nat \ {0}
           /\ LastPart(Now) \in Nat /\ LastPart(Now) >= ChunkCount[Now.pack]
           /\ ResolveChat(Now) \in Chats \cup {Unset}
  <1>1. Now \in RoutedCalls /\ Tail(todo) \in Seq(RoutedCalls)
    BY HeadTailProperties DEF Now, Routed
  <1>2. Now \in Calls /\ (Now.cli => Now.dm)
    BY <1>1 DEF RoutedCalls
  <1>3. Now.desk \in Desks /\ Now.pack \in Packs
    BY <1>2 DEF Calls
  <1>4. Key(Now) \in Keys /\ Key(Now)[2] = Now.pack
    BY <1>3 DEF Key, Keys
  <1>5. ChunkCount[Now.pack] \in Nat \ {0}
    BY <1>3, DeliveryAssumption
  <1>6. LastPart(Now) \in Nat /\ LastPart(Now) >= ChunkCount[Now.pack]
    BY <1>5 DEF LastPart
  <1>7. ResolveChat(Now) \in Chats \cup {Unset}
    BY DEF ResolveChat, TypeOK, Env, Chats, Unset
  <1> QED
    BY <1>1, <1>2, <1>4, <1>5, <1>6, <1>7

(* A list of routed calls is a list of calls.                              *)
LEMMA RoutedTyped ==
    ASSUME NEW s \in Seq(RoutedCalls)
    PROVE  s \in Seq(Calls)
  BY DEF RoutedCalls

(* What passing the gates of deliver() means.                              *)
LEMMA GatesPassed ==
    ASSUME TypeOK, Routed, todo # <<>>, Refusal(Now) = "none"
    PROVE  /\ ResolveChat(Now) \in Chats
           /\ Now.dm => env.dm # env.group
           /\ ~Seen(Now)
  <1>1. Gate(Now) # "none"
    BY DEF Gate
  <1>2. /\ ~(Now.dm /\ env.dm = Unset)
        /\ ~(Now.dm /\ env.dm = env.group)
        /\ ~(~Now.dm /\ ResolveChat(Now) = Unset)
        /\ ~Seen(Now)
    BY <1>1, Zenon DEF Refusal
  <1>3. ResolveChat(Now) # Unset
    BY <1>2, NowIsACall DEF ResolveChat
  <1> QED
    BY <1>2, <1>3, NowIsACall

(* A refusal is one of the reasons deliver() gives.                        *)
LEMMA RefusalTyped ==
    ASSUME NEW c, Refusal(c) # "none"
    PROVE  Refusal(c) \in Refusals
  BY DEF Refusal, Refusals, Gate

(* The result of the running call.                                         *)
LEMMA ResultTyped ==
    ASSUME TypeOK, Routed, todo # <<>>, NEW sent \in BOOLEAN,
           NEW reason \in Refusals \cup {"no_send", "rate_limited", "retries_exhausted", "ok"}
    PROVE  /\ Result(Now, sent, reason) \in Results
           /\ LET r == Result(Now, sent, reason)
              IN /\ r.key = Key(Now) /\ r.chat = ResolveChat(Now)
                 /\ r.cli /\ r.rc = 0 => sent
  <1>1. Now.cli \in BOOLEAN /\ Now.shared \in BOOLEAN /\ Now.exitOk \in BOOLEAN
    BY NowIsACall DEF Calls
  <1>2. (IF Now.cli /\ ~(sent /\ Now.exitOk) THEN 2 ELSE 0) \in {0, 2}
    OBVIOUS
  <1>3. Result(Now, sent, reason) \in Results
    BY <1>1, <1>2, NowIsACall DEF Result, Results
  <1>4. LET r == Result(Now, sent, reason)
        IN /\ r.key = Key(Now) /\ r.chat = ResolveChat(Now)
           /\ r.cli /\ r.rc = 0 => sent
    BY DEF Result
  <1> QED
    BY <1>3, <1>4

(* A chat holds a part when the part is a line of its transcript.          *)
LEMMA PartsAreLines ==
    ASSUME TypeOK, NEW x \in Chats, NEW k \in Keys, NEW n
    PROVE  n \in PartsIn(x, k) <=> \E i \in DOMAIN chat[x] : chat[x][i] = <<k, n>>
  <1>1. \A i \in DOMAIN chat[x] : chat[x][i] = <<chat[x][i][1], chat[x][i][2]>>
    BY DEF TypeOK
  <1> QED
    BY <1>1 DEF PartsIn

(* The effect of an accepted part: the chat keeps its type and its order,  *)
(* and one pack gains one part in one chat.                                *)
LEMMA AcceptAdds ==
    ASSUME TypeOK, Routed, Gated, Progress, ChunksInOrder, Running, Accept
    PROVE  /\ chat' \in [Chats -> Seq(Keys \X Nat)]
           /\ ChunksInOrder'
           /\ \A x \in Chats, k \in Keys :
                  PartsIn(x, k)' = IF x = ResolveChat(Now) /\ k = Key(Now)
                                   THEN PartsIn(x, k) \cup {pos.chunk} ELSE PartsIn(x, k)
  <1> DEFINE target == ResolveChat(Now)
             line == <<Key(Now), pos.chunk>>
  <1>1. /\ target \in Chats /\ Key(Now) \in Keys /\ pos.chunk \in Nat /\ pos.chunk >= 1
        /\ pos.chunk <= LastPart(Now) /\ LastPart(Now) \in Nat
    BY NowIsACall DEF Running, Gated, TypeOK
  <1>2. line \in Keys \X Nat /\ line[1] = Key(Now) /\ line[2] = pos.chunk
    BY <1>1
  <1>3. chat[target] \in Seq(Keys \X Nat)
    BY <1>1 DEF TypeOK
  <1>4. chat' = [chat EXCEPT ![target] = Append(chat[target], line)]
    BY DEF Accept
  <1> HIDE DEF target, line
  <1>5. /\ Append(chat[target], line) \in Seq(Keys \X Nat)
        /\ Len(Append(chat[target], line)) = Len(chat[target]) + 1
        /\ \A i \in 1..Len(chat[target]) : Append(chat[target], line)[i] = chat[target][i]
        /\ Append(chat[target], line)[Len(chat[target]) + 1] = line
    BY <1>2, <1>3, AppendProperties
  <1>6. chat' \in [Chats -> Seq(Keys \X Nat)]
    BY <1>1, <1>4, <1>5 DEF TypeOK
  <1>7. chat'[target] = Append(chat[target], line) /\ \A x \in Chats \ {target} : chat'[x] = chat[x]
    BY <1>1, <1>4 DEF TypeOK
  <1>8. /\ Len(chat[target]) \in Nat
        /\ DOMAIN chat[target] = 1..Len(chat[target])
        /\ DOMAIN chat'[target] = 1..(Len(chat[target]) + 1)
        /\ \A i \in 1..Len(chat[target]) : chat'[target][i] = chat[target][i]
        /\ chat'[target][Len(chat[target]) + 1] = line
    BY <1>3, <1>5, <1>7
  <1>9. ChunksInOrder'
    <2> SUFFICES ASSUME NEW x \in Chats, NEW i \in DOMAIN chat'[x], chat'[x][i][2] > 1
                 PROVE  \E j \in 1..(i - 1) :
                            chat'[x][j] = <<chat'[x][i][1], chat'[x][i][2] - 1>>
      BY DEF ChunksInOrder
    <2>1. CASE x # target
      <3>1. chat'[x] = chat[x]
        BY <2>1, <1>7
      <3> QED
        BY <3>1 DEF ChunksInOrder
    <2>2. CASE x = target /\ i \in 1..Len(chat[target])
      <3>1. PICK j \in 1..(i - 1) : chat[target][j] = <<chat[target][i][1], chat[target][i][2] - 1>>
        BY <2>2, <1>1, <1>8 DEF ChunksInOrder
      <3>2. j \in 1..Len(chat[target])
        BY <2>2, <1>8
      <3> QED
        BY <2>2, <3>1, <3>2, <1>8
    <2>3. CASE x = target /\ i = Len(chat[target]) + 1
      <3>1. pos.chunk > 1
        BY <2>3, <1>2, <1>8
      <3>2. pos.chunk - 1 \in PartsIn(target, Key(Now))
        BY <3>1, <1>1 DEF Progress, target
      <3>3. PICK j \in DOMAIN chat[target] : chat[target][j] = <<Key(Now), pos.chunk - 1>>
        BY <3>2, <1>1, PartsAreLines
      <3> QED
        BY <2>3, <3>3, <1>2, <1>8
    <2> QED
      BY <2>1, <2>2, <2>3, <1>8
  <1>10. ASSUME NEW x \in Chats, NEW k \in Keys
         PROVE  PartsIn(x, k)' = IF x = target /\ k = Key(Now)
                                 THEN PartsIn(x, k) \cup {pos.chunk} ELSE PartsIn(x, k)
    <2>1. CASE x # target
      BY <2>1, <1>7 DEF PartsIn
    <2>2. CASE x = target
      <3> DEFINE n == Len(chat[target])
      <3>1. \A m : m \in PartsIn(x, k)'
                    <=> \E i \in 1..(n + 1) : chat'[target][i][1] = k /\ m = chat'[target][i][2]
        BY <2>2, <1>8 DEF PartsIn
      <3>2. \A m : m \in PartsIn(x, k)
                    <=> \E i \in 1..n : chat[target][i][1] = k /\ m = chat[target][i][2]
        BY <2>2, <1>8 DEF PartsIn
      <3>3. 1..(n + 1) = 1..n \cup {n + 1}
        BY <1>8
      <3>4. \A m : m \in PartsIn(x, k)'
                    <=> m \in PartsIn(x, k) \/ (line[1] = k /\ m = line[2])
        <4> TAKE m
        <4> HIDE DEF n
        <4>1. (\E i \in 1..(n + 1) : chat'[target][i][1] = k /\ m = chat'[target][i][2])
                <=> \/ \E i \in 1..n : chat'[target][i][1] = k /\ m = chat'[target][i][2]
                    \/ chat'[target][n + 1][1] = k /\ m = chat'[target][n + 1][2]
          BY <3>3
        <4>2. (\E i \in 1..n : chat'[target][i][1] = k /\ m = chat'[target][i][2])
                <=> (\E i \in 1..n : chat[target][i][1] = k /\ m = chat[target][i][2])
          BY <1>8 DEF n
        <4>3. chat'[target][n + 1] = line
          BY <1>8 DEF n
        <4> QED
          BY <3>1, <3>2, <4>1, <4>2, <4>3
      <3>5. (k = Key(Now) => PartsIn(x, k)' = PartsIn(x, k) \cup {pos.chunk})
            /\ (k # Key(Now) => PartsIn(x, k)' = PartsIn(x, k))
        BY <3>4, <1>2
      <3> QED
        BY <2>2, <3>5
    <2> QED
      BY <2>1, <2>2
  <1> QED
    BY <1>6, <1>9, <1>10 DEF target
-----------------------------------------------------------------------------
(* Two transcripts of which the second holds every part of the first, and  *)
(* differs from it only in the pack and the chat of the running call.      *)
Grows ==
    \A x \in Chats, k \in Keys :
        /\ PartsIn(x, k) \subseteq PartsIn(x, k)'
        /\ x # ResolveChat(Now) \/ k # Key(Now) => PartsIn(x, k)' = PartsIn(x, k)

LEMMA AcceptGrows ==
    ASSUME TypeOK, Routed, Gated, Progress, ChunksInOrder, Running, Accept
    PROVE  Grows
  BY AcceptAdds DEF Grows

LEMMA SameChatGrows ==
    ASSUME UNCHANGED chat
    PROVE  Grows
  BY DEF Grows, PartsIn

(* The step leaves the whole text of the running call's pack in its chat.  *)
LeftWhole ==
    \A x \in Chats, k \in Keys : x = ResolveChat(Now) /\ k = Key(Now) => HasText(x, k)'

(* What is in a chat stays in it.                                          *)
LEMMA TextStays ==
    ASSUME Grows, NEW x \in Chats, NEW k \in Keys, HasText(x, k)
    PROVE  HasText(x, k)'
  BY DEF Grows, HasText

(* The end of a call that leaves its pack whole in its chat, not begun, or *)
(* recorded as failed.                                                     *)
LEMMA CloseKeeps ==
    ASSUME IInv, todo # <<>>, NEW sent \in BOOLEAN,
           NEW reason \in Refusals \cup {"rate_limited", "retries_exhausted", "ok"},
           Close(Result(Now, sent, reason)),
           UNCHANGED <<env, night, runs>>,
           chat' \in [Chats -> Seq(Keys \X Nat)], ChunksInOrder', Grows,
           store' \subseteq Keys, failed \subseteq failed', failed' \subseteq Keys,
           pings' \subseteq {"start", "success"}, faults' \in 0..MaxFaults,
           pos = Start \/ Key(Now) \in failed' \/ LeftWhole,
           pos = Start => UNCHANGED chat,
           sent => ResolveChat(Now) \in Chats /\ LeftWhole
    PROVE  IInv'
  <1> DEFINE res == Result(Now, sent, reason)
  <1>1. /\ Tail(todo) \in Seq(RoutedCalls) /\ Key(Now) \in Keys
        /\ ResolveChat(Now) \in Chats \cup {Unset}
    BY NowIsACall DEF IInv
  <1>2. /\ res \in Results /\ res.key = Key(Now) /\ res.chat = ResolveChat(Now)
        /\ res.cli /\ res.rc = 0 => sent
    BY ResultTyped DEF IInv
  <1> HIDE DEF res
  <1>3. /\ todo' = Tail(todo) /\ pos' = Start /\ done' = done \cup {res}
    BY DEF Close, res
  <1>4. todo' \in Seq(Calls)
    BY <1>1, <1>3, RoutedTyped
  <1>5. Start \in [chunk : Nat, used : Nat, attempt : 0..Attempts]
    BY DeliveryAssumption DEF Start
  <1>6. TypeOK'
    <2>1. done' \subseteq Results
      BY <1>2, <1>3 DEF IInv, TypeOK
    <2> QED
      BY <1>3, <1>4, <1>5, <2>1 DEF IInv, TypeOK
  <1>7. Routed' /\ Idle' /\ ~Running' /\ Gated' /\ Progress'
    BY <1>1, <1>3 DEF Routed, Idle, Running, Gated, Progress
  <1>8. Recorded'
    <2> SUFFICES ASSUME NEW x \in Chats, NEW k \in Keys
                 PROVE  PartsIn(x, k)' = {} \/ HasText(x, k)' \/ k \in failed'
      BY DEF Recorded
    <2>1. CASE Running /\ Key(Now) = k /\ ResolveChat(Now) = x
      BY <2>1 DEF Running, LeftWhole
    <2>2. CASE ~(Running /\ Key(Now) = k /\ ResolveChat(Now) = x)
      <3>1. PartsIn(x, k) = {} \/ HasText(x, k) \/ k \in failed
        BY <2>2 DEF IInv, Recorded
      <3>2. PartsIn(x, k)' = PartsIn(x, k)
        <4>1. CASE pos = Start
          BY <4>1 DEF PartsIn
        <4>2. CASE pos # Start
          BY <2>2, <4>2 DEF Grows, Running
        <4> QED
          BY <4>1, <4>2
      <3> QED
        BY <3>1, <3>2 DEF HasText
    <2> QED
      BY <2>1, <2>2
  <1>9. Clean'
    <2> SUFFICES ASSUME NEW r \in done', r.cli, r.rc = 0, r.reason # "no_send"
                 PROVE  r.chat \in Chats /\ HasText(r.chat, r.key)'
      BY DEF Clean, HasText, PartsIn
    <2>1. CASE r \in done
      <3>1. r.chat \in Chats /\ HasText(r.chat, r.key) /\ r.key \in Keys
        BY <2>1 DEF IInv, Clean, TypeOK, Results
      <3> QED
        BY <3>1, TextStays
    <2>2. CASE r = res
      BY <2>2, <1>1, <1>2 DEF LeftWhole
    <2> QED
      BY <2>1, <2>2, <1>3
  <1> QED
    BY <1>6, <1>7, <1>8, <1>9 DEF IInv

(* A step that keeps the running call.                                     *)
LEMMA CallGoesOn ==
    ASSUME IInv, todo # <<>>,
           UNCHANGED <<env, night, todo, store, failed, done, pings, runs>>,
           pos' \in [chunk : Nat, used : Nat, attempt : 0..Attempts], faults' \in 0..MaxFaults,
           pos' # Start, pos'.chunk \in 1..LastPart(Now),
           ResolveChat(Now) \in Chats, Now.dm => env.dm # env.group, ~Seen(Now),
           chat' \in [Chats -> Seq(Keys \X Nat)], ChunksInOrder', Grows,
           pos = Start => UNCHANGED chat,
           \A n \in 1..(pos'.chunk) : n < pos'.chunk \/ pos'.attempt = 0
                => n \in PartsIn(ResolveChat(Now), Key(Now))'
    PROVE  IInv'
  <1>1. /\ Now' = Now /\ Key(Now)' = Key(Now) /\ ResolveChat(Now)' = ResolveChat(Now)
        /\ LastPart(Now)' = LastPart(Now) /\ Seen(Now)' = Seen(Now)
    BY DEF Now, Key, ResolveChat, LastPart, Seen
  <1>2. TypeOK'
    BY DEF IInv, TypeOK
  <1>3. Routed' /\ Idle' /\ Running'
    BY DEF IInv, Routed, Idle, Running
  <1>4. Gated'
    BY <1>1 DEF Gated
  <1>5. Progress'
    BY <1>1 DEF Progress, PartsIn
  <1>6. Recorded'
    <2> SUFFICES ASSUME NEW x \in Chats, NEW k \in Keys,
                        ~(Key(Now) = k /\ ResolveChat(Now) = x)
                 PROVE  PartsIn(x, k)' = {} \/ HasText(x, k)' \/ k \in failed'
      BY <1>1, <1>3 DEF Recorded
    <2>1. PartsIn(x, k) = {} \/ HasText(x, k) \/ k \in failed
      BY DEF IInv, Recorded
    <2>2. PartsIn(x, k)' = PartsIn(x, k)
      BY DEF Grows
    <2> QED
      BY <2>1, <2>2 DEF HasText
  <1>7. Clean'
    <2> SUFFICES ASSUME NEW r \in done, r.cli, r.rc = 0, r.reason # "no_send"
                 PROVE  r.chat \in Chats /\ HasText(r.chat, r.key)'
      BY DEF Clean, HasText, PartsIn
    <2>1. r.chat \in Chats /\ HasText(r.chat, r.key) /\ r.key \in Keys
      BY DEF IInv, Clean, TypeOK, Results
    <2> QED
      BY <2>1, TextStays
  <1> QED
    BY <1>2, <1>3, <1>4, <1>5, <1>6, <1>7 DEF IInv
-----------------------------------------------------------------------------
(* A running call has put its whole pack in the chat when its last part    *)
(* is answered.                                                            *)
LEMMA LastPartMeansWhole ==
    ASSUME IInv, Running, pos.attempt = 0, pos.chunk = LastPart(Now), UNCHANGED chat
    PROVE  LeftWhole
  <1>1. ChunkCount[Now.pack] \in Nat /\ LastPart(Now) \in Nat
        /\ LastPart(Now) >= ChunkCount[Now.pack] /\ Key(Now)[2] = Now.pack
    BY NowIsACall DEF IInv, Running
  <1>2. \A n \in 1..LastPart(Now) : n \in PartsIn(ResolveChat(Now), Key(Now))
    BY DEF IInv, Progress
  <1>3. HasText(ResolveChat(Now), Key(Now))
    BY <1>1, <1>2 DEF HasText
  <1> QED
    BY <1>3 DEF LeftWhole, HasText, PartsIn

(* A request is in flight only in a running call.                          *)
LEMMA InFlight ==
    ASSUME IInv, pos.attempt > 0
    PROVE  Running
  BY DEF IInv, Idle, Running, Start

LEMMA InitHolds ==
    ASSUME Init
    PROVE  IInv
  <1>1. TypeOK
    <2>1. env \in Env /\ night \in BOOLEAN
      BY EnvsAssumption DEF Init
    <2>5. todo \in Seq(Calls)
      BY DEF Init
    <2>2. pos \in [chunk : Nat, used : Nat, attempt : 0..Attempts]
      BY DeliveryAssumption DEF Init, Start
    <2>3. chat \in [Chats -> Seq(Keys \X Nat)]
      BY DEF Init
    <2>4. /\ store \subseteq Keys /\ failed \subseteq Keys /\ done \subseteq Results
          /\ pings \subseteq {"start", "success"} /\ runs \in 0..MaxRuns /\ faults \in 0..MaxFaults
      BY DeliveryAssumption DEF Init
    <2> QED
      BY <2>1, <2>2, <2>3, <2>4, <2>5 DEF TypeOK
  <1>2. \A x \in Chats, k \in Keys : PartsIn(x, k) = {}
    BY DEF Init, PartsIn
  <1>3. Routed /\ Idle /\ ~Running
    BY DEF Init, Routed, Idle, Running
  <1>4. Clean /\ ChunksInOrder
    BY DEF Init, Clean, ChunksInOrder
  <1> QED
    BY <1>1, <1>2, <1>3, <1>4 DEF IInv, Gated, Progress, Recorded

(* A new command or fan-out: the results of the last are dropped, and      *)
(* nothing has been sent for it yet.                                       *)
LEMMA CommandKeeps ==
    ASSUME IInv, todo = <<>>, pos' = Start, todo' \in Seq(RoutedCalls),
           done' \subseteq Results, \A r \in done' : r.reason = "no_send",
           pings' \subseteq {"start", "success"}, runs' \in 0..MaxRuns,
           UNCHANGED <<env, night, chat, store, failed, faults>>
    PROVE  IInv'
  <1>1. todo' \in Seq(Calls)
    BY RoutedTyped
  <1>2. TypeOK'
    BY <1>1, DeliveryAssumption DEF IInv, TypeOK, Start
  <1>3. Routed' /\ Idle' /\ ~Running' /\ ~Running
    BY DEF Routed, Idle, Running
  <1>4. \A x \in Chats, k \in Keys : PartsIn(x, k)' = PartsIn(x, k)
    BY DEF PartsIn
  <1>5. Recorded'
    BY <1>3, <1>4 DEF IInv, Recorded, HasText
  <1>6. Clean' /\ ChunksInOrder'
    BY DEF IInv, Clean, ChunksInOrder
  <1> QED
    BY <1>2, <1>3, <1>5, <1>6 DEF IInv, Gated, Progress

LEMMA CliDryStep ==
    ASSUME IInv, NEW a \in Flags, NEW p \in Packs, NEW dead \in BOOLEAN, CliDry(a, p, dead)
    PROVE  IInv'
  <1> DEFINE c == [desk |-> "ops", pack |-> p, dm |-> a.toDm, shared |-> FALSE, cli |-> TRUE,
                   cmd |-> a.cmd, ignoreQuiet |-> a.ignoreQuiet,
                   exitOk |-> ~Frozen(a) /\ ExitOk(a.toDm, a.iMeanIt, dead)]
             r == [Result(c, FALSE, "no_send") EXCEPT !.rc = IF c.exitOk THEN 0 ELSE 2]
  <1>1. todo = <<>> /\ pos = Start
    BY DEF CliDry, IInv, Idle
  <1>2. done' = {r}
    BY DEF CliDry
  <1>3. Key(c) \in Keys /\ ResolveChat(c) \in Chats \cup {Unset}
    BY DEF Key, Keys, Desks, ResolveChat, IInv, TypeOK, Env, Chats
  <1>4. r \in Results /\ r.reason = "no_send"
    <2> DEFINE rc == IF c.exitOk THEN 0 ELSE 2
               first == Result(c, FALSE, "no_send")
    <2>1. rc \in {0, 2} /\ first.reason = "no_send"
      BY DEF Result
    <2>2. first \in Results
      BY <1>3 DEF Result, Results
    <2>3. r = [first EXCEPT !.rc = rc]
      OBVIOUS
    <2> HIDE DEF first, rc, r
    <2> QED
      BY <2>1, <2>2, <2>3 DEF Results
  <1>5. pings' = {} /\ runs' \in 0..MaxRuns
          /\ UNCHANGED <<env, night, todo, pos, chat, store, failed, faults>>
    BY DeliveryAssumption DEF CliDry, IInv, TypeOK
  <1>6. todo' \in Seq(RoutedCalls)
    BY <1>5 DEF IInv, Routed
  <1> HIDE DEF r
  <1> QED
    BY <1>1, <1>2, <1>4, <1>5, <1>6, CommandKeeps

LEMMA CliLiveStep ==
    ASSUME IInv, NEW a \in Flags, NEW p \in Packs, NEW dead \in BOOLEAN, CliLive(a, p, dead)
    PROVE  IInv'
  <1> DEFINE c == [desk |-> "ops", pack |-> p, dm |-> TRUE, shared |-> FALSE, cli |-> TRUE,
                   cmd |-> a.cmd, ignoreQuiet |-> a.ignoreQuiet,
                   exitOk |-> ExitOk(TRUE, TRUE, dead)]
  <1>1. ExitOk(TRUE, TRUE, dead) \in BOOLEAN
    BY DEF ExitOk
  <1>2. c \in RoutedCalls
    BY <1>1 DEF RoutedCalls, Calls, Desks, Flags
  <1>3. todo' = <<c>>
    BY DEF CliLive
  <1> HIDE DEF c
  <1>4. todo' \in Seq(RoutedCalls)
    BY <1>2, <1>3
  <1>5. /\ todo = <<>> /\ pos' = Start /\ done' = {} /\ runs' \in 0..MaxRuns
        /\ pings' \subseteq {"start", "success"}
        /\ UNCHANGED <<env, night, chat, store, failed, faults>>
    BY DeliveryAssumption DEF CliLive, IInv, TypeOK
  <1> QED
    BY <1>4, <1>5, CommandKeeps

LEMMA FanoutStep ==
    ASSUME IInv, NEW d \in Desks, NEW p \in Packs, Fanout(d, p)
    PROVE  IInv'
  <1> DEFINE c == [desk |-> d, pack |-> p, dm |-> FALSE, shared |-> TRUE, cli |-> FALSE,
                   cmd |-> "fanout", ignoreQuiet |-> FALSE, exitOk |-> TRUE]
             mirror == [c EXCEPT !.desk = "ops"]
  <1>1. c \in RoutedCalls
    BY DEF RoutedCalls, Calls
  <1>2. todo' = IF d = "ops" THEN <<c>> ELSE <<c, mirror>>
    BY DEF Fanout
  <1> HIDE DEF c
  <1>3. mirror \in RoutedCalls
    BY <1>1 DEF RoutedCalls, Calls, Desks
  <1> HIDE DEF mirror
  <1>4. todo' \in Seq(RoutedCalls)
    BY <1>1, <1>2, <1>3
  <1>5. /\ todo = <<>> /\ pos' = Start /\ done' = {} /\ runs' \in 0..MaxRuns /\ pings' = {}
        /\ UNCHANGED <<env, night, chat, store, failed, faults>>
    BY DeliveryAssumption DEF Fanout, IInv, TypeOK
  <1> QED
    BY <1>4, <1>5, CommandKeeps

LEMMA RefuseStep ==
    ASSUME IInv, Refuse
    PROVE  IInv'
  <1>1. /\ todo # <<>> /\ pos = Start
        /\ Refusal(Now) \in Refusals
        /\ Close(Result(Now, FALSE, Refusal(Now)))
        /\ UNCHANGED <<env, night, chat, store, failed, pings, runs, faults>>
    BY RefusalTyped DEF Refuse
  <1>2. chat' \in [Chats -> Seq(Keys \X Nat)] /\ ChunksInOrder' /\ Grows
    BY <1>1, SameChatGrows DEF IInv, TypeOK, ChunksInOrder
  <1>3. store' \subseteq Keys /\ failed' \subseteq Keys /\ failed \subseteq failed'
        /\ pings' \subseteq {"start", "success"} /\ faults' \in 0..MaxFaults
    BY <1>1 DEF IInv, TypeOK
  <1> QED
    BY <1>1, <1>2, <1>3, CloseKeeps

LEMMA RateLimitedStep ==
    ASSUME IInv, RateLimited
    PROVE  IInv'
  <1>1. /\ todo # <<>>
        /\ failed' = failed \cup {Key(Now)}
        /\ Close(Result(Now, FALSE, "rate_limited"))
        /\ UNCHANGED <<env, night, chat, store, pings, runs, faults>>
    BY DEF RateLimited
  <1>2. chat' \in [Chats -> Seq(Keys \X Nat)] /\ ChunksInOrder' /\ Grows
    BY <1>1, SameChatGrows DEF IInv, TypeOK, ChunksInOrder
  <1>3. store' \subseteq Keys /\ failed' \subseteq Keys /\ failed \subseteq failed'
        /\ pings' \subseteq {"start", "success"} /\ faults' \in 0..MaxFaults
    BY <1>1, NowIsACall DEF IInv, TypeOK
  <1> QED
    BY <1>1, <1>2, <1>3, CloseKeeps

LEMMA PartFailsStep ==
    ASSUME IInv, PartFails
    PROVE  IInv'
  <1>1. /\ Running /\ todo # <<>> /\ pos # Start
        /\ failed' = failed \cup {Key(Now)}
        /\ Close(Result(Now, FALSE, "retries_exhausted"))
        /\ UNCHANGED <<env, night, store, pings, runs>>
        /\ Accept \/ UNCHANGED chat
    BY InFlight DEF PartFails, Running
  <1>2. chat' \in [Chats -> Seq(Keys \X Nat)] /\ ChunksInOrder' /\ Grows
    <2>1. CASE Accept
      BY <1>1, <2>1, AcceptAdds, AcceptGrows DEF IInv
    <2>2. CASE UNCHANGED chat
      BY <2>2, SameChatGrows DEF IInv, TypeOK, ChunksInOrder
    <2> QED
      BY <1>1, <2>1, <2>2
  <1>3. store' \subseteq Keys /\ failed' \subseteq Keys /\ failed \subseteq failed'
        /\ pings' \subseteq {"start", "success"} /\ faults' \in 0..MaxFaults
    <2>1. faults' \in 0..MaxFaults
      BY DeliveryAssumption DEF IInv, TypeOK, PartFails
    <2> QED
      BY <1>1, <2>1, NowIsACall DEF IInv, TypeOK
  <1> QED
    BY <1>1, <1>2, <1>3, CloseKeeps

LEMMA SentStep ==
    ASSUME IInv, Sent
    PROVE  IInv'
  <1>1. /\ todo # <<>> /\ pos.attempt = 0 /\ pos.chunk = LastPart(Now)
        /\ Close(Result(Now, TRUE, "ok"))
        /\ UNCHANGED <<env, night, chat, failed, runs, faults>>
    BY DEF Sent
  <1>2. Running
    BY <1>1, NowIsACall DEF IInv, Running, Start
  <1>3. LeftWhole /\ ResolveChat(Now) \in Chats
    BY <1>1, <1>2, LastPartMeansWhole DEF IInv, Gated
  <1>4. chat' \in [Chats -> Seq(Keys \X Nat)] /\ ChunksInOrder' /\ Grows
    BY <1>1, SameChatGrows DEF IInv, TypeOK, ChunksInOrder
  <1>5. store' \subseteq Keys /\ failed' \subseteq Keys /\ failed \subseteq failed'
        /\ pings' \subseteq {"start", "success"} /\ faults' \in 0..MaxFaults
    BY <1>1, NowIsACall DEF IInv, TypeOK, Sent
  <1> QED
    BY <1>1, <1>3, <1>4, <1>5, CloseKeeps

(* The call in hand may go on: it has begun, or it has just passed.        *)
LEMMA MayPost ==
    ASSUME IInv, todo # <<>>, pos = Start => Refusal(Now) = "none"
    PROVE  ResolveChat(Now) \in Chats /\ (Now.dm => env.dm # env.group) /\ ~Seen(Now)
  BY GatesPassed DEF IInv, Gated, Running

LEMMA NextPartStep ==
    ASSUME IInv, NextPart
    PROVE  IInv'
  <1> DEFINE more == IF IsMedia(Now, pos.chunk + 1) THEN 0 ELSE 1
  <1>1. /\ todo # <<>> /\ pos.attempt = 0 /\ pos.chunk < LastPart(Now)
        /\ pos' = [chunk |-> pos.chunk + 1, attempt |-> 1, used |-> pos.used + more]
        /\ UNCHANGED <<env, night, todo, chat, store, failed, done, pings, runs, faults>>
    BY DEF NextPart
  <1>2. ResolveChat(Now) \in Chats /\ (Now.dm => env.dm # env.group) /\ ~Seen(Now)
    BY MayPost DEF NextPart
  <1>3. more \in Nat
    OBVIOUS
  <1> HIDE DEF more
  <1>4. LastPart(Now) \in Nat /\ pos.chunk \in Nat /\ pos.used \in Nat /\ Attempts >= 1
          /\ Attempts \in Nat
    BY <1>1, NowIsACall, DeliveryAssumption DEF IInv, TypeOK
  <1>5. /\ pos' \in [chunk : Nat, used : Nat, attempt : 0..Attempts]
        /\ pos' # Start /\ pos'.chunk = pos.chunk + 1 /\ pos'.attempt = 1
        /\ pos'.chunk \in 1..LastPart(Now)
    BY <1>1, <1>3, <1>4 DEF Start
  <1>6. chat' \in [Chats -> Seq(Keys \X Nat)] /\ ChunksInOrder' /\ Grows /\ faults' \in 0..MaxFaults
    BY <1>1, SameChatGrows DEF IInv, TypeOK, ChunksInOrder
  <1>7. \A n \in 1..(pos'.chunk) : n < pos'.chunk \/ pos'.attempt = 0
            => n \in PartsIn(ResolveChat(Now), Key(Now))'
    <2> SUFFICES ASSUME NEW n \in 1..(pos.chunk)
                 PROVE  n \in PartsIn(ResolveChat(Now), Key(Now))'
      BY <1>4, <1>5
    <2>1. Running
      BY <1>1, <1>4 DEF Running, Start
    <2>2. n \in PartsIn(ResolveChat(Now), Key(Now))
      BY <1>1, <2>1 DEF IInv, Progress
    <2>3. PartsIn(ResolveChat(Now), Key(Now))' = PartsIn(ResolveChat(Now), Key(Now))
      BY <1>1 DEF PartsIn, ResolveChat, Key, Now
    <2> QED
      BY <2>2, <2>3
  <1> QED
    BY <1>1, <1>2, <1>5, <1>6, <1>7, CallGoesOn

(* A part that is answered or lost: what the call had sent stays sent.     *)
LEMMA SentPartsStay ==
    ASSUME IInv, Running, Grows, UNCHANGED <<env, todo>>
    PROVE  \A n \in 1..(pos.chunk - 1) : n \in PartsIn(ResolveChat(Now), Key(Now))'
  <1>1. /\ ResolveChat(Now)' = ResolveChat(Now) /\ Key(Now)' = Key(Now)
        /\ ResolveChat(Now) \in Chats /\ Key(Now) \in Keys /\ pos.chunk \in Nat
    BY NowIsACall DEF ResolveChat, Key, Now, IInv, Gated, Running, TypeOK
  <1>2. \A n \in 1..(pos.chunk - 1) : n \in PartsIn(ResolveChat(Now), Key(Now))
    BY <1>1 DEF IInv, Progress
  <1>3. PartsIn(ResolveChat(Now), Key(Now)) \subseteq PartsIn(ResolveChat(Now), Key(Now))'
    BY <1>1 DEF Grows, PartsIn
  <1> QED
    BY <1>2, <1>3

LEMMA AcceptedStep ==
    ASSUME IInv, Accepted
    PROVE  IInv'
  <1>1. /\ Running /\ todo # <<>> /\ pos # Start /\ Accept
        /\ pos' = [pos EXCEPT !.attempt = 0]
        /\ UNCHANGED <<env, night, todo, store, failed, done, pings, runs, faults>>
    BY InFlight DEF Accepted, Running
  <1>2. /\ pos.chunk \in 1..LastPart(Now) /\ LastPart(Now) \in Nat
        /\ ResolveChat(Now) \in Chats /\ (Now.dm => env.dm # env.group) /\ ~Seen(Now)
        /\ Key(Now) \in Keys
    BY <1>1, NowIsACall DEF IInv, Gated
  <1>3. /\ pos' \in [chunk : Nat, used : Nat, attempt : 0..Attempts]
        /\ pos'.chunk = pos.chunk /\ pos'.attempt = 0 /\ pos' # Start
    <2>1. pos \in [chunk : Nat, used : Nat, attempt : 0..Attempts] /\ Attempts \in Nat
      BY DeliveryAssumption DEF IInv, TypeOK
    <2>2. /\ pos' \in [chunk : Nat, used : Nat, attempt : 0..Attempts]
          /\ pos'.chunk = pos.chunk /\ pos'.attempt = 0
      BY <1>1, <2>1
    <2> QED
      BY <1>2, <2>2 DEF Start
  <1>4. /\ chat' \in [Chats -> Seq(Keys \X Nat)] /\ ChunksInOrder' /\ Grows
        /\ faults' \in 0..MaxFaults
    BY <1>1, AcceptAdds, AcceptGrows DEF IInv, TypeOK
  <1>5. \A n \in 1..(pos'.chunk) : n \in PartsIn(ResolveChat(Now), Key(Now))'
    <2>1. \A n \in 1..(pos.chunk - 1) : n \in PartsIn(ResolveChat(Now), Key(Now))'
      BY <1>1, <1>4, SentPartsStay
    <2>2. ResolveChat(Now)' = ResolveChat(Now) /\ Key(Now)' = Key(Now)
      BY <1>1 DEF ResolveChat, Key, Now
    <2>3. pos.chunk \in PartsIn(ResolveChat(Now), Key(Now))'
      <3>1. \A x \in Chats, k \in Keys :
                x = ResolveChat(Now) /\ k = Key(Now) => pos.chunk \in PartsIn(x, k)'
        BY <1>1, AcceptAdds DEF IInv
      <3> QED
        BY <3>1, <2>2, <1>2 DEF PartsIn
    <2> QED
      BY <2>1, <2>3, <1>2, <1>3
  <1> QED
    BY <1>1, <1>2, <1>3, <1>4, <1>5, CallGoesOn

LEMMA RetryStep ==
    ASSUME IInv, Retry
    PROVE  IInv'
  <1>1. /\ Attempts \in Nat /\ pos.attempt \in 1..(Attempts - 1)
        /\ pos' = [pos EXCEPT !.attempt = @ + 1]
        /\ faults < MaxFaults /\ faults' = faults + 1
        /\ Accept \/ UNCHANGED chat
        /\ UNCHANGED <<env, night, todo, store, failed, done, pings, runs>>
    BY DeliveryAssumption DEF Retry
  <1>2. Running /\ todo # <<>> /\ pos # Start
    BY <1>1, InFlight DEF Running
  <1>3. /\ pos.chunk \in 1..LastPart(Now) /\ LastPart(Now) \in Nat
        /\ ResolveChat(Now) \in Chats /\ (Now.dm => env.dm # env.group) /\ ~Seen(Now)
    BY <1>2, NowIsACall DEF IInv, Gated
  <1>4. /\ pos' \in [chunk : Nat, used : Nat, attempt : 0..Attempts]
        /\ pos'.chunk = pos.chunk /\ pos'.attempt = pos.attempt + 1 /\ pos' # Start
    <2>1. pos \in [chunk : Nat, used : Nat, attempt : 0..Attempts]
      BY DEF IInv, TypeOK
    <2>2. /\ pos' \in [chunk : Nat, used : Nat, attempt : 0..Attempts]
          /\ pos'.chunk = pos.chunk /\ pos'.attempt = pos.attempt + 1
      BY <1>1, <2>1
    <2> QED
      BY <1>3, <2>2 DEF Start
  <1>5. chat' \in [Chats -> Seq(Keys \X Nat)] /\ ChunksInOrder' /\ Grows
    <2>1. CASE Accept
      BY <1>2, <2>1, AcceptAdds, AcceptGrows DEF IInv
    <2>2. CASE UNCHANGED chat
      BY <2>2, SameChatGrows DEF IInv, TypeOK, ChunksInOrder
    <2> QED
      BY <1>1, <2>1, <2>2
  <1>6. faults' \in 0..MaxFaults
    BY <1>1, DeliveryAssumption DEF IInv, TypeOK
  <1>7. \A n \in 1..(pos'.chunk) : n < pos'.chunk \/ pos'.attempt = 0
            => n \in PartsIn(ResolveChat(Now), Key(Now))'
    <2>1. \A n \in 1..(pos.chunk - 1) : n \in PartsIn(ResolveChat(Now), Key(Now))'
      BY <1>1, <1>2, <1>5, SentPartsStay
    <2> QED
      BY <2>1, <1>1, <1>3, <1>4
  <1> QED
    BY <1>1, <1>2, <1>3, <1>4, <1>5, <1>6, <1>7, CallGoesOn

(* Night falling, or nothing at all, changes nothing the invariant reads.  *)
LEMMA QuietStep ==
    ASSUME IInv, NightFalls \/ UNCHANGED vars
    PROVE  IInv'
  <1>1. UNCHANGED <<env, todo, pos, chat, store, failed, done, pings, runs, faults>>
    BY DEF NightFalls, vars
  <1>2. TypeOK'
    BY <1>1 DEF NightFalls, vars, IInv, TypeOK
  <1>3. Routed' /\ Idle' /\ (Running' <=> Running)
    BY <1>1 DEF IInv, Routed, Idle, Running
  <1>4. /\ Now' = Now /\ Key(Now)' = Key(Now) /\ ResolveChat(Now)' = ResolveChat(Now)
        /\ LastPart(Now)' = LastPart(Now) /\ Seen(Now)' = Seen(Now)
    BY <1>1 DEF Now, Key, ResolveChat, LastPart, Seen
  <1>5. Gated' /\ Progress'
    BY <1>1, <1>3, <1>4 DEF IInv, Gated, Progress, PartsIn
  <1>6. Recorded' /\ Clean' /\ ChunksInOrder'
    <2>1. \A x, k : PartsIn(x, k)' = PartsIn(x, k)
      BY <1>1 DEF PartsIn
    <2>2. Recorded'
      BY <1>1, <1>3, <1>4, <2>1 DEF IInv, Recorded, HasText
    <2>3. Clean'
      BY <1>1, <2>1 DEF IInv, Clean, HasText
    <2>4. ChunksInOrder'
      BY <1>1 DEF IInv, ChunksInOrder
    <2> QED
      BY <2>2, <2>3, <2>4
  <1> QED
    BY <1>2, <1>3, <1>5, <1>6 DEF IInv

LEMMA NextStep ==
    ASSUME IInv, [Next]_vars
    PROVE  IInv'
  BY CliDryStep, CliLiveStep, FanoutStep, RefuseStep, NextPartStep, RateLimitedStep, AcceptedStep,
     RetryStep, PartFailsStep, SentStep, QuietStep DEF Next

-----------------------------------------------------------------------------
(* The invariant holds in every behaviour.                                 *)
THEOREM Invariance == Spec => []IInv
  <1>1. Init => IInv
    BY InitHolds
  <1>2. IInv /\ [Next]_vars => IInv'
    BY NextStep
  <1> QED
    BY <1>1, <1>2, PTL DEF Spec

(* Type correctness.                                                       *)
THEOREM TypeCorrect == Spec => []TypeOK
  <1>1. IInv => TypeOK
    BY DEF IInv
  <1> QED
    BY <1>1, Invariance, PTL

(* deliver() tells the truth: a command that exits 0 put the whole pack in *)
(* its chat, a pack cut short is in failed_sink, and chunks arrive in      *)
(* order, whatever requests are lost, repeated or answered too late.       *)
THEOREM DeliveryCorrect == Spec => []DeliveryIsHonest
  <1>1. ASSUME IInv PROVE CleanExitMeansWhole
    <2> SUFFICES ASSUME NEW r \in done, r.cli, r.rc = 0, r.reason # "no_send"
                 PROVE  1..ChunkCount[r.key[2]] \subseteq PartsIn(r.chat, r.key)
      BY DEF CleanExitMeansWhole
    <2> QED
      BY <1>1 DEF IInv, Clean, HasText
  <1>2. ASSUME IInv PROVE PartialIsRecorded
    <2> SUFFICES ASSUME NEW x \in Chats, NEW d \in Desks, NEW p \in Packs,
                        PartsIn(x, <<d, p>>) # {},
                        ~(1..ChunkCount[p] \subseteq PartsIn(x, <<d, p>>))
                 PROVE  <<d, p>> \in failed \/ (todo # <<>> /\ Key(Now) = <<d, p>>)
      BY DEF PartialIsRecorded
    <2>1. <<d, p>> \in Keys /\ <<d, p>>[2] = p
      BY DEF Keys
    <2>2. ~HasText(x, <<d, p>>)
      BY <2>1 DEF HasText
    <2> QED
      BY <1>2, <2>1, <2>2 DEF IInv, Recorded, Running
  <1>3. IInv => DeliveryIsHonest
    BY <1>1, <1>2 DEF DeliveryIsHonest, IInv
  <1> QED
    BY <1>3, Invariance, PTL

(* Only a request in flight writes to a chat.                              *)
LEMMA OnlyAcceptWrites ==
    ASSUME IInv, [Next]_vars
    PROVE  UNCHANGED chat \/ (Running /\ Accept)
  <1>1. CASE Accepted \/ Retry \/ PartFails
    <2>1. pos.attempt > 0
      <3>1. CASE Retry
        <4>1. pos.attempt \in 1..(Attempts - 1) /\ Attempts \in Nat
          BY <3>1, DeliveryAssumption DEF Retry
        <4> QED
          BY <4>1
      <3>2. CASE Accepted \/ PartFails
        BY <3>2 DEF Accepted, PartFails
      <3> QED
        BY <1>1, <3>1, <3>2
    <2>2. Accept \/ UNCHANGED chat
      BY <1>1 DEF Accepted, Retry, PartFails
    <2> QED
      BY <2>1, <2>2, InFlight
  <1>2. CASE ~(Accepted \/ Retry \/ PartFails)
    BY <1>2 DEF Next, vars, CliDry, CliLive, Fanout, Refuse, NextPart, RateLimited, Sent, NightFalls
  <1> QED
    BY <1>1, <1>2

(* A process keeps the environment it started with.                        *)
LEMMA EnvStays ==
    ASSUME [Next]_vars
    PROVE  env' = env
  BY DEF Next, vars, CliDry, CliLive, Fanout, Refuse, NextPart, RateLimited, Accepted, Retry,
         PartFails, Sent, NightFalls

(* No command line ever writes to the configured group, also when the      *)
(* Principal's id holds the group's by mistake; and no process that keeps  *)
(* its dedupe store posts again what it completed.                         *)
THEOREM DeliveryConfined == Spec => DeliveryIsConfined
  <1>1. IInv /\ [Next]_vars
            => ((todo # <<>> /\ Now.cli /\ env.group # Unset) => UNCHANGED chat[env.group])
    <2> SUFFICES ASSUME IInv, [Next]_vars, todo # <<>>, Now.cli, env.group # Unset,
                        Running, Accept
                 PROVE  UNCHANGED chat[env.group]
      BY OnlyAcceptWrites, EnvStays
    <2>1. env' = env
      BY EnvStays
    <2>2. Now.dm /\ env.dm # env.group
      BY NowIsACall DEF IInv, Gated
    <2>3. ResolveChat(Now) = env.dm /\ env.group \in Chats /\ ResolveChat(Now) \in Chats
      BY <2>2 DEF ResolveChat, IInv, Gated, TypeOK, Env, Chats
    <2> QED
      BY <2>1, <2>2, <2>3 DEF Accept, IInv, TypeOK
  <1>2. IInv /\ [Next]_vars
            => ((todo # <<>> /\ Now.shared /\ Key(Now) \in store) => UNCHANGED chat)
    <2> SUFFICES ASSUME IInv, Running, Now.shared, Key(Now) \in store
                 PROVE  FALSE
      BY OnlyAcceptWrites
    <2> QED
      BY DEF IInv, Gated, Seen
  <1>3. Spec => CliNeverReachesGroup
    BY <1>1, Invariance, PTL DEF Spec, CliNeverReachesGroup
  <1>4. Spec => NoDoubleComplete
    BY <1>2, Invariance, PTL DEF Spec, NoDoubleComplete
  <1> QED
    BY <1>3, <1>4 DEF DeliveryIsConfined

-----------------------------------------------------------------------------
(* Source health (SourceHealth).                                           *)
(* The inductive invariant, conjunct by conjunct.                          *)

HealthRow == [status : Statuses, last : 0..MaxReports]

(* A command that probes is at a source, at one of its attempts; before it *)
(* has read Memory it has probed nothing; reports are numbered from one.   *)
HealthReached ==
    /\ pc \in {"load", "probe"} => at \in 1..Len(Inventory) /\ attempt \in 1..ProbeAttempts
    /\ pc = "load" => at = 1 /\ DOMAIN rows = {} /\ ~noDb
    /\ pc # "idle" => now > 0

(* The source at hand was asked once for each attempt that failed; those   *)
(* after it were not asked.                                                *)
HealthAsking ==
    pc \in {"load", "probe"} =>
        /\ asked[Source] = attempt - 1
        /\ attempt = 1 => answers[Source] = "none"
        /\ attempt > 1 => pc = "probe" /\ Source \in Vendors /\ Source \notin Keyed \ keys
        /\ \A i \in (at + 1)..Len(Inventory) :
              asked[Inventory[i]] = 0 /\ answers[Inventory[i]] = "none"

(* Memory is only read with the database on, and is older than the report. *)
HealthKnown ==
    \A s \in DOMAIN memory : s = "hyperliquid.info" /\ memory[s] < now /\ ~noDb

(* The document is of this report, or of an earlier one.                   *)
HealthWritten == disk.md <= now /\ (pc = "hash" => disk.md = now)

HealthIInv ==
    /\ HealthTypeOK
    /\ HealthReached
    /\ HealthAsking
    /\ HealthKnown
    /\ HealthWritten
    /\ EveryRowIsListed
    /\ StatusIsEarned
    /\ NotAskedInVain
    /\ SuccessIsBacked
    /\ OverallFollowsRows
    /\ HashFollowsReport

-----------------------------------------------------------------------------
(* The inventory.                                                          *)

LEMMA HealthInventoryFacts ==
    /\ Len(Inventory) \in Nat \ {0}
    /\ DOMAIN Inventory = 1..Len(Inventory)
    /\ Sources = {Inventory[i] : i \in 1..Len(Inventory)}
    /\ \A i, j \in 1..Len(Inventory) : Inventory[i] = Inventory[j] => i = j
  BY InventoryAssumption DEF Sources

(* The source at hand has no row yet, and is none of those to come.        *)
LEMMA HealthSourceIsNew ==
    ASSUME HealthTypeOK, HealthReached, EveryRowIsListed, pc = "probe"
    PROVE  /\ Source \in Sources
           /\ Source \notin DOMAIN rows
           /\ \A i \in (at + 1)..Len(Inventory) :
                 Inventory[i] \in Sources /\ Inventory[i] # Source
  BY HealthInventoryFacts DEF HealthReached, EveryRowIsListed, Source

-----------------------------------------------------------------------------
(* A row is listed.                                                        *)

LEMMA HealthListedRow ==
    ASSUME HealthTypeOK, HealthReached, EveryRowIsListed, pc = "probe",
           NEW row \in HealthRow, Listed(Source, row)
    PROVE  /\ DOMAIN rows' = DOMAIN rows \cup {Source}
           /\ rows'[Source] = row
           /\ \A s \in DOMAIN rows : rows'[s] = rows[s]
           /\ rows' \in [DOMAIN rows' -> HealthRow]
           /\ attempt' = 1
           /\ \/ at < Len(Inventory) /\ pc' = "probe" /\ at' = at + 1
              \/ at = Len(Inventory) /\ pc' = "render" /\ at' = 0
           /\ EveryRowIsListed'
  <1>1. /\ DOMAIN rows' = DOMAIN rows \cup {Source}
        /\ rows'[Source] = row
        /\ \A s \in DOMAIN rows : rows'[s] = rows[s]
    BY HealthSourceIsNew DEF Listed
  <1>2. rows' \in [DOMAIN rows' -> HealthRow]
    BY <1>1 DEF Listed, HealthTypeOK, HealthRow
  <1>3. /\ attempt' = 1
        /\ \/ at < Len(Inventory) /\ pc' = "probe" /\ at' = at + 1
           \/ at = Len(Inventory) /\ pc' = "render" /\ at' = 0
    BY HealthInventoryFacts DEF Listed, HealthReached
  <1>4. EveryRowIsListed'
    <2>1. DOMAIN rows' = {Inventory[i] : i \in 1..at}
      BY <1>1, HealthInventoryFacts DEF EveryRowIsListed, Source, HealthReached
    <2> QED
      BY <2>1, <1>3, HealthInventoryFacts DEF EveryRowIsListed, HealthReached
  <1> QED
    BY <1>1, <1>2, <1>3, <1>4

(* What a row must say for the invariant to go on.                         *)
HealthEarned(row) ==
    /\ Source \in Vendors =>
          /\ row.status = "ok" =>
                answers'[Source] \notin {"none", "transient", "refused"} /\ asked'[Source] > 0
          /\ answers'[Source] = "transient" => asked'[Source] = ProbeAttempts
    /\ Source \in Keyed \ keys => asked'[Source] = 0 /\ row.status = "unavailable"
    /\ noDb /\ Source = "postgres" => row.status = "degraded"
    /\ row.last <= now
    /\ row.status # "ok" /\ row.last > 0 =>
          Source = "hyperliquid.info" /\ ~noDb /\ row.last < now

(* A probe that ends with a row that its answers earned.                   *)
LEMMA HealthProbeEnds ==
    ASSUME HealthIInv, pc = "probe",
           NEW row \in HealthRow, Listed(Source, row), HealthEarned(row),
           asked' \in [Sources -> 0..ProbeAttempts],
           answers' \in [Sources -> Answers \cup {"none"}],
           \A s \in Sources \ {Source} : asked'[s] = asked[s] /\ answers'[s] = answers[s],
           memory' \in [DOMAIN memory' -> 0..MaxReports], HealthKnown',
           noDb => memory' = NoMemory,
           UNCHANGED <<noDb, keys, overall, disk, now>>
    PROVE  HealthIInv'
  <1> USE DEF HealthIInv
  <1> DEFINE s0 == Source
  <1>1. /\ s0 \in Sources /\ s0 \notin DOMAIN rows
        /\ \A i \in (at + 1)..Len(Inventory) : Inventory[i] \in Sources /\ Inventory[i] # s0
    BY HealthSourceIsNew
  <1>2. /\ DOMAIN rows' = DOMAIN rows \cup {s0}
        /\ rows'[s0] = row
        /\ \A s \in DOMAIN rows : rows'[s] = rows[s]
        /\ rows' \in [DOMAIN rows' -> HealthRow]
        /\ attempt' = 1
        /\ \/ at < Len(Inventory) /\ pc' = "probe" /\ at' = at + 1
           \/ at = Len(Inventory) /\ pc' = "render" /\ at' = 0
        /\ EveryRowIsListed'
    BY HealthListedRow
  <1>3. HealthTypeOK'
    BY <1>1, <1>2, HealthInventoryFacts, InventoryAssumption DEF HealthTypeOK, HealthRow
  <1>4. HealthReached'
    BY <1>2, HealthInventoryFacts, InventoryAssumption DEF HealthReached
  <1>5. HealthAsking'
    <2>1. SUFFICES ASSUME pc' = "probe"
                   PROVE  /\ asked'[Source'] = 0 /\ answers'[Source'] = "none"
                          /\ \A i \in (at' + 1)..Len(Inventory) :
                                asked'[Inventory[i]] = 0 /\ answers'[Inventory[i]] = "none"
      BY <1>2 DEF HealthAsking
    <2>2. /\ at' = at + 1 /\ at \in 1..Len(Inventory)
          /\ at + 1 \in (at + 1)..Len(Inventory)
          /\ Source' = Inventory[at + 1]
      BY <2>1, <1>2, HealthInventoryFacts DEF Source, HealthReached
    <2>3. \A i \in (at + 1)..Len(Inventory) :
             asked'[Inventory[i]] = 0 /\ answers'[Inventory[i]] = "none"
      BY <1>1 DEF HealthAsking
    <2> QED
      BY <2>2, <2>3, HealthInventoryFacts
  <1>6. HealthWritten'
    BY <1>2 DEF HealthWritten
  <1>7. StatusIsEarned'
    BY <1>1, <1>2 DEF StatusIsEarned, HealthEarned, HealthTypeOK
  <1>8. NotAskedInVain'
    BY <1>1, <1>2 DEF NotAskedInVain, HealthEarned
  <1>9. SuccessIsBacked'
    BY <1>2 DEF SuccessIsBacked, HealthEarned
  <1>10. OverallFollowsRows' /\ HashFollowsReport'
    BY <1>2 DEF OverallFollowsRows, HashFollowsReport
  <1> QED
    BY <1>2, <1>3, <1>4, <1>5, <1>6, <1>7, <1>8, <1>9, <1>10

-----------------------------------------------------------------------------
(* One lemma for each action.                                              *)

LEMMA HealthBeginStep ==
    ASSUME HealthIInv, NEW skip \in BOOLEAN, NEW set \in SUBSET (Keyed \cap Sources),
      Begin(skip, set)
    PROVE  HealthIInv'
  <1> USE DEF HealthIInv, Begin
  <1>1. /\ now \in Nat /\ now' \in 1..MaxReports /\ now' = now + 1
        /\ DOMAIN memory' = {} /\ DOMAIN rows' = {}
        /\ \A s \in Sources : asked'[s] = 0 /\ answers'[s] = "none"
    BY InventoryAssumption DEF HealthTypeOK, NoMemory
  <1>2. HealthTypeOK'
    BY <1>1, HealthInventoryFacts, InventoryAssumption DEF HealthTypeOK, NoMemory
  <1>3. HealthReached'
    BY <1>1, HealthInventoryFacts, InventoryAssumption DEF HealthReached
  <1>4. HealthAsking'
    <2>1. Source' = Inventory[1] /\ \A i \in 1..Len(Inventory) : Inventory[i] \in Sources
      BY HealthInventoryFacts DEF Source
    <2> QED
      BY <1>1, <2>1, HealthInventoryFacts DEF HealthAsking
  <1>5. HealthKnown' /\ HealthWritten'
    BY <1>1 DEF HealthKnown, HealthWritten, HealthTypeOK
  <1>6. EveryRowIsListed' /\ StatusIsEarned' /\ SuccessIsBacked' /\ OverallFollowsRows'
          /\ HashFollowsReport'
    BY <1>1 DEF EveryRowIsListed, StatusIsEarned, SuccessIsBacked, OverallFollowsRows,
       HashFollowsReport
  <1>7. NotAskedInVain'
    BY <1>1 DEF NotAskedInVain
  <1> QED
    BY <1>2, <1>3, <1>4, <1>5, <1>6, <1>7

LEMMA HealthLoadStep ==
    ASSUME HealthIInv, NEW t \in 0..MaxReports, LoadLastSuccess(t)
    PROVE  HealthIInv'
  <1> USE DEF HealthIInv, LoadLastSuccess
  <1>1. /\ memory' \in [DOMAIN memory' -> 0..MaxReports]
        /\ \A s \in DOMAIN memory' : s = "hyperliquid.info" /\ memory'[s] = t
    BY DEF NoMemory
  <1>2. HealthTypeOK'
    BY <1>1 DEF HealthTypeOK
  <1>3. HealthReached' /\ HealthKnown' /\ HealthWritten'
    BY <1>1 DEF HealthReached, HealthKnown, HealthWritten
  <1>4. HealthAsking'
    <2>1. Source' = Source
      BY DEF Source
    <2> QED
      BY <2>1 DEF HealthAsking, HealthReached
  <1>5. EveryRowIsListed'
    BY DEF EveryRowIsListed, HealthReached
  <1>6. StatusIsEarned' /\ SuccessIsBacked' /\ OverallFollowsRows' /\ HashFollowsReport'
    BY DEF StatusIsEarned, SuccessIsBacked, OverallFollowsRows, HashFollowsReport
  <1>7. NotAskedInVain'
    BY DEF NotAskedInVain, HealthReached
  <1> QED
    BY <1>2, <1>3, <1>4, <1>5, <1>6, <1>7

(* A step that asks nobody leaves what was asked and what Memory said.     *)
LEMMA HealthUnasked ==
    ASSUME HealthIInv, UNCHANGED <<noDb, asked, answers, memory, now>>
    PROVE  /\ asked' \in [Sources -> 0..ProbeAttempts]
           /\ answers' \in [Sources -> Answers \cup {"none"}]
           /\ \A s \in Sources \ {Source} : asked'[s] = asked[s] /\ answers'[s] = answers[s]
           /\ memory' \in [DOMAIN memory' -> 0..MaxReports]
           /\ HealthKnown'
           /\ noDb /\ pc = "probe" => memory' = NoMemory
  BY DEF HealthIInv, HealthTypeOK, HealthKnown, NotAskedInVain

(* A row that claims nothing.                                              *)
LEMMA HealthNothingClaimed ==
    ASSUME HealthIInv, pc = "probe", attempt = 1, UNCHANGED <<asked, answers>>,
           Source # "postgres"
    PROVE  HealthEarned([status |-> "unavailable", last |-> 0])
  <1> USE DEF HealthIInv
  <1>1. answers'[Source] = "none" /\ asked'[Source] = 0
    BY InventoryAssumption DEF HealthAsking, HealthTypeOK
  <1> QED
    BY <1>1 DEF HealthEarned, HealthTypeOK

LEMMA HealthRowsTyped ==
    ASSUME HealthTypeOK
    PROVE  /\ now \in Nat /\ 0 \in 0..MaxReports /\ now \in 0..MaxReports
           /\ \A st \in Statuses, l \in 0..MaxReports : [status |-> st, last |-> l] \in HealthRow
           /\ {"ok", "degraded", "unavailable"} = Statuses
  BY InventoryAssumption DEF HealthTypeOK, HealthRow, Statuses

LEMMA HealthNoKeyStep ==
    ASSUME HealthIInv, NoKey
    PROVE  HealthIInv'
  <1> DEFINE row == [status |-> "unavailable", last |-> 0]
  <1>1. pc = "probe" /\ attempt = 1 /\ Source # "postgres"
    BY DEF NoKey, HealthIInv, HealthAsking, HealthReached, Keyed
  <1>2. row \in HealthRow
    BY HealthRowsTyped DEF HealthIInv
  <1>3. HealthEarned(row)
    BY <1>1, HealthNothingClaimed DEF NoKey
  <1> QED
    BY <1>1, <1>2, <1>3, HealthUnasked, HealthProbeEnds DEF NoKey

LEMMA HealthRaisesStep ==
    ASSUME HealthIInv, ProbeRaises
    PROVE  HealthIInv'
  <1> DEFINE row == [status |-> "unavailable", last |-> 0]
  <1>1. pc = "probe" /\ attempt = 1 /\ Source # "postgres"
    BY DEF ProbeRaises
  <1>2. row \in HealthRow
    BY HealthRowsTyped DEF HealthIInv
  <1>3. HealthEarned(row)
    BY <1>1, HealthNothingClaimed DEF ProbeRaises
  <1> QED
    BY <1>1, <1>2, <1>3, HealthUnasked, HealthProbeEnds DEF ProbeRaises

(* The files and the stores are no vendors.                                *)
LEMMA HealthOwnStores ==
    \A s \in {"calendar.yaml", "postgres", "object_store"} : s \notin Vendors /\ s \notin Keyed
  BY DEF Vendors, Keyed

LEMMA HealthCalendarStep ==
    ASSUME HealthIInv, NEW status \in Statuses, ProbeCalendar(status)
    PROVE  HealthIInv'
  <1>1. PICK t \in 1..now :
           Listed(Source, [status |-> status, last |-> IF status = "ok" THEN t ELSE 0])
    BY DEF ProbeCalendar
  <1> DEFINE row == [status |-> status, last |-> IF status = "ok" THEN t ELSE 0]
  <1>2. row \in HealthRow
    <2>1. t \in 0..MaxReports /\ 0 \in 0..MaxReports
      BY InventoryAssumption DEF HealthIInv, HealthTypeOK
    <2> QED
      BY <2>1, HealthRowsTyped DEF HealthIInv
  <1>3. HealthEarned(row)
    BY HealthOwnStores, HealthRowsTyped DEF HealthEarned, ProbeCalendar, HealthIInv
  <1> QED
    BY <1>1, <1>2, <1>3, HealthUnasked, HealthProbeEnds DEF ProbeCalendar

LEMMA HealthObjectStoreStep ==
    ASSUME HealthIInv, NEW status \in Statuses, ProbeObjectStore(status)
    PROVE  HealthIInv'
  <1> DEFINE row == [status |-> status, last |-> IF status = "ok" THEN now ELSE 0]
  <1>2. row \in HealthRow
    BY HealthRowsTyped DEF HealthIInv
  <1>3. HealthEarned(row)
    BY HealthOwnStores, HealthRowsTyped DEF HealthEarned, ProbeObjectStore, HealthIInv
  <1> QED
    BY <1>2, <1>3, HealthUnasked, HealthProbeEnds DEF ProbeObjectStore

LEMMA HealthPostgresStep ==
    ASSUME HealthIInv, NEW up \in BOOLEAN, NEW t \in 0..MaxReports, ProbePostgres(up, t)
    PROVE  HealthIInv'
  <1> DEFINE row == IF noDb THEN [status |-> "degraded", last |-> 0]
                    ELSE IF up THEN [status |-> "ok", last |-> t]
                    ELSE [status |-> "unavailable", last |-> 0]
  <1>1. pc = "probe" /\ Source = "postgres" /\ t < now /\ (noDb => ~up) /\ Listed(Source, row)
    BY DEF ProbePostgres
  <1>2. row \in HealthRow
    BY HealthRowsTyped DEF HealthIInv
  <1>3. HealthEarned(row)
    BY <1>1, HealthOwnStores, HealthRowsTyped DEF HealthEarned, HealthIInv, HealthTypeOK
  <1>4. /\ asked' \in [Sources -> 0..ProbeAttempts]
        /\ answers' \in [Sources -> Answers \cup {"none"}]
        /\ \A s \in Sources \ {Source} : asked'[s] = asked[s] /\ answers'[s] = answers[s]
    <2>1. asked \in [Sources -> 0..ProbeAttempts] /\ {0, 1} \subseteq 0..ProbeAttempts
      BY InventoryAssumption DEF HealthIInv, HealthTypeOK
    <2>2. asked' = [asked EXCEPT !["postgres"] = IF noDb THEN 0 ELSE 1] /\ answers' = answers
      BY DEF ProbePostgres
    <2> QED
      BY <1>1, <2>1, <2>2 DEF HealthIInv, HealthTypeOK
  <1>5. /\ memory' \in [DOMAIN memory' -> 0..MaxReports] /\ HealthKnown'
        /\ noDb => memory' = NoMemory
    BY <1>1 DEF ProbePostgres, HealthIInv, HealthTypeOK, HealthKnown, NotAskedInVain
  <1> QED
    BY <1>1, <1>2, <1>3, <1>4, <1>5, HealthProbeEnds DEF ProbePostgres

-----------------------------------------------------------------------------
(* What a row says of the answer it was left with.                         *)

LEMMA HealthStatusTyped ==
    ASSUME NEW s, NEW a
    PROVE  /\ StatusOf(s, a) \in Statuses
           /\ StatusOf(s, a) = "ok" => a \notin {"transient", "refused"}
  <1>1. CASE a = "good"
    BY <1>1 DEF StatusOf, Statuses
  <1>2. CASE a \in {"transient", "refused"}
    <2>1. a # "good"
      BY <1>2
    <2>2. StatusOf(s, a) = "unavailable"
      BY <1>2, <2>1 DEF StatusOf
    <2> QED
      BY <2>2 DEF Statuses
  <1>3. CASE a \notin {"good", "transient", "refused"}
    BY <1>3 DEF StatusOf, Statuses
  <1> QED
    BY <1>1, <1>2, <1>3

LEMMA HealthLastKnown ==
    ASSUME HealthTypeOK, HealthKnown, now > 0, NEW s, NEW a
    PROVE  /\ LastOf(s, a) \in 0..MaxReports
           /\ LastOf(s, a) <= now
           /\ StatusOf(s, a) # "ok" /\ LastOf(s, a) > 0 =>
                 s = "hyperliquid.info" /\ ~noDb /\ LastOf(s, a) < now
  <1> DEFINE found == IF s \in DOMAIN memory THEN memory[s] ELSE 0
  <1>1. /\ found \in 0..MaxReports /\ found < now /\ now \in 0..MaxReports
        /\ found > 0 => s = "hyperliquid.info" /\ ~noDb
    <2>1. now \in 0..MaxReports /\ MaxReports \in Nat
      BY InventoryAssumption DEF HealthTypeOK
    <2>2. CASE s \in DOMAIN memory
      <3>1. memory[s] \in 0..MaxReports
        BY <2>2 DEF HealthTypeOK
      <3> QED
        BY <2>1, <2>2, <3>1 DEF HealthKnown
    <2>3. CASE s \notin DOMAIN memory
      BY <2>1, <2>3
    <2> QED
      BY <2>2, <2>3
  <1>2. LastOf(s, a) \in {0, found, now}
    BY DEF LastOf
  <1>3. StatusOf(s, a) # "ok" => LastOf(s, a) \in {0, found}
    BY DEF LastOf
  <1> HIDE DEF found
  <1> QED
    BY <1>1, <1>2, <1>3, InventoryAssumption

LEMMA HealthRequestStep ==
    ASSUME HealthIInv, NEW a \in Answers, Request(a)
    PROVE  HealthIInv'
  <1> DEFINE row == [status |-> StatusOf(Source, a), last |-> LastOf(Source, a)]
  <1> USE DEF HealthIInv
  <1>1. /\ Source \in Sources /\ Source \in Vendors /\ pc = "probe"
        /\ Source \notin Keyed \ keys
        /\ attempt \in 1..ProbeAttempts /\ asked[Source] = attempt - 1
    BY HealthSourceIsNew DEF Request, HealthReached, HealthAsking
  <1>2. /\ asked' \in [Sources -> 0..ProbeAttempts]
        /\ answers' \in [Sources -> Answers \cup {"none"}]
        /\ \A s \in Sources \ {Source} : asked'[s] = asked[s] /\ answers'[s] = answers[s]
        /\ asked'[Source] = attempt /\ answers'[Source] = a
    BY <1>1, InventoryAssumption DEF Request, HealthTypeOK
  <1>3. CASE a = "transient" /\ attempt < ProbeAttempts
    <2>1. attempt' = attempt + 1 /\ UNCHANGED <<pc, at, rows, noDb, keys, memory, overall, disk,
                                                now>>
      BY <1>3 DEF Request
    <2>2. HealthTypeOK' /\ HealthReached'
      <3>1. attempt' \in 1..ProbeAttempts /\ attempt' \in 0..ProbeAttempts
        BY <1>1, <1>3, <2>1, InventoryAssumption
      <3> QED
        BY <1>2, <2>1, <3>1 DEF HealthTypeOK, HealthReached
    <2>3. HealthAsking'
      <3>1. Source' = Source
        BY <2>1 DEF Source
      <3>2. \A i \in (at + 1)..Len(Inventory) : Inventory[i] \in Sources \ {Source}
        BY <1>1, HealthSourceIsNew
      <3> QED
        BY <1>1, <1>2, <2>1, <3>1, <3>2 DEF HealthAsking
    <2>4. Source \notin DOMAIN rows
      BY <1>1, HealthSourceIsNew
    <2>5. HealthKnown' /\ HealthWritten' /\ SuccessIsBacked' /\ OverallFollowsRows'
            /\ HashFollowsReport'
      BY <2>1 DEF HealthKnown, HealthWritten, SuccessIsBacked, OverallFollowsRows, HashFollowsReport
    <2>6. EveryRowIsListed'
      BY <2>1 DEF EveryRowIsListed
    <2>7. StatusIsEarned' /\ NotAskedInVain'
      BY <1>1, <1>2, <2>1, <2>4 DEF StatusIsEarned, NotAskedInVain, HealthTypeOK
    <2> QED
      BY <2>2, <2>3, <2>5, <2>6, <2>7
  <1>4. CASE ~(a = "transient" /\ attempt < ProbeAttempts)
    <2>1. Listed(Source, row) /\ UNCHANGED <<noDb, keys, memory, overall, disk, now>>
      BY <1>4 DEF Request
    <2>2. now > 0
      BY <1>1 DEF HealthReached
    <2>3. row \in HealthRow
      BY <2>2, HealthStatusTyped, HealthLastKnown, HealthRowsTyped
    <2>4. HealthEarned(row)
      <3>1. Source \notin {"postgres"}
        BY <1>1, HealthOwnStores
      <3>2. row.status = StatusOf(Source, a) /\ row.last = LastOf(Source, a)
        OBVIOUS
      <3> HIDE DEF row
      <3>3. /\ row.status = "ok" => a \notin {"none", "transient", "refused"}
            /\ a = "transient" => attempt = ProbeAttempts
        BY <1>1, <1>4, <3>2, HealthStatusTyped, InventoryAssumption DEF Answers
      <3>4. attempt > 0
        BY <1>1, InventoryAssumption
      <3>5. /\ row.last <= now
            /\ row.status # "ok" /\ row.last > 0 =>
                  Source = "hyperliquid.info" /\ ~noDb /\ row.last < now
        BY <2>2, <3>2, HealthLastKnown
      <3> QED
        BY <1>1, <1>2, <3>1, <3>3, <3>4, <3>5 DEF HealthEarned
    <2>5. /\ memory' \in [DOMAIN memory' -> 0..MaxReports] /\ HealthKnown'
          /\ noDb => memory' = NoMemory
      BY <1>1, <2>1 DEF HealthTypeOK, HealthKnown, NotAskedInVain
    <2> QED
      BY <1>1, <1>2, <2>1, <2>3, <2>4, <2>5, HealthProbeEnds
  <1> QED
    BY <1>3, <1>4

-----------------------------------------------------------------------------
(* The report.                                                             *)

LEMMA HealthWriteReportStep ==
    ASSUME HealthIInv, WriteReport
    PROVE  HealthIInv'
  <1> USE DEF HealthIInv, WriteReport
  <1>1. disk' \in [md : 0..MaxReports, sha : 0..MaxReports] /\ disk'.md = now
          /\ disk'.sha = disk.sha
    BY DEF HealthTypeOK
  <1>2. Overall \in Statuses
    BY DEF Overall, Statuses
  <1>3. HealthTypeOK'
    BY <1>1, <1>2 DEF HealthTypeOK
  <1>4. HealthReached' /\ HealthAsking' /\ HealthKnown' /\ HealthWritten'
    BY <1>1 DEF HealthReached, HealthAsking, HealthKnown, HealthWritten, HealthTypeOK
  <1>5. EveryRowIsListed' /\ StatusIsEarned' /\ NotAskedInVain' /\ SuccessIsBacked'
    BY DEF EveryRowIsListed, StatusIsEarned, NotAskedInVain, SuccessIsBacked
  <1>6. OverallFollowsRows'
    BY DEF OverallFollowsRows, Overall
  <1>7. HashFollowsReport'
    BY <1>1 DEF HashFollowsReport, HealthWritten, HealthTypeOK
  <1> QED
    BY <1>3, <1>4, <1>5, <1>6, <1>7

LEMMA HealthWriteHashStep ==
    ASSUME HealthIInv, WriteHash
    PROVE  HealthIInv'
  <1> USE DEF HealthIInv, WriteHash
  <1>1. disk' \in [md : 0..MaxReports, sha : 0..MaxReports] /\ disk'.md = disk.md /\ disk'.sha = now
    BY DEF HealthTypeOK
  <1>2. HealthTypeOK'
    BY <1>1 DEF HealthTypeOK
  <1>3. HealthReached' /\ HealthAsking' /\ HealthKnown' /\ HealthWritten'
    BY <1>1 DEF HealthReached, HealthAsking, HealthKnown, HealthWritten
  <1>4. EveryRowIsListed' /\ StatusIsEarned' /\ NotAskedInVain' /\ SuccessIsBacked'
          /\ OverallFollowsRows'
    BY DEF EveryRowIsListed, StatusIsEarned, NotAskedInVain, SuccessIsBacked, OverallFollowsRows
  <1>5. HashFollowsReport'
    BY <1>1 DEF HashFollowsReport, HealthWritten, HealthTypeOK
  <1> QED
    BY <1>2, <1>3, <1>4, <1>5

LEMMA HealthDieStep ==
    ASSUME HealthIInv, Die
    PROVE  HealthIInv'
  <1> USE DEF HealthIInv, Die
  <1>1. HealthTypeOK'
    BY HealthInventoryFacts DEF HealthTypeOK
  <1>2. HealthReached' /\ HealthAsking' /\ HealthKnown' /\ HealthWritten'
    BY DEF HealthReached, HealthAsking, HealthKnown, HealthWritten
  <1>3. HealthIsHonest'
    BY DEF HealthIsHonest, EveryRowIsListed, StatusIsEarned, NotAskedInVain, SuccessIsBacked,
           OverallFollowsRows, HashFollowsReport
  <1> QED
    BY <1>1, <1>2, <1>3 DEF HealthIsHonest

-----------------------------------------------------------------------------
(* The theorems.                                                           *)

LEMMA HealthInitIInv == HealthInit => HealthIInv
  <1> SUFFICES ASSUME HealthInit PROVE HealthIInv
    OBVIOUS
  <1> USE DEF HealthInit
  <1>1. DOMAIN memory = {} /\ DOMAIN rows = {}
    BY DEF NoMemory
  <1>2. HealthTypeOK
    <2>1. Len(Inventory) \in Nat /\ 0 \in 0..Len(Inventory) /\ 0 \in 0..ProbeAttempts
            /\ 0 \in 0..MaxReports
      BY HealthInventoryFacts, InventoryAssumption
    <2>2. rows \in [DOMAIN rows -> HealthRow] /\ memory \in [DOMAIN memory -> 0..MaxReports]
      BY <1>1 DEF NoMemory
    <2>3. disk \in [md : 0..MaxReports, sha : 0..MaxReports]
      BY <2>1
    <2> QED
      BY <1>1, <2>1, <2>2, <2>3 DEF HealthTypeOK, HealthRow
  <1>3. HealthReached /\ HealthAsking /\ HealthKnown /\ HealthWritten
    BY <1>1, InventoryAssumption DEF HealthReached, HealthAsking, HealthKnown, HealthWritten
  <1>4. HealthIsHonest
    BY <1>1 DEF HealthIsHonest, EveryRowIsListed, StatusIsEarned, NotAskedInVain, SuccessIsBacked,
           OverallFollowsRows, HashFollowsReport
  <1> QED
    BY <1>2, <1>3, <1>4 DEF HealthIInv, HealthIsHonest

LEMMA HealthNextIInv ==
    ASSUME HealthIInv, [HealthNext]_healthVars
    PROVE  HealthIInv'
  <1>1. CASE UNCHANGED healthVars
    BY <1>1 DEF healthVars, HealthIInv, HealthTypeOK, HealthReached, HealthAsking, Source,
       HealthKnown, HealthWritten,
         EveryRowIsListed, StatusIsEarned, NotAskedInVain, SuccessIsBacked, OverallFollowsRows,
         HashFollowsReport
  <1>2. CASE HealthNext
    BY <1>2, HealthBeginStep, HealthLoadStep, HealthNoKeyStep, HealthRequestStep,
       HealthCalendarStep, HealthPostgresStep,
         HealthObjectStoreStep, HealthRaisesStep, HealthWriteReportStep, HealthWriteHashStep,
           HealthDieStep DEF HealthNext
  <1> QED
    BY <1>1, <1>2

(* The inductive invariant.                                                *)
THEOREM HealthInvariance == HealthSpec => []HealthIInv
  <1> QED
    BY HealthInitIInv, HealthNextIInv, PTL DEF HealthSpec

(* The variables stay in their types.                                      *)
THEOREM HealthTypeCorrect == HealthSpec => []HealthTypeOK
  <1>1. HealthIInv => HealthTypeOK
    BY DEF HealthIInv
  <1> QED
    BY <1>1, HealthInvariance, PTL

(* A report lists every source of the inventory, each with a status that   *)
(* the answers and retries of this report earned, asks nobody in vain,     *)
(* claims no success that neither Memory nor a probe backs, sums its rows  *)
(* up as the runbook says, and has no hash ahead of its document.          *)
THEOREM HealthCorrect == HealthSpec => []HealthIsHonest
  <1>1. HealthIInv => HealthIsHonest
    BY DEF HealthIInv, HealthIsHonest
  <1> QED
    BY <1>1, HealthInvariance, PTL

-----------------------------------------------------------------------------
(* The Market Pulse (Pulse).                                               *)
(* The qualities from the best to the worst, and the pc values before the  *)
(* document has a label.                                                   *)
PulseGrades == {"ok", "partial", "stale", "unavailable", "contradicted"}
PulseGathering == {"ask", "merge", "memory", "live", "crypto", "quality"}

PulseOrigins == {"none", "stooq", "polygon", "fred", "coingecko", "hyperliquid"}
PulsePrints == [num : BOOLEAN, q : PulseGrades, src : PulseOrigins, age : Nat]
PulseMarks == [metrics : BOOLEAN, mid : BOOLEAN, q : PulseGrades, age : Nat]

(* The types of the variables, as far as the steps need them.              *)
PulseTyped ==
    /\ pPc \in {"idle", "ask", "merge", "memory", "live", "crypto", "quality", "write", "index"}
    /\ turn \in 0..4 /\ kind \in {"preopen", "close"}
    /\ slots \in [P!Slots -> PulsePrints]
    /\ notes \in BOOLEAN
    /\ hl \in PulseMarks
    /\ snapQ \in PulseGrades
    /\ label \in {"none", "fresh", "ok", "stale", "partial", "unavailable", "contradicted"}
    /\ pDisk \in [1..4 -> 0..MaxBriefs]
    /\ \A r \in table : r.run \in 1..MaxBriefs
    /\ briefs \in 0..MaxBriefs
    /\ pPc # "idle" => briefs > 0
    /\ pPc \in {"ask", "write"} => turn > 0
    /\ pPc = "write" /\ kind = "close" => turn < 3

(* A slot without a number is unavailable, one that is ok is not old.      *)
PulseSlotsAreTrue ==
    /\ \A x \in P!Slots : ~slots[x].num => slots[x].q = "unavailable"
    /\ slots["US10Y"].q = "ok" => slots["US10Y"].age <= PulseFredLag
    /\ slots["ES"].q = "ok" => slots["ES"].age <= PulseQuoteLag

(* From the merge on the snapshot is ok only when all of it is.            *)
PulseSnapshotIsWorst ==
    pPc \in {"memory", "live", "crypto", "quality"} /\ snapQ = "ok" =>
         ~notes /\ \A x \in P!Slots : slots[x].q = "ok"

PulseLabelIsLate == pPc \in PulseGathering => label = "none"

PulseRoutedAfterCrypto == pPc \in {"quality", "write", "index"} => slots["BTC"].src = "hyperliquid"

(* The two files of the first path are written before the index.           *)
PulseWrittenInOrder ==
    /\ \A i \in 1..4 : pDisk[i] <= briefs
    /\ pPc = "write" /\ turn > 1 => pDisk[1] = briefs
    /\ pPc = "write" /\ turn > 2 => pDisk[2] = briefs
    /\ pPc = "index" => pDisk[1] = briefs /\ pDisk[2] = briefs

PulseIInv ==
    /\ PulseTyped /\ PulseSlotsAreTrue /\ PulseSnapshotIsWorst /\ PulseLabelIsLate
       /\ PulseRoutedAfterCrypto
    /\ PulseWrittenInOrder
    /\ P!FreshMeansAll /\ P!CryptoIsRouted /\ P!IndexedWasWritten

-----------------------------------------------------------------------------
LEMMA PulseRankIs ==
    /\ P!Rank("ok") = 1 /\ P!Rank("partial") = 2 /\ P!Rank("stale") = 3
    /\ P!Rank("unavailable") = 4 /\ P!Rank("contradicted") = 5
  BY DEF P!Rank, P!Qualities

LEMMA PulseWorstIs ==
    ASSUME NEW S, S \subseteq PulseGrades
    PROVE  P!Worst(S) \in PulseGrades /\ \A q \in S : q # "ok" => P!Worst(S) # "ok"
<1> DEFINE Bounds(i) == /\ i = 1 \/ \E q \in S : P!Rank(q) = i
                        /\ \A q \in S : P!Rank(q) <= i
<1>1. \E i \in 1..5 : Bounds(i)
  <2>1. CASE "contradicted" \in S
    BY <2>1, PulseRankIs DEF PulseGrades
  <2>2. CASE "contradicted" \notin S /\ "unavailable" \in S
    BY <2>2, PulseRankIs DEF PulseGrades
  <2>3. CASE S \cap {"contradicted", "unavailable"} = {} /\ "stale" \in S
    BY <2>3, PulseRankIs DEF PulseGrades
  <2>4. CASE S \cap {"contradicted", "unavailable", "stale"} = {} /\ "partial" \in S
    BY <2>4, PulseRankIs DEF PulseGrades
  <2>5. CASE S \cap {"contradicted", "unavailable", "stale", "partial"} = {}
    BY <2>5, PulseRankIs DEF PulseGrades
  <2> QED
    BY <2>1, <2>2, <2>3, <2>4, <2>5
<1>2. DOMAIN P!Qualities = 1..5
  BY DEF P!Qualities
<1>3. PICK k \in 1..5 : Bounds(k) /\ P!Worst(S) = P!Qualities[k]
  <2>1. LET k == CHOOSE i \in 1..5 : Bounds(i) IN k \in 1..5 /\ Bounds(k)
    BY <1>1
  <2>2. P!Worst(S) = P!Qualities[CHOOSE i \in 1..5 : Bounds(i)]
    BY <1>2 DEF P!Worst
  <2> QED
    BY <2>1, <2>2
<1>4. P!Qualities[k] \in PulseGrades /\ (P!Qualities[k] = "ok" => k = 1)
  BY DEF P!Qualities, PulseGrades
<1>5. \A q \in S : P!Rank(q) \in 1..5 /\ (q # "ok" => P!Rank(q) > 1)
  BY PulseRankIs DEF PulseGrades
<1> QED
  BY <1>3, <1>4, <1>5

LEMMA PulseNothingIsTyped == P!NoPrint \in PulsePrints /\ P!NoHl \in PulseMarks
  BY DEF P!NoPrint, P!NoHl, PulsePrints, PulseMarks, PulseGrades, PulseOrigins, PulsePrints

LEMMA PulseInitIInv == P!Init => PulseIInv
<1> SUFFICES ASSUME P!Init PROVE PulseIInv
  OBVIOUS
<1>1. DOMAIN P!Paths = 1..4
  BY DEF P!Paths
<1>2. PulseTyped
  <2>1. slots \in [P!Slots -> PulsePrints] /\ hl \in PulseMarks
    BY PulseNothingIsTyped DEF P!Init
  <2>2. pDisk \in [1..4 -> 0..MaxBriefs] /\ briefs \in 0..MaxBriefs
    BY <1>1, PulseAssumption DEF P!Init
  <2>3. notes \in BOOLEAN
    BY DEF P!Init
  <2> QED
    BY <2>1, <2>2, <2>3 DEF P!Init, PulseTyped, PulseGrades
<1> QED
  BY <1>1, <1>2, PulseAssumption DEF P!Init, PulseIInv, PulseSlotsAreTrue, PulseSnapshotIsWorst,
     PulseLabelIsLate, PulseRoutedAfterCrypto,
    PulseWrittenInOrder, P!FreshMeansAll, P!CryptoIsRouted, P!IndexedWasWritten, P!NoPrint, P!NoHl,
      P!Slots,
    PulseGrades, PulseOrigins, PulseGathering, P!Final

LEMMA PulseBeginStep ==
    ASSUME PulseIInv, NEW k \in {"preopen", "close"}, P!Begin(k)
    PROVE  PulseIInv'
<1> USE DEF PulseIInv, P!Begin
<1>1. PulseTyped'
  <2>1. slots' \in [P!Slots -> PulsePrints] /\ hl' \in PulseMarks
    BY PulseNothingIsTyped
  <2>2. briefs' \in 1..MaxBriefs
    BY PulseAssumption DEF PulseTyped
  <2>3. notes' \in BOOLEAN
    OBVIOUS
  <2> QED
    BY <2>1, <2>2, <2>3 DEF PulseTyped, PulseGrades
<1>2. PulseSlotsAreTrue' /\ PulseSnapshotIsWorst' /\ PulseLabelIsLate' /\ PulseRoutedAfterCrypto'
  BY DEF PulseSlotsAreTrue, PulseSnapshotIsWorst, PulseLabelIsLate, PulseRoutedAfterCrypto,
     P!NoPrint, P!Slots
<1>3. PulseWrittenInOrder' /\ P!IndexedWasWritten'
  BY DEF PulseTyped, PulseWrittenInOrder, P!IndexedWasWritten
<1>4. P!FreshMeansAll' /\ P!CryptoIsRouted'
  BY DEF P!FreshMeansAll, P!CryptoIsRouted, P!Final
<1> QED
  BY <1>1, <1>2, <1>3, <1>4

(* Nothing but the rows changes while sources are asked, merged and        *)
(* routed: the files and the table stay.                                   *)
LEMMA PulseFilesStay ==
    ASSUME PulseIInv, pPc \in PulseGathering, pPc' \in PulseGathering \cup {"idle"},
      UNCHANGED <<pDisk, table, briefs, label>>
    PROVE  /\ PulseWrittenInOrder' /\ P!IndexedWasWritten' /\ PulseLabelIsLate'
           /\ P!FreshMeansAll' /\ P!CryptoIsRouted'
<1> USE DEF PulseIInv, PulseGathering
<1>1. PulseWrittenInOrder' /\ P!IndexedWasWritten'
  BY DEF PulseWrittenInOrder, P!IndexedWasWritten, PulseTyped
<1>2. label' = "none"
  BY DEF PulseLabelIsLate
<1> QED
  BY <1>1, <1>2 DEF PulseLabelIsLate, P!FreshMeansAll, P!CryptoIsRouted, P!Final

LEMMA PulseAskStep ==
    ASSUME PulseIInv, NEW replying \in SUBSET P!Slots, NEW age \in PulseAges,
      P!AskSource(replying, age)
    PROVE  PulseIInv'
<1> USE DEF PulseIInv
<1> DEFINE s == P!Sources[turn]
<1>1. pPc = "ask" /\ pPc' \in {"ask", "merge"} /\ turn \in 1..4
  BY DEF P!AskSource, PulseTyped
<1>2. s \in {"stooq", "polygon", "fred", "coingecko"} /\ Len(P!Sources) = 4
  BY <1>1 DEF P!Sources
<1>3. age \in Nat
  BY PulseAssumption
<1>4. slots' = P!Rows(s, replying, age) /\ replying \subseteq P!Carries(s)
        /\ replying \subseteq P!Slots
  BY DEF P!AskSource
<1>5. P!Answer(s, age) \in PulsePrints /\ P!Answer(s, age).num
  BY <1>2, <1>3 DEF P!Answer, P!QuoteQuality, PulseGrades, PulseOrigins, PulsePrints
<1>6. P!Empty(s) \in PulsePrints /\ P!Empty(s).q = "unavailable"
  BY <1>2 DEF P!Empty, P!NoPrint, PulseGrades, PulseOrigins, PulsePrints
<1>7. \A x \in P!Slots : slots'[x] \in {P!Answer(s, age), P!Empty(s), slots[x]}
  BY <1>4 DEF P!Rows
<1>8. PulseTyped'
  <2>1. slots' \in [P!Slots -> PulsePrints]
    BY <1>4, <1>5, <1>6 DEF P!Rows, PulseTyped
  <2>2. turn' \in 0..4 /\ (pPc' = "ask" => turn' > 0)
    BY <1>1, <1>2 DEF P!AskSource
  <2>3. notes' \in BOOLEAN
    BY DEF P!AskSource, PulseTyped
  <2> QED
    BY <1>1, <2>1, <2>2, <2>3 DEF P!AskSource, PulseTyped
<1>9. PulseSlotsAreTrue'
  <2>1. \A x \in P!Slots : ~slots'[x].num => slots'[x].q = "unavailable"
    BY <1>7, <1>5, <1>6 DEF PulseSlotsAreTrue
  <2>2. ASSUME slots'["US10Y"].q = "ok" PROVE slots'["US10Y"].age <= PulseFredLag
    <3>1. CASE slots'["US10Y"] = slots["US10Y"]
      BY <2>2, <3>1 DEF PulseSlotsAreTrue
    <3>2. CASE "US10Y" \in replying
      <4>1. s = "fred"
        BY <1>4, <1>2, <3>2 DEF P!Carries
      <4>2. slots'["US10Y"] = P!Answer("fred", age)
        BY <1>4, <4>1, <3>2 DEF P!Rows, P!Slots
      <4> QED
        BY <4>2, <2>2, <1>3, PulseAssumption DEF P!Answer, P!QuoteQuality
    <3> QED
      BY <3>1, <3>2, <1>4 DEF P!Rows, P!Slots
  <2>3. ASSUME slots'["ES"].q = "ok" PROVE slots'["ES"].age <= PulseQuoteLag
    <3>1. CASE slots'["ES"] = slots["ES"]
      BY <2>3, <3>1 DEF PulseSlotsAreTrue
    <3>2. CASE "ES" \in replying
      <4>1. s \in {"stooq", "polygon"}
        BY <1>4, <1>2, <3>2 DEF P!Carries
      <4>2. slots'["ES"] = P!Answer(s, age)
        BY <1>4, <3>2 DEF P!Rows, P!Slots
      <4> QED
        BY <4>1, <4>2, <2>3, <1>3, PulseAssumption DEF P!Answer, P!QuoteQuality
    <3>3. CASE "ES" \notin replying
      BY <3>3, <3>1, <1>4, <1>6, <2>3 DEF P!Rows, P!Slots
    <3> QED
      BY <3>2, <3>3
  <2> QED
    BY <2>1, <2>2, <2>3 DEF PulseSlotsAreTrue
<1>10. PulseSnapshotIsWorst' /\ PulseRoutedAfterCrypto'
  BY <1>1 DEF PulseSnapshotIsWorst, PulseRoutedAfterCrypto
<1>11. PulseWrittenInOrder' /\ P!IndexedWasWritten' /\ PulseLabelIsLate' /\ P!FreshMeansAll'
         /\ P!CryptoIsRouted'
  BY <1>1, PulseFilesStay DEF P!AskSource, PulseGathering
<1> QED
  BY <1>8, <1>9, <1>10, <1>11

LEMMA PulseAbortStep ==
    ASSUME PulseIInv, P!FetchAborts
    PROVE  PulseIInv'
<1> USE DEF PulseIInv, P!FetchAborts
<1>1. PulseTyped' /\ PulseSlotsAreTrue' /\ PulseSnapshotIsWorst' /\ PulseRoutedAfterCrypto'
  BY DEF PulseTyped, PulseSlotsAreTrue, PulseSnapshotIsWorst, PulseRoutedAfterCrypto
<1>2. PulseWrittenInOrder' /\ P!IndexedWasWritten' /\ PulseLabelIsLate' /\ P!FreshMeansAll'
        /\ P!CryptoIsRouted'
  BY PulseFilesStay DEF PulseGathering
<1> QED
  BY <1>1, <1>2

LEMMA PulseMergeStep ==
    ASSUME PulseIInv, P!Merge
    PROVE  PulseIInv'
<1> USE DEF PulseIInv
<1>1. /\ pPc = "merge" /\ pPc' = "memory"
      /\ slots' = [x \in P!Slots |-> P!Gated(slots[x])]
      /\ UNCHANGED <<turn, kind, notes, hl, label, pDisk, table, briefs>>
  BY DEF P!Merge
<1> DEFINE parts == {slots'[x].q : x \in P!Slots} \cup IF notes THEN {"partial"} ELSE {}
<1>2. \A x \in P!Slots : \/ slots'[x] = slots[x]
                         \/ slots'[x] = [slots[x] EXCEPT !.q = P!Worst({slots[x].q, "stale"})]
                            /\ slots[x].num
  BY <1>1 DEF P!Gated
<1>3. \A x \in P!Slots : P!Worst({slots[x].q, "stale"}) \in PulseGrades \ {"ok"}
  <2> TAKE x \in P!Slots
  <2>1. {slots[x].q, "stale"} \subseteq PulseGrades
    BY DEF PulseTyped, PulseGrades, PulsePrints
  <2> QED
    BY <2>1, PulseWorstIs
<1>4. \A x \in P!Slots : /\ slots'[x] \in PulsePrints
                         /\ slots'[x].num = slots[x].num /\ slots'[x].age = slots[x].age
                         /\ slots'[x].q = "ok" => slots[x].q = "ok"
                         /\ ~slots[x].num => slots'[x].q = slots[x].q
  <2> TAKE x \in P!Slots
  <2>1. slots[x] \in PulsePrints
    BY DEF PulseTyped
  <2>2. CASE slots'[x] = slots[x]
    BY <2>1, <2>2
  <2>3. CASE slots'[x] = [slots[x] EXCEPT !.q = P!Worst({slots[x].q, "stale"})] /\ slots[x].num
    BY <2>1, <2>3, <1>3 DEF PulsePrints
  <2> QED
    BY <2>2, <2>3, <1>2
<1>5. slots' \in [P!Slots -> PulsePrints]
  BY <1>1, <1>4
<1>6. parts \subseteq PulseGrades /\ snapQ' = P!Worst(parts)
  BY <1>1, <1>4 DEF P!Merge, PulseGrades, PulsePrints
<1>7. snapQ' \in PulseGrades /\ (snapQ' = "ok" => ~notes /\ \A x \in P!Slots : slots'[x].q = "ok")
  <2>1. snapQ' \in PulseGrades /\ \A q \in parts : q # "ok" => snapQ' # "ok"
    BY <1>6, PulseWorstIs
  <2> QED
    BY <2>1
<1>8. PulseTyped'
  BY <1>1, <1>5, <1>7 DEF PulseTyped
<1>9. PulseSlotsAreTrue'
  BY <1>4 DEF PulseSlotsAreTrue, P!Slots
<1>10. PulseSnapshotIsWorst' /\ PulseRoutedAfterCrypto'
  BY <1>1, <1>7 DEF PulseSnapshotIsWorst, PulseRoutedAfterCrypto
<1>11. PulseWrittenInOrder' /\ P!IndexedWasWritten' /\ PulseLabelIsLate' /\ P!FreshMeansAll'
         /\ P!CryptoIsRouted'
  BY <1>1, PulseFilesStay DEF PulseGathering
<1> QED
  BY <1>8, <1>9, <1>10, <1>11

LEMMA PulseFoundStep ==
    ASSUME PulseIInv, NEW found \in P!Memories \cup P!LiveBodies,
           P!FromMemory(found) \/ P!FromLive(found)
    PROVE  PulseIInv'
<1> USE DEF PulseIInv
<1>1. /\ pPc \in {"memory", "live"} /\ pPc' \in {"live", "crypto"} /\ hl' = found
      /\ UNCHANGED <<turn, kind, slots, notes, snapQ, label, pDisk, table, briefs>>
  BY DEF P!FromMemory, P!FromLive
<1>2. found \in PulseMarks
  <2>1. CASE found = P!NoHl
    BY <2>1, PulseNothingIsTyped
  <2>2. CASE \E m \in BOOLEAN, q \in {"ok", "contradicted"}, a \in PulseAges :
                 found = [metrics |-> TRUE, mid |-> m, q |-> q, age |-> a]
    BY <2>2, PulseAssumption DEF PulseMarks, PulseGrades
  <2>3. CASE \E m \in BOOLEAN : found = [metrics |-> TRUE, mid |-> m, q |-> "ok", age |-> 0]
    BY <2>3 DEF PulseMarks, PulseGrades
  <2> QED
    <3>1. CASE found \in P!LiveBodies
      BY <3>1, <2>1, <2>3 DEF P!LiveBodies
    <3>2. CASE found \in P!Memories
      BY <3>2, <2>1, <2>2 DEF P!Memories
    <3> QED
      BY <3>1, <3>2
<1>3. PulseTyped'
  BY <1>1, <1>2 DEF PulseTyped
<1>4. PulseSlotsAreTrue' /\ PulseSnapshotIsWorst' /\ PulseRoutedAfterCrypto'
  BY <1>1 DEF PulseSlotsAreTrue, PulseSnapshotIsWorst, PulseRoutedAfterCrypto
<1>5. PulseWrittenInOrder' /\ P!IndexedWasWritten' /\ PulseLabelIsLate' /\ P!FreshMeansAll'
        /\ P!CryptoIsRouted'
  BY <1>1, PulseFilesStay DEF PulseGathering
<1> QED
  BY <1>3, <1>4, <1>5

LEMMA PulseCryptoStep ==
    ASSUME PulseIInv, NEW apart \in BOOLEAN, P!Crypto(apart)
    PROVE  PulseIInv'
<1> USE DEF PulseIInv
<1> DEFINE routed == P!Routed(slots["BTC"], apart)
           parts == {snapQ} \cup {slots'[x].q : x \in P!Slots}
<1>1. /\ pPc = "crypto" /\ pPc' = "quality"
      /\ slots' = [slots EXCEPT !["BTC"] = routed]
      /\ snapQ' = P!Worst(parts)
      /\ UNCHANGED <<turn, kind, notes, hl, label, pDisk, table, briefs>>
  BY DEF P!Crypto
<1>2. P!MidQuality \in PulseGrades /\ P!Worst({P!MidQuality, "partial"}) \in PulseGrades
  <2>1. P!MidQuality \in PulseGrades
    BY DEF PulseTyped, PulseMarks, P!MidQuality, PulseGrades
  <2>2. {P!MidQuality, "partial"} \subseteq PulseGrades
    BY <2>1 DEF PulseGrades
  <2> QED
    BY <2>1, <2>2, PulseWorstIs
<1>3. /\ routed \in PulsePrints
      /\ routed.src = "hyperliquid" /\ (~routed.num => routed.q = "unavailable")
  <2>1. hl.age \in Nat
    BY DEF PulseTyped, PulseMarks
  <2>2. CASE hl.mid
    BY <2>1, <2>2, <1>2 DEF P!Routed, PulseOrigins, PulsePrints
  <2>3. CASE ~hl.mid
    BY <2>3 DEF P!Routed, P!NoPrint, PulseGrades, PulseOrigins, PulsePrints
  <2> QED
    BY <2>2, <2>3
<1>4. slots' \in [P!Slots -> PulsePrints]
  BY <1>1, <1>3 DEF PulseTyped
<1>5. slots'["BTC"] = routed /\ \A x \in P!Slots \ {"BTC"} : slots'[x] = slots[x]
  BY <1>1 DEF PulseTyped, P!Slots
<1>6. parts \subseteq PulseGrades
  BY <1>4 DEF PulseTyped, PulsePrints
<1>7. snapQ' \in PulseGrades /\ \A q \in parts : q # "ok" => snapQ' # "ok"
  BY <1>1, <1>6, PulseWorstIs
<1>8. PulseTyped'
  BY <1>1, <1>4, <1>7 DEF PulseTyped
<1>9. PulseSlotsAreTrue'
  BY <1>3, <1>5 DEF PulseSlotsAreTrue, P!Slots
<1>10. PulseSnapshotIsWorst'
  <2>1. snapQ' = "ok" => snapQ = "ok" /\ \A x \in P!Slots : slots'[x].q = "ok"
    BY <1>7
  <2> QED
    BY <2>1, <1>1 DEF PulseSnapshotIsWorst
<1>11. PulseRoutedAfterCrypto'
  BY <1>1, <1>3, <1>5 DEF PulseRoutedAfterCrypto
<1>12. PulseWrittenInOrder' /\ P!IndexedWasWritten' /\ PulseLabelIsLate' /\ P!FreshMeansAll'
         /\ P!CryptoIsRouted'
  BY <1>1, PulseFilesStay DEF PulseGathering
<1> QED
  BY <1>8, <1>9, <1>10, <1>11, <1>12

(* Only an ok snapshot makes a fresh document.                             *)
LEMMA PulseFreshNeedsOk ==
    ASSUME PulseIInv
    PROVE  /\ P!Overall(P!Parts) \in {"fresh", "stale", "partial", "unavailable"}
           /\ P!Overall(P!Parts) = "fresh" => snapQ = "ok"
           /\ P!Worst({snapQ, hl.q}) \in PulseGrades
           /\ P!Worst({snapQ, hl.q}) = "ok" => snapQ = "ok"
<1>1. snapQ \in PulseGrades /\ hl.q \in PulseGrades
  BY DEF PulseIInv, PulseTyped, PulseMarks
<1>2. P!Worst({snapQ, hl.q}) \in PulseGrades /\ (P!Worst({snapQ, hl.q}) = "ok" => snapQ = "ok")
  <2>1. {snapQ, hl.q} \subseteq PulseGrades
    BY <1>1
  <2> QED
    BY <2>1, PulseWorstIs
<1>3. P!Overall(P!Parts) \in {"fresh", "stale", "partial", "unavailable"}
  BY DEF P!Overall
<1>4. ASSUME P!Overall(P!Parts) = "fresh" PROVE snapQ = "ok"
  <2>1. {P!Shown(q) : q \in P!Parts} = {"fresh"}
    BY <1>4 DEF P!Overall
  <2>2. P!Shown(snapQ) = "fresh"
    BY <2>1 DEF P!Parts
  <2> QED
    BY <2>2, <1>1 DEF P!Shown, PulseGrades
<1> QED
  BY <1>2, <1>3, <1>4

LEMMA PulseLabelStep ==
    ASSUME PulseIInv, P!Label
    PROVE  PulseIInv'
<1> USE DEF PulseIInv
<1>1. /\ pPc = "quality" /\ pPc' = "write" /\ turn' = 1
      /\ label' \in {P!Overall(P!Parts), P!Worst({snapQ, hl.q})}
      /\ UNCHANGED <<kind, slots, notes, hl, snapQ, pDisk, table, briefs>>
  BY DEF P!Label
<1>2. PulseTyped'
  BY <1>1, PulseFreshNeedsOk DEF PulseTyped, PulseGrades
<1>3. PulseSlotsAreTrue' /\ PulseSnapshotIsWorst' /\ PulseLabelIsLate' /\ PulseRoutedAfterCrypto'
        /\ P!CryptoIsRouted'
  BY <1>1 DEF PulseSlotsAreTrue, PulseSnapshotIsWorst, PulseLabelIsLate, PulseRoutedAfterCrypto,
     PulseGathering,
     P!CryptoIsRouted, P!Final
<1>4. PulseWrittenInOrder' /\ P!IndexedWasWritten'
  BY <1>1 DEF PulseWrittenInOrder, P!IndexedWasWritten
<1>5. P!FreshMeansAll'
  <2> SUFFICES ASSUME label' \in {"fresh", "ok"}
               PROVE  /\ ~notes'
                      /\ \A x \in P!Slots : slots'[x].num
                      /\ slots'["US10Y"].age <= PulseFredLag /\ slots'["ES"].age <= PulseQuoteLag
    BY DEF P!FreshMeansAll
  <2>1. snapQ = "ok"
    BY <1>1, PulseFreshNeedsOk DEF PulseGrades
  <2>2. ~notes /\ \A x \in P!Slots : slots[x].q = "ok"
    BY <1>1, <2>1 DEF PulseSnapshotIsWorst
  <2> QED
    BY <1>1, <2>2 DEF PulseSlotsAreTrue, P!Slots, PulseTyped
<1> QED
  BY <1>2, <1>3, <1>4, <1>5

LEMMA PulseWriteStep ==
    ASSUME PulseIInv, NEW i \in DOMAIN P!Paths, P!Write(i)
    PROVE  PulseIInv'
<1> USE DEF PulseIInv
<1>1. i \in 1..4
  BY DEF P!Paths
<1>2. /\ pPc = "write" /\ turn = i /\ pDisk' = [pDisk EXCEPT ![i] = briefs]
      /\ \/ pPc' = "write" /\ turn' = i + 1 /\ i # 4 /\ (kind = "close" => i < 2)
         \/ pPc' = "index" /\ turn' = 0 /\ i \in {2, 4}
      /\ UNCHANGED <<kind, slots, notes, hl, snapQ, label, table, briefs>>
  <2>1. kind \in {"preopen", "close"} /\ (pPc = "write" /\ kind = "close" => turn < 3)
    BY DEF PulseTyped
  <2>2. CASE kind = "preopen"
    BY <1>1, <2>2 DEF P!Write
  <2>3. CASE kind = "close"
    BY <1>1, <2>1, <2>3 DEF P!Write
  <2> QED
    BY <2>1, <2>2, <2>3
<1>3. PulseTyped'
  BY <1>1, <1>2 DEF PulseTyped
<1>4. PulseSlotsAreTrue' /\ PulseSnapshotIsWorst' /\ PulseLabelIsLate' /\ PulseRoutedAfterCrypto'
        /\ P!CryptoIsRouted' /\ P!FreshMeansAll'
  BY <1>2 DEF PulseSlotsAreTrue, PulseSnapshotIsWorst, PulseLabelIsLate, PulseRoutedAfterCrypto,
     PulseGathering,
     P!CryptoIsRouted, P!FreshMeansAll, P!Final
<1>5. PulseWrittenInOrder' /\ P!IndexedWasWritten'
  BY <1>1, <1>2 DEF PulseWrittenInOrder, P!IndexedWasWritten, PulseTyped
<1> QED
  BY <1>3, <1>4, <1>5

LEMMA PulseIndexStep ==
    ASSUME PulseIInv, P!Index
    PROVE  PulseIInv'
<1> USE DEF PulseIInv, P!Index
<1>1. PulseTyped'
  BY DEF PulseTyped
<1>2. PulseSlotsAreTrue' /\ PulseSnapshotIsWorst' /\ PulseLabelIsLate' /\ PulseRoutedAfterCrypto'
        /\ P!CryptoIsRouted' /\ P!FreshMeansAll'
  BY DEF PulseSlotsAreTrue, PulseSnapshotIsWorst, PulseLabelIsLate, PulseRoutedAfterCrypto,
     PulseGathering,
     P!CryptoIsRouted, P!FreshMeansAll, P!Final
<1>3. PulseWrittenInOrder' /\ P!IndexedWasWritten'
  BY DEF PulseWrittenInOrder, P!IndexedWasWritten, PulseTyped
<1> QED
  BY <1>1, <1>2, <1>3

LEMMA PulseDieStep ==
    ASSUME PulseIInv, P!Die
    PROVE  PulseIInv'
<1> USE DEF PulseIInv, P!Die
<1>1. PulseTyped' /\ PulseSlotsAreTrue' /\ PulseSnapshotIsWorst' /\ PulseLabelIsLate'
        /\ PulseRoutedAfterCrypto'
  BY DEF PulseTyped, PulseSlotsAreTrue, PulseSnapshotIsWorst, PulseLabelIsLate,
     PulseRoutedAfterCrypto, PulseGathering
<1>2. P!CryptoIsRouted' /\ P!FreshMeansAll' /\ PulseWrittenInOrder' /\ P!IndexedWasWritten'
  BY DEF P!CryptoIsRouted, P!FreshMeansAll, P!Final, PulseWrittenInOrder, P!IndexedWasWritten,
     PulseTyped
<1> QED
  BY <1>1, <1>2

LEMMA PulseStepIInv == PulseIInv /\ [P!Next]_P!vars => PulseIInv'
<1> SUFFICES ASSUME PulseIInv, [P!Next]_P!vars PROVE PulseIInv'
  OBVIOUS
<1>1. ASSUME NEW k \in {"preopen", "close"}, P!Begin(k) PROVE PulseIInv'
  BY <1>1, PulseBeginStep
<1>2. ASSUME NEW replying \in SUBSET P!Slots, NEW age \in PulseAges, P!AskSource(replying, age)
               PROVE PulseIInv'
  BY <1>2, PulseAskStep
<1>3. CASE P!FetchAborts
  BY <1>3, PulseAbortStep
<1>4. CASE P!Merge
  BY <1>4, PulseMergeStep
<1>5. ASSUME NEW found \in P!Memories \cup P!LiveBodies, P!FromMemory(found) \/ P!FromLive(found)
               PROVE PulseIInv'
  BY <1>5, PulseFoundStep
<1>6. ASSUME NEW apart \in BOOLEAN, P!Crypto(apart) PROVE PulseIInv'
  BY <1>6, PulseCryptoStep
<1>7. CASE P!Label
  BY <1>7, PulseLabelStep
<1>8. ASSUME NEW i \in DOMAIN P!Paths, P!Write(i) PROVE PulseIInv'
  BY <1>8, PulseWriteStep
<1>9. CASE P!Index
  BY <1>9, PulseIndexStep
<1>10. CASE P!Die
  BY <1>10, PulseDieStep
<1>11. CASE UNCHANGED P!vars
  BY <1>11 DEF P!vars, PulseIInv, PulseTyped, PulseSlotsAreTrue, PulseSnapshotIsWorst,
     PulseLabelIsLate, PulseRoutedAfterCrypto,
    PulseWrittenInOrder, P!FreshMeansAll, P!CryptoIsRouted, P!IndexedWasWritten, P!Final
<1> QED
  BY <1>1, <1>2, <1>3, <1>4, <1>5, <1>6, <1>7, <1>8, <1>9, <1>10, <1>11 DEF P!Next

LEMMA PulseIInvHolds == P!Spec => []PulseIInv
<1>1. P!Init => PulseIInv
  BY PulseInitIInv
<1>2. PulseIInv /\ [P!Next]_P!vars => PulseIInv'
  BY PulseStepIInv
<1> QED
  BY <1>1, <1>2, PTL DEF P!Spec

LEMMA PulseIInvIsHonest == PulseIInv => P!TypeOK /\ P!PulseIsHonest
<1> SUFFICES ASSUME PulseIInv PROVE P!TypeOK /\ P!PulseIsHonest
  OBVIOUS
<1>1. P!TypeOK
  <2>1. DOMAIN P!Paths = 1..4 /\ Len(P!Sources) = 4
    BY DEF P!Paths, P!Sources
  <2> QED
    BY <2>1 DEF PulseIInv, PulseTyped, P!TypeOK, PulsePrints
<1>2. P!GapIsShown
  BY DEF PulseIInv, PulseSlotsAreTrue, P!GapIsShown, P!Shown
<1> QED
  BY <1>1, <1>2 DEF PulseIInv, P!PulseIsHonest

(* A step of the composition is one of this part, or leaves it alone.      *)
LEMMA PulsePart == FeedsSpec => P!Spec
<1>1. FeedsInit => P!Init
  BY DEF FeedsInit
<1>2. [FeedsNext]_feedsVars => [P!Next]_P!vars
  BY DEF FeedsNext, feedsVars, pulseVars, P!vars
<1> QED
  BY <1>1, <1>2, PTL DEF FeedsSpec, P!Spec

(* A Market Pulse never tells a gap or an old number as fresh, routes what *)
(* crypto has seen, and indexes what it has written: for any ages of the   *)
(* prints and any lags, and for any number of briefs.                      *)
THEOREM PulseCorrect == FeedsSpec => []PulseIsHonest
<1>1. PulseIInv => PulseIsHonest
  BY PulseIInvIsHonest DEF PulseIsHonest
<1> QED
  BY <1>1, PulsePart, PulseIInvHolds, PTL

-----------------------------------------------------------------------------
(* The Sydney morning brief (MorningBrief).                                *)
(* A day after the first has a weekday before it.                          *)
LEMMA MorningExpectedIsADay == mToday \in Nat \ {0} => M!Expected \in Nat
<1> SUFFICES ASSUME mToday \in Nat \ {0} PROVE M!Expected \in Nat
  OBVIOUS
<1> DEFINE S == {e \in M!Day : e < mToday /\ M!Weekday(e)}
<1>1. 0 \in S
  BY MorningAssumption DEF M!Day, M!Weekday
<1>2. S \subseteq Nat /\ \A x \in S : x <= CloseLast
  BY MorningAssumption DEF M!Day
<1>3. \E x \in S : \A y \in S : x >= y
  <2> HIDE DEF S
  <2> QED
    BY <1>1, <1>2, NatGreatest, MorningAssumption
<1>4. M!Expected = CHOOSE x \in S : \A y \in S : x >= y
  BY DEF M!Expected, M!Before, M!Max
<1> QED
  BY <1>2, <1>3, <1>4

(* Whatever the vendors returned, a document drawn from it is honest.      *)
LEMMA MorningDrawnHeader == doc = M!Drawn /\ mToday \in Nat \ {0} => M!HeaderIsShared
<1> SUFFICES ASSUME doc = M!Drawn, mToday \in Nat \ {0} PROVE M!HeaderIsShared
  OBVIOUS
<1>1. doc.header = M!Shared /\ (doc.t1 => M!Shared # M!NoDay /\ M!Shared = M!Expected)
  BY DEF M!Drawn
<1>2. \A s \in M!SessionSlots : doc.rows[s] = M!Row(s) /\ doc.health[s] = M!HealthOf(s)
  BY DEF M!Drawn, M!Slots
<1>3. M!Shared # M!NoDay => \A s \in M!SessionSlots : M!Seen(s).num /\ M!Seen(s).day = M!Shared
  BY DEF M!Shared, M!SessionSlots
<1>4. ASSUME doc.t1, NEW s \in M!SessionSlots
      PROVE  M!Row(s) \in {"move", "level"} /\ M!HealthOf(s) = "fresh"
  <2>1. M!Seen(s).num /\ M!Seen(s).day = M!Expected /\ ~(M!Seen(s).day < M!Expected)
    BY <1>1, <1>3, <1>4, MorningExpectedIsADay
  <2>2. ~M!DidNotRoll(s)
    BY DEF M!DidNotRoll, M!SessionSlots
  <2>3. M!Cell(s) \in {"move", "level"} /\ M!HealthOf(s) = "fresh"
    BY <2>1, <2>2 DEF M!Cell, M!HealthOf
  <2>4. M!Row(s) = M!Cell(s)
    BY <2>1 DEF M!Row, M!FromHl, M!SessionSlots
  <2> QED
    BY <2>3, <2>4
<1> QED
  BY <1>1, <1>2, <1>3, <1>4 DEF M!HeaderIsShared

LEMMA MorningDrawnRepeats == doc = M!Drawn /\ mToday \in Nat \ {0} => M!RepeatIsNoMove
<1> SUFFICES ASSUME doc = M!Drawn, mToday \in Nat \ {0} PROVE M!RepeatIsNoMove
  OBVIOUS
<1>1. \A s \in M!Slots : doc.rows[s] = M!Row(s) /\ doc.health[s] = M!HealthOf(s)
  BY DEF M!Drawn
<1>2. ASSUME NEW s \in M!SessionSlots
      PROVE  M!HealthOf(s) = "stale" <=> M!Row(s) \in {"no session", "no print"}
  <2>1. ~M!FromHl(s) /\ ~M!DidNotRoll(s)
    BY DEF M!FromHl, M!DidNotRoll, M!SessionSlots
  <2>2. CASE ~M!Seen(s).num
    BY <2>1, <2>2 DEF M!Row, M!HealthOf
  <2>3. CASE M!Seen(s).num
    <3>1. M!Row(s) = M!Cell(s)
      BY <2>1, <2>3 DEF M!Row
    <3>2. M!HealthOf(s) = IF M!Seen(s).day < M!Expected THEN "stale" ELSE "fresh"
      BY <2>3 DEF M!HealthOf
    <3>3. CASE M!Seen(s).day < M!Expected
      <4>1. M!Seen(s).day # M!Expected
        BY <3>3, MorningExpectedIsADay
      <4> QED
        BY <2>1, <3>1, <3>2, <3>3, <4>1 DEF M!Cell
    <3>4. CASE ~(M!Seen(s).day < M!Expected)
      BY <2>1, <3>1, <3>2, <3>4 DEF M!Cell, M!Numeric
    <3> QED
      BY <3>3, <3>4
  <2> QED
    BY <2>2, <2>3
<1>3. /\ M!HealthOf("US10Y") = "stale" <=> M!Row("US10Y") \in {"no session", "no print"}
      /\ M!reader /\ prior # M!NoDay /\ M!Seen("US10Y").day = prior => M!Row("US10Y") # "move"
  <2>1. ~M!FromHl("US10Y") /\ "US10Y" \notin M!SessionSlots
    BY DEF M!FromHl, M!SessionSlots
  <2>2. CASE ~M!Seen("US10Y").num
    BY <2>1, <2>2 DEF M!Row, M!HealthOf, M!DidNotRoll
  <2>3. CASE M!Seen("US10Y").num
    <3>1. M!Row("US10Y") = IF M!DidNotRoll("US10Y") THEN "no print" ELSE M!Numeric("US10Y")
      BY <2>1, <2>3 DEF M!Row, M!Cell
    <3>2. M!HealthOf("US10Y") = IF M!DidNotRoll("US10Y") THEN "stale" ELSE "fresh"
      BY <2>1, <2>3 DEF M!HealthOf
    <3> QED
      BY <2>3, <3>1, <3>2 DEF M!Numeric, M!DidNotRoll
  <2> QED
    BY <2>2, <2>3
<1> QED
  BY <1>1, <1>2, <1>3 DEF M!RepeatIsNoMove, M!Slots

LEMMA MorningDrawnIsWhole == doc = M!Drawn => M!NothingIsDropped
<1> SUFFICES ASSUME doc = M!Drawn PROVE M!NothingIsDropped
  OBVIOUS
<1>1. \A s \in M!Slots : doc.rows[s] = M!Row(s) /\ doc.health[s] = M!HealthOf(s)
  BY DEF M!Drawn
<1>2. \A n : <<n, "last">> \in doc.gaps <=> \/ n \in M!Slots /\ M!Row(n) = "none"
                                            \/ n \in M!Perps \ M!Slots /\ ~M!hl[n].mid
  <2>1. \A n : <<n, "last">> \notin M!PositionGaps
    BY DEF M!PositionGaps
  <2>2. doc.gaps = {<<s, "last">> : s \in {x \in M!Slots : M!Row(x) = "none"}} \cup
                   {<<p, "last">> : p \in {q \in M!Perps \ M!Slots : ~M!hl[q].mid}} \cup
                   {<<p, "24h">> : p \in {q \in M!Perps \ M!Slots : M!hl[q].mid
                     /\ ~M!hl[q].prev}} \cup
                   M!PositionGaps
    BY DEF M!Drawn
  <2> QED
    BY <2>1, <2>2
<1>3. doc.perps = {p \in M!Perps \ M!Slots : M!hl[p].mid} /\ doc.env = M!Keys \ mKeys
  BY DEF M!Drawn
<1>4. \A s \in M!Slots : M!Row(s) = "none" => M!HealthOf(s) = "unavailable"
  <2> SUFFICES ASSUME NEW s \in M!Slots, M!Row(s) = "none" PROVE ~M!Seen(s).num
    BY DEF M!HealthOf, M!DidNotRoll
  <2>1. M!Cell(s) # "none"
    BY DEF M!Cell, M!Numeric
  <2> QED
    BY <2>1 DEF M!Row
<1>5. \A s \in M!SessionSlots : "POLYGON" \in M!Keys \ mKeys => M!Row(s) = "none"
  <2> SUFFICES ASSUME NEW s \in M!SessionSlots, "POLYGON" \in M!Keys \ mKeys PROVE M!Row(s) = "none"
    OBVIOUS
  <2>1. ~M!Seen(s).num /\ ~M!FromHl(s)
    BY DEF M!Seen, M!Vendor, M!NoPrint, M!FromHl, M!SessionSlots
  <2> QED
    BY <2>1 DEF M!Row
<1> QED
  BY <1>1, <1>2, <1>3, <1>4, <1>5 DEF M!NothingIsDropped, M!Slots

LEMMA MorningDrawnDates == doc = M!Drawn => M!DatesAgree
<1> SUFFICES ASSUME doc = M!Drawn PROVE M!DatesAgree
  OBVIOUS
<1>1. /\ doc.header = M!Shared /\ doc.asof = M!AsOf
      /\ doc.lines = IF input.given THEN M!Qualified ELSE {}
      /\ doc.missing = IF input.given THEN CloseStocks \ M!Qualified ELSE {}
      /\ doc.rows["US10Y"] = M!Row("US10Y")
  BY DEF M!Drawn, M!Slots
<1>2. M!Qualified \subseteq CloseStocks
  BY DEF M!Qualified
<1>3. \A n \in M!Qualified : \E c \in input.closes : c.name = n /\ c.session = M!Expected
        /\ c.market = c.session
  BY DEF M!Qualified
<1> QED
  BY <1>1, <1>2, <1>3 DEF M!DatesAgree, M!AsOf

LEMMA MorningDrawnIsHonest == doc = M!Drawn /\ mToday \in Nat \ {0} => M!MorningIsHonest
BY MorningDrawnHeader, MorningDrawnRepeats, MorningDrawnIsWhole, MorningDrawnDates
   DEF M!MorningIsHonest

-----------------------------------------------------------------------------
(* Briefs are due after the first day, and nothing moves while a document  *)
(* is open.                                                                *)
MorningIInv == mToday \in Nat \ {0} /\ M!MorningIsHonest

LEMMA MorningNotDrawn == ~doc.drawn => M!MorningIsHonest
BY DEF M!MorningIsHonest, M!HeaderIsShared, M!RepeatIsNoMove, M!NothingIsDropped, M!DatesAgree

LEMMA MorningInitIInv == M!Init => MorningIInv
BY MorningNotDrawn, MorningAssumption DEF M!Init, M!NoDoc, MorningIInv

LEMMA MorningStepIInv == MorningIInv /\ [M!Next]_M!vars => MorningIInv'
<1> SUFFICES ASSUME MorningIInv, [M!Next]_M!vars PROVE MorningIInv'
  OBVIOUS
<1>1. (~doc.drawn => M!MorningIsHonest)'
  BY MorningNotDrawn, PTL
<1>2. (doc = M!Drawn /\ mToday \in Nat \ {0} => M!MorningIsHonest)'
  BY MorningDrawnIsHonest, PTL
<1>3. CASE M!NextDay
  <2> DEFINE S == {d \in M!Day : d > mToday /\ M!Weekday(d)}
  <2>1. S # {} /\ S \subseteq Nat
    BY <1>3, MorningAssumption DEF M!NextDay, M!Day
  <2>2. \E x \in S : \A y \in S : x <= y
    <3> HIDE DEF S
    <3> QED
      BY <2>1, NatLeast
  <2>3. mToday' \in S
    BY <1>3, <2>2 DEF M!NextDay, M!Min
  <2>4. mToday' \in Nat \ {0}
    BY <2>1, <2>3 DEF MorningIInv
  <2> QED
    BY <1>1, <1>3, <2>4 DEF MorningIInv, M!NextDay
<1>4. CASE \E s \in {"ES", "CL", "US10Y"} : M!Falls(s)
  BY <1>1, <1>4 DEF MorningIInv, M!Falls
<1>5. CASE \E s \in {"ES", "CL", "US10Y"}, d \in {M!Expected, M!Before(M!Expected)},
             pct \in BOOLEAN :
              M!Publish(s, d, pct)
  BY <1>1, <1>5 DEF MorningIInv, M!Publish
<1>6. CASE M!Capture
  BY <1>1, <1>6 DEF MorningIInv, M!Capture
<1>7. CASE \E in \in M!Inputs : M!Render(in)
  BY <1>2, <1>7 DEF MorningIInv, M!Render
<1>8. CASE M!Finish
  BY <1>1, <1>8 DEF MorningIInv, M!Finish, M!NoDoc
<1>9. CASE UNCHANGED M!vars
  <2> USE DEF MorningIInv, M!vars, M!MorningIsHonest
  <2>1. M!Expected' = M!Expected /\ M!reader' = M!reader /\ \A s : M!Seen(s)' = M!Seen(s)
    BY <1>9 DEF M!Expected, M!Before, M!reader, M!Seen
  <2>2. M!HeaderIsShared'
    BY <1>9, <2>1 DEF M!HeaderIsShared
  <2>3. M!RepeatIsNoMove'
    BY <1>9, <2>1 DEF M!RepeatIsNoMove
  <2>4. M!NothingIsDropped'
    BY <1>9 DEF M!NothingIsDropped
  <2>5. M!DatesAgree'
    BY <1>9, <2>1 DEF M!DatesAgree
  <2> QED
    BY <1>9, <2>2, <2>3, <2>4, <2>5
<1> QED
  BY <1>3, <1>4, <1>5, <1>6, <1>7, <1>8, <1>9 DEF M!Next

LEMMA MorningIInvHolds == M!Spec => []MorningIInv
BY MorningInitIInv, MorningStepIInv, PTL DEF M!Spec

(* A step of the composition is one of this part, or leaves it alone.      *)
LEMMA MorningPart == FeedsSpec => M!Spec
<1>1. FeedsInit => M!Init
  BY DEF FeedsInit
<1>2. [FeedsNext]_feedsVars => [M!Next]_M!vars
  BY DEF FeedsNext, feedsVars, morningVars, M!vars
<1> QED
  BY <1>1, <1>2, PTL DEF FeedsSpec, M!Spec

(* The morning brief has one row or one gap for each slot, and its header, *)
(* its cells and its health lines agree: for any stocks, on any day, with  *)
(* any prints and keys.                                                    *)
THEOREM MorningCorrect == FeedsSpec => []MorningIsHonest
<1>1. MorningIInv => MorningIsHonest
  BY DEF MorningIInv, MorningIsHonest
<1> QED
  BY <1>1, MorningPart, MorningIInvHolds, PTL

-----------------------------------------------------------------------------
(* The alerts (AlertCheck).                                                *)
(* MapThenSumSet of the sizes is one of those sums.                        *)
AlertSizes(S) == [l \in S |-> l.size]
AlertVolume(S) == A!MapThenSumSet(LAMBDA l : l.size, S)

LEMMA AlertSizeIs == ASSUME NEW S
  PROVE AlertVolume(S) = (CHOOSE g : AreSums(g, S, AlertSizes(S)))[S]
BY DEF AlertVolume, A!MapThenSumSet, A!MapThenFoldSet, AreSums, AlertSizes, Pick

(* More liquidations are no smaller a total.                               *)
LEMMA AlertSizeGrows ==
    ASSUME NEW S, IsFiniteSet(S), \A l \in S : l.size \in Nat, NEW T \in SUBSET S
    PROVE  AlertVolume(T) \in Nat /\ AlertVolume(S) \in Nat /\ AlertVolume(T) <= AlertVolume(S)
<1> DEFINE g == CHOOSE f : AreSums(f, S, AlertSizes(S))
           h == CHOOSE f : AreSums(f, T, AlertSizes(T))
<1>1. AlertSizes(S) \in [S -> Nat] /\ AlertSizes(T) \in [T -> Nat] /\ \A x \in T :
        AlertSizes(T)[x] = AlertSizes(S)[x]
  BY DEF AlertSizes
<1>2. IsFiniteSet(T)
  BY FS_Subset
<1>3. AreSums(g, S, AlertSizes(S)) /\ AreSums(h, T, AlertSizes(T))
  BY <1>1, <1>2, SumsExist
<1>4. AlertVolume(S) = g[S] /\ AlertVolume(T) = h[T]
  BY AlertSizeIs
<1> HIDE DEF g, h
<1>5. h[T] = g[T] /\ g[T] <= g[S] /\ g[T] \in Nat /\ g[S] \in Nat
  <2>1. h[T] = g[T]
    BY <1>1, <1>3, SumsAgree
  <2>2. S \in SUBSET S
    OBVIOUS
  <2>3. g[T] <= g[S]
    BY <1>1, <1>3, <2>2, SumsGrow
  <2>4. g[T] \in Nat /\ g[S] \in Nat
    BY <1>1, <1>3, <2>2, SumsAreNat
  <2> QED
    BY <2>1, <2>3, <2>4
<1> QED
  BY <1>4, <1>5

-----------------------------------------------------------------------------
(* A document says what the last push said, of enabled and complete types, *)
(* and what it says of liquidations is still in Market Memory.             *)
AlertIInv ==
    /\ IsFiniteSet(liqs) /\ \A l \in liqs : l.size \in Nat
    /\ config.types \in [A!Types -> A!TypeSpecs]
    /\ alert.pushed => alert.types # {} /\ file = alert.types
    /\ \A t \in file : config.enabled /\ config.types[t] = [enabled |-> TRUE, params |-> "full"]
    /\ "liquidation_spike" \in file => AlertVolume(liqs) >= AlertSize

LEMMA AlertInitIInv == A!Init => AlertIInv
<1> SUFFICES ASSUME A!Init PROVE AlertIInv
  OBVIOUS
<1>1. IsFiniteSet(liqs)
  BY FS_EmptySet DEF A!Init
<1> QED
  BY <1>1 DEF A!Init, AlertIInv, A!NoAlert

LEMMA AlertIngestStep ==
    ASSUME AlertIInv, NEW size \in 1..AlertSize, NEW m \in A!Moves, A!Ingest(size, m)
    PROVE  AlertIInv'
<1> DEFINE l == [at |-> aNow, size |-> size]
<1>1. liqs' = liqs \cup {l} /\ UNCHANGED <<config, alert, file>>
  BY DEF A!Ingest
<1>2. IsFiniteSet(liqs') /\ \A x \in liqs' : x.size \in Nat
  <2>1. IsFiniteSet(liqs \cup {l})
    BY FS_AddElement DEF AlertIInv
  <2>2. l.size \in Nat
    BY AlertAssumption
  <2> QED
    BY <1>1, <2>1, <2>2 DEF AlertIInv
<1>3. AlertVolume(liqs) \in Nat /\ AlertVolume(liqs') \in Nat
        /\ AlertVolume(liqs) <= AlertVolume(liqs')
  BY <1>1, <1>2, AlertSizeGrows
<1>4. AlertVolume(liqs)' = AlertVolume(liqs')
  BY DEF AlertVolume, A!MapThenSumSet, A!MapThenFoldSet
<1> QED
  BY <1>1, <1>2, <1>3, <1>4, AlertAssumption DEF AlertIInv

LEMMA AlertCheckStep == ASSUME AlertIInv, A!Check PROVE AlertIInv'
<1> DEFINE events == {t \in A!Types : A!Crossed(t)}
<1>1. UNCHANGED <<liqs, config>> /\ alert' = A!Decision
        /\ file' = IF A!Decision.pushed THEN A!Decision.types ELSE file
  BY DEF A!Check
<1>2. AlertVolume(liqs)' = AlertVolume(liqs)
  BY <1>1 DEF AlertVolume, A!MapThenSumSet, A!MapThenFoldSet
<1>3. CASE A!Decision.pushed
  <2>1. A!Decision.types = events /\ events # {} /\ config.enabled
    BY <1>3 DEF A!Decision, A!NoAlert
  <2>2. "liquidation_spike" \in events => AlertVolume(liqs) >= AlertSize
    <3> SUFFICES ASSUME "liquidation_spike" \in events PROVE AlertVolume(liqs) >= AlertSize
      OBVIOUS
    <3> DEFINE recent == {x \in liqs : x.at + AlertLookback >= aNow}
    <3>1. AlertVolume(recent) >= AlertSize
      BY DEF A!Crossed, A!Total, AlertVolume
    <3>2. AlertVolume(recent) \in Nat /\ AlertVolume(liqs) \in Nat
            /\ AlertVolume(recent) <= AlertVolume(liqs)
      BY AlertSizeGrows DEF AlertIInv
    <3> QED
      BY <3>1, <3>2, AlertAssumption
  <2>3. \A t \in events : config.types[t] = [enabled |-> TRUE, params |-> "full"]
    <3> TAKE t \in events
    <3>1. config.types[t] \in A!TypeSpecs /\ config.types[t].enabled
            /\ config.types[t].params = "full"
      BY DEF AlertIInv, A!Crossed
    <3> QED
      BY <3>1 DEF A!TypeSpecs
  <2>4. file' = events /\ alert'.types = events
    BY <1>1, <1>3, <2>1
  <2> HIDE DEF events
  <2> QED
    BY <1>1, <1>2, <2>1, <2>2, <2>3, <2>4 DEF AlertIInv
<1>4. CASE ~A!Decision.pushed
  BY <1>1, <1>2, <1>4 DEF AlertIInv
<1> QED
  BY <1>3, <1>4

LEMMA AlertStepIInv == AlertIInv /\ [A!Next]_A!vars => AlertIInv'
<1> SUFFICES ASSUME AlertIInv, [A!Next]_A!vars PROVE AlertIInv'
  OBVIOUS
<1>1. AlertVolume(liqs') = AlertVolume(liqs)'
        /\ (UNCHANGED <<liqs, config, alert, file>> => AlertIInv')
  <2>1. AlertVolume(liqs') = AlertVolume(liqs)'
    BY DEF AlertVolume, A!MapThenSumSet, A!MapThenFoldSet
  <2> QED
    BY <2>1 DEF AlertIInv
<1>2. CASE A!Tick
  BY <1>1, <1>2 DEF A!Tick
<1>3. CASE \E size \in 1..AlertSize, m \in A!Moves : A!Ingest(size, m)
  BY <1>3, AlertIngestStep
<1>4. CASE A!Check
  BY <1>4, AlertCheckStep
<1>5. CASE UNCHANGED A!vars
  BY <1>1, <1>5 DEF A!vars
<1> QED
  BY <1>2, <1>3, <1>4, <1>5 DEF A!Next

LEMMA AlertIInvHolds == A!Spec => []AlertIInv
BY AlertInitIInv, AlertStepIInv, PTL DEF A!Spec

LEMMA AlertIInvIsCrossed == AlertIInv => A!PushIsCrossed
<1> SUFFICES ASSUME AlertIInv PROVE A!PushIsCrossed
  OBVIOUS
<1>1. A!MapThenSumSet(LAMBDA l : l.size, liqs) = AlertVolume(liqs)
  BY DEF AlertVolume
<1> QED
  BY <1>1 DEF AlertIInv, A!PushIsCrossed

(* A step of the composition is one of this part, or leaves it alone.      *)
LEMMA AlertPart == FeedsSpec => A!Spec
<1>1. FeedsInit => A!Init
  BY DEF FeedsInit
<1>2. [FeedsNext]_feedsVars => [A!Next]_A!vars
  BY DEF FeedsNext, feedsVars, alertVars, A!vars
<1> QED
  BY <1>1, <1>2, PTL DEF FeedsSpec, A!Spec

-----------------------------------------------------------------------------
(* The worker (BriefWorker).                                               *)
(* FireIsNotAhead is inductive as it stands: `once' is a flag of the       *)
(* process, and a fire is taken up at its tick or with the flag.           *)
LEMMA WorkerNotAheadHolds == W!Spec => []W!FireIsNotAhead
<1>1. W!Init => W!FireIsNotAhead
  BY DEF W!Init, W!FireIsNotAhead
<1>2. W!FireIsNotAhead /\ [W!Next]_W!vars => W!FireIsNotAhead'
  <2> SUFFICES ASSUME W!FireIsNotAhead, [W!Next]_W!vars PROVE W!FireIsNotAhead'
    OBVIOUS
  <2> USE DEF W!FireIsNotAhead
  <2>1. CASE W!Tick
    BY <2>1 DEF W!Tick
  <2>2. CASE W!Look
    BY <2>2 DEF W!Look
  <2>3. CASE W!Wake
    BY <2>3 DEF W!Wake
  <2>4. CASE W!Generate
    BY <2>4 DEF W!Generate
  <2>5. CASE W!Restart
    BY <2>5 DEF W!Restart
  <2>6. CASE UNCHANGED W!vars
    BY <2>6 DEF W!vars
  <2> QED
    BY <2>1, <2>2, <2>3, <2>4, <2>5, <2>6 DEF W!Next
<1> QED
  BY <1>1, <1>2, PTL DEF W!Spec

(* A step of the composition is one of this part, or leaves it alone.      *)
LEMMA WorkerPart == FeedsSpec => W!Spec
<1>1. FeedsInit => W!Init
  BY DEF FeedsInit
<1>2. [FeedsNext]_feedsVars => [W!Next]_W!vars
  BY DEF FeedsNext, feedsVars, workerVars, W!vars
<1> QED
  BY <1>1, <1>2, PTL DEF FeedsSpec, W!Spec

(* Nothing is generated ahead of its fire, and an alert document holds     *)
(* only what crossed an enabled and complete threshold: for any schedule,  *)
(* polling interval and stopping of the clock, any liquidations and any    *)
(* thresholds.                                                             *)
THEOREM FiresCorrect == FeedsSpec => []FiresAreEarned
<1>1. AlertIInv /\ W!FireIsNotAhead => FiresAreEarned
  BY AlertIInvIsCrossed DEF FiresAreEarned
<1> QED
  BY <1>1, AlertPart, WorkerPart, AlertIInvHolds, WorkerNotAheadHolds, PTL

-----------------------------------------------------------------------------
(* The retain capture (RetainRows).                                        *)
(* The weekday before a day is one of the three days before it, and none   *)
(* is later.                                                               *)
LEMMA RetainLastDay == R!Max(RetainDates) \in Nat /\ \A d \in RetainDates : d <= R!Max(RetainDates)
<1>1. \E x \in RetainDates : \A y \in RetainDates : x >= y
  BY RetainAssumption, FiniteGreatest
<1>2. R!Max(RetainDates) \in RetainDates /\ \A y \in RetainDates : R!Max(RetainDates) >= y
  BY <1>1 DEF R!Max
<1> QED
  BY <1>2, RetainAssumption

LEMMA RetainBeforeIs ==
    ASSUME NEW d \in Nat, d >= 2, d <= R!Max(RetainDates)
    PROVE  /\ R!Before(d) \in Nat /\ R!Before(d) < d /\ R!Before(d) >= d - 3
           /\ R!Before(d) \in R!Days
           /\ \A e \in R!Days : e < d /\ R!Weekday(e) => e <= R!Before(d)
<1> DEFINE S == {e \in R!Days : e < d /\ R!Weekday(e)}
<1>1. S \subseteq Nat /\ \A e \in S : e <= d
  BY RetainLastDay DEF R!Days
<1>2. \E e \in S : e >= d - 3
  <2>1. CASE d = 2 \/ d = 3
    BY <2>1, RetainLastDay DEF R!Days, R!Weekday
  <2>2. CASE d >= 4
    <3>1. d - 1 \in R!Days /\ d - 2 \in R!Days /\ d - 3 \in R!Days
      BY <2>2, RetainLastDay DEF R!Days
    <3>2. R!Weekday(d - 1) \/ R!Weekday(d - 2) \/ R!Weekday(d - 3)
      BY DEF R!Weekday
    <3> QED
      BY <3>1, <3>2
  <2> QED
    BY <2>1, <2>2
<1>3. \E x \in S : \A y \in S : x >= y
  <2> HIDE DEF S
  <2> QED
    BY <1>1, <1>2, NatGreatest
<1>4. R!Before(d) \in S /\ \A y \in S : R!Before(d) >= y
  BY <1>3 DEF R!Before, R!Max
<1>5. PICK e \in S : e >= d - 3
  BY <1>2
<1>6. R!Before(d) \in Nat /\ R!Before(d) < d /\ R!Before(d) >= e /\ e \in Nat
  BY <1>1, <1>4, <1>5
<1>7. \A y \in R!Days : y < d /\ R!Weekday(y) => y <= R!Before(d)
  BY <1>1, <1>4
<1>8. R!Before(d) \in R!Days
  BY <1>4
<1> QED
  BY <1>5, <1>6, <1>7, <1>8

LEMMA RetainSessionIs ==
    nyDate \in RetainDates => /\ nyDate \in Nat /\ R!Expected \in Nat /\ R!Session \in Nat
                              /\ R!Expected < nyDate /\ R!Session <= nyDate
                                 /\ R!Session >= nyDate - 3
                              /\ ~proof => R!Session = R!Expected
<1> SUFFICES ASSUME nyDate \in RetainDates
             PROVE  /\ nyDate \in Nat /\ R!Expected \in Nat /\ R!Session \in Nat
                    /\ R!Expected < nyDate /\ R!Session <= nyDate /\ R!Session >= nyDate - 3
                    /\ ~proof => R!Session = R!Expected
  OBVIOUS
<1>1. nyDate \in Nat /\ nyDate >= 2 /\ nyDate <= R!Max(RetainDates)
  BY RetainAssumption, RetainLastDay
<1>2. R!Expected \in Nat /\ R!Expected < nyDate /\ R!Expected >= nyDate - 3
  BY <1>1, RetainBeforeIs DEF R!Expected
<1> QED
  BY <1>1, <1>2 DEF R!Session

-----------------------------------------------------------------------------
(* Bodies are those of weekdays.                                           *)
RetainPublished ==
    /\ nyDate \in RetainDates
    /\ DOMAIN grouped \subseteq {d \in R!Days : R!Weekday(d)}
    /\ atStart \subseteq DOMAIN grouped

(* The walk has passed over no day that had a body when it began, and it   *)
(* does not run out of days.                                               *)
RetainLatest(d) == d \in Nat /\ d <= R!Session /\ \A e \in atStart : e <= R!Session => e <= d

RetainWalking == rPc = "walk" =>
    /\ bodies \in 0..RetainWalk
    /\ RetainLatest(day) /\ day >= nyDate - 3 * (bodies + 1)

(* What the walk ended with.                                               *)
RetainAnswered ==
    /\ rPc \in {"idle", "walk"} => body = R!NoBody /\ answer = R!NoAnswer
    /\ \A s \in RetainStocks : body[s] # "none" =>
           /\ answer.session \in DOMAIN grouped /\ body = grouped[answer.session]
           /\ RetainLatest(answer.session)
    /\ answer.error # "none" => answer.session = R!Session

(* The rows are built once, from the answer.                               *)
RetainRowsAre ==
    \/ retained = R!NoRow /\ rPc \notin {"dump", "persist"}
    \/ /\ rPc \in {"dump", "persist", "brief", "done"}
       /\ DOMAIN retained = RetainStocks \cup RetainMetrics \cup {"price"}
       /\ \A s \in RetainStocks : retained[s] = R!Equity(s)
       /\ \A n \in RetainMetrics \cup {"price"} : ~retained[n].value
          => retained[n].quality = "partial"
       /\ retained["price"].value => pair

RetainIInv ==
    /\ RetainPublished
    /\ RetainWalking
    /\ RetainAnswered
    /\ RetainRowsAre
    /\ rPc = "idle" => bodies = 0
    /\ dumped # {} => dumped \subseteq RetainStocks /\ retained # R!NoRow
    /\ R!LinesAreOfTheHeader

(* The fields of a row.                                                    *)
LEMMA RetainEquityIs ==
    ASSUME NEW s
    PROVE  /\ R!Equity(s).value => answer.error = "none" /\ body[s] \in {"bar", "untimed"}
           /\ ~R!Equity(s).value => R!Equity(s).quality = "partial"
           /\ R!Equity(s).session = answer.session
           /\ R!Equity(s).quality = "ok" => ~(answer.session < R!Session)
           /\ body[s] = "bar" /\ answer.error = "none" /\ ~(answer.session < R!Session)
                  => R!Equity(s).quality = "ok"
<1> DEFINE got == IF answer.error = "none" THEN body[s] ELSE "none"
           q == IF got # "bar" THEN "partial" ELSE IF answer.session < R!Session THEN "stale"
             ELSE "ok"
<1>1. R!Equity(s).value = (got \in {"bar", "untimed"})
  BY DEF R!Equity
<1>2. R!Equity(s).session = answer.session /\ R!Equity(s).quality = q
  BY DEF R!Equity
<1> QED
  BY <1>1, <1>2

LEMMA RetainQuoteIs == ASSUME NEW v \in BOOLEAN
  PROVE R!Quote(v).value = v /\ (~v => R!Quote(v).quality = "partial")
BY DEF R!Quote

(* From the rows on, only the file and the point the run is at change.     *)
LEMMA RetainRest ==
    ASSUME RetainIInv, UNCHANGED <<nyDate, late, proof, grouped, atStart, answer, body, pair,
                                   retained>>,
           \/ retained = R!NoRow /\ rPc' = "brief"
           \/ rPc \in {"dump", "persist", "brief"} /\ rPc' \in {"persist", "brief"}
              /\ retained # R!NoRow,
           dumped' = dumped \/ (dumped' \subseteq RetainStocks /\ retained # R!NoRow)
    PROVE  RetainIInv'
<1> USE DEF RetainIInv
<1>1. R!Session' = R!Session /\ (\A s : R!Equity(s)' = R!Equity(s)) /\ \A d :
        RetainLatest(d)' = RetainLatest(d)
  BY DEF R!Session, R!Expected, R!Before, R!Equity, RetainLatest
<1>2. RetainPublished'
  BY DEF RetainPublished
<1>3. RetainWalking' /\ R!LinesAreOfTheHeader'
  BY DEF RetainWalking, R!LinesAreOfTheHeader
<1>4. RetainAnswered'
  BY <1>1 DEF RetainAnswered
<1>5. RetainRowsAre'
  BY <1>1 DEF RetainRowsAre
<1> QED
  BY <1>2, <1>3, <1>4, <1>5

LEMMA RetainInitIInv == R!Init => RetainIInv
<1> SUFFICES ASSUME R!Init PROVE RetainIInv
  OBVIOUS
<1>1. DOMAIN grouped = {} /\ \A s \in RetainStocks : body[s] = "none"
  BY DEF R!Init, R!NoBody
<1> QED
  BY <1>1 DEF R!Init, RetainIInv, RetainPublished, RetainWalking, RetainAnswered, RetainRowsAre,
     R!LinesAreOfTheHeader, R!NoAnswer

LEMMA RetainPublishStep == ASSUME RetainIInv, NEW d \in R!Days, NEW b \in RetainBodies,
  R!Publish(d, b) PROVE RetainIInv'
<1> USE DEF RetainIInv
<1>1. /\ d \notin DOMAIN grouped /\ R!Weekday(d) /\ rPc \in {"idle", "walk"}
      /\ grouped' = [e \in DOMAIN grouped \cup {d} |-> IF e = d THEN b ELSE grouped[e]]
      /\ UNCHANGED <<rPc, nyDate, late, proof, atStart, day, bodies, answer, body, known, pair,
                     retained,
                     dumped, stored, lines>>
  BY DEF R!Publish
<1>2. R!Session' = R!Session /\ (\A s : R!Equity(s)' = R!Equity(s)) /\ \A x :
        RetainLatest(x)' = RetainLatest(x)
  BY <1>1 DEF R!Session, R!Expected, R!Before, R!Equity, RetainLatest
<1>3. DOMAIN grouped' = DOMAIN grouped \cup {d} /\ \A e \in DOMAIN grouped :
        grouped'[e] = grouped[e]
  BY <1>1
<1>4. RetainPublished'
  BY <1>1, <1>3 DEF RetainPublished
<1>5. RetainWalking' /\ R!LinesAreOfTheHeader'
  BY <1>1, <1>2 DEF RetainWalking, R!LinesAreOfTheHeader
<1>6. RetainAnswered'
  BY <1>1, <1>2, <1>3 DEF RetainAnswered
<1>7. RetainRowsAre'
  BY <1>1, <1>2 DEF RetainRowsAre
<1> QED
  BY <1>1, <1>4, <1>5, <1>6, <1>7

LEMMA RetainPerpsStep == ASSUME RetainIInv, NEW m \in SUBSET RetainMetrics, R!Perps(m)
  PROVE RetainIInv'
<1> USE DEF RetainIInv
<1>1. /\ rPc = "idle" /\ rPc' = "walk" /\ day' = R!Session /\ atStart' = DOMAIN grouped
      /\ UNCHANGED <<nyDate, late, proof, grouped, bodies, answer, body, pair, retained, dumped,
                     stored, lines>>
  BY DEF R!Perps
<1>2. R!Session' = R!Session /\ nyDate \in RetainDates
  BY <1>1 DEF R!Session, R!Expected, R!Before, RetainPublished
<1>3. RetainAnswered'
  BY <1>1 DEF RetainAnswered, R!NoBody, R!NoAnswer
<1>4. RetainPublished'
  BY <1>1 DEF RetainPublished
<1>5. RetainWalking'
  <2>1. R!Session \in Nat /\ R!Session >= nyDate - 3 /\ nyDate \in Nat /\ bodies = 0
    BY <1>1, <1>2, RetainSessionIs
  <2>2. \A e \in atStart' : e <= R!Session => e <= R!Session
    OBVIOUS
  <2>3. RetainLatest(day)'
    BY <1>1, <1>2, <2>1 DEF RetainLatest
  <2>4. bodies' \in 0..RetainWalk /\ day' >= nyDate' - 3 * (bodies' + 1)
    BY <1>1, <2>1, RetainAssumption
  <2> QED
    BY <2>3, <2>4 DEF RetainWalking
<1>6. RetainRowsAre' /\ R!LinesAreOfTheHeader'
  BY <1>1 DEF RetainRowsAre, R!LinesAreOfTheHeader
<1> QED
  BY <1>1, <1>3, <1>4, <1>5, <1>6

LEMMA RetainFoundStep == ASSUME RetainIInv, R!Found PROVE RetainIInv'
<1> USE DEF RetainIInv
<1>1. /\ rPc = "walk" /\ rPc' = "spot" /\ day \in DOMAIN grouped
      /\ answer' = [error |-> "none", session |-> day] /\ body' = grouped[day]
      /\ UNCHANGED <<nyDate, late, proof, grouped, atStart, day, retained, dumped, lines>>
  BY DEF R!Found, R!Ended
<1>2. R!Session' = R!Session /\ \A x : RetainLatest(x)' = RetainLatest(x)
  BY <1>1 DEF R!Session, R!Expected, R!Before, RetainLatest
<1>3. RetainAnswered'
  BY <1>1, <1>2 DEF RetainAnswered, RetainWalking
<1>4. RetainPublished' /\ RetainWalking'
  BY <1>1 DEF RetainPublished, RetainWalking
<1>5. RetainRowsAre' /\ R!LinesAreOfTheHeader'
  BY <1>1 DEF RetainRowsAre, R!LinesAreOfTheHeader
<1> QED
  BY <1>1, <1>3, <1>4, <1>5

LEMMA RetainWalkBackStep == ASSUME RetainIInv, R!WalkBack PROVE RetainIInv'
<1> USE DEF RetainIInv
<1>1. /\ rPc = "walk" /\ bodies < RetainWalk /\ day \notin DOMAIN grouped
      /\ bodies' = bodies + 1 /\ day' = R!Before(day)
      /\ UNCHANGED <<rPc, nyDate, late, proof, grouped, atStart, answer, body, retained, dumped,
                     lines>>
  BY DEF R!WalkBack
<1>2. R!Session' = R!Session /\ \A x : RetainLatest(x)' = RetainLatest(x)
  BY <1>1 DEF R!Session, R!Expected, R!Before, RetainLatest
<1>3. /\ nyDate \in Nat /\ R!Session \in Nat /\ R!Session <= nyDate
      /\ nyDate > 3 * RetainWalk + 1 /\ nyDate <= R!Max(RetainDates)
      /\ bodies \in Nat /\ RetainLatest(day) /\ day >= nyDate - 3 * (bodies + 1)
  BY <1>1, RetainSessionIs, RetainLastDay, RetainAssumption DEF RetainWalking, RetainPublished
<1>4. day \in Nat /\ day >= 2 /\ day <= R!Max(RetainDates)
  BY <1>1, <1>3, RetainLastDay, RetainAssumption DEF RetainLatest
<1>5. /\ R!Before(day) \in Nat /\ R!Before(day) < day /\ R!Before(day) >= day - 3
      /\ \A e \in R!Days : e < day /\ R!Weekday(e) => e <= R!Before(day)
  BY <1>4, RetainBeforeIs
<1>6. RetainLatest(R!Before(day))
  <2>1. ASSUME NEW e \in atStart, e <= R!Session PROVE e <= R!Before(day)
    <3>1. e <= day /\ e # day /\ e \in R!Days /\ R!Weekday(e)
      BY <1>1, <1>3, <2>1 DEF RetainLatest, RetainPublished
    <3>2. e < day
      BY <1>4, <3>1, RetainLastDay DEF R!Days
    <3> QED
      BY <1>5, <3>1, <3>2
  <2>2. R!Before(day) <= R!Session
    BY <1>3, <1>4, <1>5 DEF RetainLatest
  <2> QED
    BY <1>5, <2>1, <2>2 DEF RetainLatest
<1>7. RetainWalking'
  <2>1. bodies + 1 \in 0..RetainWalk /\ R!Before(day) >= nyDate - 3 * ((bodies + 1) + 1)
    BY <1>1, <1>3, <1>4, <1>5, RetainAssumption
  <2>2. RetainLatest(day)'
    BY <1>1, <1>2, <1>6 DEF RetainLatest
  <2> QED
    BY <1>1, <2>1, <2>2 DEF RetainWalking
<1>8. RetainPublished' /\ R!LinesAreOfTheHeader' /\ RetainRowsAre'
  BY <1>1 DEF RetainPublished, R!LinesAreOfTheHeader, RetainRowsAre
<1>9. RetainAnswered'
  BY <1>1 DEF RetainAnswered, R!NoBody, R!NoAnswer
<1> QED
  BY <1>1, <1>7, <1>8, <1>9

LEMMA RetainWalkEndsStep == ASSUME RetainIInv, R!WalkEnds PROVE RetainIInv'
<1> USE DEF RetainIInv
<1>1. /\ rPc = "walk" /\ rPc' = "spot" /\ answer'.session = R!Session /\ body' = R!NoBody
      /\ UNCHANGED <<nyDate, late, proof, grouped, atStart, day, retained, dumped, lines>>
  BY DEF R!WalkEnds, R!Ended
<1>2. R!Session' = R!Session
  BY <1>1 DEF R!Session, R!Expected, R!Before
<1>3. RetainAnswered'
  BY <1>1, <1>2 DEF RetainAnswered, R!NoBody
<1>4. RetainPublished' /\ RetainWalking'
  BY <1>1 DEF RetainPublished, RetainWalking
<1>5. RetainRowsAre' /\ R!LinesAreOfTheHeader'
  BY <1>1 DEF RetainRowsAre, R!LinesAreOfTheHeader
<1> QED
  BY <1>1, <1>3, <1>4, <1>5

LEMMA RetainSpotStep == ASSUME RetainIInv, NEW one \in BOOLEAN, NEW mid \in BOOLEAN,
  R!Spot(one, mid) PROVE RetainIInv'
<1> USE DEF RetainIInv
<1> DEFINE all == RetainStocks \cup RetainMetrics \cup {"price"}
<1>1. /\ rPc = "spot" /\ rPc' = "dump" /\ (mid => one) /\ pair' = one
      /\ retained' = [n \in all |-> CASE n \in RetainStocks  -> R!Equity(n)
                                  [] n \in RetainMetrics -> R!Quote(n \in known)
                                  [] n = "price"   -> R!Quote(mid)]
      /\ UNCHANGED <<nyDate, late, proof, grouped, atStart, answer, body, dumped, lines>>
  BY DEF R!Spot
<1>2. R!Session' = R!Session /\ (\A s : R!Equity(s)' = R!Equity(s)) /\ \A x :
        RetainLatest(x)' = RetainLatest(x)
  BY <1>1 DEF R!Session, R!Expected, R!Before, RetainLatest, R!Equity
<1>3. /\ DOMAIN retained' = all
      /\ \A s \in RetainStocks : retained'[s] = R!Equity(s)
      /\ \A n \in RetainMetrics : retained'[n] = R!Quote(n \in known)
      /\ retained'["price"] = R!Quote(mid)
  BY <1>1, RetainAssumption
<1>4. RetainRowsAre'
  <2>1. retained'["price"].value => pair'
    BY <1>1, <1>3 DEF R!Quote
  <2>2. \A n \in RetainMetrics \cup {"price"} : ~retained'[n].value
          => retained'[n].quality = "partial"
    <3>1. \A n \in RetainMetrics : (n \in known) \in BOOLEAN
      OBVIOUS
    <3> QED
      BY <1>3, <3>1, RetainQuoteIs
  <2> QED
    BY <1>1, <1>2, <1>3, <2>1, <2>2 DEF RetainRowsAre, R!Quote
<1>5. retained' # R!NoRow
  BY <1>3 DEF R!NoRow
<1>6. RetainAnswered'
  BY <1>1, <1>2 DEF RetainAnswered
<1>7. RetainPublished' /\ RetainWalking' /\ R!LinesAreOfTheHeader'
  BY <1>1 DEF RetainPublished, RetainWalking, R!LinesAreOfTheHeader
<1> QED
  BY <1>1, <1>4, <1>5, <1>6, <1>7

LEMMA RetainFetchFailsStep == ASSUME RetainIInv, R!FetchFails PROVE RetainIInv'
<1>1. retained = R!NoRow
  BY DEF RetainIInv, RetainRowsAre, R!FetchFails
<1> QED
  BY <1>1, RetainRest DEF R!FetchFails

LEMMA RetainDumpStep == ASSUME RetainIInv, NEW ok \in BOOLEAN, R!Dump(ok) PROVE RetainIInv'
<1>1. retained # R!NoRow
  BY DEF RetainIInv, RetainRowsAre, R!NoRow, R!Dump
<1>2. dumped' = dumped \/ dumped' = RetainStocks
  BY DEF R!Dump
<1> QED
  BY <1>1, <1>2, RetainRest DEF R!Dump

LEMMA RetainPersistStep == ASSUME RetainIInv, NEW ok \in BOOLEAN, R!Persist(ok) PROVE RetainIInv'
<1>1. retained # R!NoRow
  BY DEF RetainIInv, RetainRowsAre, R!NoRow, R!Persist
<1> QED
  BY <1>1, RetainRest DEF R!Persist

(* A line has the date of the header, and no capture fetched the close of  *)
(* the very day it ran on: so the header is the session's.                 *)
LEMMA RetainBriefStep == ASSUME RetainIInv, NEW header \in R!Days, R!Brief(header) PROVE RetainIInv'
<1> USE DEF RetainIInv
<1>1. /\ rPc = "brief" /\ rPc' = "done" /\ ~proof
      /\ header = R!Expected \/ header = nyDate
      /\ lines' = {s \in RetainStocks : R!Qualifies(s, header)}
      /\ UNCHANGED <<nyDate, late, proof, grouped, atStart, answer, body, pair, retained, dumped>>
  BY DEF R!Brief
<1>2. /\ R!Session' = R!Session /\ R!Expected' = R!Expected
      /\ (\A s : R!Equity(s)' = R!Equity(s)) /\ \A d : RetainLatest(d)' = RetainLatest(d)
  BY <1>1 DEF R!Session, R!Expected, R!Before, R!Equity, RetainLatest
<1>3. nyDate \in Nat /\ R!Expected \in Nat /\ R!Expected < nyDate /\ R!Session = R!Expected
  BY <1>1, RetainSessionIs DEF RetainPublished
<1>4. ASSUME NEW s \in RetainStocks, R!Qualifies(s, header)
      PROVE  retained[s].quality = "ok" /\ retained[s].session = R!Expected
  <2>1. retained[s] = R!Equity(s) /\ retained[s].from = "grouped" /\ retained[s].value
        /\ body[s] # "untimed" /\ retained[s].session = header
    BY <1>4 DEF R!Qualifies, RetainRowsAre
  <2>2. answer.error = "none" /\ body[s] = "bar" /\ answer.session = header
    BY <2>1, RetainEquityIs
  <2>3. answer.session \in Nat /\ answer.session <= R!Session
    BY <2>2 DEF RetainAnswered, RetainLatest
  <2>4. header = R!Expected /\ ~(answer.session < R!Session)
    BY <1>1, <1>3, <2>2, <2>3
  <2> QED
    BY <2>1, <2>2, <2>4, RetainEquityIs
<1>5. R!LinesAreOfTheHeader'
  BY <1>1, <1>2, <1>4 DEF R!LinesAreOfTheHeader
<1>6. RetainPublished' /\ RetainWalking'
  BY <1>1 DEF RetainPublished, RetainWalking
<1>7. RetainAnswered' /\ RetainRowsAre'
  BY <1>1, <1>2 DEF RetainAnswered, RetainRowsAre
<1> QED
  BY <1>1, <1>5, <1>6, <1>7

LEMMA RetainStepIInv == RetainIInv /\ [R!Next]_R!vars => RetainIInv'
<1> SUFFICES ASSUME RetainIInv, [R!Next]_R!vars PROVE RetainIInv'
  OBVIOUS
<1>1. ASSUME NEW d \in R!Days, NEW b \in RetainBodies, R!Publish(d, b) PROVE RetainIInv'
  BY <1>1, RetainPublishStep
<1>2. ASSUME NEW m \in SUBSET RetainMetrics, R!Perps(m) PROVE RetainIInv'
  BY <1>2, RetainPerpsStep
<1>3. CASE R!Found \/ R!WalkBack \/ R!WalkEnds
  BY <1>3, RetainFoundStep, RetainWalkBackStep, RetainWalkEndsStep
<1>4. ASSUME NEW one \in BOOLEAN, NEW mid \in BOOLEAN, R!Spot(one, mid) PROVE RetainIInv'
  BY <1>4, RetainSpotStep
<1>5. ASSUME NEW ok \in BOOLEAN, R!Dump(ok) \/ R!Persist(ok) PROVE RetainIInv'
  BY <1>5, RetainDumpStep, RetainPersistStep
<1>6. ASSUME NEW header \in R!Days, R!Brief(header) PROVE RetainIInv'
  BY <1>6, RetainBriefStep
<1>7. CASE R!FetchFails
  BY <1>7, RetainFetchFailsStep
<1>8. CASE UNCHANGED R!vars
  <2> USE <1>8 DEF R!vars, RetainIInv
  <2>1. /\ R!Session' = R!Session /\ R!Expected' = R!Expected
        /\ (\A s : R!Equity(s)' = R!Equity(s)) /\ \A d : RetainLatest(d)' = RetainLatest(d)
    BY DEF R!Session, R!Expected, R!Before, R!Equity, RetainLatest
  <2>2. RetainPublished' /\ R!LinesAreOfTheHeader'
    BY <2>1 DEF RetainPublished, R!LinesAreOfTheHeader
  <2>3. RetainAnswered' /\ RetainRowsAre'
    BY <2>1 DEF RetainAnswered, RetainRowsAre
  <2>4. RetainWalking'
    BY <2>1 DEF RetainWalking, RetainLatest
  <2> QED
    BY <2>2, <2>3, <2>4
<1> QED
  BY <1>1, <1>2, <1>3, <1>4, <1>5, <1>6, <1>7, <1>8 DEF R!Next

LEMMA RetainIInvHolds == R!Spec => []RetainIInv
BY RetainInitIInv, RetainStepIInv, PTL DEF R!Spec

LEMMA RetainIInvIsTrue == RetainIInv => R!RetainIsTrue
<1> SUFFICES ASSUME RetainIInv PROVE R!RetainIsTrue
  OBVIOUS
<1> USE DEF RetainIInv
<1>1. nyDate \in Nat /\ R!Session \in Nat
  BY RetainSessionIs DEF RetainPublished
<1>2. ASSUME R!Built, NEW s \in RetainStocks, retained[s].value
      PROVE  /\ retained[s].session \in DOMAIN grouped
             /\ grouped[retained[s].session][s] \in {"bar", "untimed"}
             /\ \A d \in atStart : d <= R!Session => d <= retained[s].session
             /\ retained[s].quality = "ok" => retained[s].session = R!Session
  <2>1. retained[s] = R!Equity(s)
    BY <1>2 DEF R!Built, RetainRowsAre
  <2>2. /\ body[s] \in {"bar", "untimed"} /\ retained[s].session = answer.session
        /\ retained[s].quality = "ok" => ~(answer.session < R!Session)
    BY <1>2, <2>1, RetainEquityIs
  <2>3. answer.session \in DOMAIN grouped /\ body = grouped[answer.session]
          /\ RetainLatest(answer.session)
    BY <2>2 DEF RetainAnswered
  <2> QED
    BY <1>1, <2>2, <2>3 DEF RetainLatest
<1>3. R!FailureIsPartial
  <2> SUFFICES ASSUME R!Built PROVE R!FailureIsPartial
    BY DEF R!FailureIsPartial
  <2>1. /\ DOMAIN retained = RetainStocks \cup RetainMetrics \cup {"price"}
        /\ \A s \in RetainStocks : retained[s] = R!Equity(s)
        /\ \A n \in RetainMetrics \cup {"price"} : ~retained[n].value
           => retained[n].quality = "partial"
        /\ retained["price"].value => pair
    BY DEF R!Built, RetainRowsAre
  <2>2. \A s \in RetainStocks : ~retained[s].value => retained[s].quality = "partial"
    BY <2>1, RetainEquityIs
  <2>3. answer.error # "none"
          => \A s \in RetainStocks : ~retained[s].value /\ retained[s].session = R!Session
    BY <2>1, RetainEquityIs DEF RetainAnswered
  <2> QED
    BY <2>1, <2>2, <2>3 DEF R!FailureIsPartial
<1> QED
  BY <1>2, <1>3 DEF R!RetainIsTrue, R!CloseIsOfItsSession

(* A step of the composition is one of this part, or leaves it alone.      *)
LEMMA RetainPart == FeedsSpec => R!Spec
<1>1. FeedsInit => R!Init
  BY DEF FeedsInit
<1>2. [FeedsNext]_feedsVars => [R!Next]_R!vars
  BY DEF FeedsNext, feedsVars, retainVars, R!vars
<1> QED
  BY <1>1, <1>2, PTL DEF FeedsSpec, R!Spec

-----------------------------------------------------------------------------
(* The vendor adapters (VendorFeeds).                                      *)
(* The names of a list, and what is left of it after a request.            *)
VendorNames(q) == {q[i] : i \in 1..Len(q)}
VendorOnce(q) == \A i, j \in 1..Len(q) : q[i] = q[j] => i = j

LEMMA VendorBatchIs ==
    ASSUME left \in Seq(V!NameSet), left # <<>>, VendorOnce(left)
    PROVE  /\ V!Rest \in Seq(V!NameSet) /\ VendorOnce(V!Rest)
           /\ VendorNames(left) = V!Batch \cup VendorNames(V!Rest)
              /\ V!Batch \cap VendorNames(V!Rest) = {}
<1>1. CASE vendor = "coingecko"
  <2>1. V!Batch = VendorNames(left) /\ V!Rest = <<>> /\ VendorNames(<<>>) = {}
    BY <1>1 DEF V!Batch, V!Rest, VendorNames
  <2> QED
    BY <2>1 DEF VendorOnce
<1>2. CASE vendor # "coingecko"
  <2>1. V!Batch = {Head(left)} /\ V!Rest = Tail(left)
    BY <1>2 DEF V!Batch, V!Rest
  <2>2. /\ Tail(left) \in Seq(V!NameSet) /\ Len(left) \in Nat \ {0}
           /\ Len(Tail(left)) = Len(left) - 1
        /\ Head(left) = left[1] /\ \A i \in 1..Len(Tail(left)) : Tail(left)[i] = left[i + 1]
    OBVIOUS
  <2>3. VendorOnce(Tail(left))
    BY <2>2 DEF VendorOnce
  <2>4. Head(left) \notin VendorNames(Tail(left))
    BY <2>2 DEF VendorOnce, VendorNames
  <2>5. VendorNames(left) = {Head(left)} \cup VendorNames(Tail(left))
    <3>1. ASSUME NEW i \in 1..Len(left) PROVE left[i] \in {Head(left)} \cup VendorNames(Tail(left))
      <4>1. CASE i = 1
        BY <2>2, <4>1
      <4>2. CASE i # 1
        <5>1. i - 1 \in 1..Len(Tail(left)) /\ (i - 1) + 1 = i
          BY <2>2, <4>2
        <5>2. Tail(left)[i - 1] = left[i]
          BY <2>2, <5>1
        <5> QED
          BY <5>1, <5>2 DEF VendorNames
      <4> QED
        BY <4>1, <4>2
    <3>2. \A i \in 1..Len(Tail(left)) : i + 1 \in 1..Len(left) /\ Tail(left)[i] = left[i + 1]
      BY <2>2
    <3>3. 1 \in 1..Len(left) /\ Head(left) = left[1]
      BY <2>2
    <3> QED
      BY <3>1, <3>2, <3>3 DEF VendorNames
  <2> QED
    BY <2>1, <2>2, <2>3, <2>4, <2>5
<1> QED
  BY <1>1, <1>2

LEMMA VendorNothingIs == DOMAIN V!Nothing = {} /\ \A f : DOMAIN f # {} => f # V!Nothing
BY DEF V!Nothing

-----------------------------------------------------------------------------
(* The requests of the adapter object.                                     *)
VendorSent ==
    /\ budget.used \in 0..FeedRpm /\ budget.skipped \in Nat /\ wire \in Nat
    /\ budget = [used |-> budget.used, skipped |-> budget.skipped]
    /\ vPc # "wait" => wire <= budget.used * FeedAttempts
    /\ vPc = "wait" => vAttempt \in 1..FeedAttempts
       /\ wire + (FeedAttempts - vAttempt) <= budget.used * FeedAttempts
    /\ vendor \in V!Keyed /\ ~key => wire = 0 /\ vPc \notin {"ask", "wait"}
    /\ budget.skipped > 0 => budget.used = FeedRpm
    /\ vendor = "polygon" /\ budget.skipped > 0 => lastError # "none"

(* The instruments of a query: asked for, or still left.                   *)
VendorAsking == vPc \in {"ask", "wait"} =>
    /\ origin = "vendor" /\ listed = V!NameSet
    /\ left \in Seq(V!NameSet) /\ VendorOnce(left) /\ (vPc = "wait" => left # <<>>)
    /\ DOMAIN prints \cap VendorNames(left) = {}
    /\ vendor \in {"fred", "edgar"} => DOMAIN vRows \cup VendorNames(left) = V!NameSet
    /\ vendor \in V!Spot => vRows = V!Nothing

(* A row is a value where there is a print.                                *)
VendorValuesArePrints ==
    /\ \A i \in DOMAIN vRows : vRows[i] = "value" <=> i \in DOMAIN prints
    /\ lastError \in V!Gaps \cup {"none"}

VendorGathered == V!Collected =>
    /\ vendor # "polygon" /\ listed # {} => DOMAIN vRows = listed
    /\ vendor = "edgar" => vRows # V!Nothing
    /\ vendor = "polygon" /\ origin = "vendor" /\ ~key
       => lastError = "missing_env" /\ vRows = V!Nothing
    /\ vPc # "rows" => origin = "file" /\ DOMAIN vRows \subseteq vStore.rows

(* What is said of the rows, before they are persisted and after.          *)
VendorTold ==
    /\ vStore = [session |-> vStore.session, rows |-> vStore.rows, durable |-> vStore.durable]
    /\ report = [closure |-> report.closure, cited |-> report.cited, shown |-> report.shown,
                 printed |-> report.printed]
    /\ vPc \in {"ask", "wait", "rows", "persist"} => report = V!NoReport
    /\ vPc = "commit" => ~report.printed
    /\ vPc \notin {"persist", "commit"} => vStore.rows = vStore.durable
    /\ V!ReportIsAllowed

VendorIInv ==
    /\ vendor \in V!Vendors
    /\ vPc \in {"idle", "ask", "wait", "rows", "persist", "commit"}
    /\ VendorSent
    /\ VendorAsking
    /\ VendorValuesArePrints
    /\ VendorGathered
    /\ VendorTold

LEMMA VendorNamesOfWanted == VendorNames(FeedNames) = V!NameSet /\ V!NameSet # {}
  /\ VendorOnce(FeedNames)
<1>1. 1 \in 1..Len(FeedNames)
  BY VendorAssumption
<1> QED
  BY <1>1, VendorAssumption DEF VendorNames, V!NameSet, VendorOnce

(* The gaps are not values.                                                *)
LEMMA VendorGapIsNoValue == "value" \notin V!Gaps /\ "none" \notin V!Gaps
  /\ "missing_env" \in V!Gaps /\ "parse_error" \in V!Gaps
                            /\ "rate_limited" \in V!Gaps
BY DEF V!Gaps, V!Retryable, V!Terminal

LEMMA VendorInitIInv == V!Init => VendorIInv
<1> SUFFICES ASSUME V!Init PROVE VendorIInv
  OBVIOUS
<1>1. VendorSent
  <2>1. 0 <= 0 * FeedAttempts /\ 0 \in 0..FeedRpm
    BY VendorAssumption
  <2> QED
    BY <2>1 DEF V!Init, VendorSent
<1>2. VendorAsking /\ VendorGathered
  BY DEF V!Init, VendorAsking, VendorGathered, V!Collected
<1>3. VendorValuesArePrints
  BY VendorNothingIs DEF V!Init, VendorValuesArePrints
<1>4. VendorTold
  BY DEF V!Init, VendorTold, V!ReportIsAllowed, V!NoReport
<1> QED
  BY <1>1, <1>2, <1>3, <1>4 DEF V!Init, VendorIInv

LEMMA VendorQueryStep == ASSUME VendorIInv, V!Query PROVE VendorIInv'
<1> USE DEF VendorIInv
<1>1. /\ vPc \in {"idle", "rows"} /\ origin' = "vendor" /\ listed' = V!NameSet
      /\ prints' = V!Nothing /\ report' = V!NoReport
      /\ UNCHANGED <<vendor, key, vAttempt, budget, wire, vStore>>
  BY DEF V!Query
<1>2. CASE vendor \in V!Keyed /\ ~key
  <2>1. /\ vPc' = "rows" /\ lastError' = "missing_env"
        /\ vRows' = IF vendor = "fred" THEN V!Set(V!Nothing, V!NameSet, "missing_env")
           ELSE V!Nothing
    BY <1>2 DEF V!Query
  <2>2. /\ vendor = "fred" => DOMAIN vRows' = V!NameSet /\ \A i \in V!NameSet :
           vRows'[i] = "missing_env"
        /\ vendor # "fred" => vendor = "polygon" /\ vRows' = V!Nothing
    <3> DEFINE f == V!Set(V!Nothing, V!NameSet, "missing_env")
    <3>1. DOMAIN f = DOMAIN V!Nothing \cup V!NameSet /\ \A i \in V!NameSet : f[i] = "missing_env"
      BY DEF V!Set
    <3>2. vRows' = IF vendor = "fred" THEN f ELSE V!Nothing
      BY <2>1
    <3> HIDE DEF f
    <3> QED
      BY <1>2, <3>1, <3>2, VendorNothingIs DEF V!Keyed
  <2>3. VendorSent'
    BY <1>1, <2>1 DEF VendorSent
  <2>4. VendorValuesArePrints'
    BY <1>1, <2>1, <2>2, VendorNothingIs, VendorGapIsNoValue DEF VendorValuesArePrints
  <2>5. VendorAsking' /\ VendorGathered'
    BY <1>1, <2>1, <2>2 DEF VendorAsking, VendorGathered, V!Collected
  <2>6. VendorTold'
    BY <1>1, <2>1 DEF VendorTold, V!ReportIsAllowed, V!NoReport
  <2> QED
    BY <1>1, <2>1, <2>3, <2>4, <2>5, <2>6
<1>3. CASE ~(vendor \in V!Keyed /\ ~key)
  <2>1. /\ vPc' = "ask" /\ left' = FeedNames /\ vRows' = V!Nothing
        /\ lastError' = IF vendor = "polygon" THEN lastError ELSE "none"
    BY <1>3 DEF V!Query
  <2>2. VendorSent'
    BY <1>1, <1>3, <2>1 DEF VendorSent
  <2>3. VendorValuesArePrints'
    BY <1>1, <2>1, VendorNothingIs DEF VendorValuesArePrints
  <2>4. VendorAsking' /\ VendorGathered'
    BY <1>1, <2>1, VendorNamesOfWanted, VendorNothingIs, VendorAssumption
       DEF VendorAsking, VendorGathered, V!Collected
  <2>5. VendorTold'
    BY <1>1, <2>1 DEF VendorTold, V!ReportIsAllowed, V!NoReport
  <2> QED
    BY <1>1, <2>1, <2>2, <2>3, <2>4, <2>5
<1> QED
  BY <1>2, <1>3

LEMMA VendorAskStep == ASSUME VendorIInv, V!Ask PROVE VendorIInv'
<1> USE DEF VendorIInv
<1>1. /\ vPc = "ask" /\ vPc' = "wait" /\ left # <<>> /\ budget.used < FeedRpm
      /\ budget' = [budget EXCEPT !.used = @ + 1] /\ vAttempt' = 1 /\ wire' = wire + 1
      /\ UNCHANGED <<vendor, key, origin, listed, left, prints, vRows, lastError, vStore, report>>
  BY DEF V!Ask
<1>2. budget'.used = budget.used + 1 /\ budget'.skipped = budget.skipped
  BY <1>1 DEF VendorSent
<1>3. VendorSent'
  <2>1. (budget.used + 1) * FeedAttempts = budget.used * FeedAttempts + FeedAttempts
    BY VendorAssumption DEF VendorSent
  <2>2. budget.used * FeedAttempts \in Nat
    BY VendorAssumption DEF VendorSent
  <2>3. FeedAttempts \in Nat \ {0} /\ wire \in Nat /\ wire <= budget.used * FeedAttempts
    BY <1>1, VendorAssumption DEF VendorSent
  <2>4. (wire + 1) + (FeedAttempts - 1) <= (budget.used + 1) * FeedAttempts
    <3> DEFINE p == budget.used * FeedAttempts
    <3>1. p \in Nat /\ wire <= p
      BY <2>2, <2>3
    <3>2. (budget.used + 1) * FeedAttempts = p + FeedAttempts
      BY <2>1
    <3> HIDE DEF p
    <3>3. (wire + 1) + (FeedAttempts - 1) <= p + FeedAttempts
      BY <2>3, <3>1
    <3> QED
      BY <3>2, <3>3
  <2>5. wire' + (FeedAttempts - vAttempt') <= budget'.used * FeedAttempts
    BY <1>1, <1>2, <2>4
  <2>6. /\ budget'.used \in 0..FeedRpm /\ budget'.skipped \in Nat /\ wire' \in Nat
        /\ budget' = [used |-> budget'.used, skipped |-> budget'.skipped]
        /\ vAttempt' \in 1..FeedAttempts
    BY <1>1, <1>2, <2>3, VendorAssumption DEF VendorSent
  <2>7. /\ vendor' \in V!Keyed /\ ~key' => wire' = 0 /\ vPc' \notin {"ask", "wait"}
        /\ budget'.skipped > 0 => budget'.used = FeedRpm
        /\ vendor' = "polygon" /\ budget'.skipped > 0 => lastError' # "none"
    BY <1>1, <1>2, VendorAssumption DEF VendorSent
  <2> QED
    BY <1>1, <2>5, <2>6, <2>7 DEF VendorSent
<1>4. VendorAsking' /\ VendorGathered' /\ VendorValuesArePrints'
  BY <1>1 DEF VendorAsking, VendorGathered, V!Collected, VendorValuesArePrints
<1>5. VendorTold'
  BY <1>1 DEF VendorTold, V!ReportIsAllowed
<1> QED
  BY <1>1, <1>3, <1>4, <1>5

(* What a request, answered or not, leaves of the list.                    *)
LEMMA VendorLeaves ==
    ASSUME VendorAsking, vPc \in {"ask", "wait"}, left # <<>>
    PROVE  /\ V!Rest \in Seq(V!NameSet) /\ VendorOnce(V!Rest)
           /\ VendorNames(left) = V!Batch \cup VendorNames(V!Rest)
              /\ V!Batch \cap VendorNames(V!Rest) = {}
           /\ DOMAIN prints \cap V!Batch = {} /\ DOMAIN prints \cap VendorNames(V!Rest) = {}
BY VendorBatchIs DEF VendorAsking

LEMMA VendorExhaustedStep == ASSUME VendorIInv, V!Exhausted PROVE VendorIInv'
<1> USE DEF VendorIInv
<1>1. /\ vPc = "ask" /\ left # <<>> /\ budget.used >= FeedRpm
      /\ budget' = [budget EXCEPT !.skipped = @ + 1] /\ lastError' = "rate_limited"
      /\ vRows' = IF vendor \in {"fred", "edgar"} THEN V!Set(vRows, V!Batch, "rate_limited")
         ELSE vRows
      /\ left' = IF vendor = "binance" THEN <<>> ELSE V!Rest
      /\ UNCHANGED <<vPc, vendor, key, origin, listed, vAttempt, wire, prints, vStore, report>>
  BY DEF V!Exhausted
<1>2. budget'.used = budget.used /\ budget'.skipped = budget.skipped + 1
  BY <1>1 DEF VendorSent
<1>3. VendorSent'
  BY <1>1, <1>2, VendorAssumption DEF VendorSent
<1>4. /\ V!Rest \in Seq(V!NameSet) /\ VendorOnce(V!Rest)
      /\ VendorNames(left) = V!Batch \cup VendorNames(V!Rest)
      /\ DOMAIN prints \cap V!Batch = {} /\ DOMAIN prints \cap VendorNames(V!Rest) = {}
  BY <1>1, VendorLeaves
<1>5. VendorNames(<<>>) = {} /\ VendorOnce(<<>>) /\ <<>> \in Seq(V!NameSet)
  BY DEF VendorNames, VendorOnce
<1>6. vendor \in {"fred", "edgar"} =>
          /\ left' = V!Rest /\ DOMAIN vRows' = DOMAIN vRows \cup V!Batch
          /\ \A i \in V!Batch : vRows'[i] = "rate_limited"
          /\ \A i \in DOMAIN vRows \ V!Batch : vRows'[i] = vRows[i]
  <2> DEFINE f == V!Set(vRows, V!Batch, "rate_limited")
  <2>1. /\ DOMAIN f = DOMAIN vRows \cup V!Batch /\ \A i \in V!Batch : f[i] = "rate_limited"
        /\ \A i \in DOMAIN vRows \ V!Batch : f[i] = vRows[i]
    BY DEF V!Set
  <2>2. vendor \in {"fred", "edgar"} => left' = V!Rest /\ vRows' = f
    BY <1>1
  <2> HIDE DEF f
  <2> QED
    BY <2>1, <2>2
<1>7. VendorAsking'
  <2>1. left' \in Seq(V!NameSet) /\ VendorOnce(left') /\ DOMAIN prints' \cap VendorNames(left') = {}
    BY <1>1, <1>4, <1>5
  <2>2. vendor \in {"fred", "edgar"} => DOMAIN vRows' \cup VendorNames(left') = V!NameSet
    BY <1>1, <1>4, <1>6 DEF VendorAsking
  <2>3. vendor \in V!Spot => vRows' = V!Nothing
    BY <1>1 DEF VendorAsking, V!Spot
  <2>4. VendorNames(left)' = VendorNames(left') /\ VendorOnce(left)' = VendorOnce(left')
    BY DEF VendorNames, VendorOnce
  <2> QED
    BY <1>1, <2>1, <2>2, <2>3, <2>4 DEF VendorAsking
<1>8. VendorValuesArePrints'
  BY <1>1, <1>4, <1>6, VendorGapIsNoValue DEF VendorValuesArePrints
<1>9. VendorGathered'
  BY <1>1 DEF VendorGathered, V!Collected
<1>10. VendorTold'
  BY <1>1 DEF VendorTold, V!ReportIsAllowed, V!NoReport
<1> QED
  BY <1>1, <1>3, <1>7, <1>8, <1>9, <1>10

LEMMA VendorRetryStep == ASSUME VendorIInv, NEW class \in V!Retryable, V!Retry(class)
  PROVE VendorIInv'
<1> USE DEF VendorIInv
<1>1. /\ vPc = "wait" /\ vAttempt < FeedAttempts /\ vAttempt' = vAttempt + 1 /\ wire' = wire + 1
      /\ UNCHANGED <<vPc, vendor, key, origin, listed, left, budget, prints, vRows, lastError,
                     vStore, report>>
  BY DEF V!Retry
<1>2. VendorSent'
  <2>1. budget.used * FeedAttempts \in Nat
    BY VendorAssumption DEF VendorSent
  <2>2. wire + 1 + (FeedAttempts - (vAttempt + 1)) = wire + (FeedAttempts - vAttempt)
    BY <1>1, VendorAssumption DEF VendorSent
  <2>3. vAttempt + 1 \in 1..FeedAttempts
    BY <1>1, VendorAssumption DEF VendorSent
  <2> QED
    BY <1>1, <2>1, <2>2, <2>3 DEF VendorSent
<1>3. VendorAsking' /\ VendorGathered' /\ VendorValuesArePrints'
  BY <1>1 DEF VendorAsking, VendorGathered, V!Collected, VendorValuesArePrints
<1>4. VendorTold'
  BY <1>1 DEF VendorTold, V!ReportIsAllowed
<1> QED
  BY <1>1, <1>2, <1>3, <1>4

LEMMA VendorSettled ==
    ASSUME VendorSent, vPc = "wait"
    PROVE  wire <= budget.used * FeedAttempts
<1>1. budget.used * FeedAttempts \in Nat
  BY VendorAssumption DEF VendorSent
<1> QED
  BY <1>1, VendorAssumption DEF VendorSent

(* After a request the adapter goes on with the rest.                      *)
LEMMA VendorGoesOn ==
    ASSUME VendorIInv, vPc = "wait", vPc' = "ask", left' = V!Rest,
           UNCHANGED <<vendor, key, origin, listed, budget, wire, vStore, report>>,
           DOMAIN prints' \subseteq DOMAIN prints \cup V!Batch,
           vendor \in {"fred", "edgar"} => DOMAIN vRows' = DOMAIN vRows \cup V!Batch,
           vendor \in V!Spot => vRows' = vRows,
           lastError' \in V!Gaps \/ lastError' = lastError
    PROVE  VendorSent' /\ VendorAsking' /\ VendorGathered' /\ VendorTold'
<1> USE DEF VendorIInv
<1>1. left # <<>>
  BY DEF VendorAsking
<1>2. /\ V!Rest \in Seq(V!NameSet) /\ VendorOnce(V!Rest)
      /\ VendorNames(left) = V!Batch \cup VendorNames(V!Rest)
         /\ V!Batch \cap VendorNames(V!Rest) = {}
      /\ DOMAIN prints \cap V!Batch = {} /\ DOMAIN prints \cap VendorNames(V!Rest) = {}
  BY <1>1, VendorLeaves
<1>3. VendorAsking'
  <2>1. VendorNames(left)' = VendorNames(left') /\ VendorOnce(left)' = VendorOnce(left')
    BY DEF VendorNames, VendorOnce
  <2>2. DOMAIN prints' \cap VendorNames(left') = {}
    BY <1>2
  <2>3. vendor \in {"fred", "edgar"} => DOMAIN vRows' \cup VendorNames(left') = V!NameSet
    BY <1>2 DEF VendorAsking
  <2> QED
    BY <1>2, <2>1, <2>2, <2>3 DEF VendorAsking
<1>4. VendorSent'
  <2>1. wire <= budget.used * FeedAttempts
    BY VendorSettled
  <2> QED
    BY <2>1, VendorGapIsNoValue DEF VendorSent
<1>5. VendorGathered' /\ VendorTold'
  <2>1. report = V!NoReport /\ vStore.rows = vStore.durable
    BY DEF VendorTold
  <2> QED
    BY <2>1 DEF VendorGathered, V!Collected, VendorTold, V!ReportIsAllowed, V!NoReport
<1> QED
  BY <1>3, <1>4, <1>5

LEMMA VendorFailStep == ASSUME VendorIInv, NEW class \in V!Retryable \cup V!Terminal,
  V!Fail(class) PROVE VendorIInv'
<1> USE DEF VendorIInv
<1>1. /\ vPc = "wait" /\ lastError' = class /\ vPc' = "ask" /\ left' = V!Rest
      /\ vRows' = IF vendor \in {"fred", "edgar"} THEN V!Set(vRows, V!Batch, class) ELSE vRows
      /\ UNCHANGED <<vendor, key, origin, listed, budget, wire, prints, vStore, report>>
  BY DEF V!Fail
<1>2. class \in V!Gaps
  BY DEF V!Gaps
<1> DEFINE f == V!Set(vRows, V!Batch, class)
<1>3. /\ DOMAIN f = DOMAIN vRows \cup V!Batch /\ \A i \in V!Batch : f[i] = class
      /\ \A i \in DOMAIN vRows \ V!Batch : f[i] = vRows[i]
  BY DEF V!Set
<1>4. vRows' = IF vendor \in {"fred", "edgar"} THEN f ELSE vRows
  BY <1>1
<1> HIDE DEF f
<1>5. VendorSent' /\ VendorAsking' /\ VendorGathered' /\ VendorTold'
  BY <1>1, <1>2, <1>3, <1>4, VendorGoesOn DEF V!Spot
<1>6. DOMAIN prints \cap V!Batch = {}
  BY <1>1, VendorLeaves DEF VendorAsking
<1>7. VendorValuesArePrints'
  BY <1>1, <1>2, <1>3, <1>4, <1>6, VendorGapIsNoValue DEF VendorValuesArePrints
<1> QED
  BY <1>1, <1>5, <1>7

LEMMA VendorAnswerStep == ASSUME VendorIInv, NEW found \in SUBSET V!NameSet, V!Answer(found)
  PROVE VendorIInv'
<1> USE DEF VendorIInv
<1>1. /\ vPc = "wait" /\ found \subseteq V!Batch /\ vPc' = "ask" /\ left' = V!Rest
      /\ prints' = V!Set(prints, found, "value") /\ vRows' = V!Recorded(found)
      /\ lastError' = "parse_error" \/ lastError' = lastError
      /\ UNCHANGED <<vendor, key, origin, listed, budget, wire, vStore, report>>
  BY DEF V!Answer
<1> DEFINE p == V!Set(prints, found, "value")
           f == V!Set(vRows, found, "value")
           g == V!Set(f, V!Batch \ found, "parse_error")
<1>2. DOMAIN p = DOMAIN prints \cup found
  BY DEF V!Set
<1>3. /\ DOMAIN f = DOMAIN vRows \cup found /\ \A i \in found : f[i] = "value"
      /\ \A i \in DOMAIN vRows \ found : f[i] = vRows[i]
  BY DEF V!Set
<1> HIDE DEF f
<1>4. /\ DOMAIN g = DOMAIN f \cup (V!Batch \ found) /\ \A i \in V!Batch \ found :
         g[i] = "parse_error"
      /\ \A i \in DOMAIN f \ (V!Batch \ found) : g[i] = f[i]
  BY DEF V!Set
<1> HIDE DEF p, g
<1>5. /\ vendor \in {"fred", "edgar"} => vRows' = g
      /\ vendor = "polygon" => vRows' = f
      /\ vendor \in V!Spot => vRows' = vRows
  BY <1>1 DEF V!Recorded, V!Spot, f, g
<1>6. prints' = p
  BY <1>1 DEF p
<1>7. VendorSent' /\ VendorAsking' /\ VendorGathered' /\ VendorTold'
  <2>1. DOMAIN prints' \subseteq DOMAIN prints \cup V!Batch
    BY <1>1, <1>2, <1>6
  <2>2. vendor \in {"fred", "edgar"} => DOMAIN vRows' = DOMAIN vRows \cup V!Batch
    BY <1>1, <1>3, <1>4, <1>5
  <2> QED
    BY <1>1, <1>5, <2>1, <2>2, VendorGoesOn, VendorGapIsNoValue
<1>8. DOMAIN prints \cap V!Batch = {}
  BY <1>1, VendorLeaves DEF VendorAsking
<1>9. VendorValuesArePrints'
  <2>1. CASE vendor \in {"fred", "edgar"}
    BY <1>1, <1>2, <1>3, <1>4, <1>5, <1>6, <1>8, <2>1, VendorGapIsNoValue DEF VendorValuesArePrints
  <2>2. CASE vendor = "polygon"
    BY <1>1, <1>2, <1>3, <1>5, <1>6, <1>8, <2>2, VendorGapIsNoValue DEF VendorValuesArePrints
  <2>3. CASE vendor \in V!Spot
    BY <1>1, <1>5, <2>3, VendorNothingIs, VendorGapIsNoValue DEF VendorValuesArePrints, VendorAsking
  <2> QED
    BY <2>1, <2>2, <2>3 DEF V!Vendors, V!Spot
<1> QED
  BY <1>1, <1>7, <1>9

LEMMA VendorAskedStep == ASSUME VendorIInv, V!Asked PROVE VendorIInv'
<1> USE DEF VendorIInv
<1>1. /\ vPc = "ask" /\ left = <<>> /\ vPc' = "rows"
      /\ vRows' = IF vendor \in V!Spot THEN V!CrossCheck ELSE vRows
      /\ lastError' = IF vendor \in V!Spot THEN V!SpotError ELSE lastError
      /\ UNCHANGED <<vendor, key, origin, listed, left, budget, wire, prints, vStore, report>>
  BY DEF V!Asked
<1>2. V!SpotError \in V!Gaps \cup {"none"}
  BY VendorGapIsNoValue DEF V!SpotError, VendorValuesArePrints
<1>3. /\ DOMAIN V!CrossCheck = V!NameSet
      /\ \A i \in V!NameSet : V!CrossCheck[i] = "value" <=> i \in DOMAIN prints
  BY <1>2, VendorGapIsNoValue DEF V!CrossCheck
<1>4. VendorNames(left) = {}
  BY <1>1 DEF VendorNames
<1>5. /\ vendor \in {"fred", "edgar"} => vRows' = vRows /\ DOMAIN vRows' = V!NameSet
      /\ vendor \in V!Spot => vRows' = V!CrossCheck
  BY <1>1, <1>4 DEF VendorAsking, V!Spot
<1>6. VendorGathered'
  <2>1. listed' = V!NameSet /\ origin' = "vendor" /\ ~(vendor \in V!Keyed /\ ~key)
    BY <1>1 DEF VendorAsking, VendorSent
  <2>2. vendor' # "polygon" => DOMAIN vRows' = V!NameSet
    BY <1>1, <1>3, <1>5 DEF V!Vendors, V!Spot
  <2>3. vendor' = "edgar" => vRows' # V!Nothing
    BY <1>1, <2>2, VendorNothingIs, VendorNamesOfWanted
  <2> QED
    BY <1>1, <2>1, <2>2, <2>3 DEF VendorGathered, V!Collected, V!Keyed
<1>7. VendorValuesArePrints'
  BY <1>1, <1>2, <1>3 DEF VendorValuesArePrints
<1>8. VendorSent'
  <2>1. vendor = "polygon" => lastError' = lastError
    BY <1>1 DEF V!Spot
  <2> QED
    BY <1>1, <2>1 DEF VendorSent
<1>9. VendorAsking' /\ VendorTold'
  <2>1. report = V!NoReport /\ vStore.rows = vStore.durable
    BY <1>1 DEF VendorTold
  <2> QED
    BY <1>1, <2>1 DEF VendorAsking, VendorTold, V!ReportIsAllowed, V!NoReport
<1> QED
  BY <1>1, <1>6, <1>7, <1>8, <1>9

LEMMA VendorReplayStep ==
    ASSUME VendorIInv, NEW names \in SUBSET V!NameSet, NEW found \in SUBSET V!NameSet,
           NEW class \in V!Gaps \cup {"none"}, V!Replay(names, found, class)
    PROVE  VendorIInv'
<1> USE DEF VendorIInv
<1> DEFINE gap == IF class = "none" THEN "parse_error" ELSE class
           p == V!Set(V!Nothing, found, "value")
           f == V!Set(p, names \ found, gap)
           e == V!Set(V!Nothing, {"EDGAR"}, gap)
<1>1. /\ vPc = "idle" /\ vPc' = "rows" /\ found \subseteq names
      /\ origin' = "file" /\ listed' = names
      /\ prints' = p /\ vRows' = V!FileRows(names, found, class) /\ report' = V!NoReport
      /\ UNCHANGED <<vendor, key, left, budget, wire, lastError, vStore>>
  BY DEF V!Replay
<1>2. vRows' \in {e, p, f}
        /\ (vendor # "polygon" => vRows' = IF vendor = "edgar" /\ names = {} THEN e ELSE f)
      /\ (vRows' = e => (vendor = "edgar" /\ names = {}) \/ e = p \/ e = f)
  BY <1>1 DEF V!FileRows
<1>3. gap \in V!Gaps
  BY VendorGapIsNoValue
<1>4. DOMAIN p = found /\ \A i \in found : p[i] = "value"
  BY VendorNothingIs DEF V!Set
<1> HIDE DEF p
<1>5. /\ DOMAIN f = found \cup (names \ found) /\ \A i \in names \ found : f[i] = gap
      /\ \A i \in found \ (names \ found) : f[i] = p[i]
  BY <1>4 DEF V!Set
<1>6. DOMAIN e = {"EDGAR"} /\ e["EDGAR"] = gap
  <2>1. DOMAIN e = DOMAIN V!Nothing \cup {"EDGAR"} /\ \A i \in {"EDGAR"} : e[i] = gap
    BY DEF V!Set
  <2> QED
    BY <2>1, VendorNothingIs
<1> HIDE DEF f, e, gap
<1>7. VendorValuesArePrints'
  <2>1. \A i \in DOMAIN f : f[i] = "value" <=> i \in DOMAIN p
    BY <1>1, <1>3, <1>4, <1>5, VendorGapIsNoValue
  <2>2. vRows' = p => \A i \in DOMAIN vRows' : vRows'[i] = "value" <=> i \in DOMAIN p
    BY <1>4
  <2>3. names = {} => \A i \in DOMAIN e : e[i] = "value" <=> i \in DOMAIN p
    BY <1>1, <1>3, <1>4, <1>6, VendorGapIsNoValue
  <2> QED
    BY <1>1, <1>2, <2>1, <2>2, <2>3 DEF VendorValuesArePrints
<1>8. VendorGathered'
  <2>1. vendor # "polygon" /\ names # {} => DOMAIN vRows' = names
    BY <1>1, <1>2, <1>5
  <2>2. vendor = "edgar" => DOMAIN vRows' # {}
    BY <1>1, <1>2, <1>5, <1>6
  <2> QED
    BY <1>1, <2>1, <2>2, VendorNothingIs DEF VendorGathered, V!Collected
<1>9. VendorSent' /\ VendorAsking'
  BY <1>1 DEF VendorSent, VendorAsking
<1>10. VendorTold'
  BY <1>1 DEF VendorTold, V!ReportIsAllowed, V!NoReport
<1> QED
  BY <1>1, <1>7, <1>8, <1>9, <1>10

-----------------------------------------------------------------------------
(* What is shown has a print.                                              *)
LEMMA VendorShownIs ==
    ASSUME VendorValuesArePrints
    PROVE  (V!Shown # {} => vendor \in FeedLicensed) /\ V!Shown \subseteq DOMAIN prints
BY DEF VendorValuesArePrints, V!Shown, V!MayPublish

(* The end of a query changes nothing of what was asked.                   *)
LEMMA VendorEnds ==
    ASSUME VendorIInv, V!Collected, vPc' \notin {"ask", "wait"},
      vPc' \in {"idle", "persist", "commit"},
           UNCHANGED <<vendor, key, origin, listed, left, budget, wire, prints, vRows, lastError>>,
           vPc' # "idle" => origin = "file" /\ DOMAIN vRows \subseteq vStore'.rows,
           VendorTold'
    PROVE  VendorIInv'
<1> USE DEF VendorIInv
<1>1. VendorSent' /\ VendorAsking' /\ VendorValuesArePrints'
  BY DEF VendorSent, VendorAsking, VendorValuesArePrints, V!Collected
<1>2. VendorGathered'
  BY DEF VendorGathered, V!Collected
<1> QED
  BY <1>1, <1>2

LEMMA VendorStackDryStep == ASSUME VendorIInv, V!StackDry PROVE VendorIInv'
<1> USE DEF VendorIInv
<1>1. /\ vPc = "rows" /\ vPc' = "idle"
      /\ report' \in {[closure |-> V!Closure(TRUE, FALSE), cited |-> FALSE, shown |-> V!Shown,
         printed |-> TRUE],
                      [V!NoReport EXCEPT !.printed = TRUE]}
      /\ UNCHANGED <<vendor, key, origin, listed, left, budget, wire, prints, vRows, lastError,
                     vStore>>
  BY DEF V!StackDry
<1>2. VendorTold'
  <2>1. report'.cited = FALSE /\ report'.shown \in {V!Shown, {}} /\ report'.closure # "CLOSED"
    BY <1>1 DEF V!NoReport, V!Closure
  <2>2. report' = [closure |-> report'.closure, cited |-> report'.cited, shown |-> report'.shown,
                   printed |-> report'.printed]
    BY <1>1 DEF V!NoReport
  <2>3. (report'.shown # {} => vendor \in FeedLicensed) /\ report'.shown \subseteq DOMAIN prints
    BY <2>1, VendorShownIs
  <2> QED
    BY <1>1, <2>1, <2>2, <2>3 DEF VendorTold, V!ReportIsAllowed
<1> QED
  BY <1>1, <1>2, VendorEnds DEF V!Collected

LEMMA VendorPersistStep == ASSUME VendorIInv, V!Persist PROVE VendorIInv'
<1> USE DEF VendorIInv
<1>1. /\ vPc = "rows" /\ vPc' = "persist" /\ origin = "file"
      /\ vStore' = [vStore EXCEPT !.session = TRUE, !.rows = @ \cup DOMAIN vRows]
      /\ UNCHANGED <<vendor, key, origin, listed, left, budget, wire, prints, vRows, lastError,
                     report>>
  BY DEF V!Persist
<1>2. /\ vStore'.rows = vStore.rows \cup DOMAIN vRows /\ vStore'.durable = vStore.durable
      /\ vStore' = [session |-> vStore'.session, rows |-> vStore'.rows, durable |-> vStore'.durable]
  BY <1>1 DEF VendorTold
<1>3. VendorTold'
  BY <1>1, <1>2 DEF VendorTold, V!ReportIsAllowed
<1> QED
  BY <1>1, <1>2, <1>3, VendorEnds DEF V!Collected

LEMMA VendorStackStep == ASSUME VendorIInv, V!Stack PROVE VendorIInv'
<1> USE DEF VendorIInv
<1>1. /\ vPc = "persist" /\ vPc' = "commit"
      /\ \/ report' = [closure |-> V!Closure(FALSE, TRUE), cited |-> TRUE, shown |-> V!Shown,
            printed |-> FALSE]
         \/ report' = report
      /\ UNCHANGED <<vendor, key, origin, listed, left, budget, wire, prints, vRows, lastError,
                     vStore>>
  BY DEF V!Stack
<1>2. report = V!NoReport
  BY <1>1 DEF VendorTold
<1>3. /\ report'.shown \in {V!Shown, {}} /\ report'.printed = FALSE
      /\ report'.closure # "CLOSED" /\ (report'.cited => report'.closure = "ELIGIBLE")
  BY <1>1, <1>2 DEF V!NoReport, V!Closure
<1>4. VendorTold'
  BY <1>1, <1>3, VendorShownIs DEF VendorTold, V!ReportIsAllowed
<1> QED
  BY <1>1, <1>4, VendorEnds DEF V!Collected, VendorGathered

LEMMA VendorCommitStep == ASSUME VendorIInv, V!Commit PROVE VendorIInv'
<1> USE DEF VendorIInv
<1>1. /\ vPc = "commit" /\ vPc' = "idle"
      /\ vStore' = [session |-> FALSE, rows |-> vStore.rows, durable |-> vStore.rows]
      /\ report' = [report EXCEPT !.printed = TRUE]
      /\ UNCHANGED <<vendor, key, origin, listed, left, budget, wire, prints, vRows, lastError>>
  BY DEF V!Commit
<1>2. report'.closure = report.closure /\ report'.cited = report.cited
        /\ report'.shown = report.shown
  BY <1>1 DEF VendorTold
<1>3. DOMAIN vRows \subseteq vStore.rows
  BY <1>1 DEF VendorGathered, V!Collected
<1>4. VendorTold'
  BY <1>1, <1>2, <1>3 DEF VendorTold, V!ReportIsAllowed
<1> QED
  BY <1>1, <1>4, VendorEnds DEF V!Collected

LEMMA VendorRollbackStep == ASSUME VendorIInv, V!Rollback PROVE VendorIInv'
<1> USE DEF VendorIInv
<1>1. /\ vPc \in {"persist", "commit"} /\ vPc' = "idle"
      /\ vStore' = [session |-> FALSE, rows |-> vStore.durable, durable |-> vStore.durable]
      /\ report' = V!NoReport
      /\ UNCHANGED <<vendor, key, origin, listed, left, budget, wire, prints, vRows, lastError>>
  BY DEF V!Rollback
<1>2. VendorTold'
  BY <1>1 DEF VendorTold, V!ReportIsAllowed, V!NoReport
<1> QED
  BY <1>1, <1>2, VendorEnds DEF V!Collected

LEMMA VendorStepIInv == VendorIInv /\ [V!Next]_V!vars => VendorIInv'
<1> SUFFICES ASSUME VendorIInv, [V!Next]_V!vars PROVE VendorIInv'
  OBVIOUS
<1>1. CASE V!Query \/ V!Ask \/ V!Exhausted
  BY <1>1, VendorQueryStep, VendorAskStep, VendorExhaustedStep
<1>2. ASSUME NEW class \in V!Retryable, V!Retry(class) PROVE VendorIInv'
  BY <1>2, VendorRetryStep
<1>3. ASSUME NEW class \in V!Retryable \cup V!Terminal, V!Fail(class) PROVE VendorIInv'
  BY <1>3, VendorFailStep
<1>4. ASSUME NEW found \in SUBSET V!NameSet, V!Answer(found) PROVE VendorIInv'
  BY <1>4, VendorAnswerStep
<1>5. ASSUME NEW names \in SUBSET V!NameSet, NEW found \in SUBSET V!NameSet,
             NEW class \in V!Gaps \cup {"none"}, V!Replay(names, found, class)
      PROVE  VendorIInv'
  BY <1>5, VendorReplayStep
<1>6. CASE V!Asked \/ V!StackDry
  BY <1>6, VendorAskedStep, VendorStackDryStep
<1>7. CASE V!Persist \/ V!Stack \/ V!Commit \/ V!Rollback
  BY <1>7, VendorPersistStep, VendorStackStep, VendorCommitStep, VendorRollbackStep
<1>8. CASE UNCHANGED V!vars
  <2> USE <1>8 DEF V!vars, VendorIInv
  <2>1. VendorSent' /\ VendorAsking' /\ VendorValuesArePrints' /\ VendorGathered'
    BY DEF VendorSent, VendorAsking, VendorValuesArePrints, VendorGathered, V!Collected
  <2>2. VendorTold'
    BY DEF VendorTold, V!ReportIsAllowed
  <2> QED
    BY <2>1, <2>2
<1> QED
  BY <1>1, <1>2, <1>3, <1>4, <1>5, <1>6, <1>7, <1>8 DEF V!Next

LEMMA VendorIInvHolds == V!Spec => []VendorIInv
BY VendorInitIInv, VendorStepIInv, PTL DEF V!Spec

LEMMA VendorIInvIsHonest == VendorIInv => V!FeedsAreHonest
<1> SUFFICES ASSUME VendorIInv PROVE V!FeedsAreHonest
  OBVIOUS
<1> USE DEF VendorIInv
<1>1. V!GapIsShown
  BY DEF V!GapIsShown, VendorGathered, VendorValuesArePrints, VendorSent
<1>2. V!BudgetIsKept
  <2>1. wire <= budget.used * FeedAttempts
    BY VendorSettled DEF VendorSent
  <2> QED
    BY <2>1 DEF V!BudgetIsKept, VendorSent
<1>3. V!ReportIsAllowed
  BY DEF VendorTold
<1> QED
  BY <1>1, <1>2, <1>3 DEF V!FeedsAreHonest

(* A step of the composition is one of this part, or leaves it alone.      *)
LEMMA VendorPart == FeedsSpec => V!Spec
<1>1. FeedsInit => V!Init
  BY DEF FeedsInit
<1>2. [FeedsNext]_feedsVars => [V!Next]_V!vars
  BY DEF FeedsNext, feedsVars, vendorVars, V!vars
<1> QED
  BY <1>1, <1>2, PTL DEF FeedsSpec, V!Spec

-----------------------------------------------------------------------------
(* The Hyperliquid history pull (HistoryPull).                             *)
(* The elements of a list, and whether it goes up.                         *)
HistoryElems(q) == {q[i] : i \in 1..Len(q)}
HistorySorted(q) == \A i, j \in 1..Len(q) : i < j => q[i] < q[j]

LEMMA HistoryConcatIs ==
    ASSUME NEW p \in Seq(Nat), NEW q \in Seq(Nat), HistorySorted(p), HistorySorted(q),
           \A i \in 1..Len(p), j \in 1..Len(q) : p[i] < q[j]
    PROVE  /\ p \o q \in Seq(Nat) /\ HistorySorted(p \o q)
              /\ HistoryElems(p \o q) = HistoryElems(p) \cup HistoryElems(q)
<1> DEFINE r == p \o q
<1>1. /\ r \in Seq(Nat) /\ Len(p) \in Nat /\ Len(q) \in Nat /\ Len(r) = Len(p) + Len(q)
      /\ \A i \in 1..Len(r) : r[i] = IF i <= Len(p) THEN p[i] ELSE q[i - Len(p)]
  OBVIOUS
<1> HIDE DEF r
<1>2. HistorySorted(r)
  <2> SUFFICES ASSUME NEW i \in 1..Len(r), NEW j \in 1..Len(r), i < j PROVE r[i] < r[j]
    BY DEF HistorySorted
  <2>1. CASE j <= Len(p)
    <3>1. i \in 1..Len(p) /\ j \in 1..Len(p) /\ i <= Len(p)
      BY <1>1, <2>1
    <3>2. p[i] < p[j]
      BY <3>1 DEF HistorySorted
    <3> QED
      BY <1>1, <2>1, <3>1, <3>2
  <2>2. CASE i <= Len(p) /\ j > Len(p)
    <3>1. i \in 1..Len(p) /\ j - Len(p) \in 1..Len(q) /\ ~(j <= Len(p))
      BY <1>1, <2>2
    <3>2. p[i] < q[j - Len(p)]
      BY <3>1
    <3>3. r[i] = p[i] /\ r[j] = q[j - Len(p)]
      BY <1>1, <2>2, <3>1
    <3> QED
      BY <3>2, <3>3
  <2>3. CASE i > Len(p)
    <3>1. i - Len(p) \in 1..Len(q) /\ j - Len(p) \in 1..Len(q) /\ i - Len(p) < j - Len(p)
      BY <1>1, <2>3
    <3>2. q[i - Len(p)] < q[j - Len(p)]
      BY <3>1 DEF HistorySorted
    <3>3. ~(i <= Len(p)) /\ ~(j <= Len(p))
      BY <1>1, <2>3
    <3>4. r[i] = q[i - Len(p)] /\ r[j] = q[j - Len(p)]
      BY <1>1, <3>3
    <3> QED
      BY <3>2, <3>4
  <2> QED
    BY <1>1, <2>1, <2>2, <2>3
<1>3. HistoryElems(r) = HistoryElems(p) \cup HistoryElems(q)
  <2>1. ASSUME NEW i \in 1..Len(r) PROVE r[i] \in HistoryElems(p) \cup HistoryElems(q)
    <3>1. i <= Len(p) \/ i - Len(p) \in 1..Len(q)
      BY <1>1
    <3> QED
      BY <1>1, <3>1 DEF HistoryElems
  <2>2. ASSUME NEW i \in 1..Len(p) PROVE p[i] \in HistoryElems(r)
    <3>1. i \in 1..Len(r) /\ r[i] = p[i]
      BY <1>1
    <3> QED
      BY <3>1 DEF HistoryElems
  <2>3. ASSUME NEW i \in 1..Len(q) PROVE q[i] \in HistoryElems(r)
    <3>1. i + Len(p) \in 1..Len(r) /\ (i + Len(p)) - Len(p) = i /\ ~(i + Len(p) <= Len(p))
      BY <1>1
    <3>2. r[i + Len(p)] = q[i]
      BY <1>1, <3>1
    <3> QED
      BY <3>1, <3>2 DEF HistoryElems
  <2> QED
    BY <2>1, <2>2, <2>3 DEF HistoryElems
<1> QED
  BY <1>1, <1>2, <1>3 DEF r

(* A page is of samples that are due, in order; what it leaves is later    *)
(* than all of it, and then it is full.                                    *)
HistoryDue(s, t) == {x \in s : x >= t /\ x <= PullEnd}

LEMMA HistoryPageIs ==
    ASSUME NEW s, s \subseteq Nat, NEW t \in Nat
    PROVE  /\ H!Page(s, t) \in Seq(Nat) /\ HistoryElems(H!Page(s, t)) \subseteq HistoryDue(s, t)
              /\ HistorySorted(H!Page(s, t))
           /\ \A x \in HistoryDue(s, t) :
                 \/ x \in HistoryElems(H!Page(s, t))
                 \/ Len(H!Page(s, t)) = PullPage /\ \A i \in 1..Len(H!Page(s, t)) :
                    H!Page(s, t)[i] < x
<1> DEFINE due == HistoryDue(s, t)
           n == Cardinality(due)
           before(x) == Cardinality({y \in due : y < x})
           length == IF n < PullPage THEN n ELSE PullPage
           page == [i \in 1..length |-> CHOOSE x \in due : before(x) = i - 1]
<1>1. H!Page(s, t) = page
  BY DEF H!Page, HistoryDue, H!Cardinality, Cardinality
<1>2. due \subseteq Nat /\ IsFiniteSet(due)
  <2>1. \A x \in due : x \in Nat /\ x \in 0..PullEnd
    BY HistoryAssumption DEF HistoryDue
  <2>2. IsFiniteSet(0..PullEnd)
    BY HistoryAssumption, FS_Interval
  <2> QED
    <3> HIDE DEF due
    <3>1. due \subseteq 0..PullEnd /\ due \subseteq Nat
      BY <2>1
    <3> QED
      BY <2>2, <3>1, FS_Subset
<1>3. /\ n \in Nat
      /\ \A x \in due : before(x) \in 0..(n - 1)
      /\ \A x, y \in due : x < y => before(x) < before(y)
      /\ \A k \in 0..(n - 1) : \E x \in due : before(x) = k
  <2> HIDE DEF due
  <2> QED
    BY <1>2, Ranks
<1> HIDE DEF due, n, before
<1>4. length \in Nat /\ length <= n /\ (length < n => length = PullPage)
  BY <1>3, HistoryAssumption
<1>5. \A x, y \in due : x \in Nat /\ y \in Nat /\ (x = y \/ x < y \/ y < x)
  BY <1>2
<1>6. ASSUME NEW i \in 1..length PROVE page[i] \in due /\ before(page[i]) = i - 1
  <2>1. i - 1 \in 0..(n - 1)
    BY <1>3, <1>4
  <2>2. \E x \in due : before(x) = i - 1
    BY <1>3, <2>1
  <2> QED
    BY <2>2
<1> HIDE DEF page, length
<1>7. page \in [1..length -> Nat] /\ DOMAIN page = 1..length
  BY <1>2, <1>6 DEF page
<1>8. page \in Seq(Nat) /\ Len(page) = length
  BY <1>4, <1>7
<1>9. HistoryElems(page) \subseteq due
  BY <1>6, <1>8 DEF HistoryElems
<1>10. HistorySorted(page)
  <2> SUFFICES ASSUME NEW i \in 1..length, NEW j \in 1..length, i < j PROVE page[i] < page[j]
    BY <1>8 DEF HistorySorted
  <2>1. before(page[i]) = i - 1 /\ before(page[j]) = j - 1 /\ page[i] \in due /\ page[j] \in due
    BY <1>6
  <2>2. page[i] # page[j]
    BY <1>4, <2>1
  <2>3. ~(page[j] < page[i])
    BY <1>3, <1>4, <2>1
  <2> QED
    BY <1>5, <2>1, <2>2, <2>3
<1>11. ASSUME NEW x \in due, x \notin HistoryElems(page)
       PROVE  Len(page) = PullPage /\ \A i \in 1..length : page[i] < x
  <2>1. before(x) \in 0..(n - 1)
    BY <1>3
  <2>2. ~(before(x) < length)
    <3> SUFFICES ASSUME before(x) < length PROVE FALSE
      OBVIOUS
    <3>1. before(x) + 1 \in 1..length /\ (before(x) + 1) - 1 = before(x)
      BY <1>3, <1>4, <2>1
    <3>2. page[before(x) + 1] \in due /\ before(page[before(x) + 1]) = before(x)
      BY <1>6, <3>1
    <3>3. page[before(x) + 1] = x
      <4> DEFINE y == page[before(x) + 1]
      <4>1. y \in due /\ before(y) = before(x)
        BY <3>2
      <4> HIDE DEF y
      <4>2. ~(x < y) /\ ~(y < x)
        BY <1>3, <2>1, <4>1
      <4>3. x = y
        BY <1>5, <4>1, <4>2
      <4> QED
        BY <4>3 DEF y
    <3> QED
      BY <1>8, <1>11, <3>1, <3>3 DEF HistoryElems
  <2>3. Len(page) = PullPage
    BY <1>3, <1>4, <1>8, <2>1, <2>2
  <2>4. ASSUME NEW i \in 1..length PROVE page[i] < x
    <3>1. page[i] \in due /\ before(page[i]) = i - 1
      BY <1>6
    <3>2. before(page[i]) < before(x)
      BY <1>4, <2>1, <2>2, <3>1
    <3>3. ~(x < page[i]) /\ x # page[i]
      BY <1>3, <2>1, <3>1, <3>2
    <3> QED
      BY <1>5, <3>1, <3>3
  <2> QED
    BY <2>3, <2>4
<1> QED
  BY <1>1, <1>8, <1>9, <1>10, <1>11 DEF due

(* The walk ends with everything that is due, and goes on after what it    *)
(* has.                                                                    *)
LEMMA HistoryEndsIs ==
    ASSUME NEW s, s \subseteq Nat, cursor \in Nat,
           NEW page, page = H!Page(s, cursor)
    PROVE  /\ page \in Seq(Nat) /\ HistoryElems(page) \subseteq HistoryDue(s, cursor)
              /\ HistorySorted(page)
           /\ H!Ends(page) => HistoryElems(page) = HistoryDue(s, cursor)
           /\ ~H!Ends(page) => /\ page[Len(page)] + 1 \in Nat \ {0}
                               /\ HistoryElems(page) = {x \in HistoryDue(s, cursor) :
                                  x < page[Len(page)] + 1}
<1>1. /\ page \in Seq(Nat) /\ HistoryElems(page) \subseteq HistoryDue(s, cursor)
         /\ HistorySorted(page)
      /\ \A x \in HistoryDue(s, cursor) :
            \/ x \in HistoryElems(page)
            \/ Len(page) = PullPage /\ \A i \in 1..Len(page) : page[i] < x
  BY HistoryPageIs
<1>2. Len(page) \in Nat /\ \A i \in 1..Len(page) : page[i] \in Nat /\ page[i] \in HistoryElems(page)
  BY <1>1 DEF HistoryElems
<1>3. \A x \in HistoryDue(s, cursor) : x \in Nat /\ cursor <= x /\ x <= PullEnd
  BY DEF HistoryDue
<1>4. ASSUME H!Ends(page), NEW x \in HistoryDue(s, cursor), x \notin HistoryElems(page) PROVE FALSE
  <2>1. Len(page) = PullPage /\ \A i \in 1..Len(page) : page[i] < x
    BY <1>1, <1>4
  <2>2. 1 \in 1..Len(page) /\ Len(page) \in 1..Len(page) /\ 1 < Len(page) /\ ~(Len(page) < PullFull)
    BY <1>2, <2>1, HistoryAssumption
  <2>3. page # <<>>
    BY <2>2
  <2>4. page[1] < page[Len(page)] /\ page[1] \in HistoryDue(s, cursor) /\ page[Len(page)] < x
    BY <1>1, <1>2, <2>1, <2>2 DEF HistorySorted
  <2>5. cursor < page[Len(page)] /\ page[Len(page)] \in Nat
    BY <1>2, <1>3, <2>2, <2>4
  <2>6. ~(page[Len(page)] + 1 > PullEnd)
    BY <1>3, <1>4, <2>4, <2>5, HistoryAssumption
  <2>7. ~(page[Len(page)] <= cursor)
    BY <2>5
  <2> QED
    BY <1>4, <2>2, <2>3, <2>6, <2>7 DEF H!Ends
<1>5. ASSUME ~H!Ends(page)
      PROVE  /\ page[Len(page)] + 1 \in Nat \ {0}
             /\ HistoryElems(page) = {x \in HistoryDue(s, cursor) : x < page[Len(page)] + 1}
  <2>1. page # <<>> /\ Len(page) \in 1..Len(page)
    BY <1>1, <1>2, <1>5 DEF H!Ends
  <2>2. page[Len(page)] \in Nat
    BY <1>2, <2>1
  <2>3. ASSUME NEW x \in HistoryElems(page)
                 PROVE x \in HistoryDue(s, cursor) /\ x < page[Len(page)] + 1
    <3>1. PICK i \in 1..Len(page) : x = page[i]
      BY DEF HistoryElems
    <3>2. i = Len(page) \/ i < Len(page)
      BY <1>2
    <3>3. x = page[Len(page)] \/ x < page[Len(page)]
      BY <1>1, <2>1, <3>1, <3>2 DEF HistorySorted
    <3> QED
      BY <1>1, <1>2, <2>2, <3>1, <3>3
  <2>4. ASSUME NEW x \in HistoryDue(s, cursor), x < page[Len(page)] + 1
                 PROVE x \in HistoryElems(page)
    <3>1. ~(page[Len(page)] < x)
      BY <1>3, <2>2, <2>4
    <3> QED
      BY <1>1, <2>1, <3>1
  <2> QED
    BY <2>2, <2>3, <2>4
<1> QED
  BY <1>1, <1>4, <1>5

-----------------------------------------------------------------------------
HistoryPhases == {"idle", "mids", "ctxs", "funding", "trades", "predicted", "book", "persist",
  "commit"}

HistoryTyped ==
    /\ hPc \in HistoryPhases
    /\ samples \in [H!CoinSet -> SUBSET (Nat \ {0})]
    /\ coin \in 1..Len(PullCoins) /\ cursor \in Nat \ {0}
    /\ pulled \in [H!CoinSet -> Seq(Nat)]
    /\ pulls \in Nat

(* What a coin has in the window, and a coin that has been asked.          *)
HistoryWindow(c) == {x \in samples[c] : x <= PullEnd}
HistoryWhole(c) == HistorySorted(pulled[c]) /\ HistoryElems(pulled[c]) = HistoryWindow(c)

(* Coins before the one asked for are whole, those after it untouched.     *)
HistoryPulling ==
    /\ hPc \in {"mids", "ctxs"} =>
           coin = 1 /\ cursor = 1 /\ \A i \in 1..Len(PullCoins) : pulled[PullCoins[i]] = <<>>
    /\ hPc = "funding" =>
           /\ \A i \in 1..Len(PullCoins) : /\ i < coin => HistoryWhole(PullCoins[i])
                                           /\ i > coin => pulled[PullCoins[i]] = <<>>
           /\ HistorySorted(pulled[H!Now])
           /\ HistoryElems(pulled[H!Now]) = {x \in HistoryWindow(H!Now) : x < cursor}
    /\ hPc = "trades" =>
           /\ cursor = 1
           /\ \A i \in 1..Len(PullCoins) : /\ i <= coin => HistoryWhole(PullCoins[i])
                                           /\ i > coin => pulled[PullCoins[i]] = <<>>
    /\ hPc \in {"predicted", "book", "persist", "commit"} =>
           \A i \in 1..Len(PullCoins) : HistoryWhole(PullCoins[i])
    /\ hPc = "predicted" => coin = 1

HistoryHasRow(c, m) == <<c, m>> \in DOMAIN hRows

(* The rows that are there once a call is done.                            *)
HistoryRowed ==
    /\ hPc \in HistoryPhases \ {"idle", "mids"} => \A c \in H!CoinSet : HistoryHasRow(c, "mid_px")
    /\ hPc \in HistoryPhases \ {"idle", "mids", "ctxs"} =>
           \A c \in H!CoinSet : HistoryHasRow(c, "universe") /\ HistoryHasRow(c, "basis")
    /\ hPc \in {"book", "persist", "commit"}
       => \A c \in H!CoinSet : HistoryHasRow(c, "predicted_funding")
    /\ hPc = "book" => \A i \in 1..Len(PullCoins) : i < coin
       => HistoryHasRow(PullCoins[i], "l2_spread")
    /\ hPc \in {"persist", "commit"} => \A c \in H!CoinSet : HistoryHasRow(c, "l2_spread")
    /\ \A p \in DOMAIN hRows : hRows[p] \in {"value", "missing", "status"}
    /\ H!ValueIsAnswered

(* A set of observations has a row of a run for each coin and metric.      *)
HistoryHasRun(o, r) == \A c \in H!CoinSet, m \in H!Metrics :
                          \E v \in {"value", "missing", "status"} : <<r, c, m, v>> \in o

HistoryKept ==
    /\ \A o \in durable : o[1] \in Nat /\ o[1] <= pulls /\ HistoryHasRun(durable, o[1])
    /\ hPc # "idle" => \A o \in durable : o[1] < pulls
    /\ hPc # "commit" => hSession = {}
    /\ hPc = "commit" => HistoryHasRun(hSession, pulls) /\ \A o \in hSession : o[1] = pulls

HistoryIInv == HistoryTyped /\ HistoryPulling /\ HistoryRowed /\ HistoryKept

LEMMA HistoryCoinsAre == /\ Len(PullCoins) \in Nat \ {0}
                         /\ \A i \in 1..Len(PullCoins) : PullCoins[i] \in H!CoinSet
                         /\ \A c \in H!CoinSet : \E i \in 1..Len(PullCoins) : PullCoins[i] = c
<1>1. Len(PullCoins) \in Nat \ {0}
  BY HistoryAssumption
<1>2. \A i \in 1..Len(PullCoins) : PullCoins[i] \in H!CoinSet
  BY HistoryAssumption DEF H!CoinSet
<1>3. \A c \in H!CoinSet : \E i \in 1..Len(PullCoins) : PullCoins[i] = c
  BY DEF H!CoinSet
<1> QED
  BY <1>1, <1>2, <1>3

LEMMA HistoryEmptyIs == HistorySorted(<<>>) /\ HistoryElems(<<>>) = {} /\ <<>> \in Seq(Nat)
  BY DEF HistorySorted, HistoryElems

(* A row for each pair, and the others as they were.                       *)
LEMMA HistorySetIs ==
    ASSUME NEW f, NEW pairs, NEW v
    PROVE  /\ DOMAIN H!Set(f, pairs, v) = DOMAIN f \cup pairs
           /\ \A p \in DOMAIN f \cup pairs : H!Set(f, pairs, v)[p] = IF p \in pairs THEN v ELSE f[p]
  BY DEF H!Set

LEMMA HistoryNormalisedIs ==
    ASSUME NEW f, NEW metric, NEW some \in SUBSET H!CoinSet
    PROVE  /\ DOMAIN H!Normalised(f, metric, some) = DOMAIN f \cup {<<c, metric>> : c \in H!CoinSet}
           /\ \A p \in DOMAIN H!Normalised(f, metric, some) :
                 \/ p \in {<<c, metric>> : c \in some} /\ H!Normalised(f, metric, some)[p] = "value"
                 \/ H!Normalised(f, metric, some)[p] = "missing"
                 \/ p \in DOMAIN f /\ H!Normalised(f, metric, some)[p] = f[p]
<1> DEFINE good == {<<c, metric>> : c \in some}
           bad == {<<c, metric>> : c \in H!CoinSet \ some}
           g == H!Set(f, good, "value")
<1>2. H!Normalised(f, metric, some) = H!Set(g, bad, "missing")
  BY DEF H!Normalised
<1>3. good \cup bad = {<<c, metric>> : c \in H!CoinSet}
  OBVIOUS
<1> HIDE DEF good, bad
<1>1. DOMAIN g = DOMAIN f \cup good /\ \A p \in DOMAIN g : g[p] = IF p \in good THEN "value"
        ELSE f[p]
  BY DEF H!Set
<1> HIDE DEF g
<1>4. /\ DOMAIN H!Normalised(f, metric, some) = DOMAIN g \cup bad
      /\ \A p \in DOMAIN g \cup bad :
            H!Normalised(f, metric, some)[p] = IF p \in bad THEN "missing" ELSE g[p]
  BY <1>2 DEF H!Set
<1>5. \A p \in DOMAIN g \cup bad :
          \/ p \in good /\ H!Normalised(f, metric, some)[p] = "value"
          \/ H!Normalised(f, metric, some)[p] = "missing"
          \/ p \in DOMAIN f /\ H!Normalised(f, metric, some)[p] = f[p]
  BY <1>1, <1>4
<1> QED
  BY <1>1, <1>3, <1>4, <1>5 DEF good

LEMMA HistoryInitIInv == H!Init => HistoryIInv
<1> SUFFICES ASSUME H!Init PROVE HistoryIInv
  OBVIOUS
<1>1. HistoryTyped
  BY HistoryCoinsAre, HistoryEmptyIs, HistoryAssumption DEF H!Init, HistoryTyped, HistoryPhases
<1>2. HistoryPulling
  BY DEF H!Init, HistoryPulling
<1>3. HistoryRowed
  BY DEF H!Init, HistoryRowed, H!ValueIsAnswered, H!Nothing
<1>4. HistoryKept
  BY DEF H!Init, HistoryKept
<1> QED
  BY <1>1, <1>2, <1>3, <1>4 DEF HistoryIInv

LEMMA HistoryStartKeeps == HistoryIInv /\ H!Start => HistoryIInv'
<1> SUFFICES ASSUME HistoryIInv, H!Start PROVE HistoryIInv'
  OBVIOUS
<1> USE DEF HistoryIInv
<1>1. HistoryTyped'
  BY HistoryCoinsAre, HistoryEmptyIs DEF H!Start, HistoryTyped, HistoryPhases
<1>2. HistoryPulling'
  BY HistoryCoinsAre DEF H!Start, HistoryPulling
<1>3. HistoryRowed'
  BY DEF H!Start, HistoryRowed, H!ValueIsAnswered, H!Nothing, HistoryPhases
<1>4. HistoryKept'
  BY DEF H!Start, HistoryKept, HistoryHasRun, HistoryTyped
<1> QED
  BY <1>1, <1>2, <1>3, <1>4

LEMMA HistoryMidsKeeps == ASSUME NEW found \in SUBSET H!CoinSet PROVE HistoryIInv /\ H!Mids(found)
  => HistoryIInv'
<1> SUFFICES ASSUME HistoryIInv, H!Mids(found) PROVE HistoryIInv'
  OBVIOUS
<1> USE DEF HistoryIInv
<1>1. HistoryTyped'
  BY DEF H!Mids, HistoryTyped, HistoryPhases
<1>2. HistoryPulling'
  BY DEF H!Mids, HistoryPulling
<1>3. HistoryRowed'
  <2> DEFINE f == H!Normalised(hRows, "mid_px", found)
  <2>0. hRows' = f
    BY DEF H!Mids
  <2>1. /\ DOMAIN f = DOMAIN hRows \cup {<<c, "mid_px">> : c \in H!CoinSet}
        /\ \A p \in DOMAIN f : \/ p \in {<<c, "mid_px">> : c \in found} /\ f[p] = "value"
                               \/ f[p] = "missing"
                               \/ p \in DOMAIN hRows /\ f[p] = hRows[p]
    BY HistoryNormalisedIs
  <2> HIDE DEF f
  <2>2. \A c \in H!CoinSet : HistoryHasRow(c, "mid_px")'
    BY <2>0, <2>1 DEF HistoryHasRow
  <2>3. H!ValueIsAnswered' /\ \A p \in DOMAIN hRows' : hRows'[p] \in {"value", "missing", "status"}
    BY <2>0, <2>1 DEF H!Mids, HistoryRowed, H!ValueIsAnswered
  <2> QED
    BY <2>2, <2>3 DEF H!Mids, HistoryRowed, HistoryPhases
<1>4. HistoryKept'
  BY DEF H!Mids, HistoryKept, HistoryHasRun
<1> QED
  BY <1>1, <1>2, <1>3, <1>4

LEMMA HistoryContextsKeeps ==
    ASSUME NEW onList \in SUBSET H!CoinSet, NEW priced \in SUBSET H!CoinSet
    PROVE  HistoryIInv /\ H!Contexts(onList, priced) => HistoryIInv'
<1> SUFFICES ASSUME HistoryIInv, H!Contexts(onList, priced) PROVE HistoryIInv'
  OBVIOUS
<1> USE DEF HistoryIInv
<1>1. HistoryTyped'
  BY DEF H!Contexts, HistoryTyped, HistoryPhases
<1>2. HistoryPulling'
  <2>1. \A i \in 1..Len(PullCoins) : PullCoins[i] \in H!CoinSet
          /\ samples[PullCoins[i]] \subseteq Nat \ {0}
    BY HistoryCoinsAre DEF HistoryTyped
  <2>2. /\ coin' = 1 /\ cursor' = 1 /\ hPc' = "funding" /\ samples' = samples
        /\ \A i \in 1..Len(PullCoins) : pulled'[PullCoins[i]] = <<>>
    BY DEF H!Contexts, HistoryPulling
  <2>3. H!Now' = PullCoins[1] /\ 1 \in 1..Len(PullCoins)
    BY <2>2, HistoryCoinsAre DEF H!Now
  <2>4. HistorySorted(pulled'[H!Now']) /\ HistoryElems(pulled'[H!Now']) = {}
    BY <2>2, <2>3, HistoryEmptyIs
  <2>5. {x \in HistoryWindow(H!Now') : x < 1} = {}
    BY <2>1, <2>3 DEF HistoryWindow
  <2>6. HistoryElems(pulled'[H!Now']) = {x \in HistoryWindow(H!Now)' : x < cursor'}
    BY <2>2, <2>4, <2>5 DEF HistoryWindow
  <2>7. \A i \in 1..Len(PullCoins) : ~(i < coin')
    BY <2>2
  <2> QED
    BY <2>2, <2>4, <2>6, <2>7 DEF HistoryPulling
<1>3. HistoryRowed'
  <2> DEFINE f == H!Normalised(hRows, "universe", onList)
             g == H!Normalised(f, "basis", priced)
  <2>0. hRows' = g
    BY DEF H!Contexts
  <2>1. /\ DOMAIN f = DOMAIN hRows \cup {<<c, "universe">> : c \in H!CoinSet}
        /\ \A p \in DOMAIN f : \/ p \in {<<c, "universe">> : c \in onList} /\ f[p] = "value"
                               \/ f[p] = "missing"
                               \/ p \in DOMAIN hRows /\ f[p] = hRows[p]
    BY HistoryNormalisedIs
  <2>2. /\ DOMAIN g = DOMAIN f \cup {<<c, "basis">> : c \in H!CoinSet}
        /\ \A p \in DOMAIN g : \/ p \in {<<c, "basis">> : c \in priced} /\ g[p] = "value"
                               \/ g[p] = "missing"
                               \/ p \in DOMAIN f /\ g[p] = f[p]
    BY HistoryNormalisedIs
  <2> HIDE DEF g
  <2> HIDE DEF f
  <2>3. \A c \in H!CoinSet : HistoryHasRow(c, "mid_px")' /\ HistoryHasRow(c, "universe")'
          /\ HistoryHasRow(c, "basis")'
    <3>1. \A c \in H!CoinSet : HistoryHasRow(c, "mid_px")
      BY DEF H!Contexts, HistoryRowed, HistoryPhases
    <3> QED
      BY <2>0, <2>1, <2>2, <3>1 DEF HistoryHasRow
  <2>4. H!ValueIsAnswered' /\ \A p \in DOMAIN hRows' : hRows'[p] \in {"value", "missing", "status"}
    <3>1. answered' = answered \cup {<<c, "universe">> : c \in onList}
                      \cup {<<c, "basis">> : c \in priced}
      BY DEF H!Contexts
    <3>2. \A p \in DOMAIN f : /\ f[p] \in {"value", "missing", "status"}
                              /\ f[p] = "value" => p \in answered'
      BY <2>1, <3>1 DEF HistoryRowed, H!ValueIsAnswered
    <3>3. \A p \in DOMAIN g : /\ g[p] \in {"value", "missing", "status"}
                              /\ g[p] = "value" => p \in answered'
      BY <2>2, <3>1, <3>2
    <3> QED
      BY <2>0, <3>3 DEF H!ValueIsAnswered
  <2> QED
    BY <2>3, <2>4 DEF H!Contexts, HistoryRowed, HistoryPhases
<1>4. HistoryKept'
  BY DEF H!Contexts, HistoryKept, HistoryHasRun
<1> QED
  BY <1>1, <1>2, <1>3, <1>4

(* A page goes behind what is pulled of the coin, and leaves the others.   *)
LEMMA HistoryFundingKeeps == HistoryIInv /\ H!Funding => HistoryIInv'
<1> SUFFICES ASSUME HistoryIInv, H!Funding PROVE HistoryIInv'
  OBVIOUS
<1> USE DEF HistoryIInv
<1> DEFINE page == H!Page(samples[H!Now], cursor)
           last == page[Len(page)] + 1
<1>1. /\ H!Now \in H!CoinSet /\ H!Now = PullCoins[coin] /\ coin \in 1..Len(PullCoins)
      /\ samples[H!Now] \subseteq Nat \ {0} /\ samples[H!Now] \subseteq Nat /\ cursor \in Nat
      /\ pulled[H!Now] \in Seq(Nat) /\ pulled \in [H!CoinSet -> Seq(Nat)]
  BY HistoryCoinsAre DEF HistoryTyped, H!Now
<1>2. /\ pulled' = [pulled EXCEPT ![H!Now] = @ \o page]
      /\ IF H!Ends(page) THEN hPc' = "trades" /\ cursor' = 1 ELSE hPc' = hPc /\ cursor' = last
      /\ hPc = "funding"
  BY DEF H!Funding
<1>3. /\ page \in Seq(Nat) /\ HistoryElems(page) \subseteq HistoryDue(samples[H!Now], cursor)
         /\ HistorySorted(page)
      /\ H!Ends(page) => HistoryElems(page) = HistoryDue(samples[H!Now], cursor)
      /\ ~H!Ends(page) => /\ last \in Nat \ {0}
                          /\ HistoryElems(page) = {x \in HistoryDue(samples[H!Now], cursor) :
                             x < last}
  BY <1>1, HistoryEndsIs
<1> HIDE DEF page
<1>4. /\ HistorySorted(pulled[H!Now])
      /\ HistoryElems(pulled[H!Now]) = {x \in HistoryWindow(H!Now) : x < cursor}
  BY <1>2 DEF HistoryPulling
<1>5. /\ pulled[H!Now] \o page \in Seq(Nat) /\ HistorySorted(pulled[H!Now] \o page)
      /\ HistoryElems(pulled[H!Now] \o page) = HistoryElems(pulled[H!Now]) \cup HistoryElems(page)
  <2>1. \A i \in 1..Len(pulled[H!Now]), j \in 1..Len(page) : pulled[H!Now][i] < page[j]
    <3> SUFFICES ASSUME NEW i \in 1..Len(pulled[H!Now]), NEW j \in 1..Len(page)
                 PROVE  pulled[H!Now][i] < page[j]
      OBVIOUS
    <3>1. pulled[H!Now][i] \in HistoryElems(pulled[H!Now]) /\ page[j] \in HistoryElems(page)
      BY DEF HistoryElems
    <3>2. pulled[H!Now][i] < cursor /\ cursor <= page[j] /\ pulled[H!Now][i] \in Nat
            /\ page[j] \in Nat
      BY <1>1, <1>3, <1>4, <3>1 DEF HistoryDue, HistoryWindow
    <3> QED
      BY <1>1, <3>2
  <2> QED
    BY <1>1, <1>3, <1>4, <2>1, HistoryConcatIs
<1>6. /\ pulled' \in [H!CoinSet -> Seq(Nat)] /\ pulled'[H!Now] = pulled[H!Now] \o page
      /\ \A i \in 1..Len(PullCoins) : i # coin => pulled'[PullCoins[i]] = pulled[PullCoins[i]]
  <2>1. \A i \in 1..Len(PullCoins) : i # coin => PullCoins[i] # H!Now /\ PullCoins[i] \in H!CoinSet
    BY <1>1, HistoryCoinsAre, HistoryAssumption
  <2> QED
    BY <1>1, <1>2, <1>5, <2>1
<1>7. HistoryTyped'
  BY <1>1, <1>2, <1>3, <1>6 DEF H!Funding, HistoryTyped, HistoryPhases
<1>8. samples' = samples /\ coin' = coin /\ H!Now' = H!Now
        /\ (\A c : HistoryWindow(c)' = HistoryWindow(c))
  BY DEF H!Funding, H!Now, HistoryWindow
<1>9. \A x \in HistoryWindow(H!Now) : x \in Nat
        /\ (x < cursor \/ x \in HistoryDue(samples[H!Now], cursor))
  BY <1>1 DEF HistoryWindow, HistoryDue
<1>10. HistoryDue(samples[H!Now], cursor) \subseteq HistoryWindow(H!Now)
  BY DEF HistoryDue, HistoryWindow
<1>11. \A i \in 1..Len(PullCoins) : /\ i < coin => HistoryWhole(PullCoins[i])'
                                    /\ i > coin => pulled'[PullCoins[i]] = <<>>
  <2>1. \A i \in 1..Len(PullCoins) : i < coin \/ i > coin => i # coin
    BY <1>1
  <2> QED
    BY <1>2, <1>6, <1>8, <2>1 DEF HistoryPulling, HistoryWhole
<1>12. CASE H!Ends(page)
  <2>1. HistoryElems(pulled'[H!Now]) = HistoryWindow(H!Now)
    <3>1. HistoryElems(page) = HistoryDue(samples[H!Now], cursor)
      BY <1>3, <1>12
    <3>2. HistoryElems(pulled'[H!Now]) = {x \in HistoryWindow(H!Now) : x < cursor}
            \cup HistoryDue(samples[H!Now], cursor)
      BY <1>4, <1>5, <1>6, <3>1
    <3> QED
      BY <1>9, <1>10, <3>2
  <2>2. \A i \in 1..Len(PullCoins) : i = coin => HistoryWhole(PullCoins[i])'
    <3>1. HistorySorted(pulled'[H!Now]) /\ HistoryElems(pulled'[H!Now]) = HistoryWindow(H!Now)'
            /\ H!Now' = PullCoins[coin]
      BY <1>1, <1>5, <1>6, <1>8, <2>1
    <3> QED
      BY <1>1, <1>8, <3>1 DEF HistoryWhole
  <2>3. \A i \in 1..Len(PullCoins) : i <= coin => i < coin \/ i = coin
    BY <1>1
  <2>4. \A i \in 1..Len(PullCoins) : i <= coin => HistoryWhole(PullCoins[i])'
    BY <1>11, <2>2, <2>3
  <2> QED
    <3>1. HistoryPulling'
      BY <1>2, <1>8, <1>11, <1>12, <2>4 DEF HistoryPulling
    <3>2. HistoryRowed'
      BY <1>2, <1>12 DEF H!Funding, HistoryRowed, HistoryPhases, HistoryHasRow, H!ValueIsAnswered
    <3>3. HistoryKept'
      BY <1>2, <1>12 DEF H!Funding, HistoryKept, HistoryHasRun
    <3> QED
      BY <1>7, <3>1, <3>2, <3>3
<1>13. CASE ~H!Ends(page)
  <2>1. cursor' = last /\ hPc' = "funding" /\ cursor <= last
    <3>1. page # <<>> /\ Len(page) \in 1..Len(page)
      BY <1>3, <1>13 DEF H!Ends
    <3>2. page[Len(page)] \in HistoryDue(samples[H!Now], cursor)
      BY <1>3, <3>1 DEF HistoryElems
    <3>3. page[Len(page)] \in Nat /\ cursor <= page[Len(page)]
      BY <1>1, <3>2 DEF HistoryDue
    <3> QED
      BY <1>1, <1>2, <1>13, <3>3
  <2>2. \A x \in HistoryDue(samples[H!Now], cursor) : x \in HistoryWindow(H!Now)
    BY <1>10
  <2>3. \A x \in HistoryWindow(H!Now) : x < cursor => x < last
    BY <1>1, <1>3, <1>9, <1>13, <2>1
  <2>4. HistoryElems(pulled'[H!Now]) = {x \in HistoryWindow(H!Now) : x < last}
    BY <1>3, <1>4, <1>5, <1>6, <1>9, <1>13, <2>2, <2>3
  <2> QED
    <3>1. HistoryPulling'
      BY <1>5, <1>6, <1>8, <1>11, <2>1, <2>4 DEF HistoryPulling
    <3>2. HistoryRowed'
      BY <1>2, <2>1 DEF H!Funding, HistoryRowed, HistoryPhases, HistoryHasRow, H!ValueIsAnswered
    <3>3. HistoryKept'
      BY <1>2, <2>1 DEF H!Funding, HistoryKept, HistoryHasRun
    <3> QED
      BY <1>7, <3>1, <3>2, <3>3
<1> QED
  BY <1>12, <1>13

(* What the vendor adds is after the window.                               *)
LEMMA HistorySampleKeeps == ASSUME NEW c \in H!CoinSet PROVE HistoryIInv /\ H!Sample(c)
  => HistoryIInv'
<1> SUFFICES ASSUME HistoryIInv, H!Sample(c) PROVE HistoryIInv'
  OBVIOUS
<1> USE DEF HistoryIInv
<1>1. PICK h \in PullHistories :
          /\ samples[c] \subseteq h
          /\ \A x \in h \ samples[c] : x > PullEnd
          /\ samples' = [samples EXCEPT ![c] = h]
  BY DEF H!Sample
<1>2. h \subseteq Nat \ {0} /\ PullEnd \in Nat
  BY HistoryAssumption
<1>3. /\ samples' \in [H!CoinSet -> SUBSET (Nat \ {0})]
      /\ \A d \in H!CoinSet : samples'[d] = IF d = c THEN h ELSE samples[d]
  BY <1>1, <1>2 DEF HistoryTyped
<1>4. /\ UNCHANGED <<hPc, coin, cursor, pulled, hRows, answered, hSession, durable, pulls>>
  BY DEF H!Sample
<1>5. \A d \in H!CoinSet : HistoryWindow(d)' = HistoryWindow(d)
  <2>1. \A x \in h : x <= PullEnd => x \in samples[c]
    BY <1>1, <1>2
  <2> QED
    BY <1>1, <1>3, <2>1 DEF HistoryWindow
<1>6. HistoryTyped'
  BY <1>3, <1>4 DEF HistoryTyped
<1>7. HistoryPulling'
  <2>1. \A i \in 1..Len(PullCoins) : HistoryWindow(PullCoins[i])' = HistoryWindow(PullCoins[i])
    BY <1>5, HistoryCoinsAre
  <2>2. \A i \in 1..Len(PullCoins) : HistoryWhole(PullCoins[i])' <=> HistoryWhole(PullCoins[i])
    BY <1>4, <2>1 DEF HistoryWhole
  <2>3. H!Now' = H!Now /\ HistoryWindow(H!Now)' = HistoryWindow(H!Now)
    <3>1. H!Now' = H!Now /\ H!Now \in H!CoinSet
      BY <1>4, HistoryCoinsAre DEF H!Now, HistoryTyped
    <3> QED
      BY <1>4, <1>5, <3>1 DEF HistoryWindow
  <2> QED
    BY <1>4, <2>2, <2>3 DEF HistoryPulling
<1>8. HistoryRowed'
  BY <1>4 DEF HistoryRowed, HistoryHasRow, H!ValueIsAnswered
<1>9. HistoryKept'
  BY <1>4 DEF HistoryKept, HistoryHasRun
<1> QED
  BY <1>6, <1>7, <1>8, <1>9

LEMMA HistoryTradesKeeps == HistoryIInv /\ H!Trades => HistoryIInv'
<1> SUFFICES ASSUME HistoryIInv, H!Trades PROVE HistoryIInv'
  OBVIOUS
<1> USE DEF HistoryIInv
<1>1. /\ hPc = "trades" /\ samples' = samples /\ cursor' = cursor /\ pulled' = pulled
      /\ IF coin < Len(PullCoins) THEN hPc' = "funding" /\ coin' = coin + 1
                                  ELSE hPc' = "predicted" /\ coin' = 1
  BY DEF H!Trades
<1>2. coin \in 1..Len(PullCoins) /\ Len(PullCoins) \in Nat \ {0} /\ cursor = 1
  BY <1>1, HistoryCoinsAre DEF HistoryTyped, HistoryPulling
<1>3. \A i \in 1..Len(PullCoins) : HistoryWhole(PullCoins[i])' <=> HistoryWhole(PullCoins[i])
  BY <1>1 DEF HistoryWhole, HistoryWindow
<1>4. HistoryTyped'
  BY <1>1, <1>2 DEF HistoryTyped, HistoryPhases, H!Trades
<1>5. HistoryPulling'
  <2>1. CASE coin < Len(PullCoins)
    <3>1. /\ hPc' = "funding" /\ coin' = coin + 1 /\ coin' \in 1..Len(PullCoins) /\ coin' > coin
          /\ cursor' = 1
      BY <1>1, <1>2, <2>1
    <3>2. \A i \in 1..Len(PullCoins) : (i < coin' => i <= coin) /\ (i > coin' => i > coin)
      BY <1>2, <3>1
    <3>3. \A i \in 1..Len(PullCoins) : /\ i < coin' => HistoryWhole(PullCoins[i])'
                                       /\ i > coin' => pulled'[PullCoins[i]] = <<>>
      BY <1>1, <1>3, <3>2 DEF HistoryPulling
    <3>4. pulled'[H!Now'] = <<>> /\ H!Now' = PullCoins[coin'] /\ H!Now' \in H!CoinSet
      BY <1>1, <3>1, HistoryCoinsAre DEF HistoryPulling, H!Now
    <3>5. {x \in HistoryWindow(H!Now') : x < 1} = {}
      BY <3>4 DEF HistoryWindow, HistoryTyped
    <3>6. HistorySorted(pulled'[H!Now'])
            /\ HistoryElems(pulled'[H!Now']) = {x \in HistoryWindow(H!Now)' : x < cursor'}
      BY <1>1, <3>1, <3>4, <3>5, HistoryEmptyIs DEF HistoryWindow
    <3> QED
      BY <3>1, <3>3, <3>6 DEF HistoryPulling
  <2>2. CASE ~(coin < Len(PullCoins))
    <3>1. hPc' = "predicted" /\ coin' = 1 /\ \A i \in 1..Len(PullCoins) : i <= coin
      BY <1>1, <1>2, <2>2
    <3> QED
      BY <1>1, <1>3, <3>1 DEF HistoryPulling
  <2> QED
    BY <2>1, <2>2
<1>6. HistoryRowed'
  BY <1>1 DEF H!Trades, HistoryRowed, HistoryHasRow, H!ValueIsAnswered, HistoryPhases
<1>7. HistoryKept'
  BY <1>1 DEF H!Trades, HistoryKept, HistoryHasRun
<1> QED
  BY <1>4, <1>5, <1>6, <1>7

(* The calls that leave the samples alone.                                 *)
LEMMA HistoryWholeStays == samples' = samples /\ pulled' = pulled => \A c : HistoryWhole(c)'
  <=> HistoryWhole(c)
  BY DEF HistoryWhole, HistoryWindow

LEMMA HistoryPredictedKeeps == ASSUME NEW found \in SUBSET H!CoinSet
  PROVE HistoryIInv /\ H!Predicted(found) => HistoryIInv'
<1> SUFFICES ASSUME HistoryIInv, H!Predicted(found) PROVE HistoryIInv'
  OBVIOUS
<1> USE DEF HistoryIInv
<1>1. HistoryTyped'
  BY DEF H!Predicted, HistoryTyped, HistoryPhases
<1>2. HistoryPulling'
  BY HistoryWholeStays DEF H!Predicted, HistoryPulling
<1>3. HistoryRowed'
  <2> DEFINE f == H!Normalised(hRows, "predicted_funding", found)
  <2>0. hRows' = f
    BY DEF H!Predicted
  <2>1. /\ DOMAIN f = DOMAIN hRows \cup {<<c, "predicted_funding">> : c \in H!CoinSet}
        /\ \A p \in DOMAIN f : \/ p \in {<<c, "predicted_funding">> : c \in found} /\ f[p] = "value"
                               \/ f[p] = "missing"
                               \/ p \in DOMAIN hRows /\ f[p] = hRows[p]
    BY HistoryNormalisedIs
  <2> HIDE DEF f
  <2>2. \A c \in H!CoinSet : \A m : HistoryHasRow(c, m) => HistoryHasRow(c, m)'
    BY <2>0, <2>1 DEF HistoryHasRow
  <2>3. \A c \in H!CoinSet : HistoryHasRow(c, "predicted_funding")'
    BY <2>0, <2>1 DEF HistoryHasRow
  <2>4. H!ValueIsAnswered' /\ \A p \in DOMAIN hRows' : hRows'[p] \in {"value", "missing", "status"}
    BY <2>0, <2>1 DEF H!Predicted, HistoryRowed, H!ValueIsAnswered
  <2>5. hPc = "predicted" /\ hPc' = "book" /\ \A i \in 1..Len(PullCoins) : ~(i < coin')
    BY DEF H!Predicted, HistoryPulling
  <2> QED
    BY <2>2, <2>3, <2>4, <2>5 DEF HistoryRowed, HistoryPhases
<1>4. HistoryKept'
  BY DEF H!Predicted, HistoryKept, HistoryHasRun
<1> QED
  BY <1>1, <1>2, <1>3, <1>4

LEMMA HistoryPredictedFailsKeeps == HistoryIInv /\ H!PredictedFails => HistoryIInv'
<1> SUFFICES ASSUME HistoryIInv, H!PredictedFails PROVE HistoryIInv'
  OBVIOUS
<1> USE DEF HistoryIInv
<1>1. HistoryTyped'
  BY DEF H!PredictedFails, HistoryTyped, HistoryPhases
<1>2. HistoryPulling'
  BY HistoryWholeStays DEF H!PredictedFails, HistoryPulling
<1>3. HistoryRowed'
  <2> DEFINE pairs == {<<c, "predicted_funding">> : c \in H!CoinSet}
  <2>1. /\ DOMAIN hRows' = DOMAIN hRows \cup pairs
        /\ \A p \in DOMAIN hRows \cup pairs : hRows'[p] = IF p \in pairs THEN "status" ELSE hRows[p]
    <3>1. hRows' = H!Set(hRows, pairs, "status")
      BY DEF H!PredictedFails
    <3> HIDE DEF pairs
    <3>2. /\ DOMAIN H!Set(hRows, pairs, "status") = DOMAIN hRows \cup pairs
          /\ \A p \in DOMAIN hRows \cup pairs :
                H!Set(hRows, pairs, "status")[p] = IF p \in pairs THEN "status" ELSE hRows[p]
      BY HistorySetIs
    <3> QED
      BY <3>1, <3>2
  <2>2. \A c \in H!CoinSet : \A m : HistoryHasRow(c, m) => HistoryHasRow(c, m)'
    BY <2>1 DEF HistoryHasRow
  <2>3. \A c \in H!CoinSet : HistoryHasRow(c, "predicted_funding")'
    BY <2>1 DEF HistoryHasRow
  <2> HIDE DEF pairs
  <2>4. H!ValueIsAnswered' /\ \A p \in DOMAIN hRows' : hRows'[p] \in {"value", "missing", "status"}
    BY <2>1 DEF H!PredictedFails, HistoryRowed, H!ValueIsAnswered
  <2>5. hPc = "predicted" /\ hPc' = "book" /\ \A i \in 1..Len(PullCoins) : ~(i < coin')
    BY DEF H!PredictedFails, HistoryPulling
  <2> QED
    BY <2>2, <2>3, <2>4, <2>5 DEF HistoryRowed, HistoryPhases
<1>4. HistoryKept'
  BY DEF H!PredictedFails, HistoryKept, HistoryHasRun
<1> QED
  BY <1>1, <1>2, <1>3, <1>4

LEMMA HistoryBookKeeps == ASSUME NEW quoted \in BOOLEAN PROVE HistoryIInv /\ H!Book(quoted)
  => HistoryIInv'
<1> SUFFICES ASSUME HistoryIInv, H!Book(quoted) PROVE HistoryIInv'
  OBVIOUS
<1> USE DEF HistoryIInv
<1>1. /\ hPc = "book" /\ coin \in 1..Len(PullCoins) /\ H!Now = PullCoins[coin]
         /\ Len(PullCoins) \in Nat
      /\ IF coin < Len(PullCoins) THEN hPc' = hPc /\ coin' = coin + 1
         ELSE hPc' = "persist" /\ coin' = 1
      /\ UNCHANGED <<samples, cursor, pulled, hSession, durable, pulls>>
  BY HistoryCoinsAre DEF H!Book, HistoryTyped, H!Now
<1>2. HistoryTyped'
  BY <1>1 DEF HistoryTyped, HistoryPhases
<1>3. HistoryPulling'
  BY <1>1, HistoryWholeStays DEF HistoryPulling
<1>4. HistoryRowed'
  <2> DEFINE v == IF quoted THEN "value" ELSE "missing"
  <2>1. /\ DOMAIN hRows' = DOMAIN hRows \cup {<<H!Now, "l2_spread">>}
        /\ \A p \in DOMAIN hRows \cup {<<H!Now, "l2_spread">>} :
              hRows'[p] = IF p \in {<<H!Now, "l2_spread">>} THEN v ELSE hRows[p]
        /\ answered' = IF quoted THEN answered \cup {<<H!Now, "l2_spread">>} ELSE answered
    <3> DEFINE one == {<<H!Now, "l2_spread">>}
    <3>1. /\ hRows' = H!Set(hRows, one, v)
          /\ answered' = IF quoted THEN answered \cup one ELSE answered
      BY DEF H!Book
    <3> HIDE DEF one, v
    <3>2. /\ DOMAIN H!Set(hRows, one, v) = DOMAIN hRows \cup one
          /\ \A p \in DOMAIN hRows \cup one : H!Set(hRows, one, v)[p] = IF p \in one THEN v
             ELSE hRows[p]
      BY HistorySetIs
    <3> QED
      BY <3>1, <3>2 DEF one
  <2>2. v \in {"value", "missing", "status"} /\ (v = "value" => quoted)
    OBVIOUS
  <2> HIDE DEF v
  <2>3. \A c, m : HistoryHasRow(c, m) => HistoryHasRow(c, m)'
    BY <2>1 DEF HistoryHasRow
  <2>4. \A i \in 1..Len(PullCoins) : i = coin => HistoryHasRow(PullCoins[i], "l2_spread")'
    BY <1>1, <2>1 DEF HistoryHasRow
  <2>5. H!ValueIsAnswered' /\ \A p \in DOMAIN hRows' : hRows'[p] \in {"value", "missing", "status"}
    BY <2>1, <2>2 DEF HistoryRowed, H!ValueIsAnswered
  <2>6. \A i \in 1..Len(PullCoins) : i <= coin => HistoryHasRow(PullCoins[i], "l2_spread")'
    <3>1. \A i \in 1..Len(PullCoins) : i <= coin => i < coin \/ i = coin
      BY <1>1
    <3> QED
      BY <1>1, <2>3, <2>4, <3>1 DEF HistoryRowed
  <2>7. CASE coin < Len(PullCoins)
    <3>1. hPc' = "book" /\ \A i \in 1..Len(PullCoins) : i < coin' => i <= coin
      BY <1>1, <2>7
    <3> QED
      BY <1>1, <2>3, <2>5, <2>6, <3>1 DEF HistoryRowed, HistoryPhases
  <2>8. CASE ~(coin < Len(PullCoins))
    <3>1. hPc' = "persist" /\ \A i \in 1..Len(PullCoins) : i <= coin
      BY <1>1, <2>8
    <3>2. \A c \in H!CoinSet : HistoryHasRow(c, "l2_spread")'
      BY <2>6, <3>1, HistoryCoinsAre
    <3> QED
      BY <1>1, <2>3, <2>5, <3>1, <3>2 DEF HistoryRowed, HistoryPhases
  <2> QED
    BY <2>7, <2>8
<1>5. HistoryKept'
  BY <1>1 DEF HistoryKept, HistoryHasRun
<1> QED
  BY <1>2, <1>3, <1>4, <1>5

(* Everything collected is in the session: with what the calls left, a row *)
(* of each metric for each coin.                                           *)
LEMMA HistoryPersistKeeps == HistoryIInv /\ H!Persist => HistoryIInv'
<1> SUFFICES ASSUME HistoryIInv, H!Persist PROVE HistoryIInv'
  OBVIOUS
<1> USE DEF HistoryIInv
<1>1. /\ hPc = "persist" /\ hPc' = "commit"
      /\ UNCHANGED <<coin, samples, cursor, pulled, hRows, answered, durable, pulls>>
  BY DEF H!Persist
<1>2. HistoryTyped'
  BY <1>1 DEF HistoryTyped, HistoryPhases
<1>3. HistoryPulling'
  BY <1>1, HistoryWholeStays DEF HistoryPulling
<1>4. HistoryRowed'
  BY <1>1 DEF HistoryRowed, HistoryHasRow, H!ValueIsAnswered, HistoryPhases
<1>5. HistoryHasRun(hSession', pulls')
  <2> SUFFICES ASSUME NEW c \in H!CoinSet, NEW m \in H!Metrics
               PROVE  \E v \in {"value", "missing", "status"} : <<pulls', c, m, v>> \in hSession'
    BY DEF HistoryHasRun
  <2>1. HistoryHasRow(c, m)
    BY <1>1 DEF HistoryRowed, H!Metrics, H!Snapshot, H!Structure, HistoryPhases
  <2>2. <<c, m>> \in DOMAIN hRows /\ hRows[<<c, m>>] \in {"value", "missing", "status"}
    BY <2>1 DEF HistoryHasRow, HistoryRowed
  <2>3. <<pulls, <<c, m>>[1], <<c, m>>[2], hRows[<<c, m>>]>> \in hSession'
    BY <2>2 DEF H!Persist
  <2> QED
    BY <1>1, <2>2, <2>3
<1>6. \A o \in hSession' : o[1] = pulls'
  BY <1>1 DEF H!Persist
<1>7. HistoryKept'
  BY <1>1, <1>5, <1>6 DEF HistoryKept, HistoryHasRun
<1> QED
  BY <1>2, <1>3, <1>4, <1>7

LEMMA HistoryCommitKeeps == HistoryIInv /\ H!Commit => HistoryIInv'
<1> SUFFICES ASSUME HistoryIInv, H!Commit PROVE HistoryIInv'
  OBVIOUS
<1> USE DEF HistoryIInv
<1>1. /\ hPc = "commit" /\ hPc' = "idle" /\ hSession' = {} /\ durable' = durable \cup hSession
      /\ UNCHANGED <<coin, samples, cursor, pulled, hRows, answered, pulls>>
  BY DEF H!Commit
<1>2. HistoryTyped'
  BY <1>1 DEF HistoryTyped, HistoryPhases
<1>3. HistoryPulling'
  BY <1>1 DEF HistoryPulling
<1>4. HistoryRowed'
  BY <1>1 DEF HistoryRowed, HistoryHasRow, H!ValueIsAnswered, HistoryPhases
<1>5. HistoryKept'
  <2>1. \A r : HistoryHasRun(durable, r) \/ HistoryHasRun(hSession, r) => HistoryHasRun(durable', r)
    BY <1>1 DEF HistoryHasRun
  <2>2. \A o \in durable' : o[1] \in Nat /\ o[1] <= pulls /\ HistoryHasRun(durable', o[1])
    <3>1. ASSUME NEW o \in durable PROVE o[1] \in Nat /\ o[1] <= pulls
                   /\ HistoryHasRun(durable', o[1])
      BY <2>1 DEF HistoryKept
    <3>2. ASSUME NEW o \in hSession PROVE o[1] \in Nat /\ o[1] <= pulls
                   /\ HistoryHasRun(durable', o[1])
      <4>1. o[1] = pulls /\ HistoryHasRun(hSession, pulls) /\ pulls \in Nat
        BY <1>1 DEF HistoryKept, HistoryTyped
      <4>2. HistoryHasRun(durable', pulls)
        BY <2>1, <4>1
      <4> QED
        BY <4>1, <4>2
    <3> QED
      BY <1>1, <3>1, <3>2
  <2> QED
    BY <1>1, <2>2 DEF HistoryKept, HistoryHasRun
<1> QED
  BY <1>2, <1>3, <1>4, <1>5

LEMMA HistoryAbortKeeps == HistoryIInv /\ H!Abort => HistoryIInv'
<1> SUFFICES ASSUME HistoryIInv, H!Abort PROVE HistoryIInv'
  OBVIOUS
<1> USE DEF HistoryIInv
<1>1. HistoryTyped'
  BY DEF H!Abort, HistoryTyped, HistoryPhases
<1>2. HistoryPulling'
  BY DEF H!Abort, HistoryPulling
<1>3. HistoryRowed'
  BY DEF H!Abort, HistoryRowed, H!ValueIsAnswered, HistoryPhases
<1>4. HistoryKept'
  BY DEF H!Abort, HistoryKept, HistoryHasRun
<1> QED
  BY <1>1, <1>2, <1>3, <1>4

LEMMA HistoryNextIInv == HistoryIInv /\ [H!Next]_H!vars => HistoryIInv'
<1> SUFFICES ASSUME HistoryIInv, [H!Next]_H!vars PROVE HistoryIInv'
  OBVIOUS
<1>1. CASE H!Start
  BY <1>1, HistoryStartKeeps
<1>2. ASSUME NEW found \in SUBSET H!CoinSet, H!Mids(found) PROVE HistoryIInv'
  BY <1>2, HistoryMidsKeeps
<1>3. ASSUME NEW found \in SUBSET H!CoinSet, H!Predicted(found) PROVE HistoryIInv'
  BY <1>3, HistoryPredictedKeeps
<1>4. ASSUME NEW onList \in SUBSET H!CoinSet, NEW priced \in SUBSET H!CoinSet,
               H!Contexts(onList, priced)
      PROVE  HistoryIInv'
  BY <1>4, HistoryContextsKeeps
<1>5. CASE H!Funding
  BY <1>5, HistoryFundingKeeps
<1>6. ASSUME NEW c \in H!CoinSet, H!Sample(c) PROVE HistoryIInv'
  BY <1>6, HistorySampleKeeps
<1>7. CASE H!Trades
  BY <1>7, HistoryTradesKeeps
<1>8. CASE H!PredictedFails
  BY <1>8, HistoryPredictedFailsKeeps
<1>9. ASSUME NEW quoted \in BOOLEAN, H!Book(quoted) PROVE HistoryIInv'
  BY <1>9, HistoryBookKeeps
<1>10. CASE H!Persist
  BY <1>10, HistoryPersistKeeps
<1>11. CASE H!Commit
  BY <1>11, HistoryCommitKeeps
<1>12. CASE H!Abort
  BY <1>12, HistoryAbortKeeps
<1>13. CASE UNCHANGED H!vars
  <2>1. HistoryTyped' /\ HistoryPulling'
    BY <1>13, HistoryWholeStays DEF HistoryIInv, H!vars, HistoryTyped, HistoryPulling, H!Now,
       HistoryWindow
  <2>2. HistoryRowed' /\ HistoryKept'
    BY <1>13 DEF HistoryIInv, H!vars, HistoryRowed, HistoryHasRow, H!ValueIsAnswered, HistoryKept,
       HistoryHasRun
  <2> QED
    BY <2>1, <2>2 DEF HistoryIInv
<1> QED
  BY <1>1, <1>2, <1>3, <1>4, <1>5, <1>6, <1>7, <1>8, <1>9, <1>10, <1>11, <1>12, <1>13 DEF H!Next

LEMMA HistoryIInvHolds == H!Spec => []HistoryIInv
  BY HistoryInitIInv, HistoryNextIInv, PTL DEF H!Spec

LEMMA HistoryIInvIsHonest == HistoryIInv => H!PullIsHonest
<1> SUFFICES ASSUME HistoryIInv PROVE H!PullIsHonest
  OBVIOUS
<1> USE DEF HistoryIInv
<1>1. H!HistoryIsWhole
  <2> SUFFICES ASSUME NEW c \in H!CoinSet, H!Done(c)
               PROVE  /\ HistoryElems(pulled[c]) = {t \in samples[c] : t <= PullEnd}
                      /\ HistorySorted(pulled[c])
    BY DEF H!HistoryIsWhole, HistoryElems, HistorySorted
  <2>1. HistoryWhole(c)
    BY HistoryCoinsAre DEF H!Done, HistoryPulling
  <2> QED
    BY <2>1 DEF HistoryWhole, HistoryWindow
<1>2. H!RunIsWhole
  <2>1. \A r \in H!RunsOf(durable) : HistoryHasRun(durable, r)
    BY DEF H!RunsOf, HistoryKept
  <2>2. hPc \notin {"idle", "commit"} => pulls \notin H!RunsOf(durable) /\ hSession = {}
    BY DEF H!RunsOf, HistoryKept, HistoryTyped
  <2> QED
    BY <2>1, <2>2 DEF H!RunIsWhole, HistoryHasRun
<1>3. H!ValueIsAnswered
  BY DEF HistoryRowed
<1> QED
  BY <1>1, <1>2, <1>3 DEF H!PullIsHonest

(* A step of the composition is one of this part, or leaves it alone.      *)
LEMMA HistoryPart == FeedsSpec => H!Spec
<1>1. FeedsInit => H!Init
  BY DEF FeedsInit
<1>2. [FeedsNext]_feedsVars => [H!Next]_H!vars
  BY DEF FeedsNext, feedsVars, historyVars, H!vars
<1> QED
  BY <1>1, <1>2, PTL DEF FeedsSpec, H!Spec

(* What an adapter, a history pull or a retain capture could not get is a  *)
(* row that says so; what was got is whole and of the day it names, and    *)
(* only what is committed or licensed is reported: for any instruments,    *)
(* budgets, pages, histories, calendars and answers.                       *)
THEOREM IngestCorrect == FeedsSpec => []IngestIsHonest
<1>1. VendorIInv /\ HistoryIInv /\ RetainIInv => IngestIsHonest
  BY VendorIInvIsHonest, HistoryIInvIsHonest, RetainIInvIsTrue DEF IngestIsHonest
<1> QED
  BY <1>1, VendorPart, HistoryPart, RetainPart, VendorIInvHolds, HistoryIInvHolds,
     RetainIInvHolds, PTL

-----------------------------------------------------------------------------
(* The types of each part.                                                *)
(* The alerts and the worker.  A worker that is alive is within its frames. *)
LEMMA AlertTypedHolds == A!Spec => []A!TypeOK
<1>1. A!Init => A!TypeOK
  BY AlertAssumption DEF A!Init, A!TypeOK, A!NoAlert, A!Types, A!Reasons, A!Moves
<1>2. A!TypeOK /\ [A!Next]_A!vars => A!TypeOK'
  <2> SUFFICES ASSUME A!TypeOK, [A!Next]_A!vars PROVE A!TypeOK'
    OBVIOUS
  <2>1. CASE A!Tick
    BY <2>1, AlertAssumption DEF A!Tick, A!TypeOK
  <2>2. ASSUME NEW size \in 1..AlertSize, NEW m \in A!Moves, A!Ingest(size, m) PROVE A!TypeOK'
    BY <2>2, AlertAssumption DEF A!Ingest, A!TypeOK
  <2>3. CASE A!Check
    <3>1. A!Decision.types \subseteq A!Types /\ A!Decision.reason \in A!Reasons
      BY DEF A!Decision, A!NoAlert, A!Reasons
    <3>2. alert'.types \subseteq A!Types /\ alert'.reason \in A!Reasons /\ file' \subseteq A!Types
      BY <2>3, <3>1 DEF A!Check, A!TypeOK
    <3> QED
      BY <2>3, <3>2, AlertAssumption DEF A!Check, A!TypeOK
  <2>4. CASE UNCHANGED A!vars
    BY <2>4 DEF A!vars, A!TypeOK
  <2> QED
    BY <2>1, <2>2, <2>3, <2>4 DEF A!Next
<1> QED
  BY <1>1, <1>2, PTL DEF A!Spec

WorkerTyped == W!TypeOK /\ (wPc = "dead" \/ frames <= WorkerFrames)

LEMMA WorkerMinIs == ASSUME NEW S \in SUBSET Nat, S # {} PROVE W!Min(S) \in S
BY NatLeast DEF W!Min

LEMMA WorkerTypedHolds == W!Spec => []WorkerTyped
<1>1. W!Init => WorkerTyped
  BY WorkerAssumption DEF W!Init, WorkerTyped, W!TypeOK
<1>2. WorkerTyped /\ [W!Next]_W!vars => WorkerTyped'
  <2> SUFFICES ASSUME WorkerTyped, [W!Next]_W!vars PROVE WorkerTyped'
    OBVIOUS
  <2> USE WorkerAssumption DEF WorkerTyped, W!TypeOK
  <2>1. CASE W!Tick
    BY <2>1 DEF W!Tick
  <2>2. CASE W!Look
    <3> DEFINE f == W!NextFire(wNow)
    <3>1. f \in WorkerFires \cup {W!NoFire}
      <4> DEFINE due == {x \in WorkerFires : x >= wNow}
      <4>1. due # {} => W!Min(due) \in due
        BY WorkerMinIs
      <4> QED
        BY <4>1 DEF W!NextFire
    <3>2. CASE f > wNow /\ wPc' = "asleep" /\ wake' = wNow + W!Min({f - wNow, WorkerPoll})
               /\ UNCHANGED <<fire, tried>>
      <4>0. f \in Nat /\ wNow \in Nat /\ f > wNow /\ WorkerPoll \in Nat
        <5> HIDE DEF f
        <5> QED
          BY <3>1, <3>2 DEF W!NoFire
      <4>1. {f - wNow, WorkerPoll} \in SUBSET Nat
        <5> HIDE DEF f
        <5> QED
          BY <4>0
      <4>2. W!Min({f - wNow, WorkerPoll}) \in {f - wNow, WorkerPoll}
        BY <4>1, WorkerMinIs
      <4>3. W!Min({f - wNow, WorkerPoll}) \in 0..WorkerPoll
        <5>1. \A y \in {f - wNow, WorkerPoll} : W!Min({f - wNow, WorkerPoll}) <= y
          BY <4>1, NatLeast DEF W!Min
        <5> QED
          BY <4>1, <4>2, <5>1
      <4> QED
        BY <2>2, <3>2, <4>3 DEF W!Look
    <3>3. CASE wPc' = "exited" /\ UNCHANGED <<wake, fire, tried>>
      BY <2>2, <3>3 DEF W!Look
    <3>4. CASE /\ f # W!NoFire /\ wPc' = "generating" /\ fire' = f
               /\ tried' = tried \cup {[fire |-> f, at |-> wNow]} /\ UNCHANGED wake
      BY <2>2, <3>1, <3>4 DEF W!Look
    <3> QED
      BY <2>2, <3>2, <3>3, <3>4 DEF W!Look
  <2>3. CASE W!Wake
    BY <2>3 DEF W!Wake
  <2>4. CASE W!Generate
    BY <2>4 DEF W!Generate
  <2>5. CASE W!Restart
    BY <2>5 DEF W!Restart
  <2>6. CASE UNCHANGED W!vars
    BY <2>6 DEF W!vars
  <2> QED
    BY <2>1, <2>2, <2>3, <2>4, <2>5, <2>6 DEF W!Next
<1> QED
  BY <1>1, <1>2, PTL DEF W!Spec

-----------------------------------------------------------------------------
(* The history pull: what HistoryTyped leaves open.                       *)
HistoryShaped ==
    /\ cursor <= PullEnd + 1
    /\ DOMAIN hRows \subseteq H!CoinSet \X H!Metrics
    /\ answered \subseteq H!CoinSet \X H!Metrics
    /\ pulls <= MaxPulls /\ (hPc # "idle" => pulls >= 1)
    /\ \A o \in durable : o[1] >= 1

LEMMA HistoryPairsAre ==
    ASSUME NEW m \in H!Metrics, NEW some \in SUBSET H!CoinSet
    PROVE  {<<c, m>> : c \in some} \subseteq H!CoinSet \X H!Metrics
OBVIOUS

LEMMA HistorySetDomain ==
    ASSUME NEW f, NEW pairs, NEW v, NEW S, DOMAIN f \subseteq S, pairs \subseteq S
    PROVE  DOMAIN H!Set(f, pairs, v) \subseteq S
<1>1. DOMAIN H!Set(f, pairs, v) = DOMAIN f \cup pairs
  BY DEF H!Set
<1> QED
  BY <1>1

LEMMA HistoryNormalisedDomain ==
    ASSUME NEW f, NEW m \in H!Metrics, NEW some \in SUBSET H!CoinSet,
           DOMAIN f \subseteq H!CoinSet \X H!Metrics
    PROVE  DOMAIN H!Normalised(f, m, some) \subseteq H!CoinSet \X H!Metrics
<1> DEFINE all == {<<c, m>> : c \in H!CoinSet}
<1>1. DOMAIN H!Normalised(f, m, some) = DOMAIN f \cup all
  BY HistoryNormalisedIs
<1>2. all \subseteq H!CoinSet \X H!Metrics
  BY HistoryPairsAre
<1> HIDE DEF all
<1> QED
  BY <1>1, <1>2

LEMMA HistoryShapedStep ==
    HistoryIInv /\ HistoryIInv' /\ HistoryShaped /\ [H!Next]_H!vars => HistoryShaped'
<1> SUFFICES ASSUME HistoryIInv, HistoryIInv', HistoryShaped, [H!Next]_H!vars PROVE HistoryShaped'
  OBVIOUS
<1> USE DEF HistoryShaped
<1>0. /\ cursor \in Nat /\ cursor' \in Nat /\ PullEnd \in Nat /\ pulls \in Nat /\ MaxPulls \in Nat
      /\ coin \in 1..Len(PullCoins) /\ H!Now \in H!CoinSet
  BY HistoryAssumption, HistoryCoinsAre DEF HistoryIInv, HistoryTyped, H!Now
<1>n. \A m \in {"mid_px", "universe", "basis", "predicted_funding", "l2_spread"} : m \in H!Metrics
  BY DEF H!Metrics, H!Snapshot, H!Structure
<1>1. CASE H!Start
  BY <1>0, <1>1, HistoryEmptyIs DEF H!Start, H!Nothing
<1>2. ASSUME NEW some \in SUBSET H!CoinSet, NEW m \in {"mid_px", "predicted_funding"},
             hRows' = H!Normalised(hRows, m, some),
             answered' = answered \cup {<<c, m>> : c \in some},
             UNCHANGED <<cursor, pulls, durable>>, hPc # "idle"
      PROVE  HistoryShaped'
  <2>1. m \in H!Metrics
    BY <1>n
  <2>2. DOMAIN hRows' \subseteq H!CoinSet \X H!Metrics
    BY <1>2, <2>1, HistoryNormalisedDomain
  <2>3. answered' \subseteq H!CoinSet \X H!Metrics
    BY <1>2, <2>1, HistoryPairsAre
  <2> QED
    BY <1>2, <2>2, <2>3
<1>3. ASSUME NEW some \in SUBSET H!CoinSet, H!Mids(some) \/ H!Predicted(some) PROVE HistoryShaped'
  BY <1>2, <1>3 DEF H!Mids, H!Predicted
<1>4. ASSUME NEW some \in SUBSET H!CoinSet, NEW priced \in SUBSET H!CoinSet,
               H!Contexts(some, priced)
      PROVE  HistoryShaped'
  <2> DEFINE f == H!Normalised(hRows, "universe", some)
  <2>1. DOMAIN f \subseteq H!CoinSet \X H!Metrics
    BY <1>n, HistoryNormalisedDomain
  <2>2. DOMAIN H!Normalised(f, "basis", priced) \subseteq H!CoinSet \X H!Metrics
    <3> HIDE DEF f
    <3> QED
      BY <2>1, <1>n, HistoryNormalisedDomain
  <2>3. /\ hRows' = H!Normalised(f, "basis", priced)
        /\ answered' = answered \cup {<<c, "universe">> : c \in some}
           \cup {<<c, "basis">> : c \in priced}
        /\ UNCHANGED <<cursor, pulls, durable>> /\ hPc = "ctxs"
    BY <1>4 DEF H!Contexts
  <2>4. answered' \subseteq H!CoinSet \X H!Metrics
    BY <2>3, <1>n, HistoryPairsAre
  <2> QED
    BY <2>2, <2>3, <2>4
<1>5. CASE H!Funding
  <2>1. UNCHANGED <<hRows, answered, pulls, durable>> /\ hPc = "funding"
    BY <1>5 DEF H!Funding
  <2>2. cursor' <= PullEnd + 1
    <3> DEFINE page == H!Page(samples[H!Now], cursor)
    <3>1. CASE H!Ends(page) /\ cursor' = 1
      BY <1>0, <3>1
    <3>2. CASE ~H!Ends(page) /\ cursor' = page[Len(page)] + 1
      <4>1. ~(cursor' > PullEnd)
        <5> HIDE DEF page
        <5> QED
          BY <3>2 DEF H!Ends
      <4> QED
        BY <1>0, <4>1
    <3> QED
      BY <1>5, <3>1, <3>2 DEF H!Funding
  <2> QED
    BY <2>1, <2>2
<1>6. ASSUME NEW c \in H!CoinSet, H!Sample(c) PROVE HistoryShaped'
  BY <1>6 DEF H!Sample
<1>7. CASE H!Trades
  BY <1>7 DEF H!Trades
<1>8. CASE H!PredictedFails
  <2>1. {<<c, "predicted_funding">> : c \in H!CoinSet} \subseteq H!CoinSet \X H!Metrics
    BY <1>n, HistoryPairsAre
  <2>2. DOMAIN hRows' \subseteq H!CoinSet \X H!Metrics
    BY <1>8, <2>1, HistorySetDomain DEF H!PredictedFails
  <2> QED
    BY <1>8, <2>2 DEF H!PredictedFails
<1>9. ASSUME NEW quoted \in BOOLEAN, H!Book(quoted) PROVE HistoryShaped'
  <2>1. <<H!Now, "l2_spread">> \in H!CoinSet \X H!Metrics
    BY <1>0, <1>n
  <2> QED
    <3>1. {<<H!Now, "l2_spread">>} \subseteq H!CoinSet \X H!Metrics
      BY <2>1
    <3>2. DOMAIN hRows' \subseteq H!CoinSet \X H!Metrics
      BY <1>9, <3>1, HistorySetDomain DEF H!Book
    <3>3. answered' \subseteq H!CoinSet \X H!Metrics
      BY <1>9, <2>1 DEF H!Book
    <3> QED
      BY <1>9, <3>2, <3>3 DEF H!Book
<1>10. CASE H!Persist
  BY <1>10 DEF H!Persist
<1>11. CASE H!Commit
  BY <1>0, <1>11 DEF H!Commit, HistoryIInv, HistoryKept
<1>12. CASE H!Abort
  BY <1>12 DEF H!Abort
<1>13. CASE UNCHANGED H!vars
  BY <1>13 DEF H!vars
<1> QED
  BY <1>1, <1>3, <1>4, <1>5, <1>6, <1>7, <1>8, <1>9, <1>10, <1>11, <1>12, <1>13 DEF H!Next

LEMMA HistoryTypedHolds == H!Spec => []H!TypeOK
<1>1. H!Init => HistoryShaped
  BY HistoryAssumption DEF H!Init, HistoryShaped, H!Nothing
<1>2. HistoryIInv /\ HistoryShaped => H!TypeOK
  <2> SUFFICES ASSUME HistoryIInv, HistoryShaped PROVE H!TypeOK
    OBVIOUS
  <2>1. /\ cursor \in 1..(PullEnd + 1) /\ pulls \in 0..MaxPulls /\ hPc \in HistoryPhases
        /\ coin \in 1..Len(PullCoins)
    BY HistoryAssumption DEF HistoryIInv, HistoryTyped, HistoryShaped
  <2>2. \A o \in hSession \cup durable : o[1] \in 1..MaxPulls
    BY <2>1, HistoryAssumption DEF HistoryIInv, HistoryTyped, HistoryShaped, HistoryKept
  <2>3. \A p \in DOMAIN hRows :
            p \in H!CoinSet \X H!Metrics /\ hRows[p] \in {"value", "missing", "status"}
    BY DEF HistoryIInv, HistoryRowed, HistoryShaped
  <2> QED
    BY <2>1, <2>2, <2>3 DEF H!TypeOK, HistoryShaped, HistoryPhases
<1> QED
  BY <1>1, <1>2, HistoryShapedStep, HistoryIInvHolds, PTL DEF H!Spec

-----------------------------------------------------------------------------
(* The vendor adapters: what VendorIInv leaves open.                      *)
VendorShaped ==
    /\ key \in BOOLEAN /\ (vPc # "wait" => vAttempt = 0)
    /\ origin \in {"none", "vendor", "file"} /\ listed \subseteq V!NameSet
    /\ DOMAIN vRows \subseteq V!NameSet \cup {"EDGAR"}
    /\ \A i \in DOMAIN vRows : vRows[i] \in V!Gaps \cup {"value"}
    /\ DOMAIN prints \subseteq V!NameSet
    /\ queries \in 0..MaxQueries

LEMMA VendorSetShaped ==
    ASSUME NEW f, NEW names, NEW v \in V!Gaps \cup {"value"}, NEW S,
           DOMAIN f \subseteq S, names \subseteq S, \A i \in DOMAIN f : f[i] \in V!Gaps
             \cup {"value"}
    PROVE  /\ DOMAIN V!Set(f, names, v) \subseteq S
           /\ \A i \in DOMAIN V!Set(f, names, v) : V!Set(f, names, v)[i] \in V!Gaps \cup {"value"}
BY DEF V!Set

LEMMA VendorShapedStep ==
    VendorIInv /\ VendorIInv' /\ VendorShaped /\ [V!Next]_V!vars => VendorShaped'
<1> SUFFICES ASSUME VendorIInv, VendorIInv', VendorShaped, [V!Next]_V!vars PROVE VendorShaped'
  OBVIOUS
<1> USE DEF VendorShaped
<1> DEFINE S == V!NameSet \cup {"EDGAR"}
<1>0. \A g \in V!Gaps : g \in V!Gaps \cup {"value"}
  OBVIOUS
<1>e. /\ DOMAIN V!Nothing \subseteq S /\ \A i \in DOMAIN V!Nothing : V!Nothing[i] \in V!Gaps
         \cup {"value"}
      /\ DOMAIN V!Nothing \subseteq V!NameSet
  BY DEF V!Nothing
<1>g. /\ {"missing_env", "rate_limited", "parse_error"} \subseteq V!Gaps
      /\ V!Retryable \cup V!Terminal \subseteq V!Gaps
  BY DEF V!Gaps, V!Retryable, V!Terminal
<1>b. vPc \in {"ask", "wait"} /\ left # <<>> => V!Batch \subseteq V!NameSet
  <2>1. \A s \in Seq(V!NameSet) : s # <<>>
          => Head(s) \in V!NameSet /\ \A i \in 1..Len(s) : s[i] \in V!NameSet
    OBVIOUS
  <2> QED
    BY <2>1 DEF VendorIInv, VendorAsking, V!Batch
<1>1. CASE V!Query
  <2>1. /\ DOMAIN vRows' \subseteq S /\ \A i \in DOMAIN vRows' : vRows'[i] \in V!Gaps \cup {"value"}
    <3>1. "missing_env" \in V!Gaps \cup {"value"} /\ V!NameSet \subseteq S
      BY <1>g
    <3>2. vRows' \in {V!Nothing, V!Set(V!Nothing, V!NameSet, "missing_env")}
      BY <1>1 DEF V!Query
    <3> QED
      BY <3>1, <3>2, <1>e, VendorSetShaped
  <2>2. queries' \in 0..MaxQueries
    BY <1>1, VendorAssumption DEF V!Query
  <2>3. /\ UNCHANGED <<key, vAttempt>> /\ vPc # "wait" /\ vPc' # "wait" /\ origin' = "vendor"
        /\ listed' = V!NameSet /\ prints' = V!Nothing
    BY <1>1 DEF V!Query
  <2> QED
    BY <2>1, <2>2, <2>3, <1>e
<1>2. CASE V!Ask
  BY <1>2 DEF V!Ask
<1>3. CASE V!Exhausted
  <2>1. V!Batch \subseteq S /\ "rate_limited" \in V!Gaps \cup {"value"}
    BY <1>3, <1>b, <1>g DEF V!Exhausted
  <2>2. /\ DOMAIN vRows' \subseteq S /\ \A i \in DOMAIN vRows' : vRows'[i] \in V!Gaps \cup {"value"}
    <3>1. vRows' \in {vRows, V!Set(vRows, V!Batch, "rate_limited")}
      BY <1>3 DEF V!Exhausted
    <3> QED
      BY <2>1, <3>1, VendorSetShaped
  <2> QED
    BY <1>3, <2>2 DEF V!Exhausted
<1>4. ASSUME NEW class \in V!Retryable, V!Retry(class) PROVE VendorShaped'
  BY <1>4 DEF V!Retry
<1>5. ASSUME NEW class \in V!Retryable \cup V!Terminal, V!Fail(class) PROVE VendorShaped'
  <2>1. V!Batch \subseteq S /\ class \in V!Gaps \cup {"value"}
    BY <1>5, <1>b, <1>g DEF V!Fail, VendorIInv, VendorAsking
  <2>2. /\ DOMAIN vRows' \subseteq S /\ \A i \in DOMAIN vRows' : vRows'[i] \in V!Gaps \cup {"value"}
    <3>1. vRows' \in {vRows, V!Set(vRows, V!Batch, class)}
      BY <1>5 DEF V!Fail
    <3> QED
      BY <2>1, <3>1, VendorSetShaped
  <2> QED
    BY <1>5, <2>2 DEF V!Fail
<1>6. ASSUME NEW some \in SUBSET V!NameSet, V!Answer(some) PROVE VendorShaped'
  <2>1. V!Batch \subseteq S /\ some \subseteq S /\ "parse_error" \in V!Gaps \cup {"value"}
        /\ "value" \in V!Gaps \cup {"value"}
    BY <1>6, <1>b, <1>g DEF V!Answer, VendorIInv, VendorAsking
  <2>2. /\ DOMAIN vRows' \subseteq S /\ \A i \in DOMAIN vRows' : vRows'[i] \in V!Gaps \cup {"value"}
    <3> DEFINE f == V!Set(vRows, some, "value")
    <3>1. DOMAIN f \subseteq S /\ \A i \in DOMAIN f : f[i] \in V!Gaps \cup {"value"}
      BY <2>1, VendorSetShaped
    <3>2. vRows' \in {vRows, f, V!Set(f, V!Batch \ some, "parse_error")}
      BY <1>6 DEF V!Answer, V!Recorded
    <3> HIDE DEF f
    <3>3. V!Batch \ some \subseteq S
      BY <2>1
    <3> QED
      BY <2>1, <3>1, <3>2, <3>3, VendorSetShaped
  <2>3. DOMAIN prints' \subseteq V!NameSet
    BY <1>6 DEF V!Answer, V!Set
  <2> QED
    BY <1>6, <2>2, <2>3 DEF V!Answer
<1>7. ASSUME NEW names \in SUBSET V!NameSet, NEW some \in SUBSET V!NameSet,
             NEW class \in V!Gaps \cup {"none"}, V!Replay(names, some, class)
      PROVE VendorShaped'
  <2> DEFINE gap == IF class = "none" THEN "parse_error" ELSE class
             f == V!Set(V!Nothing, some, "value")
  <2>1. gap \in V!Gaps \cup {"value"} /\ "value" \in V!Gaps \cup {"value"} /\ some \subseteq S
        /\ names \ some \subseteq S /\ {"EDGAR"} \subseteq S
    BY <1>g
  <2>2. DOMAIN f \subseteq S /\ \A i \in DOMAIN f : f[i] \in V!Gaps \cup {"value"}
    BY <2>1, <1>e, VendorSetShaped
  <2>3. vRows' \in {V!Set(V!Nothing, {"EDGAR"}, gap), f, V!Set(f, names \ some, gap)}
    BY <1>7 DEF V!Replay, V!FileRows
  <2>4. DOMAIN prints' \subseteq V!NameSet
    BY <1>7, <1>e DEF V!Replay, V!Set
  <2>5. queries' \in 0..MaxQueries
    BY <1>7, VendorAssumption DEF V!Replay
  <2> HIDE DEF f, gap, S
  <2>6. DOMAIN vRows' \subseteq S /\ \A i \in DOMAIN vRows' : vRows'[i] \in V!Gaps \cup {"value"}
    BY <2>1, <2>2, <2>3, <1>e, VendorSetShaped
  <2> QED
    BY <1>7, <2>4, <2>5, <2>6 DEF V!Replay, S
<1>8. CASE V!Asked
  <2>1. V!SpotError \in V!Gaps \cup {"none"}
    BY <1>g DEF V!SpotError, VendorIInv, VendorValuesArePrints
  <2>2. DOMAIN vRows' \subseteq S /\ \A i \in DOMAIN vRows' : vRows'[i] \in V!Gaps \cup {"value"}
    BY <1>8, <1>g, <2>1 DEF V!Asked, V!CrossCheck
  <2> QED
    BY <1>8, <2>2 DEF V!Asked
<1>9. CASE V!StackDry \/ V!Persist \/ V!Stack \/ V!Commit \/ V!Rollback
  BY <1>9 DEF V!StackDry, V!Persist, V!Stack, V!Commit, V!Rollback
<1>10. CASE UNCHANGED V!vars
  BY <1>10 DEF V!vars
<1> QED
  BY <1>1, <1>2, <1>3, <1>4, <1>5, <1>6, <1>7, <1>8, <1>9, <1>10 DEF V!Next

LEMMA VendorTypedHolds == V!Spec => []V!TypeOK
<1>1. V!Init => VendorShaped
  BY VendorAssumption DEF V!Init, VendorShaped, V!Nothing
<1>2. VendorIInv /\ VendorShaped => V!TypeOK
  <2> SUFFICES ASSUME VendorIInv, VendorShaped PROVE V!TypeOK
    OBVIOUS
  <2>1. vAttempt \in 0..FeedAttempts
    BY VendorAssumption DEF VendorIInv, VendorShaped, VendorSent
  <2>2. wire \in 0..(FeedRpm * FeedAttempts)
    <3>1. \A u \in Nat, r \in Nat, a \in Nat : u <= r
            => u * a <= r * a /\ u * a \in Nat /\ r * a \in Nat
      OBVIOUS
    <3>2. /\ budget.used \in Nat /\ FeedRpm \in Nat /\ FeedAttempts \in Nat
             /\ budget.used <= FeedRpm
      BY VendorAssumption DEF VendorIInv, VendorSent
    <3>3. budget.used * FeedAttempts <= FeedRpm * FeedAttempts /\ budget.used * FeedAttempts \in Nat
          /\ FeedRpm * FeedAttempts \in Nat
      BY <3>1, <3>2
    <3>4. wire <= budget.used * FeedAttempts /\ wire \in Nat
      BY <3>3, VendorAssumption DEF VendorIInv, VendorSent
    <3> QED
      BY <3>3, <3>4
  <2> QED
    BY <2>1, <2>2 DEF VendorIInv, VendorSent, VendorValuesArePrints, VendorShaped, V!TypeOK
<1> QED
  BY <1>1, <1>2, VendorShapedStep, VendorIInvHolds, PTL DEF V!Spec

-----------------------------------------------------------------------------
(* The retain capture.  A walk never asks for a day before the first.     *)
RetainPhases == {"idle", "walk", "spot", "dump", "persist", "brief", "done"}
RetainErrors == {"none", "rate_limited", "http_error", "missing_env"}

RetainShaped ==
    /\ rPc \in RetainPhases
    /\ day \in R!Days /\ bodies \in 0..RetainWalk
    /\ answer.error \in RetainErrors
    /\ known \subseteq RetainMetrics /\ pair \in BOOLEAN
    /\ dumped \subseteq RetainStocks /\ lines \subseteq RetainStocks

LEMMA RetainDaysAre == \E top \in Nat : /\ top = R!Max(RetainDates) /\ R!Days = 1..top
                                        /\ \A d \in RetainDates : d <= top /\ d >= 2 /\ d \in Nat
BY RetainLastDay, RetainAssumption DEF R!Days

LEMMA RetainSessionDay == nyDate \in RetainDates => R!Session \in R!Days
<1> SUFFICES ASSUME nyDate \in RetainDates PROVE R!Session \in R!Days
  OBVIOUS
<1>1. nyDate \in Nat /\ nyDate >= 2 /\ nyDate <= R!Max(RetainDates) /\ nyDate \in R!Days
  BY RetainDaysAre
<1>2. R!Expected \in R!Days
  BY <1>1, RetainBeforeIs DEF R!Expected
<1> QED
  BY <1>1, <1>2 DEF R!Session

LEMMA RetainWalkBackDay == ASSUME RetainIInv, R!WalkBack PROVE day' \in R!Days
<1>1. /\ rPc = "walk" /\ bodies < RetainWalk /\ day' = R!Before(day)
  BY DEF R!WalkBack
<1>3. /\ nyDate \in Nat /\ R!Session \in Nat /\ R!Session <= nyDate
      /\ nyDate > 3 * RetainWalk + 1 /\ nyDate <= R!Max(RetainDates)
      /\ bodies \in Nat /\ RetainLatest(day) /\ day >= nyDate - 3 * (bodies + 1)
  BY <1>1, RetainSessionIs, RetainLastDay, RetainAssumption
     DEF RetainIInv, RetainWalking, RetainPublished
<1>4. day \in Nat /\ day >= 2 /\ day <= R!Max(RetainDates)
  BY <1>1, <1>3, RetainLastDay, RetainAssumption DEF RetainLatest
<1> QED
  BY <1>1, <1>4, RetainBeforeIs

LEMMA RetainShapedStep == RetainIInv /\ RetainShaped /\ [R!Next]_R!vars => RetainShaped'
<1> SUFFICES ASSUME RetainIInv, RetainShaped, [R!Next]_R!vars PROVE RetainShaped'
  OBVIOUS
<1> USE DEF RetainShaped, RetainPhases, RetainErrors
<1>0. R!Days' = R!Days /\ nyDate \in RetainDates /\ RetainWalk \in Nat
  BY RetainAssumption DEF RetainIInv, RetainPublished
<1>1. ASSUME NEW d \in R!Days, NEW b \in RetainBodies, R!Publish(d, b) PROVE RetainShaped'
  BY <1>0, <1>1 DEF R!Publish
<1>2. ASSUME NEW m \in SUBSET RetainMetrics, R!Perps(m) PROVE RetainShaped'
  BY <1>0, <1>2, RetainSessionDay DEF R!Perps
<1>3. CASE R!Found
  BY <1>0, <1>3 DEF R!Found, R!Ended
<1>4. CASE R!WalkBack
  <2>1. day' \in R!Days
    BY <1>4, RetainWalkBackDay
  <2> QED
    BY <1>0, <1>4, <2>1 DEF R!WalkBack
<1>5. CASE R!WalkEnds
  <2>1. ASSUME NEW error, R!Ended(error, R!Session, R!NoBody),
               error \in CASE bodies = RetainWalk -> {"none"}
                           [] bodies < RetainWalk /\ bodies = RetainRpm -> {"rate_limited"}
                           [] OTHER -> IF bodies = 0 THEN {"missing_env", "http_error"}
                                       ELSE {"http_error"}
        PROVE  answer'.error \in RetainErrors /\ rPc' = "spot"
    <3>1. error \in RetainErrors
      <4>1. CASE bodies = RetainWalk
        BY <1>0, <2>1, <4>1
      <4>2. CASE bodies # RetainWalk
        BY <1>0, <2>1, <4>2
      <4> QED
        BY <4>1, <4>2
    <3> QED
      BY <2>1, <3>1 DEF R!Ended
  <2>2. answer'.error \in RetainErrors /\ rPc' = "spot"
    BY <1>5, <2>1 DEF R!WalkEnds
  <2> QED
    BY <1>0, <1>5, <2>2 DEF R!WalkEnds
<1>6. ASSUME NEW one \in BOOLEAN, NEW mid \in BOOLEAN, R!Spot(one, mid) PROVE RetainShaped'
  BY <1>0, <1>6 DEF R!Spot
<1>7. CASE R!FetchFails
  BY <1>0, <1>7 DEF R!FetchFails
<1>8. ASSUME NEW ok \in BOOLEAN, R!Dump(ok) \/ R!Persist(ok) PROVE RetainShaped'
  BY <1>0, <1>8 DEF R!Dump, R!Persist
<1>9. ASSUME NEW header \in R!Days, R!Brief(header) PROVE RetainShaped'
  BY <1>0, <1>9 DEF R!Brief
<1>10. CASE UNCHANGED R!vars
  BY <1>0, <1>10 DEF R!vars
<1> QED
  BY <1>1, <1>2, <1>3, <1>4, <1>5, <1>6, <1>7, <1>8, <1>9, <1>10 DEF R!Next

LEMMA RetainTypedHolds == R!Spec => []R!TypeOK
<1>1. R!Init => RetainShaped
  <2> SUFFICES ASSUME R!Init PROVE RetainShaped
    OBVIOUS
  <2>1. PICK top \in Nat : R!Days = 1..top /\ \A d \in RetainDates : d <= top /\ d >= 2 /\ d \in Nat
    BY RetainDaysAre
  <2>2. PICK d \in RetainDates : TRUE
    BY RetainAssumption
  <2>3. 1 \in R!Days
    BY <2>1, <2>2
  <2>4. /\ rPc = "idle" /\ day = 1 /\ bodies = 0 /\ answer = R!NoAnswer
        /\ known = {} /\ pair = FALSE /\ dumped = {} /\ lines = {}
    BY DEF R!Init
  <2>5. answer.error = "none" /\ 0 \in 0..RetainWalk
    BY <2>4, RetainAssumption DEF R!NoAnswer
  <2> QED
    BY <2>3, <2>4, <2>5 DEF RetainShaped, RetainPhases, RetainErrors
<1>2. RetainIInv /\ RetainShaped => R!TypeOK
  <2> SUFFICES ASSUME RetainIInv, RetainShaped PROVE R!TypeOK
    OBVIOUS
  <2>1. DOMAIN retained \in {{}, RetainStocks \cup RetainMetrics \cup {"price"}}
    BY DEF RetainIInv, RetainRowsAre, R!NoRow
  <2> QED
    BY <2>1 DEF RetainIInv, RetainShaped, RetainPhases, RetainErrors, RetainPublished, R!TypeOK
<1> QED
  BY <1>1, <1>2, RetainShapedStep, RetainIInvHolds, PTL DEF R!Spec

-----------------------------------------------------------------------------
-----------------------------------------------------------------------------
(* What a document is drawn from, and the document.                        *)
MorningEvidence ==
    /\ mToday \in CloseFirst..CloseLast
    /\ \A s \in M!Slots : mPrints[s].num \in BOOLEAN /\ mPrints[s].day \in M!Day
    /\ DOMAIN mPrints = M!Slots
    /\ prior \in M!Day /\ mKeys \subseteq M!Keys
    /\ input.reader \in BOOLEAN /\ DOMAIN input.hl = M!Perps
    /\ \A c \in input.closes : c.name \in CloseStocks /\ c.session \in M!Day /\ c.market \in M!Day

MorningDocOf(d) ==
    /\ \A s \in M!Slots : d.rows[s] \in M!Cells \cup {"none"}
    /\ d.header \in M!Day /\ d.lines \subseteq CloseStocks

MorningShaped == MorningEvidence /\ MorningDocOf(doc)

(* A day after the first has a weekday before it.                          *)
LEMMA MorningBeforeIs ==
    ASSUME NEW d \in Nat \ {0}
    PROVE  M!Before(d) \in M!Day /\ (d >= 2 => M!Before(d) >= 1 \/ CloseLast = 0)
<1> DEFINE S == {e \in M!Day : e < d /\ M!Weekday(e)}
<1>1. 0 \in S
  BY MorningAssumption DEF M!Day, M!Weekday
<1>2. S \subseteq Nat /\ \A x \in S : x <= CloseLast
  BY MorningAssumption DEF M!Day
<1>3. \E x \in S : \A y \in S : x >= y
  <2> HIDE DEF S
  <2> QED
    BY <1>1, <1>2, NatGreatest, MorningAssumption
<1>4. M!Before(d) = CHOOSE x \in S : \A y \in S : x >= y
  BY DEF M!Before, M!Max
<1>5. M!Before(d) \in S /\ \A y \in S : M!Before(d) >= y
  <2> HIDE DEF S
  <2> QED
    BY <1>3, <1>4
<1>6. d >= 2 => 1 \in S \/ CloseLast = 0
  BY MorningAssumption DEF M!Day, M!Weekday
<1> QED
  BY <1>5, <1>6

LEMMA MorningDaysAre ==
    MorningEvidence => /\ mToday \in Nat /\ mToday >= 2
                     /\ M!Expected \in M!Day /\ M!Before(M!Expected) \in M!Day
<1> SUFFICES ASSUME MorningEvidence
             PROVE  /\ mToday \in Nat /\ mToday >= 2
                    /\ M!Expected \in M!Day /\ M!Before(M!Expected) \in M!Day
  OBVIOUS
<1>1. mToday \in Nat /\ mToday >= 2 /\ CloseLast # 0
  BY MorningAssumption DEF MorningEvidence
<1>2. M!Expected \in M!Day /\ M!Expected >= 1
  BY <1>1, MorningBeforeIs DEF M!Expected
<1>3. M!Expected \in Nat \ {0}
  BY <1>2, MorningAssumption DEF M!Day
<1> QED
  BY <1>1, <1>2, <1>3, MorningBeforeIs

(* Of whatever evidence has its types, the document has.                   *)
LEMMA MorningDrawnTyped ==
    MorningEvidence => MorningDocOf(M!Drawn)
<1> SUFFICES ASSUME MorningEvidence PROVE MorningDocOf(M!Drawn)
  OBVIOUS
<1>1. \A s \in M!Slots : M!Seen(s).day \in M!Day
  BY MorningAssumption DEF MorningEvidence, M!Seen, M!NoPrint, M!NoDay, M!Day
<1>2. M!Shared \in M!Day
  BY <1>1, MorningAssumption DEF M!Shared, M!Slots, M!SessionSlots, M!NoDay, M!Day
<1>3. ASSUME NEW s \in M!Slots PROVE M!Row(s) \in M!Cells \cup {"none"}
  <2>1. M!Numeric(s) \in M!Cells
    BY DEF M!Numeric, M!Cells
  <2>2. M!Cell(s) \in M!Cells
    <3>1. CASE s \in M!SessionSlots /\ M!Seen(s).day < M!Expected
      <4>1. ~(s \in M!SessionSlots /\ M!Seen(s).day = M!Expected) /\ s # "US10Y"
        BY <1>1, <3>1, MorningDaysAre, MorningAssumption DEF M!Day, M!SessionSlots
      <4> QED
        BY <3>1, <4>1 DEF M!Cell, M!Cells, M!DidNotRoll
    <3>2. CASE s \in M!SessionSlots /\ M!Seen(s).day = M!Expected
      <4>1. ~(s \in M!SessionSlots /\ M!Seen(s).day < M!Expected) /\ s # "US10Y"
        BY <1>1, <3>2, MorningDaysAre, MorningAssumption DEF M!Day, M!SessionSlots
      <4> QED
        BY <3>2, <4>1 DEF M!Cell, M!Cells, M!DidNotRoll
    <3>3. CASE ~(s \in M!SessionSlots /\ M!Seen(s).day < M!Expected)
               /\ ~(s \in M!SessionSlots /\ M!Seen(s).day = M!Expected)
      BY <2>1, <3>3 DEF M!Cell, M!Cells
    <3> QED
      BY <3>1, <3>2, <3>3
  <2> QED
    BY <2>2 DEF M!Row, M!Cells
<1>4. M!Qualified \subseteq CloseStocks
  BY DEF M!Qualified
<1>5. /\ M!Drawn.header = M!Shared /\ M!Drawn.rows = [s \in M!Slots |-> M!Row(s)]
      /\ M!Drawn.lines = IF input.given THEN M!Qualified ELSE {}
  BY DEF M!Drawn
<1> QED
  BY <1>2, <1>3, <1>4, <1>5 DEF MorningDocOf

(* What a brief is given has its types.                                    *)
LEMMA MorningInputsAre ==
    ASSUME NEW in \in M!Inputs
    PROVE  \/ \E r \in BOOLEAN, p \in M!Perps, state \in M!PerpStates : in = M!Trading(r, p, state)
           \/ \E S \in SUBSET M!Rows : in = M!Given(S)
<1> DEFINE one == {M!Trading(r, p, state) :
                       r \in BOOLEAN, p \in M!Perps, state \in M!PerpStates}
           given == {M!Given(S) : S \in SUBSET M!Rows}
<1>1. M!Inputs = one \cup given
  BY DEF M!Inputs
<1>2. in \in one => \E r \in BOOLEAN, p \in M!Perps, state \in M!PerpStates :
                       in = M!Trading(r, p, state)
  OBVIOUS
<1>3. in \in given => \E S \in SUBSET M!Rows : in = M!Given(S)
  OBVIOUS
<1> QED
  BY <1>1, <1>2, <1>3

LEMMA MorningInputsTyped ==
    ASSUME MorningEvidence, NEW in \in M!Inputs
    PROVE  /\ in.reader \in BOOLEAN /\ DOMAIN in.hl = M!Perps
           /\ \A c \in in.closes : c.name \in CloseStocks /\ c.session \in M!Day
              /\ c.market \in M!Day
<1>1. /\ DOMAIN M!NoInput.hl = M!Perps /\ M!NoInput.reader = FALSE /\ M!NoInput.closes = {}
      /\ M!NoInput = [reader |-> FALSE, hl |-> M!NoInput.hl, given |-> FALSE, closes |-> {}]
  BY DEF M!NoInput
<1>2. ASSUME NEW r \in BOOLEAN, NEW p \in M!Perps, NEW state \in M!PerpStates,
             in = M!Trading(r, p, state)
      PROVE  in.reader = r /\ DOMAIN in.hl = M!Perps /\ in.closes = {}
  BY <1>1, <1>2 DEF M!Trading
<1>3. ASSUME NEW S \in SUBSET M!Rows, in = M!Given(S)
      PROVE  in.reader = FALSE /\ DOMAIN in.hl = M!Perps /\ in.closes = S
  BY <1>1, <1>3 DEF M!Given
<1>4. \A c \in M!Rows : c.name \in CloseStocks /\ c.session \in M!Day /\ c.market \in M!Day
  BY MorningDaysAre DEF M!Rows
<1>5. CASE \E r \in BOOLEAN, p \in M!Perps, state \in M!PerpStates : in = M!Trading(r, p, state)
  BY <1>2, <1>5
<1>6. CASE \E S \in SUBSET M!Rows : in = M!Given(S)
  <2>1. PICK S \in SUBSET M!Rows : in = M!Given(S)
    BY <1>6
  <2> QED
    BY <1>3, <1>4, <2>1
<1> QED
  BY <1>5, <1>6, MorningInputsAre

LEMMA MorningNothingTyped ==
    /\ M!NoInput.reader = FALSE /\ DOMAIN M!NoInput.hl = M!Perps /\ M!NoInput.closes = {}
    /\ MorningDocOf(M!NoDoc) /\ 0 \in M!Day
<1>1. 0 \in M!Day
  BY MorningAssumption DEF M!Day
<1>2. M!NoDoc.header = 0 /\ M!NoDoc.lines = {} /\ M!NoDoc.rows = [s \in M!Slots |-> "none"]
  BY DEF M!NoDoc, M!NoDay
<1> QED
  BY <1>1, <1>2 DEF MorningDocOf, M!NoInput

LEMMA MorningShapedInit == M!Init => MorningShaped
<1> SUFFICES ASSUME M!Init PROVE MorningShaped
  OBVIOUS
<1>1. /\ mToday = CloseFirst /\ mPrints = [s \in M!Slots |-> M!NoPrint] /\ prior = 0
      /\ mKeys \subseteq M!Keys /\ input = M!NoInput /\ doc = M!NoDoc
  BY DEF M!Init, M!Keys, M!NoDay
<1>2. \A s \in M!Slots : mPrints[s].num = FALSE /\ mPrints[s].day = 0
  BY <1>1 DEF M!NoPrint, M!NoDay
<1>3. CloseFirst \in CloseFirst..CloseLast
  BY MorningAssumption
<1> QED
  BY <1>1, <1>2, <1>3, MorningNothingTyped DEF MorningShaped, MorningEvidence

LEMMA MorningShapedStep == MorningShaped /\ [M!Next]_M!vars => MorningShaped'
<1> SUFFICES ASSUME MorningShaped, [M!Next]_M!vars PROVE MorningShaped'
  OBVIOUS
<1> USE DEF MorningShaped, MorningEvidence
<1>1. CASE M!NextDay
  <2> DEFINE S == {d \in M!Day : d > mToday /\ M!Weekday(d)}
  <2>1. S # {} /\ S \subseteq Nat
    BY <1>1, MorningAssumption DEF M!NextDay, M!Day
  <2>2. \E x \in S : \A y \in S : x <= y
    <3> HIDE DEF S
    <3> QED
      BY <2>1, NatLeast
  <2>3. mToday' \in S
    BY <1>1, <2>2 DEF M!NextDay, M!Min
  <2>4. mToday' \in CloseFirst..CloseLast
    BY <2>3, MorningAssumption DEF M!Day
  <2> QED
    BY <1>1, <2>4 DEF M!NextDay
<1>2. ASSUME NEW s \in {"ES", "CL", "US10Y"}, M!Falls(s) PROVE MorningShaped'
  <2>1. M!NoPrint.num \in BOOLEAN /\ M!NoPrint.day \in M!Day
    BY MorningAssumption DEF M!NoPrint, M!NoDay, M!Day
  <2>2. mPrints' = [mPrints EXCEPT ![s] = M!NoPrint]
    BY <1>2 DEF M!Falls
  <2>3. DOMAIN mPrints' = M!Slots
        /\ \A x \in M!Slots : mPrints'[x] = mPrints[x] \/ mPrints'[x] = M!NoPrint
    BY <2>2
  <2>4. \A x \in M!Slots : mPrints'[x].num \in BOOLEAN /\ mPrints'[x].day \in M!Day
    BY <2>1, <2>3
  <2> QED
    BY <1>2, <2>3, <2>4 DEF M!Falls
<1>3. ASSUME NEW s \in {"ES", "CL", "US10Y"}, NEW d \in {M!Expected, M!Before(M!Expected)},
             NEW pct \in BOOLEAN, M!Publish(s, d, pct)
      PROVE  MorningShaped'
  <2> DEFINE p == [num |-> TRUE, day |-> d, pct |-> pct]
  <2>1. p.num = TRUE /\ p.day \in M!Day
    BY MorningDaysAre
  <2>2. mPrints' = [mPrints EXCEPT ![s] = p]
    BY <1>3 DEF M!Publish
  <2>3. DOMAIN mPrints' = M!Slots
        /\ \A x \in M!Slots : mPrints'[x] = mPrints[x] \/ mPrints'[x] = p
    BY <2>2
  <2>4. \A x \in M!Slots : mPrints'[x].num \in BOOLEAN /\ mPrints'[x].day \in M!Day
    <3> HIDE DEF p
    <3> QED
      BY <2>1, <2>3
  <2> QED
    BY <1>3, <2>3, <2>4 DEF M!Publish
<1>4. CASE M!Capture
  <2>1. M!Seen("US10Y").day \in M!Day
    BY MorningAssumption DEF M!Seen, M!NoPrint, M!NoDay, M!Day, M!Slots
  <2> QED
    BY <1>4, <2>1 DEF M!Capture
<1>5. ASSUME NEW in \in M!Inputs, M!Render(in) PROVE MorningShaped'
  <2>1. UNCHANGED <<mToday, mPrints, prior, mKeys>> /\ input' = in /\ doc' = M!Drawn'
    BY <1>5 DEF M!Render
  <2>2. /\ in.reader \in BOOLEAN /\ DOMAIN in.hl = M!Perps
        /\ \A c \in in.closes : /\ c.name \in CloseStocks
                                /\ c.session \in M!Day /\ c.market \in M!Day
    BY MorningInputsTyped
  <2>3. MorningEvidence'
    BY <2>1, <2>2
  <2>4. (MorningEvidence => MorningDocOf(M!Drawn))'
    BY MorningDrawnTyped, PTL
  <2>5. MorningDocOf(doc)'
    BY <2>1, <2>3, <2>4
  <2> QED
    BY <2>3, <2>5
<1>6. CASE M!Finish
  <2>1. UNCHANGED <<mToday, mPrints, prior, mKeys>> /\ input' = M!NoInput /\ doc' = M!NoDoc
    BY <1>6 DEF M!Finish
  <2>2. MorningEvidence'
    BY <2>1, MorningNothingTyped
  <2> QED
    BY <2>1, <2>2, MorningNothingTyped
<1>7. CASE UNCHANGED M!vars
  BY <1>7 DEF M!vars
<1> QED
  BY <1>1, <1>2, <1>3, <1>4, <1>5, <1>6, <1>7 DEF M!Next

LEMMA MorningTypedHolds == M!Spec => []M!TypeOK
<1>1. MorningShaped => M!TypeOK
  BY DEF MorningShaped, MorningEvidence, MorningDocOf, M!TypeOK, M!hl, M!reader
<1> QED
  BY <1>1, MorningShapedInit, MorningShapedStep, PTL DEF M!Spec

-----------------------------------------------------------------------------
LEMMA DeliveryPart == FeedsSpec => Spec
<1>1. FeedsInit => Init
  BY DEF FeedsInit
<1>2. [FeedsNext]_feedsVars => [Next]_vars
  BY DEF FeedsNext, feedsVars, vars
<1> QED
  BY <1>1, <1>2, PTL DEF FeedsSpec, Spec

LEMMA HealthPart == FeedsSpec => HealthSpec
<1>1. FeedsInit => HealthInit
  BY DEF FeedsInit
<1>2. [FeedsNext]_feedsVars => [HealthNext]_healthVars
  BY DEF FeedsNext, feedsVars, healthVars
<1> QED
  BY <1>1, <1>2, PTL DEF FeedsSpec, HealthSpec

(* Each part's variables have their types, for every value of the          *)
(* constants.                                                              *)
THEOREM FeedsTypeCorrect == FeedsSpec => []FeedsTypeOK
<1> DEFINE Part == part \in {"vendors", "history", "health", "pulse", "morning", "alerts",
                             "worker", "delivery", "retain"}
<1>1. FeedsInit => Part
  BY DEF FeedsInit
<1>2. Part /\ [FeedsNext]_feedsVars => Part'
  BY DEF FeedsNext, feedsVars
<1>3. FeedsSpec => []P!TypeOK
  BY PulsePart, PulseIInvHolds, PulseIInvIsHonest, PTL
<1>4. WorkerTyped => W!TypeOK
  BY DEF WorkerTyped
<1>5. /\ Part /\ V!TypeOK /\ H!TypeOK /\ HealthTypeOK /\ P!TypeOK /\ M!TypeOK /\ A!TypeOK
         /\ W!TypeOK
      /\ TypeOK /\ R!TypeOK
      => FeedsTypeOK
  BY DEF FeedsTypeOK
<1> HIDE DEF Part
<1> QED
  BY <1>1, <1>2, <1>3, <1>4, <1>5, VendorPart, VendorTypedHolds, HistoryPart, HistoryTypedHolds,
     HealthPart, HealthTypeCorrect, MorningPart, MorningTypedHolds, AlertPart, AlertTypedHolds,
     WorkerPart, WorkerTypedHolds, DeliveryPart, TypeCorrect, RetainPart, RetainTypedHolds, PTL
     DEF FeedsSpec
=============================================================================
