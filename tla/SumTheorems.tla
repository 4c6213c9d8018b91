---------------------------- MODULE SumTheorems ----------------------------
(***************************************************************************)
(* Induction over numbers and finite sets, for families given as sets, and *)
(* what follows for the sum of a function over a finite set.               *)
(***************************************************************************)
EXTENDS FiniteSetsExt, FiniteSetTheorems, WellFoundedInduction, TLAPS

\* A set with 0 and all successors of its numbers has all numbers.
LEMMA NatSetInduction ==
  ASSUME NEW S, 0 \in S, \A n \in Nat : n \in S => n + 1 \in S
  PROVE  Nat \subseteq S
<1> SUFFICES ASSUME Nat \ S # {}
             PROVE  FALSE
  OBVIOUS
<1>1. PICK n \in Nat \ S : \A m \in Nat \ S : ~(<<m, n>> \in OpToRel(<, Nat))
  BY NatLessThanWellFounded, WFMin
<1>2. n # 0 /\ n - 1 \in Nat /\ n - 1 < n
  OBVIOUS
<1>3. <<n - 1, n>> \in OpToRel(<, Nat)
  BY <1>2 DEF OpToRel
<1>4. n - 1 \in S
  BY <1>1, <1>2, <1>3
<1> QED
  BY <1>2, <1>4

\* A family with the empty set that is closed under adding an element of S has S.
LEMMA FiniteSetInduction ==
  ASSUME NEW S, IsFiniteSet(S), NEW F, {} \in F,
         \A T \in SUBSET S, x \in S : T \in F => T \cup {x} \in F
  PROVE  S \in F
<1>1. PICK n \in Nat : ExistsSurjection(1 .. n, S)
  BY FS_NatSurjection
<1>2. PICK f \in [1 .. n -> S] : \A x \in S : \E i \in 1 .. n : f[i] = x
  BY <1>1 DEF ExistsSurjection, Surjection
<1> DEFINE first(i) == {f[j] : j \in 1 .. i}
           A == {i \in Nat : i <= n => first(i) \in F}
<1>3. 0 \in A
  <2>1. first(0) = {}
    OBVIOUS
  <2> QED
    BY <2>1
<1>4. ASSUME NEW i \in Nat, i \in A
      PROVE  i + 1 \in A
  <2> SUFFICES ASSUME i + 1 <= n
               PROVE  first(i + 1) \in F
    OBVIOUS
  <2>1. first(i) \in F /\ first(i) \in SUBSET S /\ f[i + 1] \in S
    BY <1>4
  <2>2. first(i + 1) = first(i) \cup {f[i + 1]}
    OBVIOUS
  <2> HIDE DEF first
  <2> QED
    BY <2>1, <2>2
<1>5. n \in A
  <2> HIDE DEF A
  <2> QED
    BY <1>3, <1>4, NatSetInduction
<1>6. first(n) = S
  BY <1>2
<1> HIDE DEF first
<1> QED
  BY <1>5, <1>6

-----------------------------------------------------------------------------
(* The sum of f over a finite set S is a fold that takes out one element    *)
(* after the other.                                                         *)

Chosen(s) == CHOOSE x \in s : TRUE

\* One step of the fold, for a set of which the smaller ones are summed in sum.
SumStep(f, sum, s) == IF s = {} THEN 0 ELSE f[Chosen(s)] + sum[s \ {Chosen(s)}]

SumTable(f, S) == CHOOSE sum : sum = [s \in SUBSET S |-> SumStep(f, sum, s)]

\* The fold of the library reads the sum off this table.
LEMMA SumIsTable ==
  ASSUME NEW f, NEW S
  PROVE  SumFunctionOnSet(f, S) = SumTable(f, S)[S]
BY DEF SumFunctionOnSet, FoldFunctionOnSet, MapThenFoldSet, SumTable, SumStep, Chosen

\* Such a table exists, of the sets of at most n elements for each n, and unfolds at
\* every subset of S.
LEMMA SumTableStep ==
  ASSUME NEW f, NEW S, IsFiniteSet(S)
  PROVE  \A s \in SUBSET S : SumTable(f, S)[s] = SumStep(f, SumTable(f, S), s)
<1> DEFINE Small(n) == {s \in SUBSET S : Cardinality(s) <= n}
           Good(n, sum) == sum = [s \in Small(n) |-> SumStep(f, sum, s)]
           A == {n \in Nat : \E sum : Good(n, sum)}
<1>1. \A s \in SUBSET S : /\ IsFiniteSet(s) /\ Cardinality(s) \in Nat
                          /\ Cardinality(s) <= Cardinality(S)
                          /\ Cardinality(s) = 0 <=> s = {}
  BY FS_Subset, FS_CardinalityType, FS_EmptySet
<1>2. ASSUME NEW s \in SUBSET S, s # {}
      PROVE  /\ Chosen(s) \in s
             /\ s \ {Chosen(s)} \in SUBSET S
             /\ Cardinality(s \ {Chosen(s)}) = Cardinality(s) - 1
  <2>1. Chosen(s) \in s
    BY <1>2 DEF Chosen
  <2> QED
    BY <1>1, <2>1, FS_RemoveElement
<1>3. 0 \in A
  <2> DEFINE zero == [s \in Small(0) |-> 0]
  <2>1. \A s \in Small(0) : s = {}
    BY <1>1
  <2>2. zero = [s \in Small(0) |-> SumStep(f, zero, s)]
    BY <2>1 DEF SumStep
  <2> QED
    BY <2>2
<1>4. ASSUME NEW n \in Nat, n \in A
      PROVE  n + 1 \in A
  <2>1. PICK sum : Good(n, sum)
    BY <1>4
  <2> DEFINE more == [s \in Small(n + 1) |-> SumStep(f, sum, s)]
  <2>2. ASSUME NEW s \in Small(n + 1)
        PROVE  SumStep(f, sum, s) = SumStep(f, more, s)
    <3>1. CASE s = {}
      BY <3>1 DEF SumStep
    <3>2. CASE s # {}
      <4>1. s \ {Chosen(s)} \in Small(n) /\ s \ {Chosen(s)} \in Small(n + 1)
        BY <1>1, <1>2, <3>2
      <4>2. more[s \ {Chosen(s)}] = SumStep(f, sum, s \ {Chosen(s)})
        BY <4>1
      <4>3. sum[s \ {Chosen(s)}] = SumStep(f, sum, s \ {Chosen(s)})
        <5> DEFINE again == [t \in Small(n) |-> SumStep(f, sum, t)]
        <5>1. again[s \ {Chosen(s)}] = SumStep(f, sum, s \ {Chosen(s)})
          BY <4>1
        <5>2. sum = again
          BY <2>1
        <5> QED
          BY <5>1, <5>2, Zenon
      <4> HIDE DEF more
      <4> QED
        BY <3>2, <4>2, <4>3 DEF SumStep
    <3> QED
      BY <3>1, <3>2
  <2>3. Good(n + 1, more)
    <3>1. more = [s \in Small(n + 1) |-> SumStep(f, more, s)]
      <4> DEFINE same == [s \in Small(n + 1) |-> SumStep(f, more, s)]
      <4>1. \A s \in Small(n + 1) : more[s] = same[s]
        BY <2>2
      <4> QED
        BY <2>2, Zenon
    <3> QED
      BY <3>1
  <2> HIDE DEF Good
  <2> QED
    BY <2>3
<1>5. Cardinality(S) \in A
  <2>1. Cardinality(S) \in Nat
    BY FS_CardinalityType
  <2> HIDE DEF A
  <2> QED
    BY <1>3, <1>4, <2>1, NatSetInduction
<1>6. Small(Cardinality(S)) = SUBSET S
  BY <1>1
<1>7. \E sum : sum = [s \in SUBSET S |-> SumStep(f, sum, s)]
  BY <1>5, <1>6
<1>8. SumTable(f, S) = [s \in SUBSET S |-> SumStep(f, SumTable(f, S), s)]
  BY <1>7, Zenon DEF SumTable
<1> DEFINE again == [s \in SUBSET S |-> SumStep(f, SumTable(f, S), s)]
<1>9. \A s \in SUBSET S : again[s] = SumStep(f, SumTable(f, S), s)
  OBVIOUS
<1> QED
  BY <1>8, <1>9, Zenon

\* Whichever element x of s comes off first, the sum is that of x and of the rest.
LEMMA SumTableSplit ==
  ASSUME NEW f, NEW S, IsFiniteSet(S), \A x \in S : f[x] \in Nat,
         NEW s \in SUBSET S
  PROVE  /\ SumTable(f, S)[s] \in Nat
         /\ \A x \in s : SumTable(f, S)[s] = f[x] + SumTable(f, S)[s \ {x}]
<1> DEFINE sum == SumTable(f, S)
           Split(t) == sum[t] \in Nat /\ \A x \in t : sum[t] = f[x] + sum[t \ {x}]
           A == {n \in Nat : \A t \in SUBSET S : Cardinality(t) <= n => Split(t)}
<1>1. \A t \in SUBSET S : /\ IsFiniteSet(t) /\ Cardinality(t) \in Nat
                          /\ Cardinality(t) = 0 <=> t = {}
                          /\ \A x \in t : Cardinality(t \ {x}) = Cardinality(t) - 1
  BY FS_Subset, FS_CardinalityType, FS_EmptySet, FS_RemoveElement
<1>2. sum[{}] = 0
  BY SumTableStep DEF SumStep
<1>3. \A t \in SUBSET S : t # {} =>
        Chosen(t) \in t /\ sum[t] = f[Chosen(t)] + sum[t \ {Chosen(t)}]
  <2>1. \A t : t # {} => Chosen(t) \in t
    BY DEF Chosen
  <2>2. ASSUME NEW t \in SUBSET S, t # {}
        PROVE  sum[t] = f[Chosen(t)] + sum[t \ {Chosen(t)}]
    <3>1. sum[t] = SumStep(f, sum, t)
      BY SumTableStep
    <3> HIDE DEF sum
    <3> QED
      BY <2>2, <3>1 DEF SumStep
  <2> HIDE DEF sum
  <2> QED
    BY <2>1, <2>2
<1> HIDE DEF sum
<1>4. 0 \in A
  BY <1>1, <1>2
<1>5. ASSUME NEW n \in Nat, n \in A
      PROVE  n + 1 \in A
  <2> SUFFICES ASSUME NEW t \in SUBSET S, Cardinality(t) <= n + 1, t # {}
               PROVE  Split(t)
    <3>1. Split({})
      BY <1>2
    <3> HIDE DEF Split
    <3> QED
      BY <3>1
  <2> DEFINE c == Chosen(t)
  <2>1. c \in t /\ c \in S /\ sum[t] = f[c] + sum[t \ {c}]
    BY <1>3
  <2> HIDE DEF c
  <2>2. \A x \in t : t \ {x} \in SUBSET S /\ Cardinality(t \ {x}) <= n
    BY <1>1
  <2>3. \A x \in t : Split(t \ {x})
    BY <1>5, <2>2
  <2>4. sum[t] \in Nat
    BY <2>1, <2>3
  <2>5. ASSUME NEW x \in t, x # c
        PROVE  sum[t] = f[x] + sum[t \ {x}]
    <3>1. sum[t \ {c}] = f[x] + sum[(t \ {c}) \ {x}]
      BY <2>1, <2>3, <2>5
    <3>2. sum[t \ {x}] = f[c] + sum[(t \ {x}) \ {c}]
      BY <2>1, <2>3, <2>5
    <3>3. sum[(t \ {c}) \ {x}] = sum[(t \ {x}) \ {c}]
      <4>1. (t \ {c}) \ {x} = (t \ {x}) \ {c}
        OBVIOUS
      <4> QED
        BY <4>1, Zenon
    <3>4. sum[(t \ {x}) \ {c}] \in Nat
      <4>1. c \in t \ {x} /\ t \ {x} \in SUBSET S /\ (t \ {x}) \ {c} \in SUBSET S
        BY <2>1, <2>5
      <4>2. Cardinality((t \ {x}) \ {c}) = Cardinality(t \ {x}) - 1
        BY <1>1, <4>1
      <4>3. Cardinality((t \ {x}) \ {c}) <= n
        BY <1>1, <2>2, <4>1, <4>2
      <4> QED
        BY <1>5, <4>1, <4>3
    <3>5. f[c] \in Nat /\ f[x] \in Nat
      BY <2>1
    <3> HIDE DEF Split
    <3> QED
      BY <2>1, <3>1, <3>2, <3>3, <3>4, <3>5
  <2> QED
    BY <2>1, <2>4, <2>5
<1>6. Cardinality(s) \in A
  <2> HIDE DEF A
  <2> QED
    BY <1>1, <1>4, <1>5, NatSetInduction
<1> QED
  BY <1>1, <1>6 DEF sum

\* Two tables agree where the functions do.
LEMMA SumTableCongruence ==
  ASSUME NEW f, NEW g, NEW S, NEW R, IsFiniteSet(S), IsFiniteSet(R),
         NEW s \in SUBSET (S \cap R), \A x \in s : f[x] = g[x]
  PROVE  SumTable(f, S)[s] = SumTable(g, R)[s]
<1> DEFINE A == {n \in Nat : \A t \in SUBSET s :
                   Cardinality(t) <= n => SumTable(f, S)[t] = SumTable(g, R)[t]}
<1>1. \A t \in SUBSET s : /\ IsFiniteSet(t) /\ Cardinality(t) \in Nat
                          /\ Cardinality(t) = 0 <=> t = {}
                          /\ \A x \in t : Cardinality(t \ {x}) = Cardinality(t) - 1
  BY FS_Subset, FS_CardinalityType, FS_EmptySet, FS_RemoveElement
<1>2. \A t \in SUBSET s : /\ SumTable(f, S)[t] = SumStep(f, SumTable(f, S), t)
                          /\ SumTable(g, R)[t] = SumStep(g, SumTable(g, R), t)
  BY SumTableStep
<1>3. \A t \in SUBSET s : t # {} => Chosen(t) \in t
  BY DEF Chosen
<1>4. 0 \in A
  BY <1>1, <1>2 DEF SumStep
<1>5. ASSUME NEW n \in Nat, n \in A
      PROVE  n + 1 \in A
  <2> SUFFICES ASSUME NEW t \in SUBSET s, Cardinality(t) <= n + 1
               PROVE  SumTable(f, S)[t] = SumTable(g, R)[t]
    OBVIOUS
  <2>1. CASE t = {}
    BY <1>2, <2>1 DEF SumStep
  <2>2. CASE t # {}
    <3>1. Chosen(t) \in s /\ t \ {Chosen(t)} \in SUBSET s /\ Cardinality(t \ {Chosen(t)}) <= n
      BY <1>1, <1>3, <2>2
    <3>2. f[Chosen(t)] = g[Chosen(t)]
          /\ SumTable(f, S)[t \ {Chosen(t)}] = SumTable(g, R)[t \ {Chosen(t)}]
      BY <1>5, <3>1
    <3> QED
      BY <1>2, <2>2, <3>2 DEF SumStep
  <2> QED
    BY <2>1, <2>2
<1>6. Cardinality(s) \in A
  <2> HIDE DEF A
  <2> QED
    BY <1>1, <1>4, <1>5, NatSetInduction
<1> QED
  BY <1>1, <1>6

-----------------------------------------------------------------------------
(* What the conservation proofs use.                                        *)

\* Over no elements the sum is zero.
LEMMA SumNothing == \A f : SumFunctionOnSet(f, {}) = 0
BY SumIsTable, SumTableStep, FS_EmptySet DEF SumStep

\* A sum of numbers is a number.
LEMMA SumIsNat ==
  ASSUME NEW f, NEW S, IsFiniteSet(S), \A x \in S : f[x] \in Nat
  PROVE  SumFunctionOnSet(f, S) \in Nat
BY SumIsTable, SumTableSplit

\* A sum depends on the values of the function alone.
LEMMA SumOfEqual ==
  ASSUME NEW f, NEW g, NEW S, IsFiniteSet(S), \A x \in S : f[x] = g[x]
  PROVE  SumFunctionOnSet(f, S) = SumFunctionOnSet(g, S)
BY SumIsTable, SumTableCongruence

\* One element out of the sum.
LEMMA SumWithout ==
  ASSUME NEW f, NEW S, IsFiniteSet(S), \A y \in S : f[y] \in Nat, NEW x \in S
  PROVE  SumFunctionOnSet(f, S) = f[x] + SumFunctionOnSet(f, S \ {x})
<1>1. SumFunctionOnSet(f, S) = f[x] + SumTable(f, S)[S \ {x}]
  BY SumIsTable, SumTableSplit
<1>2. IsFiniteSet(S \ {x})
  BY FS_RemoveElement
<1>3. SumTable(f, S)[S \ {x}] = SumTable(f, S \ {x})[S \ {x}]
  BY <1>2, SumTableCongruence
<1> QED
  BY <1>1, <1>3, SumIsTable

\* One element into the sum.
LEMMA SumWith ==
  ASSUME NEW f, NEW S, IsFiniteSet(S), NEW x, x \notin S,
         \A y \in S \cup {x} : f[y] \in Nat
  PROVE  SumFunctionOnSet(f, S \cup {x}) = f[x] + SumFunctionOnSet(f, S)
<1>1. IsFiniteSet(S \cup {x}) /\ (S \cup {x}) \ {x} = S
  BY FS_AddElement
<1> QED
  BY <1>1, SumWithout

\* Two functions that differ at one element of S have sums that differ by as much.
LEMMA SumChange ==
  ASSUME NEW f, NEW g, NEW S, IsFiniteSet(S),
         \A y \in S : f[y] \in Nat /\ g[y] \in Nat,
         NEW x \in S, \A y \in S \ {x} : f[y] = g[y]
  PROVE  SumFunctionOnSet(g, S) + f[x] = SumFunctionOnSet(f, S) + g[x]
<1>1. IsFiniteSet(S \ {x})
  BY FS_RemoveElement
<1>2. /\ SumFunctionOnSet(f, S) = f[x] + SumFunctionOnSet(f, S \ {x})
      /\ SumFunctionOnSet(g, S) = g[x] + SumFunctionOnSet(g, S \ {x})
  BY SumWithout
<1>3. SumFunctionOnSet(f, S \ {x}) = SumFunctionOnSet(g, S \ {x})
  BY <1>1, SumOfEqual
<1>4. SumFunctionOnSet(f, S \ {x}) \in Nat
  BY <1>1, SumIsNat
<1> QED
  BY <1>2, <1>3, <1>4

\* A sum of zeros is zero.
LEMMA SumOfZeros ==
  ASSUME NEW f, NEW S, IsFiniteSet(S), \A x \in S : f[x] = 0
  PROVE  SumFunctionOnSet(f, S) = 0
<1> DEFINE F == {T \in SUBSET S : SumFunctionOnSet(f, T) = 0}
<1>1. {} \in F
  BY SumNothing
<1>2. ASSUME NEW T \in SUBSET S, NEW x \in S, T \in F
      PROVE  T \cup {x} \in F
  <2>1. CASE x \in T
    <3>1. T \cup {x} = T
      BY <2>1
    <3> QED
      BY <1>2, <3>1
  <2>2. CASE x \notin T
    <3>1. IsFiniteSet(T)
      BY FS_Subset
    <3>2. \A y \in T \cup {x} : f[y] \in Nat
      OBVIOUS
    <3>3. SumFunctionOnSet(f, T \cup {x}) = f[x] + SumFunctionOnSet(f, T)
      BY <2>2, <3>1, <3>2, SumWith
    <3> QED
      BY <1>2, <3>3
  <2> QED
    BY <2>1, <2>2
<1>3. S \in F
  <2> HIDE DEF F
  <2> QED
    BY <1>1, <1>2, FiniteSetInduction
<1> QED
  BY <1>3

=============================================================================
