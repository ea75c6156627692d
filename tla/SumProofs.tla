----------------------------- MODULE SumProofs -----------------------------
(***************************************************************************)
(* What a sum over a finite set is, for every set and every summand, and  *)
(* how the places of a sequence are counted.                              *)
(*                                                                         *)
(* SumFunctionOnSet(f, S) of the community modules is a fold: it takes    *)
(* the elements of S one by one, in an order fixed by CHOOSE.  The        *)
(* lemmas here say that the order does not matter (a sum is the value at  *)
(* any one element and the sum over the rest), and what follows from it.  *)
(*                                                                         *)
(* The library's induction theorems take an operator as a parameter.  The *)
(* forms of induction used here take the set of the values for which the  *)
(* claim holds instead.                                                   *)
(***************************************************************************)
EXTENDS Integers, Sequences, FiniteSets, FiniteSetsExt, Functions, FiniteSetTheorems,
        SequenceTheorems, WellFoundedInduction, TLAPS

-----------------------------------------------------------------------------
(* Induction *)

\* A set of numbers that is not empty has a least element.
LEMMA MinExists ==
    ASSUME NEW S \in SUBSET Nat, S # {}
    PROVE  Min(S) \in S /\ \A y \in S : Min(S) <= y
<1> DEFINE below == {ss \in Nat \X Nat : ss[1] < ss[2]}
<1>1. IsWellFoundedOn(below, Nat)
    BY NatLessThanWellFounded DEF OpToRel
<1>2. PICK x \in S : \A y \in S : ~(<<y, x>> \in below)
    BY <1>1, WFMin
<1>3. ASSUME NEW y \in S PROVE x <= y
    <2>1. x \in Nat /\ y \in Nat /\ ~(y < x)
        BY <1>2
    <2> QED BY <2>1
<1> QED BY <1>3 DEF Min

\* A set of numbers with 0 and the successors of its elements has them all.
LEMMA NatBySteps ==
    ASSUME NEW P, 0 \in P, \A n \in Nat : n \in P => n + 1 \in P
    PROVE  Nat \subseteq P
<1> SUFFICES ASSUME Nat \ P # {} PROVE FALSE
    OBVIOUS
<1>1. /\ Min(Nat \ P) \in Nat \ P
      /\ \A y \in Nat \ P : Min(Nat \ P) <= y
    BY MinExists
<1> DEFINE m == Min(Nat \ P)
<1> HIDE DEF m
<1>2. m \in Nat /\ m \notin P /\ \A y \in Nat : y \notin P => m <= y
    BY <1>1 DEF m
<1>3. m # 0
    BY <1>2
<1>4. m - 1 \in Nat /\ (m - 1) + 1 = m /\ ~(m <= m - 1)
    BY <1>2, <1>3
<1>5. m - 1 \in P
    BY <1>2, <1>4
<1> QED BY <1>2, <1>4, <1>5

\* A subset loses one element when one is taken out.
LEMMA OneLess ==
    ASSUME NEW t, IsFiniteSet(t), NEW n \in Nat, Cardinality(t) = n + 1
    PROVE  /\ t # {}
           /\ \A x \in t : IsFiniteSet(t \ {x}) /\ Cardinality(t \ {x}) = n
<1>1. ASSUME t = {} PROVE FALSE
  <2>1. Cardinality(t) = 0
    BY <1>1, FS_EmptySet, Zenon
  <2> QED BY <2>1
<1>2. ASSUME NEW x \in t PROVE IsFiniteSet(t \ {x}) /\ Cardinality(t \ {x}) = n
  <2>1. /\ IsFiniteSet(t \ {x})
        /\ Cardinality(t \ {x}) = IF x \in t THEN Cardinality(t) - 1 ELSE Cardinality(t)
    BY FS_RemoveElement, Zenon
  <2> QED BY <2>1
<1> QED BY <1>1, <1>2

\* A collection of sets with {} and, with a set, each set that has one element
\* of S more, has all subsets of the finite set S.
LEMMA SetBySteps ==
    ASSUME NEW S, IsFiniteSet(S), NEW P, {} \in P,
           \A t \in SUBSET S : \A x \in S \ t : t \in P => t \cup {x} \in P
    PROVE  \A t \in SUBSET S : t \in P
<1> DEFINE N == {n \in Nat : \A t \in SUBSET S : Cardinality(t) = n => t \in P}
<1>1. \A t \in SUBSET S : IsFiniteSet(t) /\ Cardinality(t) \in Nat
    BY FS_Subset, FS_CardinalityType
<1>2. 0 \in N
    BY <1>1, FS_EmptySet
<1>3. ASSUME NEW n \in Nat, n \in N PROVE n + 1 \in N
  <2> SUFFICES ASSUME NEW t \in SUBSET S, Cardinality(t) = n + 1 PROVE t \in P
    OBVIOUS
  <2>1. PICK x \in t : TRUE
    BY <1>1, OneLess
  <2>3. Cardinality(t \ {x}) = n
    BY <1>1, OneLess
  <2>4. t \ {x} \in P
    BY <1>3, <2>3
  <2>5. (t \ {x}) \cup {x} \in P
    BY <2>4
  <2>6. (t \ {x}) \cup {x} = t
    OBVIOUS
  <2> QED BY <2>5, <2>6
<1> HIDE DEF N
<1>4. Nat \subseteq N
    BY <1>2, <1>3, NatBySteps
<1> QED BY <1>1, <1>4 DEF N

\* A finite set of integers that is not empty has a least and a greatest
\* element.
LEMMA LeastOf ==
    ASSUME NEW S \in SUBSET Int, IsFiniteSet(S), S # {}
    PROVE  Min(S) \in S /\ \A y \in S : Min(S) <= y
<1> DEFINE P == {t \in SUBSET S : t = {} \/ \E m \in t : \A y \in t : m <= y}
<1>1. {} \in P
    OBVIOUS
<1>2. ASSUME NEW t \in SUBSET S, NEW x \in S \ t, t \in P PROVE t \cup {x} \in P
  <2>1. CASE t = {}
    <3>1. x \in t \cup {x} /\ \A y \in t \cup {x} : x <= y
        BY <2>1
    <3> QED BY <3>1
  <2>2. ASSUME t # {} PROVE t \cup {x} \in P
    <3>1. PICK m \in t : \A y \in t : m <= y
        BY <1>2, <2>2
    <3>2. CASE m <= x
      <4>1. m \in t \cup {x} /\ \A y \in t \cup {x} : m <= y
        BY <3>1, <3>2
      <4> QED BY <4>1
    <3>3. CASE ~(m <= x)
      <4>1. x \in t \cup {x} /\ \A y \in t \cup {x} : x <= y
        BY <3>1, <3>3
      <4> QED BY <4>1
    <3> QED BY <3>2, <3>3
  <2> QED BY <2>1, <2>2
<1> HIDE DEF P
<1>3. S \in P
    BY <1>1, <1>2, SetBySteps
<1>4. \E m \in S : \A y \in S : m <= y
    BY <1>3 DEF P
<1> QED BY <1>4 DEF Min

\* A finite nonempty set of integers has a greatest element.
LEMMA GreatestOf ==
    ASSUME NEW S \in SUBSET Int, IsFiniteSet(S), S # {}
    PROVE  Max(S) \in S /\ \A y \in S : y <= Max(S)
<1> DEFINE P == {t \in SUBSET S : t = {} \/ \E m \in t : \A y \in t : m >= y}
<1>1. {} \in P
    OBVIOUS
<1>2. ASSUME NEW t \in SUBSET S, NEW x \in S \ t, t \in P PROVE t \cup {x} \in P
  <2>1. CASE t = {}
    <3>1. x \in t \cup {x} /\ \A y \in t \cup {x} : x >= y
        BY <2>1
    <3> QED BY <3>1
  <2>2. ASSUME t # {} PROVE t \cup {x} \in P
    <3>1. PICK m \in t : \A y \in t : m >= y
        BY <1>2, <2>2
    <3>2. CASE m >= x
      <4>1. m \in t \cup {x} /\ \A y \in t \cup {x} : m >= y
        BY <3>1, <3>2
      <4> QED BY <4>1
    <3>3. CASE ~(m >= x)
      <4>1. x \in t \cup {x} /\ \A y \in t \cup {x} : x >= y
        BY <3>1, <3>3
      <4> QED BY <4>1
    <3> QED BY <3>2, <3>3
  <2> QED BY <2>1, <2>2
<1> HIDE DEF P
<1>3. S \in P
    BY <1>1, <1>2, SetBySteps
<1>4. \E m \in S : \A y \in S : m >= y
    BY <1>3 DEF P
<1> QED BY <1>4 DEF Max

-----------------------------------------------------------------------------
(* The recursion behind a sum *)

Picked(s) == CHOOSE x \in s : TRUE

\* h gives the sum of g over every subset of S.
Sums(g, S, h) ==
    h = [s \in SUBSET S |-> IF s = {} THEN 0 ELSE g[Picked(s)] + h[s \ {Picked(s)}]]

\* The same for subsets of at most n elements.
Upto(S, n) == {s \in SUBSET S : Cardinality(s) <= n}
SumsUpto(g, S, n, h) ==
    h = [s \in Upto(S, n) |-> IF s = {} THEN 0 ELSE g[Picked(s)] + h[s \ {Picked(s)}]]

\* The sums over the sets of at most n elements, from those of fewer.
LEMMA SumsUptoDefined ==
    ASSUME NEW S, IsFiniteSet(S), NEW g
    PROVE  \A n \in Nat : \E h : SumsUpto(g, S, n, h)
<1> DEFINE N == {n \in Nat : \E h : SumsUpto(g, S, n, h)}
<1>1. \A t \in SUBSET S : IsFiniteSet(t) /\ Cardinality(t) \in Nat
    BY FS_Subset, FS_CardinalityType
<1>2. 0 \in N
  <2> DEFINE h == [s \in Upto(S, 0) |-> 0]
  <2>1. \A s \in Upto(S, 0) : s = {}
    BY <1>1, FS_EmptySet DEF Upto
  <2>2. SumsUpto(g, S, 0, h)
    BY <2>1 DEF SumsUpto
  <2> QED BY <2>2
<1>3. ASSUME NEW n \in Nat, n \in N PROVE n + 1 \in N
  <2>1. PICK h : SumsUpto(g, S, n, h)
    BY <1>3
  <2> DEFINE k == [s \in Upto(S, n + 1) |->
                       IF s = {} THEN 0 ELSE g[Picked(s)] + h[s \ {Picked(s)}]]
  <2>2. ASSUME NEW s \in Upto(S, n + 1), s # {} PROVE k[s \ {Picked(s)}] = h[s \ {Picked(s)}]
    <3> DEFINE r == s \ {Picked(s)}
    <3>1. Picked(s) \in s
        BY <2>2 DEF Picked
    <3>2. Cardinality(r) = Cardinality(s) - 1 /\ r \in SUBSET S
        BY <1>1, <3>1, FS_RemoveElement DEF Upto
    <3>3. Cardinality(s) <= n + 1 /\ Cardinality(s) \in Nat
        BY <1>1 DEF Upto
    <3>4. r \in Upto(S, n) /\ r \in Upto(S, n + 1)
        BY <3>2, <3>3 DEF Upto
    <3>5. h[r] = IF r = {} THEN 0 ELSE g[Picked(r)] + h[r \ {Picked(r)}]
        BY <2>1, <3>4 DEF SumsUpto
    <3>6. k[r] = IF r = {} THEN 0 ELSE g[Picked(r)] + h[r \ {Picked(r)}]
        BY <3>4
    <3> QED BY <3>5, <3>6
  <2>3. SumsUpto(g, S, n + 1, k)
    BY <2>2 DEF SumsUpto
  <2> QED BY <2>3
<1> HIDE DEF N
<1>4. Nat \subseteq N
    BY <1>2, <1>3, NatBySteps
<1> QED BY <1>4 DEF N

\* There is such a function, and the fold of the library is its value at S.
LEMMA SumsDefined ==
    ASSUME NEW S, IsFiniteSet(S), NEW g
    PROVE  \E h : Sums(g, S, h) /\ SumFunctionOnSet(g, S) = h[S]
<1>1. PICK h : SumsUpto(g, S, Cardinality(S), h)
    BY SumsUptoDefined, FS_CardinalityType
<1>2. Upto(S, Cardinality(S)) = SUBSET S
    BY FS_Subset DEF Upto
<1>3. Sums(g, S, h)
    BY <1>1, <1>2 DEF Sums, SumsUpto
<1> DEFINE iter == CHOOSE k : k = [s \in SUBSET S |->
                        IF s = {} THEN 0
                        ELSE g[CHOOSE x \in s : TRUE] + k[s \ {CHOOSE x \in s : TRUE}]]
<1>4. Sums(g, S, iter)
    BY <1>3 DEF Sums, Picked
<1>5. SumFunctionOnSet(g, S) = iter[S]
    BY DEF SumFunctionOnSet, FoldFunctionOnSet, MapThenFoldSet
<1> QED BY <1>4, <1>5

\* It does not depend on the set whose subsets are considered.
LEMMA SumsAgree ==
    ASSUME NEW S, IsFiniteSet(S), NEW T \in SUBSET S, NEW g, NEW h, NEW k,
           Sums(g, S, h), Sums(g, T, k)
    PROVE  \A t \in SUBSET T : h[t] = k[t]
<1> DEFINE N == {n \in Nat : \A t \in SUBSET T : Cardinality(t) = n => h[t] = k[t]}
<1>1. \A t \in SUBSET T : IsFiniteSet(t) /\ Cardinality(t) \in Nat /\ t \in SUBSET S
    BY FS_Subset, FS_CardinalityType
<1>2. 0 \in N
  <2> SUFFICES ASSUME NEW t \in SUBSET T, Cardinality(t) = 0 PROVE h[t] = k[t]
    OBVIOUS
  <2>1. t = {} /\ t \in SUBSET S
    BY <1>1, FS_EmptySet
  <2> QED BY <2>1 DEF Sums
<1>3. ASSUME NEW n \in Nat, n \in N PROVE n + 1 \in N
  <2> SUFFICES ASSUME NEW t \in SUBSET T, Cardinality(t) = n + 1 PROVE h[t] = k[t]
    OBVIOUS
  <2> DEFINE r == t \ {Picked(t)}
  <2>1. t # {} /\ t \in SUBSET S
    BY <1>1, OneLess
  <2>2. Picked(t) \in t
    BY <2>1 DEF Picked
  <2>3. Cardinality(r) = n /\ r \in SUBSET T
    BY <1>1, <2>2, OneLess
  <2>4. h[r] = k[r]
    BY <1>3, <2>3
  <2>5. h[t] = g[Picked(t)] + h[r]
    BY <2>1 DEF Sums
  <2>6. k[t] = g[Picked(t)] + k[r]
    BY <2>1 DEF Sums
  <2> QED BY <2>4, <2>5, <2>6
<1> HIDE DEF N
<1>4. Nat \subseteq N
    BY <1>2, <1>3, NatBySteps
<1> QED BY <1>1, <1>4 DEF N

-----------------------------------------------------------------------------
(* Sums *)

\* Nothing adds up to zero.
LEMMA SumEmpty == ASSUME NEW g PROVE SumFunctionOnSet(g, {}) = 0
<1>1. PICK h : Sums(g, {}, h) /\ SumFunctionOnSet(g, {}) = h[{}]
    BY SumsDefined, FS_EmptySet
<1> QED BY <1>1 DEF Sums

\* The first element the fold takes.
LEMMA SumPicked ==
    ASSUME NEW S, IsFiniteSet(S), S # {}, NEW g
    PROVE  /\ Picked(S) \in S
           /\ SumFunctionOnSet(g, S) = g[Picked(S)] + SumFunctionOnSet(g, S \ {Picked(S)})
<1> DEFINE T == S \ {Picked(S)}
<1>0. Picked(S) \in S
    BY DEF Picked
<1>1. PICK h : Sums(g, S, h) /\ SumFunctionOnSet(g, S) = h[S]
    BY SumsDefined
<1>2. IsFiniteSet(T) /\ T \in SUBSET S
    BY FS_Subset
<1>3. PICK k : Sums(g, T, k) /\ SumFunctionOnSet(g, T) = k[T]
    BY <1>2, SumsDefined, Zenon
<1>4. h[T] = k[T]
  <2>1. \A t \in SUBSET T : h[t] = k[t]
    BY <1>1, <1>2, <1>3, SumsAgree
  <2> QED BY <2>1
<1>5. h[S] = g[Picked(S)] + h[T]
    BY <1>1 DEF Sums
<1> QED BY <1>0, <1>1, <1>3, <1>4, <1>5

IntValued(g, S) == \A x \in S : g[x] \in Int

\* A sum is an integer, and any element may be taken first.
LEMMA SumInt ==
    ASSUME NEW S, IsFiniteSet(S), NEW g, IntValued(g, S)
    PROVE  \A t \in SUBSET S : SumFunctionOnSet(g, t) \in Int
<1> DEFINE N == {n \in Nat : \A t \in SUBSET S :
                                Cardinality(t) = n => SumFunctionOnSet(g, t) \in Int}
<1>1. \A t \in SUBSET S : IsFiniteSet(t) /\ Cardinality(t) \in Nat
    BY FS_Subset, FS_CardinalityType
<1>2. 0 \in N
  <2> SUFFICES ASSUME NEW t \in SUBSET S, Cardinality(t) = 0
               PROVE  SumFunctionOnSet(g, t) \in Int
    OBVIOUS
  <2>1. t = {}
    BY <1>1, FS_EmptySet
  <2> QED BY <2>1, SumEmpty
<1>3. ASSUME NEW n \in Nat, n \in N PROVE n + 1 \in N
  <2> SUFFICES ASSUME NEW t \in SUBSET S, Cardinality(t) = n + 1
               PROVE  SumFunctionOnSet(g, t) \in Int
    OBVIOUS
  <2> DEFINE r == t \ {Picked(t)}
  <2>1. IsFiniteSet(t) /\ t # {}
    BY <1>1, OneLess
  <2>2. Picked(t) \in t /\ SumFunctionOnSet(g, t) = g[Picked(t)] + SumFunctionOnSet(g, r)
    BY <2>1, SumPicked
  <2>3. Cardinality(r) = n /\ r \in SUBSET S
    BY <2>1, <2>2, OneLess
  <2>4. SumFunctionOnSet(g, r) \in Int
    BY <1>3, <2>3
  <2>5. g[Picked(t)] \in Int
    BY <2>2 DEF IntValued
  <2> QED BY <2>2, <2>4, <2>5
<1> HIDE DEF N
<1>4. Nat \subseteq N
    BY <1>2, <1>3, NatBySteps
<1> QED BY <1>1, <1>4 DEF N

\* A sum is the value at any one element and the sum over the rest.
LEMMA SumRemoves ==
    ASSUME NEW S, IsFiniteSet(S), NEW g, IntValued(g, S)
    PROVE  \A x \in S : SumFunctionOnSet(g, S) = g[x] + SumFunctionOnSet(g, S \ {x})
<1> DEFINE Total(t) == SumFunctionOnSet(g, t)
           Good(t) == \A x \in t : Total(t) = g[x] + Total(t \ {x})
           N == {n \in Nat : \A t \in SUBSET S : Cardinality(t) = n => Good(t)}
<1>1. \A t \in SUBSET S : IsFiniteSet(t) /\ Cardinality(t) \in Nat
    BY FS_Subset, FS_CardinalityType
<1>2. 0 \in N
    BY <1>1, FS_EmptySet
<1>3. ASSUME NEW n \in Nat, n \in N PROVE n + 1 \in N
  <2> SUFFICES ASSUME NEW t \in SUBSET S, Cardinality(t) = n + 1, NEW x \in t
               PROVE  Total(t) = g[x] + Total(t \ {x})
    OBVIOUS
  <2> DEFINE c == Picked(t)
             rest == Total((t \ {x}) \ {c})
  <2>1. IsFiniteSet(t) /\ t # {}
    BY <1>1, OneLess
  <2>2. c \in t /\ Total(t) = g[c] + Total(t \ {c})
    BY <2>1, SumPicked
  <2>3. CASE x = c
    BY <2>2, <2>3
  <2>4. CASE x # c
    <3>1. /\ Cardinality(t \ {c}) = n /\ t \ {c} \in SUBSET S /\ x \in t \ {c}
          /\ Cardinality(t \ {x}) = n /\ t \ {x} \in SUBSET S /\ c \in t \ {x}
        BY <2>1, <2>2, <2>4, OneLess
    <3>2. Total(t \ {c}) = g[x] + Total((t \ {c}) \ {x})
        BY <1>3, <3>1
    <3>3. Total(t \ {x}) = g[c] + rest
        BY <1>3, <3>1
    <3>4. (t \ {c}) \ {x} = (t \ {x}) \ {c}
        OBVIOUS
    <3>5. g[x] \in Int /\ g[c] \in Int /\ rest \in Int
        BY <2>2, SumInt DEF IntValued
    <3> HIDE DEF Total, rest, c
    <3>6. Total(t \ {c}) = g[x] + rest
        BY <3>2, <3>4 DEF rest
    <3> QED BY <2>2, <3>3, <3>5, <3>6
  <2> QED BY <2>3, <2>4
<1> HIDE DEF N
<1>4. Nat \subseteq N
    BY <1>2, <1>3, NatBySteps
<1> QED BY <1>1, <1>4 DEF N

-----------------------------------------------------------------------------
(* What sums are used for *)

\* One more element adds its value.
LEMMA SumAdds ==
    ASSUME NEW S, IsFiniteSet(S), NEW g, NEW x, x \notin S, IntValued(g, S \cup {x})
    PROVE  SumFunctionOnSet(g, S \cup {x}) = g[x] + SumFunctionOnSet(g, S)
<1>1. IsFiniteSet(S \cup {x}) /\ x \in S \cup {x} /\ (S \cup {x}) \ {x} = S
    BY FS_AddElement
<1> QED BY <1>1, SumRemoves

\* Only the values on S matter.
LEMMA SumEqual ==
    ASSUME NEW S, IsFiniteSet(S), NEW f, NEW g, IntValued(f, S), \A x \in S : f[x] = g[x]
    PROVE  SumFunctionOnSet(f, S) = SumFunctionOnSet(g, S)
<1> DEFINE P == {t \in SUBSET S : SumFunctionOnSet(f, t) = SumFunctionOnSet(g, t)}
<1>1. {} \in P
    BY SumEmpty
<1>2. ASSUME NEW t \in SUBSET S, NEW x \in S \ t, t \in P PROVE t \cup {x} \in P
  <2>1. IsFiniteSet(t) /\ IntValued(f, t \cup {x}) /\ IntValued(g, t \cup {x}) /\ x \notin t
    BY FS_Subset DEF IntValued
  <2>2. SumFunctionOnSet(f, t \cup {x}) = f[x] + SumFunctionOnSet(f, t)
    BY <2>1, SumAdds, Zenon
  <2>3. SumFunctionOnSet(g, t \cup {x}) = g[x] + SumFunctionOnSet(g, t)
    BY <2>1, SumAdds, Zenon
  <2> QED BY <1>2, <2>2, <2>3
<1> HIDE DEF P
<1>3. S \in P
    BY <1>1, <1>2, SetBySteps
<1> QED BY <1>3 DEF P

\* Two functions that differ at one element.
LEMMA SumBump ==
    ASSUME NEW S, IsFiniteSet(S), NEW f, NEW g, IntValued(f, S), IntValued(g, S), NEW x \in S,
           \A y \in S \ {x} : f[y] = g[y]
    PROVE  SumFunctionOnSet(g, S) = SumFunctionOnSet(f, S) - f[x] + g[x]
<1> DEFINE T == S \ {x}
<1>1. IsFiniteSet(T) /\ IntValued(f, T) /\ T \in SUBSET S /\ f[x] \in Int /\ g[x] \in Int
    BY FS_RemoveElement DEF IntValued
<1>2. SumFunctionOnSet(f, S) = f[x] + SumFunctionOnSet(f, T)
    BY SumRemoves
<1>3. SumFunctionOnSet(g, S) = g[x] + SumFunctionOnSet(g, T)
    BY SumRemoves
<1>4. SumFunctionOnSet(f, T) = SumFunctionOnSet(g, T)
    BY <1>1, SumEqual
<1>5. SumFunctionOnSet(f, T) \in Int
    BY <1>1, SumInt
<1> HIDE DEF T
<1> QED BY <1>1, <1>2, <1>3, <1>4, <1>5

\* One sum at most as large as another, value by value.
LEMMA SumAtMost ==
    ASSUME NEW S, IsFiniteSet(S), NEW f, NEW g, IntValued(f, S), IntValued(g, S),
           \A x \in S : f[x] <= g[x]
    PROVE  SumFunctionOnSet(f, S) <= SumFunctionOnSet(g, S)
<1> DEFINE P == {t \in SUBSET S : SumFunctionOnSet(f, t) <= SumFunctionOnSet(g, t)}
<1>1. {} \in P
    BY SumEmpty
<1>2. ASSUME NEW t \in SUBSET S, NEW x \in S \ t, t \in P PROVE t \cup {x} \in P
  <2>1. IsFiniteSet(t) /\ IntValued(f, t \cup {x}) /\ IntValued(g, t \cup {x}) /\ x \notin t
    BY FS_Subset DEF IntValued
  <2>2. SumFunctionOnSet(f, t \cup {x}) = f[x] + SumFunctionOnSet(f, t)
    BY <2>1, SumAdds, Zenon
  <2>3. SumFunctionOnSet(g, t \cup {x}) = g[x] + SumFunctionOnSet(g, t)
    BY <2>1, SumAdds, Zenon
  <2>4. SumFunctionOnSet(f, t) \in Int /\ SumFunctionOnSet(g, t) \in Int
    BY SumInt
  <2>5. f[x] \in Int /\ g[x] \in Int /\ f[x] <= g[x]
    BY DEF IntValued
  <2> QED BY <1>2, <2>2, <2>3, <2>4, <2>5
<1> HIDE DEF P
<1>3. S \in P
    BY <1>1, <1>2, SetBySteps
<1> QED BY <1>3 DEF P

\* The sum of a constant function.
LEMMA SumConstant ==
    ASSUME NEW S, IsFiniteSet(S), NEW g, NEW c \in Int, \A x \in S : g[x] = c
    PROVE  SumFunctionOnSet(g, S) = c * Cardinality(S)
<1> DEFINE P == {t \in SUBSET S : SumFunctionOnSet(g, t) = c * Cardinality(t)}
<1>1. {} \in P
    BY SumEmpty, FS_EmptySet
<1>2. ASSUME NEW t \in SUBSET S, NEW x \in S \ t, t \in P PROVE t \cup {x} \in P
  <2>1. IsFiniteSet(t) /\ IntValued(g, t \cup {x}) /\ x \notin t
    BY FS_Subset DEF IntValued
  <2>2. SumFunctionOnSet(g, t \cup {x}) = g[x] + SumFunctionOnSet(g, t)
    BY <2>1, SumAdds, Zenon
  <2>3. Cardinality(t \cup {x}) = Cardinality(t) + 1 /\ Cardinality(t) \in Nat
    BY <2>1, FS_AddElement, FS_CardinalityType
  <2>4. c * (Cardinality(t) + 1) = c + c * Cardinality(t)
    BY <2>3
  <2> QED BY <1>2, <2>2, <2>3, <2>4
<1> HIDE DEF P
<1>3. S \in P
    BY <1>1, <1>2, SetBySteps
<1> QED BY <1>3 DEF P

NatValued(g, S) == \A x \in S : g[x] \in Nat

\* Natural numbers add up to a natural number.
LEMMA SumNat ==
    ASSUME NEW S, IsFiniteSet(S), NEW g, NatValued(g, S)
    PROVE  SumFunctionOnSet(g, S) \in Nat
<1> DEFINE zero == [x \in S |-> 0]
<1>1. IntValued(g, S) /\ IntValued(zero, S) /\ \A x \in S : zero[x] <= g[x]
    BY DEF IntValued, NatValued
<1>2. SumFunctionOnSet(zero, S) <= SumFunctionOnSet(g, S)
    BY <1>1, SumAtMost
<1>3. SumFunctionOnSet(zero, S) = 0
    BY SumConstant, FS_CardinalityType
<1>4. SumFunctionOnSet(g, S) \in Int
    BY <1>1, SumInt
<1> QED BY <1>2, <1>3, <1>4

\* Zeros add up to zero.
LEMMA SumZero ==
    ASSUME NEW S, IsFiniteSet(S), NEW g, \A x \in S : g[x] = 0
    PROVE  SumFunctionOnSet(g, S) = 0
    BY SumConstant, FS_CardinalityType

\* A counter goes up: so does every sum it is part of.
LEMMA SumCountsUp ==
    ASSUME NEW D, IsFiniteSet(D), NEW f \in [D -> Nat], NEW g \in [D -> Nat], NEW d \in D,
           g[d] = f[d] + 1, \A y \in D \ {d} : f[y] = g[y],
           NEW S \in SUBSET D
    PROVE  /\ SumFunctionOnSet(f, S) \in Nat
           /\ SumFunctionOnSet(g, S) = SumFunctionOnSet(f, S) + (IF d \in S THEN 1 ELSE 0)
<1>1. IsFiniteSet(S)
    BY FS_Subset
<1>2. IntValued(f, S) /\ IntValued(g, S) /\ NatValued(f, S)
    BY DEF IntValued, NatValued
<1>3. \A y \in S \ {d} : f[y] = g[y]
    OBVIOUS
<1>4. g[d] = f[d] + 1 /\ f[d] \in Nat
    OBVIOUS
<1>5. SumFunctionOnSet(f, S) \in Nat
    BY <1>1, <1>2, SumNat
<1>6. CASE d \in S
  <2>1. SumFunctionOnSet(g, S) = SumFunctionOnSet(f, S) - f[d] + g[d]
    BY <1>1, <1>2, <1>3, <1>6, SumBump
  <2> QED BY <1>4, <1>5, <1>6, <2>1
<1>7. CASE d \notin S
  <2>1. \A y \in S : f[y] = g[y]
    BY <1>3, <1>7
  <2>2. SumFunctionOnSet(f, S) = SumFunctionOnSet(g, S)
    BY <1>1, <1>2, <2>1, SumEqual
  <2> QED BY <1>5, <1>7, <2>2
<1> QED BY <1>6, <1>7

\* A sum over a whole domain counts up with one of its terms.
LEMMA SumCountsUpOverall ==
    ASSUME NEW D, IsFiniteSet(D), NEW f \in [D -> Nat], NEW g \in [D -> Nat], NEW d \in D,
           g[d] = f[d] + 1, \A y \in D \ {d} : f[y] = g[y]
    PROVE  SumFunctionOnSet(g, D) = SumFunctionOnSet(f, D) + 1
<1>1. D \in SUBSET D
    OBVIOUS
<1>2. SumFunctionOnSet(g, D) = SumFunctionOnSet(f, D) + (IF d \in D THEN 1 ELSE 0)
    BY <1>1, SumCountsUp
<1> QED BY <1>2

\* Sums of sums.
LEMMA SumPlus ==
    ASSUME NEW S, IsFiniteSet(S), NEW f, NEW g, NEW h, IntValued(f, S), IntValued(g, S),
           \A x \in S : h[x] = f[x] + g[x]
    PROVE  SumFunctionOnSet(h, S) = SumFunctionOnSet(f, S) + SumFunctionOnSet(g, S)
<1> DEFINE P == {t \in SUBSET S :
                    SumFunctionOnSet(h, t) = SumFunctionOnSet(f, t) + SumFunctionOnSet(g, t)}
<1>1. {} \in P
    BY SumEmpty
<1>2. ASSUME NEW t \in SUBSET S, NEW x \in S \ t, t \in P PROVE t \cup {x} \in P
  <2>1. IsFiniteSet(t) /\ IntValued(f, t \cup {x}) /\ IntValued(g, t \cup {x}) /\ x \notin t
        /\ IntValued(h, t \cup {x})
    BY FS_Subset DEF IntValued
  <2>2. SumFunctionOnSet(f, t \cup {x}) = f[x] + SumFunctionOnSet(f, t)
    BY <2>1, SumAdds, Zenon
  <2>3. SumFunctionOnSet(g, t \cup {x}) = g[x] + SumFunctionOnSet(g, t)
    BY <2>1, SumAdds, Zenon
  <2>4. SumFunctionOnSet(h, t \cup {x}) = h[x] + SumFunctionOnSet(h, t)
    BY <2>1, SumAdds, Zenon
  <2>5. SumFunctionOnSet(f, t) \in Int /\ SumFunctionOnSet(g, t) \in Int
    BY SumInt
  <2>6. f[x] \in Int /\ g[x] \in Int /\ h[x] = f[x] + g[x]
    BY DEF IntValued
  <2> QED BY <1>2, <2>2, <2>3, <2>4, <2>5, <2>6
<1> HIDE DEF P
<1>3. S \in P
    BY <1>1, <1>2, SetBySteps
<1> QED BY <1>3 DEF P

\* A set in two parts.
LEMMA SumParts ==
    ASSUME NEW S, IsFiniteSet(S), NEW T \in SUBSET S, NEW g, IntValued(g, S)
    PROVE  SumFunctionOnSet(g, S) = SumFunctionOnSet(g, T) + SumFunctionOnSet(g, S \ T)
<1> DEFINE U == S \ T
           P == {t \in SUBSET U :
                    SumFunctionOnSet(g, T \cup t)
                        = SumFunctionOnSet(g, T) + SumFunctionOnSet(g, t)}
<1>0. IsFiniteSet(T) /\ IsFiniteSet(U)
    BY FS_Subset
<1>1. {} \in P
  <2>1. T \cup {} = T /\ SumFunctionOnSet(g, T) \in Int /\ {} \in SUBSET U
    BY SumInt
  <2>2. SumFunctionOnSet(g, {}) = 0
    BY SumEmpty
  <2> QED BY <2>1, <2>2
<1>2. ASSUME NEW t \in SUBSET U, NEW x \in U \ t, t \in P PROVE t \cup {x} \in P
  <2>1. IsFiniteSet(t) /\ IntValued(g, t \cup {x}) /\ x \notin t
    BY <1>0, FS_Subset DEF IntValued
  <2>2. T \cup t \in SUBSET S /\ x \notin T \cup t /\ IntValued(g, (T \cup t) \cup {x})
    BY DEF IntValued
  <2>3. IsFiniteSet(T \cup t)
    BY <2>2, FS_Subset
  <2>4. SumFunctionOnSet(g, t \cup {x}) = g[x] + SumFunctionOnSet(g, t)
    BY <2>1, SumAdds, Zenon
  <2>5. SumFunctionOnSet(g, (T \cup t) \cup {x}) = g[x] + SumFunctionOnSet(g, T \cup t)
    BY <2>2, <2>3, SumAdds, Zenon
  <2>6. (T \cup t) \cup {x} = T \cup (t \cup {x}) /\ t \cup {x} \in SUBSET U
    OBVIOUS
  <2>7. SumFunctionOnSet(g, t) \in Int /\ SumFunctionOnSet(g, T) \in Int /\ g[x] \in Int
    BY SumInt DEF IntValued
  <2>8. SumFunctionOnSet(g, T \cup (t \cup {x})) = g[x] + SumFunctionOnSet(g, T \cup t)
    BY <2>5, <2>6, Zenon
  <2>9. SumFunctionOnSet(g, T \cup t) = SumFunctionOnSet(g, T) + SumFunctionOnSet(g, t)
    BY <1>2
  <2>10. SumFunctionOnSet(g, T \cup (t \cup {x}))
            = SumFunctionOnSet(g, T) + SumFunctionOnSet(g, t \cup {x})
    BY <2>4, <2>7, <2>8, <2>9
  <2> QED BY <2>6, <2>10
<1>3. U \in P
  <2> HIDE DEF P, U
  <2> QED BY <1>0, <1>1, <1>2, SetBySteps
<1>4. T \cup U = S
    OBVIOUS
<1> QED BY <1>3, <1>4

\* The values at the numbers up to n.
LEMMA SumPrefix ==
    ASSUME NEW g, NEW n \in Nat, IntValued(g, 1..(n + 1))
    PROVE  SumFunctionOnSet(g, 1..(n + 1)) = SumFunctionOnSet(g, 1..n) + g[n + 1]
<1>1. 1..(n + 1) = (1..n) \cup {n + 1} /\ n + 1 \notin 1..n
    OBVIOUS
<1>2. IsFiniteSet(1..n) /\ 1..n \in SUBSET (1..(n + 1)) /\ IsFiniteSet(1..(n + 1))
    BY FS_Interval
<1>3. SumFunctionOnSet(g, 1..(n + 1)) = g[n + 1] + SumFunctionOnSet(g, 1..n)
  <2>1. IntValued(g, (1..n) \cup {n + 1})
    BY <1>1, Zenon
  <2>2. SumFunctionOnSet(g, (1..n) \cup {n + 1}) = g[n + 1] + SumFunctionOnSet(g, 1..n)
    BY <1>1, <1>2, <2>1, SumAdds, Zenon
  <2> QED BY <1>1, <2>2, Zenon
<1>4. SumFunctionOnSet(g, 1..n) \in Int /\ g[n + 1] \in Int
    BY <1>2, SumInt DEF IntValued
<1> QED BY <1>1, <1>3, <1>4

\* The sum of the first zero values.
LEMMA SumPrefixEmpty == ASSUME NEW g PROVE SumFunctionOnSet(g, 1..0) = 0
<1>1. 1..0 = {}
    OBVIOUS
<1> QED BY <1>1, SumEmpty

\* g where the classification c says s.
Group(c, g, V, s) == [v \in V |-> IF c[v] = s THEN g[v] ELSE 0]

\* A sum by groups: S has the sums over the parts that a classification c of V
\* makes of it, and their sum is the sum over V.
LEMMA SumGroups ==
    ASSUME NEW V, IsFiniteSet(V), NEW S, IsFiniteSet(S), NEW c \in [V -> S],
           NEW g, IntValued(g, V), NEW h,
           \A s \in S : h[s] = SumFunctionOnSet(Group(c, g, V, s), V)
    PROVE  SumFunctionOnSet(h, S) = SumFunctionOnSet(g, V)
<1> DEFINE part(s) == [v \in V |-> IF c[v] = s THEN g[v] ELSE 0]
           tab(W) == [s \in S |-> SumFunctionOnSet(part(s), W)]
           P == {W \in SUBSET V : SumFunctionOnSet(tab(W), S) = SumFunctionOnSet(g, W)}
<1>i. \A s \in S : IntValued(part(s), V)
    BY DEF IntValued
<1>v. \A s \in S : \A v \in V : part(s)[v] = IF c[v] = s THEN g[v] ELSE 0
    OBVIOUS
<1> HIDE DEF part
<1>t. ASSUME NEW W \in SUBSET V PROVE IntValued(tab(W), S)
  <2> SUFFICES ASSUME NEW s \in S PROVE SumFunctionOnSet(part(s), W) \in Int
    BY DEF IntValued
  <2>1. IsFiniteSet(V) /\ IntValued(part(s), V)
    BY <1>i
  <2> QED BY <2>1, SumInt
<1>w. ASSUME NEW W, NEW s \in S PROVE tab(W)[s] = SumFunctionOnSet(part(s), W)
    OBVIOUS
<1> HIDE DEF tab
<1>1. {} \in P
  <2>1. \A s \in S : tab({})[s] = 0
    <3> SUFFICES ASSUME NEW s \in S PROVE tab({})[s] = 0
        OBVIOUS
    <3>1. SumFunctionOnSet(part(s), {}) = 0
        BY SumEmpty, Zenon
    <3> QED BY <1>w, <3>1
  <2>2. SumFunctionOnSet(tab({}), S) = 0
    BY <2>1, SumZero
  <2>3. SumFunctionOnSet(g, {}) = 0
    BY SumEmpty
  <2>4. {} \in SUBSET V
    OBVIOUS
  <2>5. SumFunctionOnSet(tab({}), S) = SumFunctionOnSet(g, {})
    BY <2>2, <2>3, Zenon
  <2> QED BY <2>4, <2>5, Zenon
<1>2. ASSUME NEW W \in SUBSET V, NEW x \in V \ W, W \in P PROVE W \cup {x} \in P
  <2> DEFINE U == W \cup {x}
  <2>1. /\ IsFiniteSet(W) /\ x \notin W /\ U \in SUBSET V
        /\ IntValued(g, U) /\ \A s \in S : IntValued(part(s), U)
    BY <1>i, FS_Subset DEF IntValued
  <2>2. SumFunctionOnSet(g, U) = g[x] + SumFunctionOnSet(g, W)
    BY <2>1, SumAdds, Zenon
  <2>3. ASSUME NEW s \in S PROVE tab(U)[s] = part(s)[x] + tab(W)[s]
    <3>1. SumFunctionOnSet(part(s), U) = part(s)[x] + SumFunctionOnSet(part(s), W)
        BY <2>1, SumAdds, Zenon
    <3> QED BY <3>1, <1>w
  <2>4. c[x] \in S /\ g[x] \in Int
    BY DEF IntValued
  <2>5. IntValued(tab(W), S) /\ IntValued(tab(U), S)
    BY <1>t, <2>1
  <2>6. \A s \in S \ {c[x]} : tab(W)[s] = tab(U)[s]
    <3> SUFFICES ASSUME NEW s \in S, s # c[x] PROVE tab(W)[s] = tab(U)[s]
        OBVIOUS
    <3>1. part(s)[x] = 0
        BY <1>v
    <3>2. tab(W)[s] \in Int
        BY <2>5 DEF IntValued
    <3>3. tab(U)[s] = part(s)[x] + tab(W)[s]
        BY <2>3
    <3> HIDE DEF U
    <3> QED BY <3>1, <3>2, <3>3
  <2>7. tab(U)[c[x]] = g[x] + tab(W)[c[x]] /\ tab(W)[c[x]] \in Int
    <3>1. part(c[x])[x] = g[x]
        BY <1>v, <2>4
    <3> QED BY <2>3, <2>4, <2>5, <3>1 DEF IntValued
  <2>8. SumFunctionOnSet(tab(U), S)
            = SumFunctionOnSet(tab(W), S) - tab(W)[c[x]] + tab(U)[c[x]]
    <3> DEFINE before == tab(W)
               after == tab(U)
    <3>1. /\ IntValued(before, S) /\ IntValued(after, S) /\ c[x] \in S
          /\ \A s \in S \ {c[x]} : before[s] = after[s]
        BY <2>4, <2>5, <2>6
    <3> HIDE DEF before, after, U, P
    <3>2. SumFunctionOnSet(after, S) = SumFunctionOnSet(before, S) - before[c[x]] + after[c[x]]
        BY <3>1, SumBump
    <3> QED BY <3>2 DEF before, after
  <2>9. SumFunctionOnSet(tab(W), S) \in Int /\ SumFunctionOnSet(tab(W), S) = SumFunctionOnSet(g, W)
    BY <1>2, <2>5, SumInt
  <2> HIDE DEF U
  <2>10. SumFunctionOnSet(tab(U), S) = SumFunctionOnSet(g, U)
    BY <2>2, <2>4, <2>7, <2>8, <2>9
  <2> QED BY <2>1, <2>10 DEF U
<1>3. SUBSET V \subseteq P
  <2> HIDE DEF P
  <2> QED BY <1>1, <1>2, SetBySteps
<1>4. SumFunctionOnSet(tab(V), S) = SumFunctionOnSet(g, V)
    BY <1>3
<1>5. ASSUME NEW s \in S PROVE tab(V)[s] = h[s]
  <2>1. h[s] = SumFunctionOnSet(part(s), V)
    BY DEF Group, part
  <2> QED BY <2>1, <1>w
<1>6. SumFunctionOnSet(tab(V), S) = SumFunctionOnSet(h, S)
  <2>1. IntValued(tab(V), S)
    BY <1>t
  <2> QED BY <1>5, <2>1, SumEqual
<1> QED BY <1>4, <1>6

-----------------------------------------------------------------------------
(* Counting in a sequence *)

\* A sequence has finitely many elements.
LEMMA RangeFinite ==
    ASSUME NEW R, NEW s \in Seq(R)
    PROVE  IsFiniteSet(Range(s)) /\ Range(s) \subseteq R
<1>1. Len(s) \in Nat /\ DOMAIN s = 1..Len(s) /\ \A i \in 1..Len(s) : s[i] \in R
    BY LenProperties, ElementOfSeq
<1>2. s \in Surjection(1..Len(s), Range(s))
    BY <1>1, LenProperties DEF Surjection, Range
<1>3. IsFiniteSet(1..Len(s))
    BY <1>1, FS_Interval
<1> QED BY <1>1, <1>2, <1>3, FS_Surjection DEF Range

\* The places of a sequence at which there is a member of a set.
Places(s, A) == {n \in DOMAIN s : s[n] \in A}

\* There are finitely many of them, none in the empty sequence.
LEMMA PlacesFinite ==
    ASSUME NEW R, NEW A, NEW s \in Seq(R)
    PROVE  /\ IsFiniteSet(Places(s, A)) /\ Cardinality(Places(s, A)) \in Nat
           /\ Cardinality(Places(s, A)) <= Len(s)
<1>1. Len(s) \in Nat /\ DOMAIN s = 1..Len(s)
    BY LenProperties
<1>2. IsFiniteSet(1..Len(s)) /\ Cardinality(1..Len(s)) = Len(s)
    BY <1>1, FS_Interval
<1>3. Places(s, A) \subseteq 1..Len(s)
    BY <1>1 DEF Places
<1>4. IsFiniteSet(Places(s, A)) /\ Cardinality(Places(s, A)) <= Cardinality(1..Len(s))
    BY <1>2, <1>3, FS_Subset, Zenon
<1> QED BY <1>2, <1>4, FS_CardinalityType

\* The empty sequence has no places.
LEMMA PlacesOfNone == ASSUME NEW A PROVE Cardinality(Places(<<>>, A)) = 0
<1>1. Places(<<>>, A) = {}
    BY EmptySeq DEF Places
<1> QED BY <1>1, FS_EmptySet, Zenon

\* An element is appended: one more place, if it is in the set.
LEMMA PlacesAppend ==
    ASSUME NEW R, NEW A, NEW s \in Seq(R), NEW r \in R
    PROVE  Cardinality(Places(Append(s, r), A))
               = Cardinality(Places(s, A)) + (IF r \in A THEN 1 ELSE 0)
<1> DEFINE t == Append(s, r)
           k == Len(s) + 1
<1>1. Len(s) \in Nat /\ DOMAIN s = 1..Len(s) /\ k \in Nat /\ k \notin 1..Len(s)
    BY LenProperties
<1>2. t \in Seq(R) /\ Len(t) = k /\ (\A i \in 1..Len(s) : t[i] = s[i]) /\ t[k] = r
    BY AppendProperties
<1>3. DOMAIN t = 1..k
    BY <1>2, LenProperties
<1>4. 1..k = (1..Len(s)) \cup {k}
    BY <1>1
<1> HIDE DEF t, k
<1>5. k \notin Places(s, A)
    BY <1>1 DEF Places
<1>6. CASE r \in A
  <2>1. Places(t, A) = Places(s, A) \cup {k}
    BY <1>1, <1>2, <1>3, <1>4, <1>6 DEF Places
  <2>2. IsFiniteSet(Places(s, A)) /\ Cardinality(Places(s, A)) \in Nat
    BY PlacesFinite
  <2>3. Cardinality(Places(s, A) \cup {k}) = Cardinality(Places(s, A)) + 1
    BY <1>5, <2>2, FS_AddElement
  <2> QED BY <1>6, <2>1, <2>3 DEF t
<1>7. CASE r \notin A
  <2>1. Places(t, A) = Places(s, A)
    BY <1>1, <1>2, <1>3, <1>4, <1>7 DEF Places
  <2>2. Cardinality(Places(s, A)) \in Nat
    BY PlacesFinite
  <2> QED BY <1>7, <2>1, <2>2 DEF t
<1> QED BY <1>6, <1>7

\* The head is taken off: one place less, if it is in the set.
LEMMA PlacesTail ==
    ASSUME NEW R, NEW A, NEW s \in Seq(R), s # <<>>
    PROVE  Cardinality(Places(s, A))
               = Cardinality(Places(Tail(s), A)) + (IF Head(s) \in A THEN 1 ELSE 0)
<1> DEFINE t == Tail(s)
<1>1. Len(s) \in Nat /\ DOMAIN s = 1..Len(s)
    BY LenProperties
<1>2. t \in Seq(R) /\ Len(t) = Len(s) - 1 /\ \A i \in 1..Len(t) : t[i] = s[i + 1]
    BY HeadTailProperties
<1>3. Len(t) \in Nat /\ DOMAIN t = 1..Len(t)
    BY <1>2, LenProperties
<1>4. Head(s) = s[1]
    OBVIOUS
<1> HIDE DEF t
<1> DEFINE P == Places(t, A)
           Q == {n \in Places(s, A) : n # 1}
           f == [n \in P |-> n + 1]
<1>5. IsFiniteSet(P) /\ Cardinality(P) \in Nat /\ IsFiniteSet(Places(s, A))
    BY <1>2, PlacesFinite
<1>6. f \in Bijection(P, Q)
  <2>1. \A n \in P : n \in 1..Len(t) /\ t[n] \in A
    BY <1>3 DEF Places
  <2>2. \A n \in P : n + 1 \in Q
    <3> SUFFICES ASSUME NEW n \in P PROVE n + 1 \in 1..Len(s) /\ s[n + 1] \in A /\ n + 1 # 1
        BY <1>1 DEF Places
    <3> QED BY <1>1, <1>2, <2>1
  <2>3. ASSUME NEW m \in Q PROVE \E n \in P : m = n + 1
    <3>1. m \in 1..Len(s) /\ s[m] \in A /\ m # 1
        BY <1>1 DEF Places
    <3>2. m - 1 \in 1..Len(t) /\ (m - 1) + 1 = m
        BY <1>1, <1>2, <1>3, <3>1
    <3>3. t[m - 1] = s[m]
        BY <1>2, <3>2
    <3>4. m - 1 \in P
        BY <1>3, <3>1, <3>2, <3>3 DEF Places
    <3> QED BY <3>2, <3>4
  <2>4. \A n \in P : n \in Int
    BY <2>1
  <2> HIDE DEF P, Q
  <2>5. f \in [P -> Q]
    BY <2>2
  <2>6. \A a, b \in P : f[a] = f[b] => a = b
    BY <2>4
  <2>7. \A m \in Q : \E n \in P : f[n] = m
    BY <2>3
  <2> QED BY <2>5, <2>6, <2>7 DEF Bijection, Injection, Surjection, IsInjective
<1>7. Cardinality(Q) = Cardinality(P) /\ IsFiniteSet(Q)
  <2>1. ExistsBijection(P, Q)
    BY <1>6 DEF ExistsBijection
  <2> QED BY <1>5, <2>1, FS_Bijection, Zenon
<1>8. CASE Head(s) \in A
  <2>1. 1 \in 1..Len(s)
    BY <1>1, <1>2, <1>3
  <2>2. Places(s, A) = Q \cup {1} /\ 1 \notin Q
    BY <1>1, <1>4, <1>8, <2>1 DEF Places
  <2>3. Cardinality(Q \cup {1}) = Cardinality(Q) + 1
    BY <1>7, <2>2, FS_AddElement
  <2> QED BY <1>7, <1>8, <2>2, <2>3 DEF t
<1>9. CASE Head(s) \notin A
  <2>1. Places(s, A) = Q
    BY <1>4, <1>9 DEF Places
  <2>2. Cardinality(Places(s, A)) = Cardinality(P)
    BY <1>7, <2>1
  <2> HIDE DEF P, Q, f
  <2>3. Cardinality(Places(s, A)) = Cardinality(P) + 0
    BY <1>5, <2>2
  <2> QED BY <1>9, <2>3 DEF P, t
<1> QED BY <1>8, <1>9

\* The places of a concatenation are those of its two parts.
LEMMA PlacesConcat ==
    ASSUME NEW R, NEW A, NEW s \in Seq(R), NEW t \in Seq(R)
    PROVE  Cardinality(Places(s \o t, A)) = Cardinality(Places(s, A)) + Cardinality(Places(t, A))
<1> DEFINE u == s \o t
           k == Len(s)
           l == Len(t)
           P == Places(t, A)
           Q == {n \in Places(u, A) : n > k}
           f == [n \in P |-> k + n]
<1>1. k \in Nat /\ l \in Nat /\ DOMAIN s = 1..k /\ DOMAIN t = 1..l
    BY LenProperties
<1>2. /\ u \in Seq(R) /\ Len(u) = k + l
      /\ \A n \in 1..(k + l) : u[n] = IF n <= k THEN s[n] ELSE t[n - k]
    BY ConcatProperties
<1>3. DOMAIN u = 1..(k + l)
    BY <1>2, LenProperties
<1> HIDE DEF u, k, l
<1>4. IsFiniteSet(P) /\ Cardinality(P) \in Nat
    BY PlacesFinite
<1>5. Places(s, A) = {n \in Places(u, A) : n <= k}
  <2>1. ASSUME NEW n \in 1..k PROVE n \in 1..(k + l) /\ u[n] = s[n]
    BY <1>1, <1>2
  <2>2. ASSUME NEW n \in 1..(k + l), n <= k PROVE n \in 1..k
    BY <1>1, <2>2
  <2>3. \A n \in 1..k : n <= k
    BY <1>1
  <2> QED BY <1>1, <1>3, <2>1, <2>2, <2>3 DEF Places
<1>6. f \in Bijection(P, Q)
  <2>1. \A n \in P : n \in 1..l /\ t[n] \in A
    BY <1>1 DEF Places
  <2>2. ASSUME NEW n \in P PROVE k + n \in Q
    <3>1. k + n \in 1..(k + l) /\ k + n > k /\ ~(k + n <= k) /\ (k + n) - k = n
        BY <1>1, <2>1
    <3>2. u[k + n] = t[n]
        BY <1>2, <3>1
    <3> QED BY <1>3, <2>1, <3>1, <3>2 DEF Places
  <2>3. ASSUME NEW m \in Q PROVE \E n \in P : m = k + n
    <3>1. m \in 1..(k + l) /\ u[m] \in A /\ m > k
        BY <1>3 DEF Places
    <3>2. m - k \in 1..l /\ k + (m - k) = m /\ ~(m <= k)
        BY <1>1, <3>1
    <3>3. t[m - k] = u[m]
        BY <1>2, <3>1, <3>2
    <3>4. m - k \in P
        BY <1>1, <3>1, <3>2, <3>3 DEF Places
    <3> QED BY <3>2, <3>4
  <2>4. \A n \in P : n \in Int
    BY <1>1, <2>1
  <2> HIDE DEF P, Q
  <2>5. f \in [P -> Q]
    BY <2>2
  <2>6. \A a, b \in P : f[a] = f[b] => a = b
    BY <1>1, <2>4
  <2>7. \A m \in Q : \E n \in P : f[n] = m
    BY <2>3
  <2> QED BY <2>5, <2>6, <2>7 DEF Bijection, Injection, Surjection, IsInjective
<1>7. Cardinality(Q) = Cardinality(P) /\ IsFiniteSet(Q)
  <2>1. ExistsBijection(P, Q)
    BY <1>6 DEF ExistsBijection
  <2> QED BY <1>4, <2>1, FS_Bijection, Zenon
<1>8. Places(u, A) = Places(s, A) \cup Q /\ Places(s, A) \cap Q = {}
  <2>1. \A n \in Places(u, A) : n \in Int
    BY <1>1, <1>3 DEF Places
  <2>2. \A n \in Places(u, A) : n <= k \/ n > k
    BY <1>1, <2>1
  <2>3. \A n \in Places(u, A) : ~(n <= k /\ n > k)
    BY <1>1, <2>1
  <2> QED BY <1>5, <2>2, <2>3
<1> HIDE DEF P, Q, f
<1>9. IsFiniteSet(Places(s, A)) /\ Cardinality(Places(s, A)) \in Nat
    BY PlacesFinite
<1>10. Cardinality(Places(s, A) \cup Q)
           = Cardinality(Places(s, A)) + Cardinality(Q) - Cardinality(Places(s, A) \cap Q)
    BY <1>7, <1>9, FS_Union, Zenon
<1>11. Cardinality(Places(s, A) \cap Q) = 0
    BY <1>8, FS_EmptySet, Zenon
<1>12. Cardinality(Places(u, A)) = Cardinality(Places(s, A)) + Cardinality(P)
    BY <1>4, <1>7, <1>8, <1>9, <1>10, <1>11
<1> QED BY <1>12 DEF P, u
=============================================================================
