----------------------------- MODULE SumTheorems -----------------------------
(***************************************************************************)
(* What a sum over a finite set is, for functions to the natural numbers.  *)
(* The community modules define it by a recursive function on the subsets  *)
(* of the set, which takes an arbitrary element at each step; it has to be *)
(* shown that there is such a function, and that the order is irrelevant.  *)
(*                                                                         *)
(* Each induction is over subsets of a finite set: were there subsets for  *)
(* which a statement fails, there would be a smallest one.                 *)
(***************************************************************************)
EXTENDS Sums, Integers, FiniteSets, FiniteSetTheorems, TLAPS

(* A family of subsets of a finite set has a smallest member.              *)
LEMMA SmallestSubset ==
  ASSUME NEW S, IsFiniteSet(S), NEW F \in SUBSET SUBSET S, F # {}
  PROVE  \E A \in F : \A B \in F : B \subseteq A => B = A
<1> DEFINE R == StrictSubsetOrdering(S)
           Finite == FiniteSubsetsOf(S)
<1>1. IsWellFoundedOn(R, Finite)
  BY FS_StrictSubsetOrderingWellFounded
<1>2. F \subseteq Finite
  BY FS_FiniteSubsetsOfFinite
<1>3. \A A, B \in SUBSET S : B \subseteq A /\ B # A => <<B, A>> \in R
  BY DEF StrictSubsetOrdering
<1> HIDE DEF R, Finite
<1>4. \E A \in F : \A B \in F : ~(<<B, A>> \in R)
  BY <1>1, <1>2, WFMin
<1> QED BY <1>3, <1>4

-----------------------------------------------------------------------------
(* The recursive function behind a sum.                                    *)

Some(S) == CHOOSE x \in S : TRUE

IsTotals(g, f, S) ==
  g = [s \in SUBSET S |-> IF s = {} THEN 0 ELSE f[Some(s)] + g[s \ {Some(s)}]]

LEMMA SumIsATotal ==
  ASSUME NEW f, NEW S
  PROVE  Sum(f, S) = (CHOOSE g : IsTotals(g, f, S))[S]
BY DEF Sum, MapThenSumSet, MapThenFoldSet, IsTotals, Some

(* What the recursion says of each subset.                                 *)
LEMMA TotalsStep ==
  ASSUME NEW f, NEW S, NEW g, IsTotals(g, f, S)
  PROVE  /\ g[{}] = 0
         /\ \A s \in SUBSET S : s # {} =>
              /\ Some(s) \in s /\ s \ {Some(s)} \in SUBSET S
              /\ g[s] = f[Some(s)] + g[s \ {Some(s)}]
<1>1. \A s \in SUBSET S : g[s] = IF s = {} THEN 0 ELSE f[Some(s)] + g[s \ {Some(s)}]
  BY DEF IsTotals
<1>2. \A s \in SUBSET S : s # {} => Some(s) \in s
  BY DEF Some
<1> QED BY <1>1, <1>2

(* Where two such functions are both defined, they agree.                  *)
LEMMA TotalsAgree ==
  ASSUME NEW f, NEW S, IsFiniteSet(S), NEW T \in SUBSET S,
         NEW g, IsTotals(g, f, S), NEW h, IsTotals(h, f, T)
  PROVE  \A s \in SUBSET T : g[s] = h[s]
<1> DEFINE Failing == {s \in SUBSET T : g[s] # h[s]}
<1>1. SUFFICES ASSUME Failing # {} PROVE FALSE
  OBVIOUS
<1>2. PICK A \in Failing : \A B \in Failing : B \subseteq A => B = A
  <2>1. IsFiniteSet(T)
    BY FS_Subset
  <2>2. Failing \in SUBSET SUBSET T
    OBVIOUS
  <2> HIDE DEF Failing
  <2> QED BY <1>1, <2>1, <2>2, SmallestSubset
<1>3. A \in SUBSET S /\ A \in SUBSET T /\ g[A] # h[A]
  BY <1>2
<1>4. A # {}
  <2>1. g[{}] = 0
    BY TotalsStep
  <2>2. h[{}] = 0
    BY TotalsStep
  <2> QED BY <1>3, <2>1, <2>2
<1>5. A \ {Some(A)} \notin Failing
  BY <1>2, <1>3, <1>4, TotalsStep
<1>6. g[A \ {Some(A)}] = h[A \ {Some(A)}]
  BY <1>3, <1>5
<1>7. g[A] = f[Some(A)] + g[A \ {Some(A)}] /\ h[A] = f[Some(A)] + h[A \ {Some(A)}]
  BY <1>3, <1>4, TotalsStep
<1> QED BY <1>3, <1>6, <1>7

Totals(f, S) == CHOOSE g : IsTotals(g, f, S)

(* There is such a function: on a smallest subset without one it could be  *)
(* put together from those of the smaller subsets.                         *)
LEMMA TotalsExist ==
  ASSUME NEW f, NEW S, IsFiniteSet(S)
  PROVE  IsTotals(Totals(f, S), f, S)
<1> DEFINE Failing == {s \in SUBSET S : ~IsTotals(Totals(f, s), f, s)}
<1>1. SUFFICES ASSUME Failing # {} PROVE FALSE
  OBVIOUS
<1>2. PICK A \in Failing : \A B \in Failing : B \subseteq A => B = A
  <2>1. Failing \in SUBSET SUBSET S
    OBVIOUS
  <2> HIDE DEF Failing
  <2> QED BY <1>1, <2>1, SmallestSubset
<1>3. \A s \in SUBSET A : s # A => IsTotals(Totals(f, s), f, s) /\ IsFiniteSet(s)
  BY <1>2, FS_Subset
<1> DEFINE Part(s) == Totals(f, s)[s]
           g == [s \in SUBSET A |->
                  IF s = A /\ s # {} THEN f[Some(A)] + Part(A \ {Some(A)})
                  ELSE IF s = {} THEN 0 ELSE Part(s)]
<1>4. \A s \in SUBSET A : s # {} => Some(s) \in s
  BY DEF Some
<1>5. \A s \in SUBSET A : s # A => g[s] = Part(s)
  <2>1. ASSUME {} # A PROVE Part({}) = 0
    BY <1>3, <2>1, TotalsStep
  <2> QED BY <2>1
<1>6. \A s \in SUBSET A : s # {} /\ s # A => g[s] = f[Some(s)] + g[s \ {Some(s)}]
  <2> SUFFICES ASSUME NEW s \in SUBSET A, s # {}, s # A
               PROVE  g[s] = f[Some(s)] + g[s \ {Some(s)}]
    OBVIOUS
  <2> DEFINE r == s \ {Some(s)}
  <2>1. r \in SUBSET A /\ r # A /\ r \in SUBSET s
    BY <1>4
  <2>2. /\ IsTotals(Totals(f, s), f, s) /\ IsFiniteSet(s)
        /\ IsTotals(Totals(f, r), f, r)
    BY <1>3, <2>1
  <2> HIDE DEF r
  <2>3. Totals(f, s)[r] = Totals(f, r)[r]
    BY <2>1, <2>2, TotalsAgree
  <2>4. Totals(f, s)[s] = f[Some(s)] + Totals(f, s)[r]
    BY <2>2, TotalsStep DEF r
  <2>5. g[s] = Totals(f, s)[s] /\ g[r] = Totals(f, r)[r]
    BY <1>5, <2>1
  <2> HIDE DEF g
  <2> QED BY <2>3, <2>4, <2>5 DEF r
<1>7. IsTotals(g, f, A)
  <2>1. A # {} => g[A] = f[Some(A)] + g[A \ {Some(A)}]
    BY <1>4, <1>5
  <2>2. g[{}] = 0
    OBVIOUS
  <2>3. \A s \in SUBSET A : g[s] = IF s = {} THEN 0 ELSE f[Some(s)] + g[s \ {Some(s)}]
    <3> HIDE DEF g
    <3> QED BY <1>6, <2>1, <2>2
  <2>4. g = [s \in SUBSET A |-> g[s]]
    OBVIOUS
  <2> HIDE DEF g
  <2> QED BY <2>3, <2>4 DEF IsTotals
<1>8. IsTotals(Totals(f, A), f, A)
  BY <1>7 DEF Totals
<1> QED BY <1>2, <1>8

-----------------------------------------------------------------------------
(* Sums.                                                                   *)

LEMMA SumStep ==
  ASSUME NEW f, NEW S, IsFiniteSet(S)
  PROVE  /\ S = {} => Sum(f, S) = 0
         /\ S # {} => /\ Some(S) \in S
                      /\ Sum(f, S) = f[Some(S)] + Sum(f, S \ {Some(S)})
<1>1. \A T : Sum(f, T) = Totals(f, T)[T]
  BY SumIsATotal DEF Totals
<1>2. IsTotals(Totals(f, S), f, S)
  BY TotalsExist
<1>3. CASE S = {}
  BY <1>1, <1>2, <1>3, TotalsStep
<1>4. CASE S # {}
  <2> DEFINE T == S \ {Some(S)}
  <2>1. T \in SUBSET S /\ IsFiniteSet(T)
    BY FS_Subset
  <2>2. IsTotals(Totals(f, T), f, T)
    BY <2>1, TotalsExist
  <2>3. Totals(f, S)[T] = Totals(f, T)[T]
    <3> HIDE DEF T
    <3> QED BY <1>2, <2>1, <2>2, TotalsAgree
  <2>4. Some(S) \in S /\ Totals(f, S)[S] = f[Some(S)] + Totals(f, S)[T]
    BY <1>2, <1>4, TotalsStep
  <2> QED BY <1>1, <1>4, <2>3, <2>4
<1> QED BY <1>3, <1>4

(* The sum of natural numbers is a natural number.                         *)
LEMMA SumType ==
  ASSUME NEW S, IsFiniteSet(S), NEW f, \A x \in S : f[x] \in Nat
  PROVE  Sum(f, S) \in Nat
<1> DEFINE Failing == {s \in SUBSET S : Sum(f, s) \notin Nat}
<1>1. SUFFICES ASSUME Failing # {} PROVE FALSE
  OBVIOUS
<1>2. PICK A \in Failing : \A B \in Failing : B \subseteq A => B = A
  <2>1. Failing \in SUBSET SUBSET S
    OBVIOUS
  <2> HIDE DEF Failing
  <2> QED BY <1>1, <2>1, SmallestSubset
<1>3. A \in SUBSET S /\ IsFiniteSet(A) /\ Sum(f, A) \notin Nat
  BY <1>2, FS_Subset
<1>4. A # {} /\ Some(A) \in A /\ Sum(f, A) = f[Some(A)] + Sum(f, A \ {Some(A)})
  <2>1. IsFiniteSet(A)
    BY <1>3
  <2>2. A = {} => Sum(f, A) = 0
    BY <2>1, SumStep
  <2>3. A # {}
    BY <1>3, <2>2
  <2> QED BY <2>1, <2>3, SumStep
<1>5. Sum(f, A \ {Some(A)}) \in Nat
  BY <1>2, <1>3, <1>4
<1> QED BY <1>3, <1>4, <1>5

(* Any element may be taken out first.                                     *)
LEMMA SumRemove ==
  ASSUME NEW S, IsFiniteSet(S), NEW f, \A x \in S : f[x] \in Nat
  PROVE  \A x \in S : Sum(f, S) = f[x] + Sum(f, S \ {x})
<1> DEFINE Failing == {s \in SUBSET S : \E x \in s : Sum(f, s) # f[x] + Sum(f, s \ {x})}
<1>1. SUFFICES ASSUME Failing # {} PROVE FALSE
  OBVIOUS
<1>2. PICK A \in Failing : \A B \in Failing : B \subseteq A => B = A
  <2>1. Failing \in SUBSET SUBSET S
    OBVIOUS
  <2> HIDE DEF Failing
  <2> QED BY <1>1, <2>1, SmallestSubset
<1>3. PICK x \in A : Sum(f, A) # f[x] + Sum(f, A \ {x})
  BY <1>2
<1>4. \A B \in SUBSET A : IsFiniteSet(B) /\ (B # A => B \notin Failing) /\ B \in SUBSET S
  BY <1>2, FS_Subset
<1>5. PICK c \in A : Sum(f, A) = f[c] + Sum(f, A \ {c})
  <2>1. A # {} /\ IsFiniteSet(A)
    BY <1>3, <1>4
  <2> QED BY <2>1, SumStep
<1>6. c # x /\ (A \ {c}) \ {x} = (A \ {x}) \ {c}
  BY <1>3, <1>5
<1>7. Sum(f, A \ {c}) = f[x] + Sum(f, (A \ {c}) \ {x})
  BY <1>3, <1>4, <1>6
<1>8. Sum(f, A \ {x}) = f[c] + Sum(f, (A \ {x}) \ {c})
  BY <1>3, <1>4, <1>6
<1>9. f[x] \in Nat /\ f[c] \in Nat /\ Sum(f, (A \ {x}) \ {c}) \in Nat
  <2>1. (A \ {x}) \ {c} \in SUBSET A
    OBVIOUS
  <2>2. IsFiniteSet((A \ {x}) \ {c}) /\ \A y \in (A \ {x}) \ {c} : f[y] \in Nat
    BY <1>4, <2>1
  <2> HIDE DEF Failing
  <2> QED BY <1>4, <2>2, SumType
<1> QED BY <1>3, <1>5, <1>6, <1>7, <1>8, <1>9

(* Functions that agree on the set have the same sum.                      *)
LEMMA SumEqual ==
  ASSUME NEW S, IsFiniteSet(S), NEW f, NEW g, \A x \in S : f[x] = g[x]
  PROVE  Sum(f, S) = Sum(g, S)
<1> DEFINE Failing == {s \in SUBSET S : Sum(f, s) # Sum(g, s)}
<1>1. SUFFICES ASSUME Failing # {} PROVE FALSE
  OBVIOUS
<1>2. PICK A \in Failing : \A B \in Failing : B \subseteq A => B = A
  <2>1. Failing \in SUBSET SUBSET S
    OBVIOUS
  <2> HIDE DEF Failing
  <2> QED BY <1>1, <2>1, SmallestSubset
<1>3. A \in SUBSET S /\ IsFiniteSet(A) /\ Sum(f, A) # Sum(g, A)
  BY <1>2, FS_Subset
<1>4. (A = {} => Sum(f, A) = 0) /\ (A = {} => Sum(g, A) = 0)
  BY <1>3, SumStep
<1>5. A # {}
  BY <1>3, <1>4
<1>6. Some(A) \in A /\ Sum(f, A) = f[Some(A)] + Sum(f, A \ {Some(A)})
  BY <1>3, <1>5, SumStep
<1>7. Sum(g, A) = g[Some(A)] + Sum(g, A \ {Some(A)})
  BY <1>3, <1>5, SumStep
<1>8. Sum(f, A \ {Some(A)}) = Sum(g, A \ {Some(A)})
  BY <1>2, <1>3, <1>6
<1> QED BY <1>3, <1>6, <1>7, <1>8

(* A sum of zeros is zero. *)
LEMMA SumZero ==
  ASSUME NEW S, IsFiniteSet(S), NEW f, \A x \in S : f[x] = 0
  PROVE  Sum(f, S) = 0
<1> DEFINE Failing == {s \in SUBSET S : Sum(f, s) # 0}
<1>1. SUFFICES ASSUME Failing # {} PROVE FALSE
  OBVIOUS
<1>2. PICK A \in Failing : \A B \in Failing : B \subseteq A => B = A
  <2>1. Failing \in SUBSET SUBSET S
    OBVIOUS
  <2> HIDE DEF Failing
  <2> QED BY <1>1, <2>1, SmallestSubset
<1>3. A \in SUBSET S /\ IsFiniteSet(A) /\ Sum(f, A) # 0
  BY <1>2, FS_Subset
<1>4. A = {} => Sum(f, A) = 0
  BY <1>3, SumStep
<1>5. Some(A) \in A /\ Sum(f, A) = f[Some(A)] + Sum(f, A \ {Some(A)})
  BY <1>3, <1>4, SumStep
<1>6. Sum(f, A \ {Some(A)}) = 0
  BY <1>2, <1>3, <1>5
<1> QED BY <1>3, <1>5, <1>6

(* When one summand grows, the sum grows by as much.                       *)
LEMMA SumUpdate ==
  ASSUME NEW S, IsFiniteSet(S), NEW f, NEW g, NEW x \in S, NEW n \in Nat,
         \A y \in S : f[y] \in Nat, g[x] = f[x] + n, \A y \in S \ {x} : g[y] = f[y]
  PROVE  Sum(g, S) = Sum(f, S) + n
<1>1. IsFiniteSet(S \ {x})
  BY FS_Subset
<1>2. \A y \in S : g[y] \in Nat
  OBVIOUS
<1>3. Sum(f, S) = f[x] + Sum(f, S \ {x})
  BY SumRemove
<1>4. Sum(g, S) = g[x] + Sum(g, S \ {x})
  BY <1>2, SumRemove
<1>5. Sum(g, S \ {x}) = Sum(f, S \ {x})
  BY <1>1, SumEqual
<1>6. Sum(f, S \ {x}) \in Nat
  BY <1>1, SumType
<1> QED BY <1>3, <1>4, <1>5, <1>6

(* The sum of sums, element by element.                                    *)
LEMMA SumPlus ==
  ASSUME NEW S, IsFiniteSet(S), NEW f, NEW g, NEW h,
         \A x \in S : f[x] \in Nat /\ g[x] \in Nat /\ h[x] = f[x] + g[x]
  PROVE  Sum(h, S) = Sum(f, S) + Sum(g, S)
<1> DEFINE Failing == {s \in SUBSET S : Sum(h, s) # Sum(f, s) + Sum(g, s)}
<1>1. SUFFICES ASSUME Failing # {} PROVE FALSE
  OBVIOUS
<1>2. PICK A \in Failing : \A B \in Failing : B \subseteq A => B = A
  <2>1. Failing \in SUBSET SUBSET S
    OBVIOUS
  <2> HIDE DEF Failing
  <2> QED BY <1>1, <2>1, SmallestSubset
<1>3. A \in SUBSET S /\ IsFiniteSet(A) /\ Sum(h, A) # Sum(f, A) + Sum(g, A)
  BY <1>2, FS_Subset
<1>4. A = {} => Sum(h, A) = 0 /\ Sum(f, A) = 0 /\ Sum(g, A) = 0
  BY <1>3, SumStep
<1>5. A # {}
  BY <1>3, <1>4
<1> DEFINE x == Some(A)
           B == A \ {x}
<1>6. x \in A /\ Sum(f, A) = f[x] + Sum(f, B)
  BY <1>3, <1>5, SumStep
<1>7. Sum(g, A) = g[x] + Sum(g, B)
  BY <1>3, <1>5, SumStep
<1>8. Sum(h, A) = h[x] + Sum(h, B)
  BY <1>3, <1>5, SumStep
<1>9. Sum(h, B) = Sum(f, B) + Sum(g, B)
  BY <1>2, <1>3, <1>6
<1>10. f[x] \in Nat /\ g[x] \in Nat /\ h[x] = f[x] + g[x]
  BY <1>3, <1>6
<1>11. B \in SUBSET S /\ IsFiniteSet(B)
  BY <1>3, FS_Subset
<1>12. Sum(f, B) \in Nat /\ Sum(g, B) \in Nat
  <2> HIDE DEF B, Failing
  <2> QED BY <1>11, SumType
<1> HIDE DEF x, B, Failing
<1> QED BY <1>3, <1>6, <1>7, <1>8, <1>9, <1>10, <1>12

(* A part of the set and the rest of it.                                   *)
LEMMA SumSplit ==
  ASSUME NEW S, IsFiniteSet(S), NEW T \in SUBSET S, NEW f, \A x \in S : f[x] \in Nat
  PROVE  Sum(f, S) = Sum(f, T) + Sum(f, S \ T)
<1> DEFINE Failing == {s \in SUBSET T : Sum(f, S) # Sum(f, s) + Sum(f, S \ s)}
<1>1. SUFFICES ASSUME Failing # {} PROVE FALSE
  OBVIOUS
<1>2. PICK A \in Failing : \A B \in Failing : B \subseteq A => B = A
  <2>1. Failing \in SUBSET SUBSET S
    OBVIOUS
  <2> HIDE DEF Failing
  <2> QED BY <1>1, <2>1, SmallestSubset
<1>3. A \in SUBSET S /\ IsFiniteSet(A) /\ Sum(f, S) # Sum(f, A) + Sum(f, S \ A)
  BY <1>2, FS_Subset
<1>4. CASE A = {}
  <2>1. Sum(f, A) = 0 /\ S \ A = S /\ Sum(f, S) \in Nat
    BY <1>3, <1>4, SumStep, SumType
  <2> QED BY <1>3, <2>1
<1>5. CASE A # {}
  <2>1. PICK x \in A : Sum(f, A) = f[x] + Sum(f, A \ {x})
    BY <1>3, <1>5, SumStep
  <2> DEFINE B == A \ {x}
             R == S \ B
  <2>2. Sum(f, S) = Sum(f, B) + Sum(f, R)
    BY <1>2, <1>3
  <2>3. R \in SUBSET S /\ x \in R /\ R \ {x} = S \ A /\ B \in SUBSET S
    BY <1>3
  <2>4. IsFiniteSet(R) /\ IsFiniteSet(B) /\ IsFiniteSet(S \ A)
    BY <2>3, FS_Subset
  <2> HIDE DEF B, R, Failing
  <2>5. Sum(f, R) = f[x] + Sum(f, R \ {x})
    BY <2>3, <2>4, SumRemove
  <2>6. Sum(f, B) \in Nat /\ Sum(f, S \ A) \in Nat /\ f[x] \in Nat
    BY <1>3, <2>3, <2>4, SumType
  <2>7. Sum(f, A) = f[x] + Sum(f, B)
    BY <2>1 DEF B
  <2> QED BY <1>3, <2>2, <2>3, <2>5, <2>6, <2>7
<1> QED BY <1>4, <1>5

(* Over more elements, and of greater summands, a sum is no smaller.       *)
LEMMA SumMonotone ==
  ASSUME NEW S, IsFiniteSet(S), NEW T \in SUBSET S, NEW f, NEW g,
         \A x \in S : f[x] \in Nat /\ g[x] \in Nat /\ f[x] <= g[x]
  PROVE  Sum(f, T) <= Sum(g, S)
<1> DEFINE h == [x \in S |-> g[x] - f[x]]
<1>1. \A x \in S : h[x] \in Nat /\ g[x] = f[x] + h[x]
  OBVIOUS
<1> HIDE DEF h
<1>2. Sum(g, S) = Sum(f, S) + Sum(h, S)
  BY <1>1, SumPlus
<1>3. Sum(f, S) = Sum(f, T) + Sum(f, S \ T)
  BY SumSplit
<1>4. IsFiniteSet(T) /\ IsFiniteSet(S \ T) /\ S \ T \in SUBSET S
  BY FS_Subset
<1>5. Sum(h, S) \in Nat /\ Sum(f, T) \in Nat /\ Sum(f, S \ T) \in Nat
  BY <1>1, <1>4, SumType
<1> QED BY <1>2, <1>3, <1>5

(* Elements without a share may be left out.                               *)
LEMMA SumSupport ==
  ASSUME NEW S, IsFiniteSet(S), NEW T \in SUBSET S, NEW f, \A x \in S : f[x] \in Nat,
         \A x \in S \ T : f[x] = 0
  PROVE  Sum(f, S) = Sum(f, T)
<1>1. IsFiniteSet(T) /\ IsFiniteSet(S \ T)
  BY FS_Subset
<1>2. Sum(f, S \ T) = 0
  BY <1>1, SumZero
<1>3. Sum(f, S) = Sum(f, T) + Sum(f, S \ T)
  BY SumSplit
<1>4. Sum(f, T) \in Nat
  BY <1>1, SumType
<1> QED BY <1>2, <1>3, <1>4
=============================================================================
