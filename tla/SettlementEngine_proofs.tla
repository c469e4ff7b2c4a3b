---------------------- MODULE SettlementEngine_proofs -----------------------
(***************************************************************************)
(* What packages/engine computes, for every input: splits that lose        *)
(* nothing, shares that sum to the receipt, transfers that settle every    *)
(* debt, and debits and payouts that say the same as the transfers. The    *)
(* proofs go by a minimal counterexample over the naturals or over the     *)
(* subsets of a finite set, so that no induction principle needs to be     *)
(* instantiated.                                                           *)
(***************************************************************************)
EXTENDS SettlementEngine, FiniteSetTheorems, WellFoundedInduction, TLAPS


-----------------------------------------------------------------------------
(* Sums over finite sets, from a minimal counterexample and not by induction. *)

\* A set of naturals that is not empty has a least member.
LEMMA NatMin ==
  ASSUME NEW S \in SUBSET Nat, S # {}
  PROVE  \E m \in S : \A n \in S : m <= n
<1>1. \E x \in S : \A y \in S : ~ (<<y, x>> \in OpToRel(<, Nat))
  BY NatLessThanWellFounded, WFMin
<1>2. PICK m \in S : \A y \in S : ~ (<<y, m>> \in OpToRel(<, Nat))
  BY <1>1
<1>3. \A n \in S : ~ (n < m)
  BY <1>2 DEF OpToRel
<1>. QED BY <1>3

\* Induction over the naturals, for a set: whatever is not in it would have a
\* least member.
LEMMA NatInduct ==
  ASSUME NEW S \in SUBSET Nat, 0 \in S, \A n \in S : n + 1 \in S
  PROVE  S = Nat
<1>. SUFFICES ASSUME Nat \ S # {} PROVE FALSE
  OBVIOUS
<1>1. PICK m \in Nat \ S : \A n \in Nat \ S : m <= n
  BY NatMin
<1>2. m # 0 /\ m - 1 \in Nat
  BY <1>1
<1>3. m - 1 \in S
  BY <1>1, <1>2
<1>. QED BY <1>1, <1>3

\* Induction over the subsets of a finite set: what is not in G would have a
\* smallest member.
LEMMA SetInduct ==
  ASSUME NEW U, IsFiniteSet(U), NEW G \in SUBSET (SUBSET U), {} \in G,
         \A T \in G : \A x \in U \ T : T \cup {x} \in G
  PROVE  G = SUBSET U
<1>. DEFINE Bad == (SUBSET U) \ G
            Sizes == {Cardinality(T) : T \in Bad}
<1>. SUFFICES ASSUME Bad # {} PROVE FALSE
  OBVIOUS
<1>1. \A T \in SUBSET U : IsFiniteSet(T) /\ Cardinality(T) \in Nat
  BY FS_Subset, FS_CardinalityType
<1>2. Sizes \in SUBSET Nat /\ Sizes # {}
  BY <1>1
<1>. HIDE DEF Sizes
<1>3. PICK m \in Sizes : \A n \in Sizes : m <= n
  BY <1>2, NatMin
<1>4. PICK T \in Bad : Cardinality(T) = m
  BY DEF Sizes
<1>5. PICK x \in T : TRUE
  BY <1>4
<1>6. Cardinality(T \ {x}) = m - 1
  BY <1>1, <1>4, <1>5, FS_RemoveElement
<1>7. m \in Int /\ m - 1 \notin Sizes
  BY <1>2, <1>3
<1>8. T \ {x} \notin Bad
  BY <1>6, <1>7 DEF Sizes
<1>9. T \ {x} \in G /\ x \in U \ (T \ {x}) /\ T = (T \ {x}) \cup {x}
  BY <1>4, <1>5, <1>8
<1>. QED BY <1>4, <1>9

\* The recursion that SumOver stands for, and that it has a solution.
Some(s) == CHOOSE x \in s : TRUE

\* g sums f over every set of D, one member after the other.
Unrolled(f, g, D) == g = [s \in D |-> IF s = {} THEN 0 ELSE f[Some(s)] + g[s \ {Some(s)}]]

\* The member taken out is one of the set.
LEMMA SomeIn ==
  ASSUME NEW S, IsFiniteSet(S), S # {}
  PROVE  /\ Some(S) \in S
         /\ Cardinality(S \ {Some(S)}) = Cardinality(S) - 1
  BY FS_RemoveElement DEF Some

\* The recursion has a solution on the subsets of a finite set.
LEMMA Unrolls ==
  ASSUME NEW f, NEW S, IsFiniteSet(S)
  PROVE  \E g : Unrolled(f, g, SUBSET S)
<1>. DEFINE Upto(n) == {s \in SUBSET S : Cardinality(s) <= n}
            N == {n \in Nat : \E g : Unrolled(f, g, Upto(n))}
<1>1. \A s \in SUBSET S : /\ IsFiniteSet(s) /\ Cardinality(s) \in Nat
                          /\ Cardinality(s) <= Cardinality(S)
                          /\ Cardinality(s) = 0 <=> s = {}
  BY FS_Subset, FS_CardinalityType, FS_EmptySet
<1>2. 0 \in N
  <2>1. Upto(0) = {{}}
    BY <1>1
  <2>2. Unrolled(f, [s \in {{}} |-> 0], {{}})
    BY DEF Unrolled
  <2>. QED BY <2>1, <2>2
<1>3. \A n \in N : n + 1 \in N
  <2>. SUFFICES ASSUME NEW n \in N PROVE n + 1 \in N
    OBVIOUS
  <2>1. PICK g : Unrolled(f, g, Upto(n))
    OBVIOUS
  <2>. DEFINE h == [s \in Upto(n + 1) |-> IF s = {} THEN 0 ELSE f[Some(s)] + g[s \ {Some(s)}]]
  <2>2. \A s \in Upto(n + 1) : s # {} => s \ {Some(s)} \in Upto(n)
    BY <1>1, SomeIn
  <2>3. \A s \in Upto(n) : s \in Upto(n + 1)
    BY <1>1
  <2>. HIDE DEF Upto
  <2>4. \A s \in Upto(n) : g[s] = IF s = {} THEN 0 ELSE f[Some(s)] + g[s \ {Some(s)}]
    BY <2>1, <1>1 DEF Unrolled
  <2>5. \A s \in Upto(n) : h[s] = g[s]
    BY <2>3, <2>4
  <2>6. h = [s \in Upto(n + 1) |-> IF s = {} THEN 0 ELSE f[Some(s)] + h[s \ {Some(s)}]]
    <3>. SUFFICES ASSUME NEW s \in Upto(n + 1)
                  PROVE  h[s] = IF s = {} THEN 0 ELSE f[Some(s)] + h[s \ {Some(s)}]
      OBVIOUS
    <3>1. h[s] = IF s = {} THEN 0 ELSE f[Some(s)] + g[s \ {Some(s)}]
      OBVIOUS
    <3>. HIDE DEF h
    <3>. QED BY <3>1, <2>2, <2>5
  <2>. HIDE DEF h
  <2>7. Unrolled(f, h, Upto(n + 1))
    BY <2>6 DEF Unrolled
  <2>8. \E gg : Unrolled(f, gg, Upto(n + 1))
    BY <2>7
  <2>. QED BY <2>8
<1>4. Cardinality(S) \in N
  BY <1>1, <1>2, <1>3, NatInduct, FS_CardinalityType
<1>5. Upto(Cardinality(S)) = SUBSET S
  BY <1>1
<1>. QED BY <1>4, <1>5

\* Two solutions agree wherever both are defined.
LEMMA UnrolledOnce ==
  ASSUME NEW f, NEW S, IsFiniteSet(S), NEW T \in SUBSET S, NEW g, NEW h,
         Unrolled(f, g, SUBSET S), Unrolled(f, h, SUBSET T)
  PROVE  g[T] = h[T]
<1>. DEFINE N == {n \in Nat : \A s \in SUBSET T : Cardinality(s) = n => g[s] = h[s]}
<1>1. \A s \in SUBSET S : /\ IsFiniteSet(s) /\ Cardinality(s) \in Nat
                          /\ Cardinality(s) = 0 <=> s = {}
  BY FS_Subset, FS_CardinalityType, FS_EmptySet
<1>2. \A s \in SUBSET T : /\ g[s] = IF s = {} THEN 0 ELSE f[Some(s)] + g[s \ {Some(s)}]
                          /\ h[s] = IF s = {} THEN 0 ELSE f[Some(s)] + h[s \ {Some(s)}]
  BY DEF Unrolled
<1>3. \A s \in SUBSET T : s # {} => /\ s \ {Some(s)} \in SUBSET T
                                    /\ Cardinality(s \ {Some(s)}) = Cardinality(s) - 1
  BY <1>1, SomeIn
<1>4. 0 \in N
  BY <1>1, <1>2
<1>5. \A n \in N : n + 1 \in N
  <2>. SUFFICES ASSUME NEW n \in N, NEW s \in SUBSET T, Cardinality(s) = n + 1
                PROVE  g[s] = h[s]
    OBVIOUS
  <2>1. s # {}
    BY <1>1
  <2>2. g[s \ {Some(s)}] = h[s \ {Some(s)}]
    BY <2>1, <1>3
  <2>. QED BY <2>1, <2>2, <1>2
<1>6. N = Nat
  BY <1>4, <1>5, NatInduct
<1>. QED BY <1>1, <1>6

\* The sum of the community modules is the solution.
LEMMA SumUnrolled ==
  ASSUME NEW f, NEW S, IsFiniteSet(S)
  PROVE  \E g : Unrolled(f, g, SUBSET S) /\ SumOver(f, S) = g[S]
<1>. DEFINE g == CHOOSE g : Unrolled(f, g, SUBSET S)
<1>1. Unrolled(f, g, SUBSET S)
  BY Unrolls
<1>2. SumOver(f, S) = g[S]
  BY DEF SumOver, MapThenSumSet, MapThenFoldSet, Unrolled, Some
<1>. QED BY <1>1, <1>2

\* Nothing sums to nothing.
LEMMA SumEmpty ==
  ASSUME NEW f
  PROVE  SumOver(f, {}) = 0
  BY DEF SumOver, MapThenSumSet, MapThenFoldSet

\* A set without one of its members has one member less.
LEMMA TakeOne ==
  ASSUME NEW S, IsFiniteSet(S), NEW x \in S
  PROVE  /\ IsFiniteSet(S \ {x})
         /\ Cardinality(S) \in Nat \ {0}
         /\ Cardinality(S \ {x}) = Cardinality(S) - 1
<1>1. /\ IsFiniteSet(S \ {x}) /\ Cardinality(S \ {x}) = Cardinality(S) - 1
  BY FS_RemoveElement
<1>2. Cardinality(S) \in Nat /\ Cardinality(S \ {x}) \in Nat
  BY <1>1, FS_CardinalityType
<1>. QED BY <1>1, <1>2

\* The sum is that of the member taken out and of the rest.
LEMMA SumSome ==
  ASSUME NEW f, NEW S, IsFiniteSet(S), S # {}
  PROVE  SumOver(f, S) = f[Some(S)] + SumOver(f, S \ {Some(S)})
<1>. DEFINE R == S \ {Some(S)}
<1>1. PICK g : Unrolled(f, g, SUBSET S) /\ SumOver(f, S) = g[S]
  BY SumUnrolled
<1>2. IsFiniteSet(R) /\ R \in SUBSET S
  BY FS_RemoveElement
<1>. HIDE DEF R
<1>3. PICK h : Unrolled(f, h, SUBSET R) /\ SumOver(f, R) = h[R]
  BY <1>2, SumUnrolled
<1>4. g[R] = h[R]
  BY <1>1, <1>2, <1>3, UnrolledOnce
<1>5. g[S] = f[Some(S)] + g[R]
  BY <1>1 DEF Unrolled, R
<1>. QED BY <1>1, <1>3, <1>4, <1>5 DEF R

\* Integers sum to an integer.
LEMMA SumInt ==
  ASSUME NEW f, NEW S, IsFiniteSet(S), \A x \in S : f[x] \in Int
  PROVE  SumOver(f, S) \in Int
<1>. DEFINE N == {n \in Nat : \A T \in SUBSET S : Cardinality(T) = n => SumOver(f, T) \in Int}
<1>1. \A s \in SUBSET S : /\ IsFiniteSet(s) /\ Cardinality(s) \in Nat
                          /\ Cardinality(s) = 0 <=> s = {}
  BY FS_Subset, FS_CardinalityType, FS_EmptySet
<1>2. 0 \in N
  BY <1>1, SumEmpty
<1>3. \A n \in N : n + 1 \in N
  <2>. SUFFICES ASSUME NEW n \in N, NEW T \in SUBSET S, Cardinality(T) = n + 1
                PROVE  SumOver(f, T) \in Int
    OBVIOUS
  <2>1. T # {} /\ IsFiniteSet(T)
    BY <1>1
  <2>2. /\ Some(T) \in T /\ T \ {Some(T)} \in SUBSET S /\ Cardinality(T \ {Some(T)}) = n
        /\ SumOver(f, T) = f[Some(T)] + SumOver(f, T \ {Some(T)})
    BY <2>1, SomeIn, SumSome
  <2>3. SumOver(f, T \ {Some(T)}) \in Int
    BY <2>2
  <2>. QED BY <2>2, <2>3
<1>4. N = Nat
  BY <1>2, <1>3, NatInduct
<1>. QED BY <1>1, <1>4

\* Any element may be taken out of a sum.
LEMMA SumTakes ==
  ASSUME NEW f, NEW S, IsFiniteSet(S), \A x \in S : f[x] \in Int, NEW z \in S
  PROVE  SumOver(f, S) = f[z] + SumOver(f, S \ {z})
<1>. DEFINE Good(T) == \A x \in T : SumOver(f, T) = f[x] + SumOver(f, T \ {x})
            N == {n \in Nat : \A T \in SUBSET S : Cardinality(T) = n => Good(T)}
<1>1. \A s \in SUBSET S : /\ IsFiniteSet(s) /\ Cardinality(s) \in Nat
                          /\ Cardinality(s) = 0 <=> s = {}
                          /\ SumOver(f, s) \in Int
  BY FS_Subset, FS_CardinalityType, FS_EmptySet, SumInt
<1>2. 0 \in N
  BY <1>1
<1>3. \A n \in N : n + 1 \in N
  <2>. SUFFICES ASSUME NEW n \in N, NEW T \in SUBSET S, Cardinality(T) = n + 1, NEW x \in T
                PROVE  SumOver(f, T) = f[x] + SumOver(f, T \ {x})
    OBVIOUS
  <2>. DEFINE a == Some(T)
  <2>1. T # {} /\ IsFiniteSet(T)
    BY <1>1
  <2>2. /\ a \in T /\ T \ {a} \in SUBSET S /\ Cardinality(T \ {a}) = n
        /\ SumOver(f, T) = f[a] + SumOver(f, T \ {a})
    BY <2>1, SomeIn, SumSome
  <2>. HIDE DEF a
  <2>3. ASSUME x # a
        PROVE  SumOver(f, T) = f[x] + SumOver(f, T \ {x})
    <3>. DEFINE U == T \ {a, x}
    <3>1. /\ T \ {x} \in SUBSET S /\ Cardinality(T \ {x}) = n /\ U \in SUBSET S
      BY <2>1, TakeOne
    <3>2. U = (T \ {a}) \ {x} /\ U = (T \ {x}) \ {a} /\ x \in T \ {a} /\ a \in T \ {x}
      BY <2>2, <2>3
    <3>3. SumOver(f, T \ {a}) = f[x] + SumOver(f, U)
      BY <2>2, <3>2
    <3>4. SumOver(f, T \ {x}) = f[a] + SumOver(f, U)
      BY <3>1, <3>2
    <3>5. f[a] \in Int /\ f[x] \in Int /\ SumOver(f, U) \in Int
      BY <1>1, <2>2, <3>1
    <3>. HIDE DEF U
    <3>. QED BY <3>3, <3>4, <3>5, <2>2
  <2>. QED BY <2>2, <2>3
<1>4. N = Nat
  BY <1>2, <1>3, NatInduct
<1>. QED BY <1>1, <1>4

\* A new member adds its value.
LEMMA SumAdds ==
  ASSUME NEW f, NEW S, IsFiniteSet(S), NEW z, z \notin S,
         \A x \in S \cup {z} : f[x] \in Int
  PROVE  /\ IsFiniteSet(S \cup {z})
         /\ SumOver(f, S \cup {z}) = SumOver(f, S) + f[z]
<1>1. IsFiniteSet(S \cup {z}) /\ (S \cup {z}) \ {z} = S
  BY FS_AddElement
<1>2. SumOver(f, S \cup {z}) = f[z] + SumOver(f, S)
  BY <1>1, SumTakes
<1>3. SumOver(f, S) \in Int /\ f[z] \in Int
  BY SumInt
<1>. QED BY <1>1, <1>2, <1>3

\* The sum over one member.
LEMMA SumOne ==
  ASSUME NEW f, NEW z, f[z] \in Int
  PROVE  SumOver(f, {z}) = f[z]
<1>1. IsFiniteSet({}) /\ SumOver(f, {}) = 0
  BY SumEmpty, FS_EmptySet
<1>2. SumOver(f, {} \cup {z}) = SumOver(f, {}) + f[z]
  BY <1>1, SumAdds
<1>3. {} \cup {z} = {z}
  OBVIOUS
<1>. QED BY <1>1, <1>2, <1>3

\* Only the summands count.
LEMMA SumSame ==
  ASSUME NEW f, NEW g, NEW S, IsFiniteSet(S), \A x \in S : f[x] \in Int /\ g[x] = f[x]
  PROVE  SumOver(f, S) = SumOver(g, S)
<1>. DEFINE G == {T \in SUBSET S : SumOver(f, T) = SumOver(g, T)}
<1>1. {} \in G
  BY SumEmpty
<1>2. \A T \in G : \A x \in S \ T : T \cup {x} \in G
  <2>. SUFFICES ASSUME NEW T \in G, NEW x \in S \ T PROVE T \cup {x} \in G
    OBVIOUS
  <2>1. IsFiniteSet(T)
    BY FS_Subset
  <2>2. /\ SumOver(f, T \cup {x}) = SumOver(f, T) + f[x]
        /\ SumOver(g, T \cup {x}) = SumOver(g, T) + g[x]
    BY <2>1, SumAdds
  <2>. QED BY <2>2
<1>3. G \in SUBSET (SUBSET S)
  OBVIOUS
<1>. HIDE DEF G
<1>4. G = SUBSET S
  BY <1>1, <1>2, <1>3, SetInduct
<1>. QED BY <1>4 DEF G

\* The sum of sums.
LEMMA SumPlus ==
  ASSUME NEW f, NEW g, NEW h, NEW S, IsFiniteSet(S),
         \A x \in S : f[x] \in Int /\ g[x] \in Int /\ h[x] = f[x] + g[x]
  PROVE  SumOver(h, S) = SumOver(f, S) + SumOver(g, S)
<1>. DEFINE G == {T \in SUBSET S : SumOver(h, T) = SumOver(f, T) + SumOver(g, T)}
<1>1. {} \in G
  BY SumEmpty
<1>2. \A T \in G : \A x \in S \ T : T \cup {x} \in G
  <2>. SUFFICES ASSUME NEW T \in G, NEW x \in S \ T PROVE T \cup {x} \in G
    OBVIOUS
  <2>1. IsFiniteSet(T) /\ T \subseteq S /\ \A y \in S : h[y] \in Int
    BY FS_Subset
  <2>2. /\ SumOver(f, T \cup {x}) = SumOver(f, T) + f[x]
        /\ SumOver(g, T \cup {x}) = SumOver(g, T) + g[x]
        /\ SumOver(h, T \cup {x}) = SumOver(h, T) + h[x]
    BY <2>1, SumAdds
  <2>3. /\ SumOver(f, T) \in Int /\ SumOver(g, T) \in Int
        /\ f[x] \in Int /\ g[x] \in Int /\ h[x] = f[x] + g[x]
    BY <2>1, SumInt
  <2>4. SumOver(h, T) = SumOver(f, T) + SumOver(g, T)
    OBVIOUS
  <2>. HIDE DEF G
  <2>5. SumOver(h, T \cup {x}) = SumOver(f, T \cup {x}) + SumOver(g, T \cup {x})
    BY <2>2, <2>3, <2>4
  <2>. QED BY <2>5 DEF G
<1>3. G \in SUBSET (SUBSET S)
  OBVIOUS
<1>. HIDE DEF G
<1>4. G = SUBSET S
  BY <1>1, <1>2, <1>3, SetInduct
<1>. QED BY <1>4 DEF G

\* Multiplication distributes over addition.
LEMMA Distributes ==
  ASSUME NEW a \in Int, NEW b \in Int, NEW c \in Int
  PROVE  c * (a + b) = c * a + c * b
  OBVIOUS

\* A factor may be taken out of a sum.
LEMMA SumScale ==
  ASSUME NEW f, NEW g, NEW c \in Int, NEW S, IsFiniteSet(S),
         \A x \in S : f[x] \in Int /\ g[x] = c * f[x]
  PROVE  SumOver(g, S) = c * SumOver(f, S)
<1>. DEFINE G == {T \in SUBSET S : SumOver(g, T) = c * SumOver(f, T)}
<1>1. {} \in G
  BY SumEmpty
<1>2. \A T \in G : \A x \in S \ T : T \cup {x} \in G
  <2>. SUFFICES ASSUME NEW T \in G, NEW x \in S \ T PROVE T \cup {x} \in G
    OBVIOUS
  <2>1. IsFiniteSet(T) /\ T \subseteq S /\ \A y \in S : g[y] \in Int
    BY FS_Subset
  <2>2. /\ SumOver(f, T \cup {x}) = SumOver(f, T) + f[x]
        /\ SumOver(g, T \cup {x}) = SumOver(g, T) + g[x]
    BY <2>1, SumAdds
  <2>3. SumOver(f, T) \in Int /\ f[x] \in Int /\ g[x] = c * f[x]
    BY <2>1, SumInt
  <2>4. SumOver(g, T) = c * SumOver(f, T)
    OBVIOUS
  <2>. HIDE DEF G
  <2>5. c * (SumOver(f, T) + f[x]) = c * SumOver(f, T) + c * f[x]
    BY <2>3, Distributes
  <2>6. SumOver(g, T \cup {x}) = c * SumOver(f, T \cup {x})
    BY <2>2, <2>3, <2>4, <2>5
  <2>. QED BY <2>6 DEF G
<1>3. G \in SUBSET (SUBSET S)
  OBVIOUS
<1>. HIDE DEF G
<1>4. G = SUBSET S
  BY <1>1, <1>2, <1>3, SetInduct
<1>. QED BY <1>4 DEF G

\* The sum over two disjoint sets.
LEMMA SumUnion ==
  ASSUME NEW f, NEW S, NEW U, IsFiniteSet(S), IsFiniteSet(U), S \cap U = {},
         \A x \in S \cup U : f[x] \in Int
  PROVE  SumOver(f, S \cup U) = SumOver(f, S) + SumOver(f, U)
<1>. DEFINE G == {T \in SUBSET U : SumOver(f, S \cup T) = SumOver(f, S) + SumOver(f, T)}
<1>1. {} \in G
  BY SumEmpty, SumInt
<1>2. \A T \in G : \A x \in U \ T : T \cup {x} \in G
  <2>. SUFFICES ASSUME NEW T \in G, NEW x \in U \ T PROVE T \cup {x} \in G
    OBVIOUS
  <2>1. IsFiniteSet(T) /\ IsFiniteSet(S \cup T) /\ x \notin S \cup T
        /\ S \cup (T \cup {x}) = (S \cup T) \cup {x}
    BY FS_Subset, FS_Union
  <2>2. /\ SumOver(f, T \cup {x}) = SumOver(f, T) + f[x]
        /\ SumOver(f, S \cup (T \cup {x})) = SumOver(f, S \cup T) + f[x]
    BY <2>1, SumAdds
  <2>3. SumOver(f, T) \in Int /\ SumOver(f, S) \in Int /\ f[x] \in Int
    BY <2>1, SumInt
  <2>4. SumOver(f, S \cup T) = SumOver(f, S) + SumOver(f, T)
    OBVIOUS
  <2>. HIDE DEF G
  <2>5. SumOver(f, S \cup (T \cup {x})) = SumOver(f, S) + SumOver(f, T \cup {x})
    BY <2>2, <2>3, <2>4
  <2>. QED BY <2>5 DEF G
<1>3. G \in SUBSET (SUBSET U)
  OBVIOUS
<1>. HIDE DEF G
<1>4. G = SUBSET U
  BY <1>1, <1>2, <1>3, SetInduct
<1>. QED BY <1>4 DEF G

\* Larger summands, larger sum.
LEMMA SumLeq ==
  ASSUME NEW f, NEW g, NEW S, IsFiniteSet(S),
         \A x \in S : f[x] \in Int /\ g[x] \in Int /\ f[x] <= g[x]
  PROVE  SumOver(f, S) <= SumOver(g, S)
<1>. DEFINE G == {T \in SUBSET S : SumOver(f, T) <= SumOver(g, T)}
<1>1. {} \in G
  BY SumEmpty
<1>2. \A T \in G : \A x \in S \ T : T \cup {x} \in G
  <2>. SUFFICES ASSUME NEW T \in G, NEW x \in S \ T PROVE T \cup {x} \in G
    OBVIOUS
  <2>1. IsFiniteSet(T)
    BY FS_Subset
  <2>2. /\ SumOver(f, T \cup {x}) = SumOver(f, T) + f[x]
        /\ SumOver(g, T \cup {x}) = SumOver(g, T) + g[x]
    BY <2>1, SumAdds
  <2>3. /\ SumOver(f, T) \in Int /\ SumOver(g, T) \in Int
        /\ f[x] \in Int /\ g[x] \in Int /\ f[x] <= g[x]
    BY <2>1, SumInt
  <2>4. SumOver(f, T) <= SumOver(g, T)
    OBVIOUS
  <2>. HIDE DEF G
  <2>5. SumOver(f, T \cup {x}) <= SumOver(g, T \cup {x})
    BY <2>2, <2>3, <2>4
  <2>. QED BY <2>5 DEF G
<1>3. G \in SUBSET (SUBSET S)
  OBVIOUS
<1>. HIDE DEF G
<1>4. G = SUBSET S
  BY <1>1, <1>2, <1>3, SetInduct
<1>. QED BY <1>4 DEF G

\* The sum of equal values.
LEMMA SumConst ==
  ASSUME NEW f, NEW S, IsFiniteSet(S), NEW c \in Int, \A x \in S : f[x] = c
  PROVE  SumOver(f, S) = c * Cardinality(S)
<1>. DEFINE G == {T \in SUBSET S : SumOver(f, T) = c * Cardinality(T)}
<1>1. {} \in G
  BY SumEmpty, FS_EmptySet
<1>2. \A T \in G : \A x \in S \ T : T \cup {x} \in G
  <2>. SUFFICES ASSUME NEW T \in G, NEW x \in S \ T PROVE T \cup {x} \in G
    OBVIOUS
  <2>1. IsFiniteSet(T)
    BY FS_Subset
  <2>2. SumOver(f, T \cup {x}) = SumOver(f, T) + c
    BY <2>1, SumAdds
  <2>3. Cardinality(T) \in Nat /\ Cardinality(T \cup {x}) = Cardinality(T) + 1
    BY <2>1, FS_AddElement, FS_CardinalityType
  <2>4. SumOver(f, T) = c * Cardinality(T)
    OBVIOUS
  <2>. HIDE DEF G
  <2>5. c * (Cardinality(T) + 1) = c * Cardinality(T) + c
    BY <2>3, Distributes
  <2>6. SumOver(f, T \cup {x}) = c * Cardinality(T \cup {x})
    BY <2>2, <2>3, <2>4, <2>5
  <2>. QED BY <2>6 DEF G
<1>3. G \in SUBSET (SUBSET S)
  OBVIOUS
<1>. HIDE DEF G
<1>4. G = SUBSET S
  BY <1>1, <1>2, <1>3, SetInduct
<1>. QED BY <1>4 DEF G

\* A sum by groups is the sum.
LEMMA SumGroups ==
  ASSUME NEW f, NEW g, NEW D, IsFiniteSet(D), NEW A, IsFiniteSet(A),
         \A i \in D : f[i] \in Int /\ g[i] \in A
  PROVE  SumOver([a \in A |-> SumOver(f, {i \in D : g[i] = a})], A) = SumOver(f, D)
<1>. DEFINE F == [a \in A |-> SumOver(f, {i \in D : g[i] = a})]
            In(B) == {i \in D : g[i] \in B}
            G == {B \in SUBSET A : SumOver(F, B) = SumOver(f, In(B))}
<1>1. {} \in G
  <2>1. In({}) = {}
    OBVIOUS
  <2>. QED BY <2>1, SumEmpty
<1>2. \A B \in G : \A a \in A \ B : B \cup {a} \in G
  <2>. SUFFICES ASSUME NEW B \in G, NEW a \in A \ B PROVE B \cup {a} \in G
    OBVIOUS
  <2>. DEFINE Fiber(b) == {i \in D : g[i] = b}
  <2>1. /\ IsFiniteSet(B) /\ IsFiniteSet(In(B)) /\ \A b \in A : IsFiniteSet(Fiber(b))
        /\ In(B) \cap Fiber(a) = {} /\ In(B \cup {a}) = In(B) \cup Fiber(a)
    BY FS_Subset
  <2>2. SumOver(f, In(B \cup {a})) = SumOver(f, In(B)) + SumOver(f, Fiber(a))
    BY <2>1, SumUnion
  <2>3. \A b \in A : F[b] = SumOver(f, Fiber(b)) /\ F[b] \in Int
    BY <2>1, SumInt
  <2>. HIDE DEF F
  <2>4. SumOver(F, B \cup {a}) = SumOver(F, B) + F[a]
    BY <2>1, <2>3, SumAdds
  <2>5. SumOver(F, B) = SumOver(f, In(B))
    OBVIOUS
  <2>6. SumOver(F, B \cup {a}) = SumOver(f, In(B \cup {a}))
    BY <2>2, <2>3, <2>4, <2>5
  <2>. QED BY <2>6
<1>3. G \in SUBSET (SUBSET A) /\ In(A) = D
  OBVIOUS
<1>. HIDE DEF G, F, In
<1>4. G = SUBSET A
  BY <1>1, <1>2, <1>3, SetInduct
<1>. QED BY <1>3, <1>4 DEF G, F

\* A double sum may be taken in either order.
LEMMA SumSwap ==
  ASSUME NEW h, NEW A, IsFiniteSet(A), NEW B, IsFiniteSet(B),
         \A a \in A : \A b \in B : h[a][b] \in Int
  PROVE  SumOver([a \in A |-> SumOver(h[a], B)], A)
           = SumOver([b \in B |-> SumOver([a \in A |-> h[a][b]], A)], B)
<1>. DEFINE row == [a \in A |-> SumOver(h[a], B)]
            Col(b) == [a \in A |-> h[a][b]]
            cols(C) == [b \in B |-> SumOver(Col(b), C)]
            G == {C \in SUBSET A : SumOver(row, C) = SumOver(cols(C), B)}
<1>1. {} \in G
  <2>1. SumOver(row, {}) = 0
    BY SumEmpty
  <2>2. \A b \in B : cols({})[b] = 0
    BY SumEmpty
  <2>. DEFINE z == cols({})
  <2>3. \A b \in B : z[b] = 0
    BY <2>2
  <2>. HIDE DEF z
  <2>4. SumOver(z, B) = 0 * Cardinality(B)
    BY <2>3, SumConst
  <2>a. Cardinality(B) \in Nat
    BY FS_CardinalityType
  <2>. HIDE DEF cols, row
  <2>5. SumOver(row, {}) = SumOver(cols({}), B)
    BY <2>1, <2>4, <2>a DEF z
  <2>. QED BY <2>5
<1>2. \A C \in G : \A x \in A \ C : C \cup {x} \in G
  <2>. SUFFICES ASSUME NEW C \in G, NEW x \in A \ C PROVE C \cup {x} \in G
    OBVIOUS
  <2>1. IsFiniteSet(C)
    BY FS_Subset
  <2>2. \A a \in A : row[a] = SumOver(h[a], B) /\ row[a] \in Int
    BY SumInt
  <2>. HIDE DEF row
  <2>3. SumOver(row, C \cup {x}) = SumOver(row, C) + row[x]
    BY <2>1, <2>2, SumAdds
  <2>4. ASSUME NEW b \in B
        PROVE  /\ cols(C)[b] \in Int
               /\ cols(C \cup {x})[b] = cols(C)[b] + h[x][b]
    <3>. DEFINE c == Col(b)
    <3>1. \A a \in A : c[a] \in Int /\ c[a] = h[a][b]
      OBVIOUS
    <3>2. cols(C)[b] = SumOver(c, C) /\ cols(C \cup {x})[b] = SumOver(c, C \cup {x})
      OBVIOUS
    <3>. HIDE DEF c, cols
    <3>3. SumOver(c, C) \in Int
      BY <2>1, <3>1, SumInt
    <3>4. SumOver(c, C \cup {x}) = SumOver(c, C) + c[x]
      BY <2>1, <3>1, SumAdds
    <3>. QED BY <3>1, <3>2, <3>3, <3>4
  <2>. DEFINE before == cols(C)
              after == cols(C \cup {x})
              added == h[x]
  <2>. HIDE DEF cols
  <2>5. \A b \in B : before[b] \in Int /\ added[b] \in Int /\ after[b] = before[b] + added[b]
    BY <2>4
  <2>6. SumOver(cols(C \cup {x}), B) = SumOver(cols(C), B) + SumOver(h[x], B)
    <3>. HIDE DEF before, after, added
    <3>1. SumOver(after, B) = SumOver(before, B) + SumOver(added, B)
      BY <2>5, SumPlus
    <3>. QED BY <3>1 DEF before, after, added
  <2>7. SumOver(row, C) = SumOver(cols(C), B)
    OBVIOUS
  <2>8. SumOver(row, C \cup {x}) = SumOver(cols(C \cup {x}), B)
    BY <2>2, <2>3, <2>6, <2>7
  <2>. QED BY <2>8
<1>3. G \in SUBSET (SUBSET A)
  OBVIOUS
<1>. HIDE DEF G
<1>4. G = SUBSET A
  BY <1>1, <1>2, <1>3, SetInduct
<1>. QED BY <1>4 DEF G

\* A sum over the places of distinct values is the sum over the values.
LEMMA SumRenames ==
  ASSUME NEW f, NEW s, NEW D, IsFiniteSet(D), NEW A, IsFiniteSet(A),
         \A i \in D : s[i] \in A,
         \A i, j \in D : s[i] = s[j] => i = j,
         \A a \in A : \E i \in D : s[i] = a,
         \A a \in A : f[a] \in Int
  PROVE  SumOver([i \in D |-> f[s[i]]], D) = SumOver(f, A)
<1>. DEFINE g == [i \in D |-> f[s[i]]]
            F == [a \in A |-> SumOver(g, {i \in D : s[i] = a})]
<1>1. \A i \in D : g[i] \in Int /\ g[i] = f[s[i]]
  OBVIOUS
<1>. HIDE DEF g
<1>2. SumOver(F, A) = SumOver(g, D)
  BY <1>1, SumGroups
<1>3. ASSUME NEW a \in A PROVE F[a] = f[a]
  <2>1. PICK i \in D : s[i] = a
    OBVIOUS
  <2>2. {j \in D : s[j] = a} = {i}
    BY <2>1
  <2>3. SumOver(g, {i}) = g[i]
    BY <1>1, SumOne
  <2>. QED BY <2>1, <2>2, <2>3, <1>1
<1>. HIDE DEF F
<1>4. SumOver(f, A) = SumOver(F, A)
  BY <1>3, SumSame
<1>. QED BY <1>2, <1>4 DEF g

-----------------------------------------------------------------------------
(* Ranks: a strict order on a finite set counts its members off. *)

\* R is a strict order of all of D.
Orders(R, D) ==
  /\ \A i \in D : <<i, i>> \notin R
  /\ \A i, j \in D : i # j => <<i, j>> \in R \/ <<j, i>> \in R
  /\ \A i, j, k \in D : <<i, j>> \in R /\ <<j, k>> \in R => <<i, k>> \in R

\* How many members of T come before i.
Rank(R, T, i) == Cardinality({j \in T : <<j, i>> \in R})

\* Every set of ordered members has a last one.
LEMMA LastExists ==
  ASSUME NEW R, NEW D, IsFiniteSet(D), Orders(R, D), NEW T \in SUBSET D, T # {}
  PROVE  \E m \in T : \A j \in T \ {m} : <<j, m>> \in R
<1>. DEFINE G == {U \in SUBSET D : U # {} => \E m \in U : \A j \in U \ {m} : <<j, m>> \in R}
<1>1. {} \in G
  OBVIOUS
<1>2. \A U \in G : \A x \in D \ U : U \cup {x} \in G
  <2>. SUFFICES ASSUME NEW U \in G, NEW x \in D \ U
                PROVE  \E m \in U \cup {x} : \A j \in (U \cup {x}) \ {m} : <<j, m>> \in R
    OBVIOUS
  <2>1. CASE U = {}
    BY <2>1
  <2>2. CASE U # {}
    <3>1. PICK m \in U : \A j \in U \ {m} : <<j, m>> \in R
      BY <2>2
    <3>2. CASE <<x, m>> \in R
      BY <3>1, <3>2
    <3>3. CASE <<m, x>> \in R
      <4>1. \A j \in U : <<j, x>> \in R
        BY <3>1, <3>3 DEF Orders
      <4>. QED BY <4>1
    <3>4. <<x, m>> \in R \/ <<m, x>> \in R
      BY DEF Orders
    <3>. QED BY <3>2, <3>3, <3>4
  <2>. QED BY <2>1, <2>2
<1>3. G \in SUBSET (SUBSET D)
  OBVIOUS
<1>. HIDE DEF G
<1>4. G = SUBSET D
  BY <1>1, <1>2, <1>3, SetInduct
<1>. QED BY <1>4 DEF G

\* Later members have higher ranks, and no two the same.
LEMMA RankRises ==
  ASSUME NEW R, NEW D, IsFiniteSet(D), Orders(R, D)
  PROVE  /\ \A i \in D : Rank(R, D, i) \in 0..(Cardinality(D) - 1)
         /\ \A i, j \in D : <<i, j>> \in R => Rank(R, D, i) < Rank(R, D, j)
         /\ \A i, j \in D : Rank(R, D, i) = Rank(R, D, j) => i = j
<1>. DEFINE Before(i) == {j \in D : <<j, i>> \in R}
<1>1. \A i \in D : /\ Before(i) \subseteq D \ {i} /\ IsFiniteSet(Before(i))
                   /\ Cardinality(Before(i)) \in Nat /\ Rank(R, D, i) = Cardinality(Before(i))
  BY FS_Subset, FS_CardinalityType DEF Orders, Rank
<1>2. ASSUME NEW i \in D
      PROVE  Rank(R, D, i) \in 0..(Cardinality(D) - 1)
  <2>1. /\ IsFiniteSet(D \ {i}) /\ Cardinality(D \ {i}) = Cardinality(D) - 1
        /\ Cardinality(D) \in Nat
    BY TakeOne
  <2>2. Before(i) \in SUBSET (D \ {i})
    BY <1>1
  <2>3. Cardinality(Before(i)) <= Cardinality(D \ {i})
    BY <2>1, <2>2, FS_Subset
  <2>. HIDE DEF Before
  <2>. QED BY <1>1, <2>1, <2>3
<1>3. ASSUME NEW i \in D, NEW j \in D, <<i, j>> \in R
      PROVE  Rank(R, D, i) < Rank(R, D, j)
  <2>1. i \in Before(j) /\ Before(i) \in SUBSET (Before(j) \ {i})
    BY <1>3 DEF Orders
  <2>2. /\ IsFiniteSet(Before(j) \ {i})
        /\ Cardinality(Before(j) \ {i}) = Cardinality(Before(j)) - 1
    BY <1>1, <2>1, TakeOne
  <2>3. Cardinality(Before(i)) <= Cardinality(Before(j) \ {i})
    BY <2>1, <2>2, FS_Subset
  <2>. HIDE DEF Before
  <2>. QED BY <1>1, <2>2, <2>3
<1>4. ASSUME NEW i \in D, NEW j \in D, Rank(R, D, i) = Rank(R, D, j)
      PROVE  i = j
  <2>1. i # j => Rank(R, D, i) < Rank(R, D, j) \/ Rank(R, D, j) < Rank(R, D, i)
    BY <1>3 DEF Orders
  <2>. QED BY <2>1, <1>2, <1>4
<1>. QED BY <1>2, <1>3, <1>4

\* As many have a rank below k as there are ranks below k.
LEMMA RanksCount ==
  ASSUME NEW R, NEW D, IsFiniteSet(D), Orders(R, D), NEW k \in 0..Cardinality(D)
  PROVE  Cardinality({i \in D : Rank(R, D, i) < k}) = k
<1>. DEFINE Below(T, n) == {i \in T : Rank(R, T, i) < n}
            Counts(T) == \A n \in 0..Cardinality(T) : Cardinality(Below(T, n)) = n
            N == {n \in Nat : \A T \in SUBSET D : Cardinality(T) = n => Counts(T)}
<1>1. \A s \in SUBSET D : /\ IsFiniteSet(s) /\ Cardinality(s) \in Nat
                          /\ Cardinality(s) = 0 <=> s = {}
                          /\ Orders(R, s)
  BY FS_Subset, FS_CardinalityType, FS_EmptySet DEF Orders
<1>2. 0 \in N
  <2>. SUFFICES ASSUME NEW T \in SUBSET D, Cardinality(T) = 0
                PROVE  Cardinality(Below(T, 0)) = 0
    OBVIOUS
  <2>1. Below(T, 0) = {}
    BY <1>1
  <2>. QED BY <2>1, FS_EmptySet
<1>3. \A n \in N : n + 1 \in N
  <2>. SUFFICES ASSUME NEW n \in N PROVE n + 1 \in N
    OBVIOUS
  <2>0. \A U \in SUBSET D : Cardinality(U) = n => Counts(U)
    OBVIOUS
  <2>. HIDE DEF Counts
  <2>. SUFFICES ASSUME NEW T \in SUBSET D, Cardinality(T) = n + 1
                PROVE  Counts(T)
    OBVIOUS
  <2>. SUFFICES ASSUME NEW c \in 0..(n + 1)
                PROVE  Cardinality(Below(T, c)) = c
    <3>. HIDE DEF Below
    <3>. QED BY DEF Counts
  <2>1. IsFiniteSet(T) /\ T # {} /\ Orders(R, T)
    BY <1>1
  <2>2. PICK m \in T : \A j \in T \ {m} : <<j, m>> \in R
    BY <2>1, LastExists
  <2>. DEFINE U == T \ {m}
  <2>3. U \in SUBSET D /\ Cardinality(U) = n /\ IsFiniteSet(U)
    BY <2>1, TakeOne
  <2>4. Rank(R, T, m) = n
    <3>1. {j \in T : <<j, m>> \in R} = U
      BY <2>1, <2>2 DEF Orders
    <3>. QED BY <3>1, <2>3 DEF Rank
  <2>5. ASSUME NEW i \in U PROVE Rank(R, T, i) = Rank(R, U, i)
    <3>1. <<m, i>> \notin R
      BY <2>1, <2>2, <2>5 DEF Orders
    <3>2. {j \in T : <<j, i>> \in R} = {j \in U : <<j, i>> \in R}
      BY <3>1
    <3>. QED BY <3>2 DEF Rank
  <2>6. CASE c <= n
    <3>1. Below(T, c) = Below(U, c)
      BY <2>4, <2>5, <2>6
    <3>2. Counts(U)
      BY <2>0, <2>3
    <3>3. c \in 0..Cardinality(U)
      BY <2>3, <2>6
    <3>. HIDE DEF Below, U
    <3>4. Cardinality(Below(U, c)) = c
      BY <3>2, <3>3 DEF Counts
    <3>. QED BY <3>1, <3>4
  <2>7. CASE c = n + 1
    <3>1. \A i \in T : Rank(R, T, i) \in 0..n
      BY <2>1, RankRises
    <3>2. Below(T, c) = T
      BY <3>1, <2>7
    <3>. QED BY <3>2, <2>7
  <2>. QED BY <2>6, <2>7
<1>4. N = Nat
  BY <1>2, <1>3, NatInduct
<1>5. Counts(D)
  BY <1>1, <1>4
<1>. QED BY <1>5


\* Every rank below the number of members is taken.
LEMMA RankTaken ==
  ASSUME NEW R, NEW D, IsFiniteSet(D), Orders(R, D), NEW k \in 0..(Cardinality(D) - 1)
  PROVE  \E i \in D : Rank(R, D, i) = k
<1>. DEFINE Below(n) == {i \in D : Rank(R, D, i) < n}
<1>1. Cardinality(D) \in Nat /\ k \in 0..Cardinality(D) /\ k + 1 \in 0..Cardinality(D)
  BY FS_CardinalityType
<1>2. Cardinality(Below(k)) = k /\ Cardinality(Below(k + 1)) = k + 1
  BY <1>1, RanksCount
<1>3. \A i \in D : Rank(R, D, i) \in Int
  BY RankRises
<1>4. PICK i \in D : ~(i \in Below(k) <=> i \in Below(k + 1))
  <2>1. Below(k) # Below(k + 1)
    <3>. HIDE DEF Below
    <3>. QED BY <1>2
  <2>. QED BY <2>1
<1>5. Rank(R, D, i) = k
  BY <1>3, <1>4
<1>. QED BY <1>5

\* Sorted holds the members of the set, each once, in ascending order.
LEMMA SortedSorts ==
  ASSUME NEW S \in SUBSET Nat, IsFiniteSet(S)
  PROVE  /\ Cardinality(S) \in Nat /\ DOMAIN Sorted(S) = 1..Cardinality(S)
         /\ Sorted(S) \in Seq(S)
         /\ \A i \in DOMAIN Sorted(S) : Sorted(S)[i] \in S
         /\ StrictlyAscending(Sorted(S))
         /\ \A x \in S : \E n \in DOMAIN Sorted(S) : Sorted(S)[n] = x
         /\ \A i, j \in DOMAIN Sorted(S) : Sorted(S)[i] = Sorted(S)[j] => i = j
<1>. DEFINE R == {p \in S \X S : p[1] < p[2]}
            N == Cardinality(S)
            s == Sorted(S)
<1>1. Orders(R, S)
  BY DEF Orders
<1>2. \A x \in S : Cardinality({y \in S : y < x}) = Rank(R, S, x)
  <2>. SUFFICES ASSUME NEW x \in S PROVE {y \in S : y < x} = {y \in S : <<y, x>> \in R}
    BY DEF Rank
  <2>. QED OBVIOUS
<1>3. \A x, y \in S : <<x, y>> \in R <=> x < y
  OBVIOUS
<1>. HIDE DEF R
<1>4. N \in Nat
  BY FS_CardinalityType
<1>5. DOMAIN s = 1..N
  BY DEF Sorted
<1>6. ASSUME NEW n \in 1..N PROVE s[n] \in S /\ Rank(R, S, s[n]) = n - 1
  <2>1. n - 1 \in 0..(Cardinality(S) - 1)
    BY <1>4
  <2>2. \E x \in S : Rank(R, S, x) = n - 1
    BY <1>1, <2>1, RankTaken
  <2>3. \E x \in S : Cardinality({y \in S : y < x}) = n - 1
    BY <1>2, <2>2
  <2>4. s[n] = CHOOSE x \in S : Cardinality({y \in S : y < x}) = n - 1
    BY DEF Sorted
  <2>5. s[n] \in S /\ Cardinality({y \in S : y < s[n]}) = n - 1
    <3>. DEFINE P(x) == Cardinality({y \in S : y < x}) = n - 1
    <3>1. (\E x \in S : P(x)) /\ s[n] = CHOOSE x \in S : P(x)
      BY <2>3, <2>4
    <3>. HIDE DEF P, s
    <3>2. s[n] \in S /\ P(s[n])
      BY <3>1
    <3>. QED BY <3>2 DEF P
  <2>. QED BY <2>5, <1>2
<1>. HIDE DEF s
<1>7. \A i, j \in 1..N : i < j => s[i] < s[j]
  <2>. SUFFICES ASSUME NEW i \in 1..N, NEW j \in 1..N, i < j PROVE s[i] < s[j]
    OBVIOUS
  <2>1. s[i] \in S /\ s[j] \in S /\ Rank(R, S, s[i]) = i - 1 /\ Rank(R, S, s[j]) = j - 1
    BY <1>6
  <2>2. s[j] < s[i] => Rank(R, S, s[j]) < Rank(R, S, s[i])
    BY <1>1, <1>3, <2>1, RankRises
  <2>5. \A x \in S : x \in Nat
    OBVIOUS
  <2>6. s[i] \in Nat /\ s[j] \in Nat
    BY <2>1, <2>5
  <2>3. i - 1 # j - 1 /\ ~(j - 1 < i - 1)
    BY <1>4
  <2>4. s[i] # s[j] /\ ~(s[j] < s[i])
    BY <2>1, <2>2, <2>3
  <2>. QED BY <2>6, <2>4
<1>8. ASSUME NEW x \in S PROVE \E n \in 1..N : s[n] = x
  <2>1. Rank(R, S, x) \in 0..(Cardinality(S) - 1)
    BY <1>1, RankRises
  <2>2. PICK n \in 1..N : Rank(R, S, x) = n - 1
    <3>1. Rank(R, S, x) + 1 \in 1..N /\ Rank(R, S, x) = (Rank(R, S, x) + 1) - 1
      BY <2>1, <1>4
    <3>. QED BY <3>1
  <2>3. s[n] \in S /\ Rank(R, S, s[n]) = Rank(R, S, x)
    BY <2>2, <1>6
  <2>4. s[n] = x
    BY <2>3, <1>1, RankRises
  <2>. QED BY <2>4
<1>9. \A i, j \in 1..N : s[i] = s[j] => i = j
  BY <1>6
<1>10. s \in Seq(S)
  <2>1. s = [n \in 1..N |-> s[n]]
    BY DEF s, Sorted
  <2>. QED BY <1>4, <1>6, <2>1
<1>. QED BY <1>4, <1>5, <1>6, <1>7, <1>8, <1>9, <1>10 DEF s, StrictlyAscending

-----------------------------------------------------------------------------
(* Splitting a total. *)

\* Quotient and remainder.
LEMMA DivMod ==
  ASSUME NEW a \in Nat, NEW b \in Nat \ {0}
  PROVE  /\ a \div b \in Nat /\ a % b \in 0..(b - 1)
         /\ b * (a \div b) + (a % b) = a
  OBVIOUS

\* A product of naturals is a natural.
LEMMA Product ==
  ASSUME NEW a \in Nat, NEW b \in Nat
  PROVE  a * b \in Nat
  OBVIOUS

\* A larger factor, a larger product.
LEMMA ProductGrows ==
  ASSUME NEW a \in Nat, NEW b \in Int, NEW c \in Int, b <= c
  PROVE  a * b <= a * c
  OBVIOUS

\* A positive factor may be cancelled in an equation.
LEMMA Cancel ==
  ASSUME NEW a \in Nat \ {0}, NEW b \in Int, NEW c \in Int, a * b = a * c
  PROVE  b = c
  OBVIOUS

\* A positive factor may be cancelled in an inequality.
LEMMA CancelLeq ==
  ASSUME NEW a \in Nat \ {0}, NEW b \in Int, NEW c \in Int, a * b <= a * c
  PROVE  b <= c
  OBVIOUS

\* Naturals sum to a natural.
LEMMA SumNat ==
  ASSUME NEW f, NEW S, IsFiniteSet(S), \A x \in S : f[x] \in Nat
  PROVE  SumOver(f, S) \in Nat
<1>. DEFINE z == [x \in S |-> 0]
<1>1. \A x \in S : z[x] = 0 /\ z[x] \in Int /\ f[x] \in Int /\ z[x] <= f[x]
  OBVIOUS
<1>. HIDE DEF z
<1>2. SumOver(z, S) <= SumOver(f, S) /\ SumOver(f, S) \in Int
  BY <1>1, SumLeq, SumInt
<1>3. SumOver(z, S) = 0 * Cardinality(S) /\ Cardinality(S) \in Nat
  BY <1>1, SumConst, FS_CardinalityType
<1>. QED BY <1>2, <1>3


\* For any total and any weights that are not all zero the parts sum to the
\* total, each is less than one minor unit away from its exact share, and
\* whoever weighs more (or as much and comes first) gets no less:
\* packages/engine largestRemainderSplit.
THEOREM LargestRemainder ==
  ASSUME NEW D, IsFiniteSet(D), \A i \in D : i \in Nat, NEW total \in Nat,
         NEW w, DOMAIN w = D, \A i \in D : w[i] \in Nat, SumOver(w, D) # 0
  PROVE  LET parts == LargestRemainderSplit(total, w)
             whole == SumOver(w, D)
         IN  /\ DOMAIN parts = D /\ parts = [i \in D |-> parts[i]]
             /\ \A i \in D : parts[i] \in Nat
             /\ SumOver(parts, D) = total
             /\ \A i \in D : /\ -whole < parts[i] * whole - total * w[i]
                             /\ parts[i] * whole - total * w[i] < whole
             /\ \A i, j \in D :
                  (w[i] > w[j] \/ (w[i] = w[j] /\ i < j)) => parts[i] >= parts[j]
<1>. DEFINE parts == LargestRemainderSplit(total, w)
            whole == SumOver(w, D)
            floors == [i \in D |-> (total * w[i]) \div whole]
            rem == [i \in D |-> (total * w[i]) % whole]
            leftover == total - SumOver(floors, D)
            R == {p \in D \X D : rem[p[1]] > rem[p[2]] \/ (rem[p[1]] = rem[p[2]] /\ p[1] < p[2])}
            Bumped == {i \in D : Rank(R, D, i) < leftover}
            bump == [i \in D |-> IF i \in Bumped THEN 1 ELSE 0]
            Short == {i \in D : rem[i] > 0}
<1>1. whole \in Nat \ {0}
  BY SumNat
<1>. HIDE DEF whole
<1>2. ASSUME NEW i \in D
      PROVE  /\ total * w[i] \in Nat /\ floors[i] \in Nat /\ rem[i] \in 0..(whole - 1)
             /\ whole * floors[i] + rem[i] = total * w[i]
  <2>1. total * w[i] \in Nat
    BY Product
  <2>. DEFINE a == total * w[i]
  <2>. HIDE DEF a
  <2>2. a \div whole \in Nat /\ a % whole \in 0..(whole - 1) /\ whole * (a \div whole) + (a % whole) = a
    BY <1>1, <2>1, DivMod DEF a
  <2>. QED BY <2>1, <2>2 DEF a
<1>. DEFINE scaled == [i \in D |-> whole * floors[i]]
            exact == [i \in D |-> total * w[i]]
<1>. HIDE DEF floors, rem
<1>3. whole * SumOver(floors, D) + SumOver(rem, D) = whole * total
  <2>1. \A i \in D : /\ scaled[i] = whole * floors[i] /\ scaled[i] \in Int /\ rem[i] \in Int
                     /\ exact[i] = total * w[i] /\ exact[i] \in Int
                     /\ exact[i] = scaled[i] + rem[i]
                     /\ w[i] \in Int /\ floors[i] \in Int
    BY <1>1, <1>2
  <2>. HIDE DEF scaled, exact
  <2>6. \A i \in D : scaled[i] \in Int /\ rem[i] \in Int /\ exact[i] = scaled[i] + rem[i]
    BY <2>1
  <2>7. \A i \in D : floors[i] \in Int /\ scaled[i] = whole * floors[i]
    BY <2>1
  <2>8. \A i \in D : w[i] \in Int /\ exact[i] = total * w[i]
    BY <2>1
  <2>9. whole \in Int /\ total \in Int
    BY <1>1
  <2>2. SumOver(exact, D) = SumOver(scaled, D) + SumOver(rem, D)
    BY <2>6, SumPlus
  <2>3. SumOver(scaled, D) = whole * SumOver(floors, D)
    BY <2>7, <2>9, SumScale
  <2>4. SumOver(exact, D) = total * SumOver(w, D)
    BY <2>8, <2>9, SumScale
  <2>5. total * SumOver(w, D) = whole * total
    BY <1>1 DEF whole
  <2>. QED BY <2>2, <2>3, <2>4, <2>5
<1>4. SumOver(floors, D) \in Nat /\ SumOver(rem, D) \in Nat
  <2>1. (\A i \in D : floors[i] \in Nat) /\ (\A i \in D : rem[i] \in Nat)
    BY <1>1, <1>2
  <2>. QED BY <2>1, SumNat
<1>5. leftover \in Int /\ whole * leftover = SumOver(rem, D)
  <2>1. leftover \in Int /\ total = SumOver(floors, D) + leftover
    BY <1>4
  <2>. HIDE DEF leftover
  <2>2. whole * total = whole * SumOver(floors, D) + whole * leftover
    BY <2>1, <1>1, <1>4, Distributes
  <2>3. whole * leftover \in Int /\ whole * SumOver(floors, D) \in Int
    BY <2>1, <1>1, <1>4
  <2>. QED BY <1>3, <1>4, <2>1, <2>2, <2>3
<1>. HIDE DEF leftover
<1>6. /\ IsFiniteSet(Short) /\ Cardinality(Short) \in Nat
      /\ Cardinality(Short) <= Cardinality(D) /\ Cardinality(D) \in Nat
  <2>1. Short \in SUBSET D
    OBVIOUS
  <2>. HIDE DEF Short
  <2>. QED BY <2>1, FS_Subset, FS_CardinalityType
<1>7. leftover \in Nat /\ leftover <= Cardinality(Short)
  <2>. DEFINE most == [i \in D |-> IF i \in Short THEN whole ELSE 0]
              Rest == D \ Short
  <2>1. \A i \in D : rem[i] \in Int /\ most[i] \in Int /\ rem[i] <= most[i]
    BY <1>1, <1>2
  <2>2. (\A i \in Short : most[i] = whole) /\ (\A i \in Rest : most[i] = 0)
    OBVIOUS
  <2>3. Short \cup Rest = D /\ Short \cap Rest = {} /\ IsFiniteSet(Rest)
    BY FS_Subset
  <2>. HIDE DEF most, Short, Rest
  <2>4. SumOver(most, D) = SumOver(most, Short) + SumOver(most, Rest)
    BY <1>6, <2>1, <2>3, SumUnion
  <2>5. SumOver(most, Short) = whole * Cardinality(Short)
    BY <1>1, <1>6, <2>2, SumConst
  <2>6. SumOver(most, Rest) = 0 * Cardinality(Rest) /\ Cardinality(Rest) \in Nat
    BY <2>2, <2>3, SumConst, FS_CardinalityType
  <2>7. SumOver(rem, D) <= SumOver(most, D)
    BY <2>1, SumLeq
  <2>8. whole * leftover <= whole * Cardinality(Short)
    BY <1>1, <1>5, <1>6, <2>4, <2>5, <2>6, <2>7
  <2>9. whole * 0 <= whole * leftover
    BY <1>1, <1>4, <1>5
  <2>10. leftover <= Cardinality(Short)
    BY <1>1, <1>5, <1>6, <2>8, CancelLeq
  <2>11. 0 <= leftover
    BY <1>1, <1>5, <2>9, CancelLeq
  <2>. QED BY <1>5, <2>10, <2>11
<1>8. Orders(R, D)
  <2>1. \A i \in D : rem[i] \in Nat /\ i \in Nat
    BY <1>1, <1>2
  <2>2. \A i, j \in D : <<i, j>> \in R <=> (rem[i] > rem[j] \/ (rem[i] = rem[j] /\ i < j))
    OBVIOUS
  <2>. HIDE DEF R
  <2>. QED BY <2>1, <2>2 DEF Orders
<1>9. \A i, j \in D : <<i, j>> \in R <=> (rem[i] > rem[j] \/ (rem[i] = rem[j] /\ i < j))
  OBVIOUS
<1>. HIDE DEF R
<1>10. \A i \in D : Rank(R, D, i) \in Nat
  BY <1>6, <1>8, RankRises
<1>11. Cardinality(Bumped) = leftover /\ IsFiniteSet(Bumped)
  <2>1. leftover \in 0..Cardinality(D)
    BY <1>6, <1>7
  <2>. QED BY <1>8, <2>1, RanksCount, FS_Subset
<1>12. \A i \in Bumped : rem[i] > 0
  <2>. SUFFICES ASSUME NEW i \in Bumped, ~(rem[i] > 0) PROVE FALSE
    OBVIOUS
  <2>1. rem[i] = 0 /\ i \in D
    BY <1>1, <1>2
  <2>2. Short \subseteq {j \in D : <<j, i>> \in R}
    BY <1>2, <1>9, <2>1
  <2>3. Cardinality(Short) <= Rank(R, D, i)
    <3>1. IsFiniteSet({j \in D : <<j, i>> \in R})
      BY FS_Subset
    <3>. QED BY <2>2, <3>1, FS_Subset DEF Rank
  <2>. QED BY <1>5, <1>6, <1>7, <1>10, <2>1, <2>3
<1>13. \A i \in D : bump[i] \in {0, 1} /\ (bump[i] = 1 <=> i \in Bumped)
  OBVIOUS
<1>14. parts = [i \in D |-> floors[i] + bump[i]]
  <2>1. \A i \in D : Rank(R, D, i) =
          Cardinality({j \in D : rem[j] > rem[i] \/ (rem[j] = rem[i] /\ j < i)})
    <3>. SUFFICES ASSUME NEW i \in D
                  PROVE  {j \in D : <<j, i>> \in R}
                           = {j \in D : rem[j] > rem[i] \/ (rem[j] = rem[i] /\ j < i)}
      BY DEF Rank
    <3>. QED BY <1>9
  <2>2. parts = [i \in D |-> floors[i] +
           IF Cardinality({j \in D : rem[j] > rem[i] \/ (rem[j] = rem[i] /\ j < i)}) < leftover
           THEN 1 ELSE 0]
    BY DEF LargestRemainderSplit, whole, floors, rem, leftover
  <2>3. \A i \in D : bump[i] =
           IF Cardinality({j \in D : rem[j] > rem[i] \/ (rem[j] = rem[i] /\ j < i)}) < leftover
           THEN 1 ELSE 0
    BY <2>1
  <2>. HIDE DEF bump, parts
  <2>. QED BY <2>2, <2>3
<1>. HIDE DEF parts
<1>15. /\ DOMAIN parts = D /\ parts = [i \in D |-> parts[i]]
       /\ \A i \in D : parts[i] = floors[i] + bump[i] /\ parts[i] \in Nat
  <2>. HIDE DEF bump, Bumped
  <2>. QED BY <1>2, <1>13, <1>14
<1>16. SumOver(parts, D) = total
  <2>. DEFINE Rest == D \ Bumped
  <2>1. (\A i \in Bumped : bump[i] = 1) /\ (\A i \in Rest : bump[i] = 0)
    OBVIOUS
  <2>2. Bumped \cup Rest = D /\ Bumped \cap Rest = {} /\ IsFiniteSet(Rest)
    BY FS_Subset
  <2>3. \A i \in D : floors[i] \in Int /\ bump[i] \in Int /\ parts[i] = floors[i] + bump[i]
    BY <1>2, <1>13, <1>15
  <2>9. \A i \in D : bump[i] \in Int
    BY <2>3
  <2>. HIDE DEF bump, Bumped, Rest
  <2>4. SumOver(bump, D) = SumOver(bump, Bumped) + SumOver(bump, Rest)
    BY <1>11, <2>2, <2>9, SumUnion
  <2>5. SumOver(bump, Bumped) = 1 * Cardinality(Bumped)
    BY <1>11, <2>1, SumConst
  <2>6. SumOver(bump, Rest) = 0 * Cardinality(Rest) /\ Cardinality(Rest) \in Nat
    BY <2>1, <2>2, SumConst, FS_CardinalityType
  <2>10. \A i \in D : floors[i] \in Int /\ bump[i] \in Int /\ parts[i] = floors[i] + bump[i]
    BY <2>3
  <2>7. SumOver(parts, D) = SumOver(floors, D) + SumOver(bump, D)
    <3>1. \A f, g, h : (\A i \in D : f[i] \in Int /\ g[i] \in Int /\ h[i] = f[i] + g[i])
                         => SumOver(h, D) = SumOver(f, D) + SumOver(g, D)
      BY SumPlus
    <3>. QED BY <2>10, <3>1
  <2>8. SumOver(bump, D) = leftover
    BY <1>5, <1>11, <2>4, <2>5, <2>6
  <2>. QED BY <1>4, <2>7, <2>8 DEF leftover
<1>17. ASSUME NEW i \in D
       PROVE  /\ -whole < parts[i] * whole - total * w[i]
              /\ parts[i] * whole - total * w[i] < whole
  <2>1. whole * parts[i] = whole * floors[i] + whole * bump[i]
    <3>1. floors[i] \in Int /\ bump[i] \in Int /\ parts[i] = floors[i] + bump[i]
      BY <1>2, <1>13, <1>15
    <3>. QED BY <3>1, <1>1, Distributes
  <2>2. parts[i] * whole = whole * parts[i]
    BY <1>1, <1>15
  <2>3. \/ whole * bump[i] = 0
        \/ whole * bump[i] = whole /\ rem[i] > 0
    <3>1. CASE bump[i] = 0
      BY <1>1, <3>1
    <3>2. CASE bump[i] = 1
      BY <1>1, <1>12, <1>13, <3>2
    <3>. QED BY <1>13, <3>1, <3>2
  <2>. DEFINE fw == whole * floors[i]
              bw == whole * bump[i]
              pw == parts[i] * whole
              tw == total * w[i]
  <2>4. fw \in Int /\ tw \in Int /\ rem[i] \in 0..(whole - 1) /\ fw + rem[i] = tw
    BY <1>1, <1>2
  <2>5. pw = fw + bw /\ (bw = 0 \/ (bw = whole /\ rem[i] > 0))
    BY <2>1, <2>2, <2>3
  <2>. HIDE DEF fw, bw, pw, tw
  <2>6. -whole < pw - tw /\ pw - tw < whole
    BY <1>1, <2>4, <2>5
  <2>. QED BY <2>6 DEF pw, tw
<1>18. ASSUME NEW i \in D, NEW j \in D, w[i] > w[j] \/ (w[i] = w[j] /\ i < j)
       PROVE  parts[i] >= parts[j]
  <2>1. total * w[j] <= total * w[i]
    BY <1>18, ProductGrows
  <2>2. floors[j] <= floors[i]
    <3>1. \A a, b \in Nat : a <= b => a \div whole <= b \div whole
      <4>. SUFFICES ASSUME NEW a \in Nat, NEW b \in Nat, a <= b
                    PROVE  a \div whole <= b \div whole
        OBVIOUS
      <4>1. /\ whole * (a \div whole) + (a % whole) = a
            /\ whole * (b \div whole) + (b % whole) = b
            /\ a % whole \in 0..(whole - 1) /\ b % whole \in 0..(whole - 1)
            /\ a \div whole \in Nat /\ b \div whole \in Nat
        BY <1>1, DivMod
      <4>. DEFINE qa == a \div whole
                  qb == b \div whole
                  ra == a % whole
                  rb == b % whole
      <4>. HIDE DEF qa, qb, ra, rb
      <4>2. whole * qa + ra = a /\ whole * qb + rb = b /\ ra \in 0..(whole - 1)
            /\ rb \in 0..(whole - 1) /\ qa \in Nat /\ qb \in Nat
        BY <4>1 DEF qa, qb, ra, rb
      <4>3. ASSUME qb < qa PROVE FALSE
        <5>1. whole * (qb + 1) <= whole * qa
          BY <1>1, <4>2, <4>3, ProductGrows
        <5>2. whole * (qb + 1) = whole * qb + whole * 1
          BY <1>1, <4>2, Distributes
        <5>. DEFINE x == whole * qa
                    y == whole * qb
        <5>3. x \in Int /\ y \in Int /\ x + ra = a /\ y + rb = b /\ y + whole <= x
          BY <1>1, <4>2, <5>1, <5>2
        <5>. HIDE DEF x, y
        <5>. QED BY <1>1, <4>2, <5>3
      <4>4. qa <= qb
        BY <4>2, <4>3
      <4>. QED BY <4>4 DEF qa, qb
    <3>2. (total * w[j]) \div whole <= (total * w[i]) \div whole
      BY <1>2, <2>1, <3>1
    <3>. QED BY <3>2 DEF floors
  <2>3. ASSUME parts[i] < parts[j] PROVE FALSE
    <3>1. /\ floors[i] \in Nat /\ floors[j] \in Nat /\ bump[i] \in {0, 1} /\ bump[j] \in {0, 1}
          /\ parts[i] = floors[i] + bump[i] /\ parts[j] = floors[j] + bump[j]
      BY <1>2, <1>13, <1>15
    <3>2. floors[i] = floors[j] /\ bump[i] = 0 /\ bump[j] = 1
      <4>. HIDE DEF bump
      <4>. QED BY <2>2, <2>3, <3>1
    <3>3. j \in Bumped /\ i \notin Bumped
      BY <1>13, <3>2
    <3>4. ~(<<i, j>> \in R)
      <4>1. <<i, j>> \in R => Rank(R, D, i) < Rank(R, D, j)
        BY <1>8, RankRises
      <4>2. Rank(R, D, j) < leftover /\ ~(Rank(R, D, i) < leftover)
        BY <3>3
      <4>. QED BY <1>5, <1>10, <4>1, <4>2
    <3>5. rem[i] \in Nat /\ rem[j] \in Nat /\ total * w[i] \in Nat /\ total * w[j] \in Nat
      BY <1>1, <1>2
    <3>6. total * w[j] - rem[j] = total * w[i] - rem[i]
      <4>1. whole * floors[i] + rem[i] = total * w[i] /\ whole * floors[j] + rem[j] = total * w[j]
        BY <1>2
      <4>. DEFINE x == whole * floors[i]
                  y == whole * floors[j]
                  tx == total * w[i]
                  ty == total * w[j]
      <4>2. x = y /\ x \in Int
        BY <1>1, <3>1, <3>2
      <4>3. x + rem[i] = tx /\ y + rem[j] = ty
        BY <4>1
      <4>. HIDE DEF x, y, tx, ty
      <4>4. ty - rem[j] = tx - rem[i]
        BY <4>2, <4>3, <3>5
      <4>. QED BY <4>4 DEF tx, ty
    <3>7. rem[j] = rem[i] /\ ~(i < j) /\ total * w[j] = total * w[i]
      <4>. DEFINE tx == total * w[i]
                  ty == total * w[j]
      <4>1. ty <= tx /\ tx \in Nat /\ ty \in Nat /\ ty - rem[j] = tx - rem[i]
        BY <2>1, <3>5, <3>6
      <4>. HIDE DEF tx, ty
      <4>2. ~(rem[i] > rem[j]) /\ ~(rem[i] = rem[j] /\ i < j)
        BY <1>9, <3>4
      <4>4. rem[j] \in Nat /\ rem[i] \in Nat
        BY <3>5
      <4>3. rem[j] = rem[i] /\ ~(i < j) /\ ty = tx
        <5>. DEFINE ri == rem[i]
                    rj == rem[j]
        <5>1. /\ ty <= tx /\ tx \in Nat /\ ty \in Nat /\ ty - rj = tx - ri
              /\ rj \in Nat /\ ri \in Nat /\ ~(ri > rj)
          BY <4>1, <4>2, <4>4
        <5>. HIDE DEF ri, rj
        <5>2. rj = ri /\ ty = tx
          BY <5>1
        <5>. QED BY <5>2, <4>2 DEF ri, rj
      <4>. QED BY <4>3 DEF tx, ty
    <3>8. w[i] > w[j]
      BY <1>18, <3>7
    <3>9. total = 0
      BY <3>7, <3>8, Cancel
    <3>10. \A x \in D : rem[x] = 0
      BY <1>1, <3>9 DEF rem
    <3>. QED BY <1>12, <3>3, <3>10
  <2>. QED BY <2>3, <1>15
<1>. QED BY <1>15, <1>16, <1>17, <1>18 DEF parts, whole


\* What a sequence holds.
LEMMA SeqElement ==
  ASSUME NEW S, NEW s \in Seq(S), NEW i \in DOMAIN s
  PROVE  s[i] \in S
  OBVIOUS

\* What is a sequence.
LEMMA IsSeq ==
  ASSUME NEW S, NEW n \in Nat, NEW s, DOMAIN s = 1..n, s = [i \in DOMAIN s |-> s[i]],
         \A i \in DOMAIN s : s[i] \in S
  PROVE  s \in Seq(S) /\ Len(s) = n
  OBVIOUS

\* The places of a sequence.
LEMMA SeqDomain ==
  ASSUME NEW S, NEW s \in Seq(S)
  PROVE  Len(s) \in Nat /\ DOMAIN s = 1..Len(s) /\ IsFiniteSet(DOMAIN s)
  BY FS_Interval

\* SumGroups and SumSwap for groups, rows and columns that have names.
Groups(f, g, D, F, A) ==
  /\ \A i \in D : f[i] \in Int /\ g[i] \in A
  /\ \A a \in A : F[a] = SumOver(f, {i \in D : g[i] = a})

\* t is h with rows and columns exchanged; row and col are their sums.
Transposes(h, row, A, t, col, B) ==
  /\ \A a \in A : \A b \in B : h[a][b] \in Int /\ t[b][a] = h[a][b]
  /\ \A a \in A : row[a] = SumOver(h[a], B)
  /\ \A b \in B : col[b] = SumOver(t[b], A)

\* SumGroups for groups that have a name.
LEMMA SumByGroups ==
  ASSUME NEW f, NEW g, NEW D, IsFiniteSet(D), NEW A, IsFiniteSet(A), NEW F,
         Groups(f, g, D, F, A)
  PROVE  SumOver(F, A) = SumOver(f, D)
<1>. USE DEF Groups
<1>. DEFINE H == [a \in A |-> SumOver(f, {i \in D : g[i] = a})]
<1>1. SumOver(H, A) = SumOver(f, D)
  BY SumGroups
<1>2. \A a \in A : H[a] = F[a]
  OBVIOUS
<1>3. \A a \in A : H[a] \in Int
  <2>. SUFFICES ASSUME NEW a \in A PROVE SumOver(f, {i \in D : g[i] = a}) \in Int
    OBVIOUS
  <2>. DEFINE G == {i \in D : g[i] = a}
  <2>1. IsFiniteSet(G) /\ \A i \in G : f[i] \in Int
    BY FS_Subset
  <2>. HIDE DEF G
  <2>2. SumOver(f, G) \in Int
    BY <2>1, SumInt
  <2>. QED BY <2>2 DEF G
<1>. HIDE DEF H
<1>4. \A a \in A : H[a] \in Int /\ F[a] = H[a]
  BY <1>2, <1>3
<1>5. SumOver(H, A) = SumOver(F, A)
  BY <1>4, SumSame
<1>. QED BY <1>1, <1>5

\* SumSwap for rows and columns that have names.
LEMMA SumTransposed ==
  ASSUME NEW h, NEW A, IsFiniteSet(A), NEW B, IsFiniteSet(B), NEW row, NEW col, NEW t,
         Transposes(h, row, A, t, col, B)
  PROVE  SumOver(row, A) = SumOver(col, B)
<1>. USE DEF Transposes
<1>. DEFINE r == [a \in A |-> SumOver(h[a], B)]
            T(b) == [a \in A |-> h[a][b]]
            c == [b \in B |-> SumOver(T(b), A)]
<1>1. SumOver(r, A) = SumOver(c, B)
  <2>1. \A a \in A : \A b \in B : h[a][b] \in Int
    OBVIOUS
  <2>. QED BY <2>1, SumSwap
<1>2. ASSUME NEW a \in A PROVE r[a] = row[a] /\ r[a] \in Int
  BY SumInt
<1>3. ASSUME NEW b \in B PROVE c[b] = col[b] /\ c[b] \in Int
  <2>. DEFINE u == T(b)
              v == t[b]
  <2>1. \A a \in A : u[a] \in Int /\ v[a] = u[a]
    OBVIOUS
  <2>2. c[b] = SumOver(u, A) /\ col[b] = SumOver(v, A)
    OBVIOUS
  <2>. HIDE DEF u, v, c
  <2>3. SumOver(u, A) = SumOver(v, A) /\ SumOver(u, A) \in Int
    BY <2>1, SumSame, SumInt
  <2>. QED BY <2>2, <2>3
<1>. HIDE DEF r, c
<1>4. SumOver(r, A) = SumOver(row, A)
  BY <1>2, SumSame
<1>5. SumOver(c, B) = SumOver(col, B)
  BY <1>3, SumSame
<1>. QED BY <1>1, <1>4, <1>5

\* Naturals of which one is positive do not sum to nothing.
LEMMA SumPositive ==
  ASSUME NEW f, NEW S, IsFiniteSet(S), \A x \in S : f[x] \in Nat, NEW z \in S, f[z] # 0
  PROVE  SumOver(f, S) # 0
<1>1. \A x \in S : f[x] \in Int
  OBVIOUS
<1>2. SumOver(f, S) = f[z] + SumOver(f, S \ {z})
  BY <1>1, SumTakes
<1>3. SumOver(f, S \ {z}) \in Nat
  BY FS_Subset, SumNat
<1>4. f[z] \in Nat \ {0}
  OBVIOUS
<1>. QED BY <1>2, <1>3, <1>4

-----------------------------------------------------------------------------
(* The allocation of a receipt. *)

\* The parts of the item that an allocation shares out.
SplitOf(receipt, a) ==
  LargestRemainderSplit(receipt.items[a.item].line,
    IF a.weights = NotGiven THEN [i \in DOMAIN a.sharers |-> 1] ELSE a.weights)

\* The parts of an item go to its sharers and sum to its line.
LEMMA SplitsItem ==
  ASSUME NEW receipt, receipt.items \in Seq(ReceiptItem),
         NEW P, NEW a \in AllocationOver(P), a.item \in DOMAIN receipt.items,
         a.weights # NotGiven => Len(a.weights) = Len(a.sharers)
  PROVE  /\ \A i \in DOMAIN a.sharers : SplitOf(receipt, a)[i] \in Nat
         /\ SumOver(SplitOf(receipt, a), DOMAIN a.sharers) = receipt.items[a.item].line
<1>. DEFINE w == IF a.weights = NotGiven THEN [i \in DOMAIN a.sharers |-> 1] ELSE a.weights
            D == DOMAIN a.sharers
            total == receipt.items[a.item].line
<1>1. /\ a.sharers \in Seq(P) /\ a.sharers # <<>>
      /\ a.weights # NotGiven => a.weights \in Seq(Nat \ {0})
  BY DEF AllocationOver
<1>2. /\ Len(a.sharers) \in Nat /\ D = 1..Len(a.sharers) /\ 1 \in D
  BY <1>1
<1>3. DOMAIN w = D /\ \A i \in D : w[i] \in Nat \ {0}
  <2>1. CASE a.weights = NotGiven
    BY <2>1
  <2>2. CASE a.weights # NotGiven
    BY <1>1, <1>2, <2>2
  <2>. QED BY <2>1, <2>2
<1>4. total \in Nat
  <2>1. receipt.items[a.item] \in ReceiptItem
    BY SeqElement
  <2>. QED BY <2>1 DEF ReceiptItem
<1>5. IsFiniteSet(D) /\ \A i \in D : i \in Nat
  BY <1>2, FS_Interval
<1>6. SplitOf(receipt, a) = LargestRemainderSplit(total, w)
  BY DEF SplitOf
<1>. HIDE DEF w, D, total
<1>7. (\A i \in D : w[i] \in Nat) /\ w[1] # 0 /\ 1 \in D
  BY <1>2, <1>3
<1>8. SumOver(w, D) # 0
  BY <1>5, <1>7, SumPositive
<1>9. /\ \A i \in D : LargestRemainderSplit(total, w)[i] \in Nat
      /\ SumOver(LargestRemainderSplit(total, w), D) = total
  BY <1>3, <1>4, <1>5, <1>7, <1>8, LargestRemainder
<1>. QED BY <1>6, <1>9 DEF D, total

\* The sharers of a proposal are among the people it was made over.
LEMMA SharersFinite ==
  ASSUME NEW P, IsFiniteSet(P), NEW proposal, proposal.allocations \in Seq(AllocationOver(P))
  PROVE  Sharers(proposal) \subseteq P /\ IsFiniteSet(Sharers(proposal))
<1>1. Sharers(proposal) \subseteq P
  <2>. SUFFICES ASSUME NEW k \in DOMAIN proposal.allocations,
                       NEW x \in ToSet(proposal.allocations[k].sharers)
                PROVE  x \in P
    BY DEF Sharers
  <2>2. proposal.allocations[k] \in AllocationOver(P)
    BY SeqElement
  <2>1. proposal.allocations[k].sharers \in Seq(P)
    BY <2>2 DEF AllocationOver
  <2>. QED BY <2>1 DEF ToSet
<1>. QED BY <1>1, FS_Subset

\* The items' parts are shared without rest.
LEMMA ItemSharesSum ==
  ASSUME NEW receipt, receipt.items \in Seq(ReceiptItem),
         NEW P, IsFiniteSet(P),
         NEW proposal, proposal.allocations \in Seq(AllocationOver(P)),
         AllocationLegal(receipt, proposal)
  PROVE  LET items == ItemShares(receipt, proposal)
         IN  /\ DOMAIN items = Sharers(proposal)
             /\ \A p \in Sharers(proposal) : items[p] \in Nat
             /\ SumOver(items, Sharers(proposal)) = Lines(receipt)
<1>. DEFINE al == proposal.allocations
            K == DOMAIN al
            A == Sharers(proposal)
            items == ItemShares(receipt, proposal)
            Of(k, p) == {i \in DOMAIN al[k].sharers : al[k].sharers[i] = p}
            h == [p \in A |-> [k \in K |-> SumOver(SplitOf(receipt, al[k]), Of(k, p))]]
            line == [n \in DOMAIN receipt.items |-> receipt.items[n].line]
<1>1. items = [p \in A |-> SumOver([k \in K |-> SumOver(SplitOf(receipt, al[k]), Of(k, p))], K)]
  <2>1. \A p \in A : SumSeq([k \in K |-> SumOver(SplitOf(receipt, al[k]), Of(k, p))])
           = SumOver([k \in K |-> SumOver(SplitOf(receipt, al[k]), Of(k, p))], K)
    BY DEF SumSeq
  <2>2. items = [p \in A |-> SumSeq([k \in K |-> SumOver(SplitOf(receipt, al[k]), Of(k, p))])]
    BY DEF ItemShares, SplitOf
  <2>. HIDE DEF items, A, K
  <2>. QED BY <2>1, <2>2
<1>2. IsFiniteSet(A) /\ IsFiniteSet(K)
  <2>1. al \in Seq(AllocationOver(P))
    OBVIOUS
  <2>2. Len(al) \in Nat /\ DOMAIN al = 1..Len(al)
    BY <2>1
  <2>. QED BY <2>2, SharersFinite, FS_Interval
<1>3. ASSUME NEW k \in K
      PROVE  /\ al[k] \in AllocationOver(P) /\ al[k].item \in DOMAIN receipt.items
             /\ \A i \in DOMAIN al[k].sharers : SplitOf(receipt, al[k])[i] \in Nat
             /\ SumOver(SplitOf(receipt, al[k]), DOMAIN al[k].sharers)
                  = receipt.items[al[k].item].line
             /\ \A i \in DOMAIN al[k].sharers : al[k].sharers[i] \in A
             /\ IsFiniteSet(DOMAIN al[k].sharers)
  <2>1. al[k] \in AllocationOver(P)
    OBVIOUS
  <2>2. /\ al[k].item \in DOMAIN receipt.items
        /\ al[k].weights # NotGiven => Len(al[k].weights) = Len(al[k].sharers)
    BY DEF AllocationLegal
  <2>3. \A i \in DOMAIN al[k].sharers : al[k].sharers[i] \in A
    BY DEF Sharers, ToSet
  <2>4. IsFiniteSet(DOMAIN al[k].sharers)
    <3>1. al[k].sharers \in Seq(P)
      BY <2>1 DEF AllocationOver
    <3>2. Len(al[k].sharers) \in Nat /\ DOMAIN al[k].sharers = 1..Len(al[k].sharers)
      BY <3>1
    <3>. QED BY <3>2, FS_Interval
  <2>5. /\ \A i \in DOMAIN al[k].sharers : SplitOf(receipt, al[k])[i] \in Nat
        /\ SumOver(SplitOf(receipt, al[k]), DOMAIN al[k].sharers) = receipt.items[al[k].item].line
    <3>. DEFINE a == al[k]
    <3>. HIDE DEF a
    <3>1. a \in AllocationOver(P) /\ a.item \in DOMAIN receipt.items
          /\ (a.weights # NotGiven => Len(a.weights) = Len(a.sharers))
      BY <2>1, <2>2 DEF a
    <3>2. /\ \A i \in DOMAIN a.sharers : SplitOf(receipt, a)[i] \in Nat
          /\ SumOver(SplitOf(receipt, a), DOMAIN a.sharers) = receipt.items[a.item].line
      BY <3>1, SplitsItem
    <3>. QED BY <3>2 DEF a
  <2>. QED BY <2>1, <2>2, <2>3, <2>4, <2>5
<1>4. ASSUME NEW p \in A, NEW k \in K PROVE h[p][k] \in Nat
  <2>1. IsFiniteSet(Of(k, p)) /\ \A i \in Of(k, p) : SplitOf(receipt, al[k])[i] \in Nat
    <3>1. Of(k, p) \in SUBSET DOMAIN al[k].sharers
      OBVIOUS
    <3>2. IsFiniteSet(Of(k, p))
      BY <1>3, <3>1, FS_Subset
    <3>. QED BY <1>3, <3>2
  <2>2. SumOver(SplitOf(receipt, al[k]), Of(k, p)) \in Nat
    <3>. HIDE DEF Of
    <3>. QED BY <2>1, SumNat
  <2>. QED BY <2>2
<1>5. \A p \in A : items[p] = SumOver(h[p], K) /\ items[p] \in Nat /\ DOMAIN items = A
  <2>1. \A p \in A : items[p] = SumOver(h[p], K)
    BY <1>1
  <2>2. \A p \in A : SumOver(h[p], K) \in Nat
    <3>. SUFFICES ASSUME NEW p \in A PROVE SumOver(h[p], K) \in Nat
      OBVIOUS
    <3>. DEFINE f == h[p]
    <3>1. \A k \in K : f[k] \in Nat
      BY <1>4
    <3>. HIDE DEF f, h, K
    <3>2. SumOver(f, K) \in Nat
      BY <1>2, <3>1, SumNat
    <3>. QED BY <3>2 DEF f
  <2>. QED BY <1>1, <2>1, <2>2
<1>. DEFINE col == [k \in K |-> SumOver([p \in A |-> h[p][k]], A)]
            lineOf == [k \in K |-> line[al[k].item]]
<1>6. SumOver(items, A) = SumOver(col, K)
  <2>. DEFINE t == [k \in K |-> [p \in A |-> h[p][k]]]
  <2>1. /\ \A p \in A : items[p] = SumOver(h[p], K)
        /\ \A k \in K : \A p \in A : t[k][p] = h[p][k]
        /\ \A k \in K : col[k] = SumOver(t[k], A)
    BY <1>1
  <2>. HIDE DEF h, items, A, K, t, col
  <2>2. Transposes(h, items, A, t, col, K)
    BY <1>4, <2>1 DEF Transposes
  <2>. QED BY <1>2, <2>2, SumTransposed
<1>7. ASSUME NEW k \in K PROVE col[k] = lineOf[k] /\ lineOf[k] \in Nat
  <2>. DEFINE f == SplitOf(receipt, al[k])
              g == al[k].sharers
              D == DOMAIN al[k].sharers
  <2>1. \A i \in D : f[i] \in Int /\ g[i] \in A
    BY <1>3
  <2>2. IsFiniteSet(D)
    BY <1>3
  <2>. DEFINE F == [p \in A |-> h[p][k]]
  <2>3. SumOver(F, A) = SumOver(f, D)
    <3>1. \A p \in A : F[p] = SumOver(f, {i \in D : g[i] = p})
      OBVIOUS
    <3>. HIDE DEF f, g, D, A, F
    <3>2. Groups(f, g, D, F, A)
      BY <2>1, <3>1 DEF Groups
    <3>. QED BY <1>2, <2>2, <3>2, SumByGroups
  <2>5. SumOver(f, D) = line[al[k].item] /\ line[al[k].item] \in Nat
    <3>1. receipt.items[al[k].item] \in ReceiptItem
      BY <1>3, SeqElement
    <3>2. line[al[k].item] = receipt.items[al[k].item].line
      BY <1>3
    <3>3. SumOver(f, D) = receipt.items[al[k].item].line
      BY <1>3
    <3>. HIDE DEF line, f, D
    <3>. QED BY <3>1, <3>2, <3>3 DEF ReceiptItem
  <2>6. col[k] = SumOver([p \in A |-> h[p][k]], A)
    OBVIOUS
  <2>. QED BY <2>3, <2>5, <2>6
<1>8. SumOver(col, K) = SumOver(lineOf, K)
  <2>. HIDE DEF col, lineOf, K
  <2>1. \A k \in K : col[k] \in Int /\ lineOf[k] = col[k]
    BY <1>7
  <2>. QED BY <1>2, <2>1, SumSame
<1>9. SumOver(lineOf, K) = SumOver(line, DOMAIN receipt.items)
  <2>. DEFINE I == DOMAIN receipt.items
              s == [k \in K |-> al[k].item]
  <2>1. \A k \in K : s[k] \in I
    BY <1>3
  <2>2. \A j, k \in K : s[j] = s[k] => j = k
    BY DEF AllocationLegal
  <2>3. \A n \in I : \E k \in K : s[k] = n
    BY DEF AllocationLegal, Allocated
  <2>4. IsFiniteSet(I) /\ \A n \in I : line[n] \in Int
    <3>1. IsFiniteSet(I)
      BY SeqDomain
    <3>2. \A n \in I : receipt.items[n] \in ReceiptItem
      BY SeqElement
    <3>3. \A n \in I : line[n] \in Nat
      BY <3>2 DEF ReceiptItem
    <3>. HIDE DEF I, line
    <3>. QED BY <3>1, <3>3
  <2>5. lineOf = [k \in K |-> line[s[k]]]
    OBVIOUS
  <2>. HIDE DEF I, s, K, line, lineOf
  <2>6. IsFiniteSet(K)
    BY <1>2 DEF K
  <2>7. SumOver([k \in K |-> line[s[k]]], K) = SumOver(line, I)
    BY <2>6, <2>1, <2>2, <2>3, <2>4, SumRenames
  <2>. QED BY <2>5, <2>7 DEF I
<1>10. Lines(receipt) = SumOver(line, DOMAIN receipt.items)
  BY DEF Lines, SumSeq
<1>11. DOMAIN items = A
  BY <1>1
<1>. QED BY <1>5, <1>6, <1>8, <1>9, <1>10, <1>11


\* For any receipt and proposal, an allocation that reconciles gives every
\* sharer a part of at least nothing, and the parts sum to the receipt's
\* total: packages/engine reconcileAllocation.
THEOREM ReconciledShares ==
  ASSUME NEW receipt, receipt.items \in Seq(ReceiptItem),
         receipt.extras \in Nat,
         NEW P, IsFiniteSet(P), \A p \in P : p \in Nat,
         NEW proposal, proposal.allocations \in Seq(AllocationOver(P)),
         ReconcileAllocation(receipt, proposal) # Rejected
  PROVE  LET shares == ReconcileAllocation(receipt, proposal)
         IN  /\ AllocationLegal(receipt, proposal)
             /\ DOMAIN shares = Sharers(proposal)
             /\ \A p \in Sharers(proposal) : shares[p] \in Nat
             /\ SumOver(shares, Sharers(proposal)) = receipt.total
             /\ receipt.total \in Nat
<1>. DEFINE shares == ReconcileAllocation(receipt, proposal)
            A == Sharers(proposal)
            items == ItemShares(receipt, proposal)
            extras == receipt.total - SumOver(items, DOMAIN items)
            parts == LargestRemainderSplit(extras, items)
<1>1. shares = IF ~ReceiptConsistent(receipt) \/ ~AllocationLegal(receipt, proposal) THEN Rejected
               ELSE IF extras = 0 THEN items
               ELSE IF parts = Rejected THEN Rejected
               ELSE [p \in DOMAIN items |-> items[p] + parts[p]]
  BY DEF ReconcileAllocation
<1>2. shares # Rejected
  OBVIOUS
<1>. HIDE DEF shares
<1>3. ReceiptConsistent(receipt) /\ AllocationLegal(receipt, proposal)
  BY <1>1, <1>2
<1>4. /\ DOMAIN items = A
      /\ \A p \in A : items[p] \in Nat
      /\ SumOver(items, A) = Lines(receipt)
  BY <1>3, ItemSharesSum
<1>5. IsFiniteSet(A) /\ \A p \in A : p \in Nat
  BY SharersFinite
<1>6. SumOver(items, A) \in Nat
  <2>. HIDE DEF A, items
  <2>. QED BY <1>4, <1>5, SumNat
<1>. HIDE DEF items, A
<1>7. /\ extras = receipt.extras /\ extras \in Nat
      /\ receipt.total = SumOver(items, A) + extras /\ receipt.total \in Nat
  <2>1. receipt.total = Lines(receipt) + receipt.extras
    BY <1>3 DEF ReceiptConsistent
  <2>. QED BY <1>4, <1>6, <2>1
<1>. HIDE DEF extras
<1>8. CASE extras = 0
  BY <1>1, <1>2, <1>3, <1>4, <1>6, <1>7, <1>8 DEF shares, A
<1>9. CASE extras # 0
  <2>1. parts # Rejected /\ shares = [p \in A |-> items[p] + parts[p]]
    BY <1>1, <1>2, <1>3, <1>4, <1>9
  <2>2. SumOver(items, A) # 0
    BY <1>4, <2>1 DEF LargestRemainderSplit
  <2>3. (\A p \in A : parts[p] \in Nat) /\ SumOver(parts, A) = extras
    BY <1>4, <1>5, <1>7, <2>2, LargestRemainder
  <2>. HIDE DEF parts
  <2>4. \A p \in A : items[p] \in Int /\ parts[p] \in Int /\ shares[p] = items[p] + parts[p]
    BY <1>4, <2>1, <2>3
  <2>5. SumOver(shares, A) = SumOver(items, A) + SumOver(parts, A)
    BY <1>5, <2>4, SumPlus
  <2>6. DOMAIN shares = A /\ \A p \in A : shares[p] \in Nat
    BY <1>4, <2>1, <2>3
  <2>. QED BY <1>3, <1>7, <2>3, <2>5, <2>6 DEF shares, A
<1>. QED BY <1>8, <1>9

\* The debts of an allocation: one for each sharer who owes anything.
LEMMA DebtsOfShares ==
  ASSUME NEW A, IsFiniteSet(A), \A p \in A : p \in Nat,
         NEW shares, DOMAIN shares = A, \A p \in A : shares[p] \in Nat,
         NEW payer \in A
  PROVE  LET debts == SharesToDebts(shares, payer)
             owing == {p \in A : p # payer /\ shares[p] > 0}
         IN  /\ debts \in Seq(Debt) /\ DebtsLegal(debts)
             /\ \A i \in DOMAIN debts :
                  /\ debts[i].debtor \in owing /\ debts[i].creditor = payer
                  /\ debts[i].amount = shares[debts[i].debtor] * CentUnits
             /\ \A p \in owing : \E i \in DOMAIN debts : debts[i].debtor = p
             /\ \A i, j \in DOMAIN debts : debts[i].debtor = debts[j].debtor => i = j
<1>. DEFINE owing == {p \in A : p # payer /\ shares[p] > 0}
            s == Sorted(owing)
            debts == SharesToDebts(shares, payer)
<1>1. owing \in SUBSET Nat /\ IsFiniteSet(owing)
  BY FS_Subset
<1>2. debts = [i \in DOMAIN s |-> [debtor |-> s[i], creditor |-> payer,
                                   amount |-> shares[s[i]] * CentUnits]]
  BY DEF SharesToDebts, FiatMinorToUsdcMinor
<1>. HIDE DEF debts
<1>3. /\ Cardinality(owing) \in Nat /\ DOMAIN s = 1..Cardinality(owing)
      /\ \A i \in DOMAIN s : s[i] \in owing
      /\ \A p \in owing : \E n \in DOMAIN s : s[n] = p
      /\ \A i, j \in DOMAIN s : s[i] = s[j] => i = j
  <2>. HIDE DEF owing
  <2>. QED BY <1>1, SortedSorts
<1>. HIDE DEF s
<1>4. \A i \in DOMAIN s : /\ s[i] \in Nat /\ payer \in Nat /\ s[i] # payer
                          /\ shares[s[i]] * CentUnits \in Nat \ {0}
  <2>. SUFFICES ASSUME NEW i \in DOMAIN s
                PROVE  /\ s[i] \in Nat /\ payer \in Nat /\ s[i] # payer
                       /\ shares[s[i]] * CentUnits \in Nat \ {0}
    OBVIOUS
  <2>1. s[i] \in A /\ s[i] # payer /\ shares[s[i]] \in Nat \ {0}
    BY <1>3
  <2>2. CentUnits \in Nat \ {0}
    BY EngineAssumption
  <2>3. \A a, b \in Nat \ {0} : a * b \in Nat \ {0}
    OBVIOUS
  <2>. QED BY <2>1, <2>2, <2>3
<1>5. debts \in Seq(Debt)
  <2>1. /\ DOMAIN debts = 1..Cardinality(owing) /\ debts = [i \in DOMAIN debts |-> debts[i]]
    BY <1>2, <1>3
  <2>2. ASSUME NEW i \in DOMAIN debts PROVE debts[i] \in Debt
    <3>1. i \in DOMAIN s
      BY <1>2
    <3>2. debts[i] = [debtor |-> s[i], creditor |-> payer, amount |-> shares[s[i]] * CentUnits]
      BY <1>2, <3>1
    <3>. QED BY <1>4, <3>1, <3>2 DEF Debt
  <2>. QED BY <1>3, <2>1, <2>2, IsSeq
<1>6. DebtsLegal(debts)
  BY <1>2, <1>4 DEF DebtsLegal
<1>7. DOMAIN debts = DOMAIN s
  BY <1>2
<1>8. \A i \in DOMAIN debts :
         /\ debts[i].debtor = s[i] /\ debts[i].creditor = payer
         /\ debts[i].amount = shares[s[i]] * CentUnits
  BY <1>2
<1>. QED BY <1>3, <1>5, <1>6, <1>7, <1>8 DEF debts


\* What one loses and another gains leaves the sum.
Moves(f, g, S, x, y, k) ==
  /\ x \in S /\ y \in S /\ x # y /\ k \in Int
  /\ g[x] = f[x] + k /\ g[y] = f[y] - k
  /\ \A z \in S : f[z] \in Int
  /\ \A z \in S \ {x, y} : g[z] = f[z]

\* What one loses another gains.
LEMMA SumMoves ==
  ASSUME NEW f, NEW g, NEW S, IsFiniteSet(S), NEW x, NEW y, NEW k, Moves(f, g, S, x, y, k)
  PROVE  SumOver(g, S) = SumOver(f, S)
<1>. USE DEF Moves
<1>. DEFINE T == S \ {x}
            U == T \ {y}
<1>1. IsFiniteSet(T) /\ y \in T /\ IsFiniteSet(U) /\ T \subseteq S /\ U = S \ {x, y}
  BY FS_Subset
<1>2. (\A z \in S : f[z] \in Int) /\ (\A z \in S : g[z] \in Int)
  OBVIOUS
<1>3. (\A z \in T : f[z] \in Int) /\ (\A z \in T : g[z] \in Int)
  BY <1>1, <1>2
<1>4. SumOver(f, S) = f[x] + SumOver(f, T) /\ SumOver(g, S) = g[x] + SumOver(g, T)
  BY <1>2, SumTakes
<1>5. SumOver(f, T) = f[y] + SumOver(f, U) /\ SumOver(g, T) = g[y] + SumOver(g, U)
  <2>. HIDE DEF T
  <2>. QED BY <1>1, <1>3, SumTakes
<1>6. SumOver(f, U) = SumOver(g, U) /\ SumOver(f, U) \in Int
  <2>1. \A z \in U : f[z] \in Int /\ g[z] = f[z]
    BY <1>1, <1>2
  <2>2. \A z \in U : f[z] \in Int
    BY <2>1
  <2>. HIDE DEF U
  <2>. QED BY <1>1, <2>1, <2>2, SumSame, SumInt
<1>7. f[x] \in Int /\ f[y] \in Int
  OBVIOUS
<1>. HIDE DEF T, U
<1>. QED BY <1>4, <1>5, <1>6, <1>7

\* Naturals that sum to nothing are nothing.
LEMMA SumZero ==
  ASSUME NEW f, NEW S, IsFiniteSet(S), \A x \in S : f[x] \in Nat, SumOver(f, S) = 0
  PROVE  \A x \in S : f[x] = 0
  BY SumPositive

\* Whoever is owed or owes most is one of the set.
LEMMA LargestIn ==
  ASSUME NEW S, IsFiniteSet(S), S # {}, \A p \in S : p \in Nat,
         NEW weight, \A p \in S : weight[p] \in Int
  PROVE  Largest(S, weight) \in S
<1>. DEFINE R == {e \in S \X S : weight[e[2]] > weight[e[1]]
                                 \/ (weight[e[2]] = weight[e[1]] /\ e[2] < e[1])}
<1>1. \A i, j \in S : <<i, j>> \in R <=> (weight[j] > weight[i] \/ (weight[j] = weight[i] /\ j < i))
  OBVIOUS
<1>. HIDE DEF R
<1>2. Orders(R, S)
  BY <1>1 DEF Orders
<1>3. \E m \in S : \A j \in S \ {m} : <<j, m>> \in R
  BY <1>2, LastExists
<1>4. PICK m \in S : \A j \in S \ {m} : <<j, m>> \in R
  BY <1>3
<1>5. \A q \in S : weight[m] > weight[q] \/ (weight[m] = weight[q] /\ m <= q)
  <2>. SUFFICES ASSUME NEW q \in S
                PROVE  weight[m] > weight[q] \/ (weight[m] = weight[q] /\ m <= q)
    OBVIOUS
  <2>1. q # m => <<q, m>> \in R
    BY <1>4
  <2>2. q # m => weight[m] > weight[q] \/ (weight[m] = weight[q] /\ m < q)
    BY <1>1, <2>1
  <2>3. m \in Nat /\ q \in Nat
    OBVIOUS
  <2>4. q = m \/ weight[m] > weight[q] \/ (weight[m] = weight[q] /\ m <= q)
    BY <2>2, <2>3
  <2>5. q = m => weight[m] = weight[q] /\ m <= q
    BY <2>3
  <2>. QED BY <2>4, <2>5
<1>. QED BY <1>5 DEF Largest

-----------------------------------------------------------------------------
(* Netting. *)

\* What a transfer adds to what is due and owed.
LEMMA TransferAdds ==
  ASSUME NEW out \in Seq(Debt), NEW t \in Debt, NEW p
  PROVE  /\ Due(out, p) \in Int /\ Owes(out, p) \in Int
         /\ Due(Append(out, t), p) = Due(out, p) + (IF t.creditor = p THEN t.amount ELSE 0)
         /\ Owes(Append(out, t), p) = Owes(out, p) + (IF t.debtor = p THEN t.amount ELSE 0)
<1>. DEFINE n == Len(out) + 1
            new == Append(out, t)
            f == Amounts(out)
            g == Amounts(new)
<1>1. /\ new \in Seq(Debt) /\ DOMAIN out = 1..Len(out) /\ Len(out) \in Nat
      /\ DOMAIN new = DOMAIN out \cup {n} /\ n \notin DOMAIN out
      /\ new[n] = t /\ \A i \in DOMAIN out : new[i] = out[i]
  OBVIOUS
<1>2. IsFiniteSet(DOMAIN out)
  BY SeqDomain
<1>3. t.amount \in Nat /\ \A i \in DOMAIN out : out[i].amount \in Nat
  <2>1. \A i \in DOMAIN out : out[i] \in Debt
    BY SeqElement
  <2>. QED BY <2>1 DEF Debt
<1>. HIDE DEF new, n
<1>4. /\ \A i \in DOMAIN out : f[i] \in Int /\ g[i] = f[i]
      /\ g[n] = t.amount /\ g[n] \in Int
  BY <1>1, <1>3 DEF Amounts
<1>. HIDE DEF f, g
<1>5. ASSUME NEW D \in SUBSET DOMAIN out
      PROVE  /\ SumOver(f, D) \in Int /\ SumOver(g, D) = SumOver(f, D)
             /\ SumOver(g, D \cup {n}) = SumOver(f, D) + t.amount
  <2>1. IsFiniteSet(D) /\ n \notin D
    BY <1>1, <1>2, FS_Subset
  <2>2. (\A i \in D : f[i] \in Int) /\ (\A i \in D : f[i] \in Int /\ g[i] = f[i])
        /\ \A i \in D \cup {n} : g[i] \in Int
    BY <1>4
  <2>3. SumOver(f, D) \in Int /\ SumOver(f, D) = SumOver(g, D)
    BY <2>1, <2>2, SumInt, SumSame
  <2>4. SumOver(g, D \cup {n}) = SumOver(g, D) + g[n]
    BY <2>1, <2>2, SumAdds
  <2>. QED BY <2>3, <2>4, <1>4
<1>6. /\ Due(out, p) \in Int
      /\ Due(new, p) = Due(out, p) + (IF t.creditor = p THEN t.amount ELSE 0)
  <2>. DEFINE D == {i \in DOMAIN out : out[i].creditor = p}
  <2>1. {i \in DOMAIN new : new[i].creditor = p} = IF t.creditor = p THEN D \cup {n} ELSE D
    BY <1>1
  <2>2. Due(out, p) = SumOver(f, D)
    BY DEF Due, f
  <2>3. Due(new, p) = SumOver(g, IF t.creditor = p THEN D \cup {n} ELSE D)
    BY <2>1 DEF Due, g
  <2>4. D \in SUBSET DOMAIN out
    OBVIOUS
  <2>. HIDE DEF D
  <2>5. SumOver(f, D) \in Int /\ SumOver(g, D) = SumOver(f, D)
        /\ SumOver(g, D \cup {n}) = SumOver(f, D) + t.amount
    BY <2>4, <1>5
  <2>. QED BY <2>2, <2>3, <2>5
<1>7. /\ Owes(out, p) \in Int
      /\ Owes(new, p) = Owes(out, p) + (IF t.debtor = p THEN t.amount ELSE 0)
  <2>. DEFINE D == {i \in DOMAIN out : out[i].debtor = p}
  <2>1. {i \in DOMAIN new : new[i].debtor = p} = IF t.debtor = p THEN D \cup {n} ELSE D
    BY <1>1
  <2>2. Owes(out, p) = SumOver(f, D)
    BY DEF Owes, f
  <2>3. Owes(new, p) = SumOver(g, IF t.debtor = p THEN D \cup {n} ELSE D)
    BY <2>1 DEF Owes, g
  <2>4. D \in SUBSET DOMAIN out
    OBVIOUS
  <2>. HIDE DEF D
  <2>5. SumOver(f, D) \in Int /\ SumOver(g, D) = SumOver(f, D)
        /\ SumOver(g, D \cup {n}) = SumOver(f, D) + t.amount
    BY <2>4, <1>5
  <2>. QED BY <2>2, <2>3, <2>5
<1>. QED BY <1>6, <1>7 DEF new

\* The parties' net positions cancel out.
LEMMA NetsCancel ==
  ASSUME NEW debts \in Seq(Debt)
  PROVE  LET P == Parties(debts)
             net == NetPositions(debts)
         IN  /\ IsFiniteSet(P) /\ \A p \in P : p \in Nat
             /\ DOMAIN net = P /\ \A p \in P : net[p] \in Int
             /\ SumOver(net, P) = 0
<1>. DEFINE P == Parties(debts)
            K == DOMAIN debts
            net == NetPositions(debts)
            f == Amounts(debts)
            due == [p \in P |-> Due(debts, p)]
            owes == [p \in P |-> Owes(debts, p)]
            creditor == [i \in K |-> debts[i].creditor]
            debtor == [i \in K |-> debts[i].debtor]
<1>1. \A i \in K : /\ debts[i].debtor \in Nat /\ debts[i].creditor \in Nat /\ debts[i].amount \in Nat
                   /\ debts[i].debtor \in P /\ debts[i].creditor \in P
  <2>1. \A i \in K : debts[i] \in Debt
    BY SeqElement
  <2>2. \A i \in K : debts[i].debtor \in P /\ debts[i].creditor \in P
    BY DEF Parties
  <2>. QED BY <2>1, <2>2 DEF Debt
<1>2. IsFiniteSet(K)
  BY SeqDomain
<1>3. IsFiniteSet(P) /\ \A p \in P : p \in Nat
  <2>. DEFINE G == {D \in SUBSET K : IsFiniteSet(UNION {{debts[i].debtor, debts[i].creditor} : i \in D})}
  <2>1. {} \in G
    <3>1. UNION {{debts[i].debtor, debts[i].creditor} : i \in {}} = {}
      OBVIOUS
    <3>. QED BY <3>1, FS_EmptySet
  <2>2. \A D \in G : \A x \in K \ D : D \cup {x} \in G
    <3>. SUFFICES ASSUME NEW D \in G, NEW x \in K \ D PROVE D \cup {x} \in G
      OBVIOUS
    <3>. DEFINE Of(i) == {debts[i].debtor, debts[i].creditor}
                old == UNION {Of(i) : i \in D}
                new == UNION {Of(i) : i \in D \cup {x}}
    <3>2. IsFiniteSet(Of(x))
      <4>1. \A a, b : IsFiniteSet({a, b})
        <5>. SUFFICES ASSUME NEW a, NEW b PROVE IsFiniteSet({a, b})
          OBVIOUS
        <5>1. IsFiniteSet({} \cup {a})
          BY FS_EmptySet, FS_AddElement
        <5>2. IsFiniteSet(({} \cup {a}) \cup {b})
          BY <5>1, FS_AddElement
        <5>3. {a, b} = ({} \cup {a}) \cup {b}
          OBVIOUS
        <5>. QED BY <5>2, <5>3
      <4>. QED BY <4>1
    <3>3. IsFiniteSet(old)
      OBVIOUS
    <3>. HIDE DEF Of
    <3>4. new = old \cup Of(x)
      OBVIOUS
    <3>. DEFINE added == Of(x)
    <3>. HIDE DEF old, new, added
    <3>5. IsFiniteSet(old \cup added)
      BY <3>2, <3>3, FS_Union DEF added
    <3>6. IsFiniteSet(new)
      BY <3>4, <3>5 DEF added
    <3>. QED BY <3>6 DEF Of, new
  <2>3. G \in SUBSET (SUBSET K)
    OBVIOUS
  <2>. HIDE DEF G
  <2>4. G = SUBSET K
    BY <1>2, <2>1, <2>2, <2>3, SetInduct
  <2>5. IsFiniteSet(P)
    BY <2>4 DEF G, Parties
  <2>. QED BY <1>1, <2>5 DEF Parties
<1>4. Groups(f, creditor, K, due, P) /\ Groups(f, debtor, K, owes, P)
  <2>1. \A i \in K : f[i] \in Int /\ creditor[i] \in P /\ debtor[i] \in P
    BY <1>1 DEF Amounts
  <2>2. \A p \in P : due[p] = SumOver(f, {i \in K : creditor[i] = p})
    <3>. SUFFICES ASSUME NEW p \in P PROVE due[p] = SumOver(f, {i \in K : creditor[i] = p})
      OBVIOUS
    <3>1. {i \in K : creditor[i] = p} = {i \in K : debts[i].creditor = p}
      OBVIOUS
    <3>. QED BY <3>1 DEF Due
  <2>3. \A p \in P : owes[p] = SumOver(f, {i \in K : debtor[i] = p})
    <3>. SUFFICES ASSUME NEW p \in P PROVE owes[p] = SumOver(f, {i \in K : debtor[i] = p})
      OBVIOUS
    <3>1. {i \in K : debtor[i] = p} = {i \in K : debts[i].debtor = p}
      OBVIOUS
    <3>. QED BY <3>1 DEF Owes
  <2>. HIDE DEF f, creditor, debtor, due, owes, K, P
  <2>. QED BY <2>1, <2>2, <2>3 DEF Groups
<1>5. \A i \in K : f[i] \in Int
  BY <1>1 DEF Amounts
<1>6. \A p \in P : due[p] \in Int /\ owes[p] \in Int
  <2>. SUFFICES ASSUME NEW p \in P PROVE Due(debts, p) \in Int /\ Owes(debts, p) \in Int
    OBVIOUS
  <2>1. [debtor |-> 0, creditor |-> 0, amount |-> 0] \in Debt
    BY DEF Debt
  <2>. QED BY <2>1, TransferAdds
<1>7. DOMAIN net = P /\ \A p \in P : net[p] = due[p] - owes[p] /\ net[p] \in Int
  BY <1>6 DEF NetPositions
<1>. HIDE DEF net, due, owes, f, P, K, creditor, debtor
<1>8. SumOver(due, P) = SumOver(f, K) /\ SumOver(owes, P) = SumOver(f, K)
  BY <1>2, <1>3, <1>4, SumByGroups
<1>9. SumOver(f, K) \in Int
  BY <1>2, <1>5, SumInt
<1>10. SumOver(due, P) = SumOver(net, P) + SumOver(owes, P) /\ SumOver(net, P) \in Int
  <2>1. \A p \in P : net[p] \in Int /\ owes[p] \in Int /\ due[p] = net[p] + owes[p]
    BY <1>6, <1>7
  <2>2. \A p \in P : net[p] \in Int
    BY <2>1
  <2>. QED BY <1>3, <2>1, <2>2, SumPlus, SumInt
<1>. QED BY <1>3, <1>7, <1>8, <1>9, <1>10 DEF P, net


\* What every match keeps: nobody's position is lost or turned round, and whoever
\* pays was owing.
Netting(debts, s) ==
  LET P == Parties(debts)
      first == NetPositions(debts)
  IN  /\ s.out \in Seq(Debt)
      /\ DOMAIN s.net = P /\ \A p \in P : s.net[p] \in Int
      /\ SumOver(s.net, P) = 0
      /\ \A p \in P : s.net[p] + Due(s.out, p) - Owes(s.out, p) = first[p]
      /\ \A p \in P : /\ first[p] <= 0 => s.net[p] <= 0
                      /\ first[p] >= 0 => s.net[p] >= 0
      /\ \A i \in DOMAIN s.out :
           /\ s.out[i].amount > 0
           /\ s.out[i].debtor \in P /\ first[s.out[i].debtor] < 0
           /\ s.out[i].creditor \in P /\ first[s.out[i].creditor] > 0

\* Whose position is not yet zero.
Unsettled(s) == {p \in DOMAIN s.net : s.net[p] # 0}

\* A match between two unsettled parties settles one of them at least.
LEMMA MatchSettles ==
  ASSUME NEW debts \in Seq(Debt), NEW s, Netting(debts, s), Unsettled(s) # {}
  PROVE  LET after == MatchLargest(s)
         IN  /\ Netting(debts, after)
             /\ Unsettled(after) \subseteq Unsettled(s)
             /\ Len(after.out) = Len(s.out) + 1
             /\ \E d, c \in Unsettled(s) : d # c /\ (d \notin Unsettled(after)
                                                     \/ c \notin Unsettled(after))
<1>. DEFINE P == Parties(debts)
            first == NetPositions(debts)
            net == s.net
            out == s.out
            owing == [p \in DOMAIN net |-> -net[p]]
            debtors == {p \in DOMAIN net : net[p] < 0}
            creditors == {p \in DOMAIN net : net[p] > 0}
            d == Largest(debtors, owing)
            c == Largest(creditors, net)
            amount == Min({owing[d], net[c]})
            t == [debtor |-> d, creditor |-> c, amount |-> amount]
            after == MatchLargest(s)
<1>1. /\ IsFiniteSet(P) /\ \A p \in P : p \in Nat
      /\ DOMAIN first = P /\ \A p \in P : first[p] \in Int
  BY NetsCancel
<1>2. /\ out \in Seq(Debt) /\ DOMAIN net = P /\ \A p \in P : net[p] \in Int
      /\ SumOver(net, P) = 0
  BY DEF Netting
<1>3. debtors # {}
  <2>. SUFFICES ASSUME debtors = {} PROVE FALSE
    OBVIOUS
  <2>1. \A p \in P : net[p] \in Nat
    BY <1>2
  <2>. HIDE DEF net, P
  <2>2. \A p \in P : net[p] = 0
    BY <1>1, <1>2, <2>1, SumZero
  <2>. QED BY <1>2, <2>2 DEF Unsettled, net
<1>4. creditors # {}
  <2>. SUFFICES ASSUME creditors = {} PROVE FALSE
    OBVIOUS
  <2>1. \A p \in P : owing[p] \in Nat /\ owing[p] = (-1) * net[p]
    BY <1>2
  <2>2. \A p \in P : net[p] \in Int /\ owing[p] = (-1) * net[p]
    BY <1>2, <2>1
  <2>3. \A p \in P : owing[p] \in Nat
    BY <2>1
  <2>. HIDE DEF net, P, owing
  <2>4. SumOver(owing, P) = (-1) * SumOver(net, P)
    BY <1>1, <2>2, SumScale
  <2>5. SumOver(owing, P) = 0
    BY <1>2, <2>4
  <2>6. \A p \in P : owing[p] = 0
    BY <1>1, <2>3, <2>5, SumZero
  <2>7. \A p \in P : net[p] = 0
    BY <2>2, <2>6
  <2>. QED BY <1>2, <2>7 DEF Unsettled, net
<1>5. d \in debtors
  <2>1. /\ IsFiniteSet(debtors) /\ (\A p \in debtors : p \in Nat)
        /\ \A p \in debtors : owing[p] \in Int
    BY <1>1, <1>2, FS_Subset
  <2>. HIDE DEF debtors, owing
  <2>. QED BY <1>3, <2>1, LargestIn
<1>6. c \in creditors
  <2>1. /\ IsFiniteSet(creditors) /\ (\A p \in creditors : p \in Nat)
        /\ \A p \in creditors : net[p] \in Int
    BY <1>1, <1>2, FS_Subset
  <2>. HIDE DEF creditors, net
  <2>. QED BY <1>4, <2>1, LargestIn
<1>. HIDE DEF d, c
<1>7. /\ d \in P /\ c \in P /\ d # c /\ net[d] \in Int /\ net[c] \in Int
      /\ net[d] < 0 /\ net[c] > 0 /\ owing[d] = -net[d]
  BY <1>2, <1>5, <1>6
<1>8. /\ amount \in Nat /\ amount > 0 /\ amount <= -net[d] /\ amount <= net[c]
      /\ amount = -net[d] \/ amount = net[c]
  <2>. DEFINE a == owing[d]
              b == net[c]
  <2>1. a \in Int /\ b \in Int /\ a > 0 /\ b > 0 /\ a = -net[d]
    BY <1>7
  <2>. HIDE DEF a, b
  <2>2. \E x \in {a, b} : \A y \in {a, b} : x <= y
    BY <2>1
  <2>3. Min({a, b}) \in {a, b} /\ Min({a, b}) <= a /\ Min({a, b}) <= b
    BY <2>2 DEF Min
  <2>4. amount = Min({a, b})
    BY DEF a, b
  <2>. HIDE DEF amount
  <2>. QED BY <2>1, <2>3, <2>4 DEF b
<1>9. after = [net |-> [net EXCEPT ![d] = @ + amount, ![c] = @ - amount],
               out |-> Append(out, t)]
  BY <1>3, <1>4 DEF MatchLargest, d, c
<1>. HIDE DEF amount, after
<1>10. /\ DOMAIN after.net = P /\ after.out = Append(out, t)
       /\ after.net[d] = net[d] + amount /\ after.net[c] = net[c] - amount
       /\ \A p \in P \ {d, c} : after.net[p] = net[p]
  BY <1>2, <1>7, <1>9
<1>11. /\ t \in Debt /\ after.out \in Seq(Debt) /\ Len(after.out) = Len(out) + 1
       /\ \A i \in DOMAIN after.out : after.out[i] = t \/ (i \in DOMAIN out /\ after.out[i] = out[i])
  <2>1. t \in Debt
    BY <1>1, <1>7, <1>8 DEF Debt
  <2>. HIDE DEF t, out
  <2>. QED BY <1>2, <1>10, <2>1
<1>12. \A p \in P : /\ after.net[p] \in Int
                    /\ after.net[p] = net[p] + (IF p = d THEN amount ELSE 0)
                                             - (IF p = c THEN amount ELSE 0)
  BY <1>2, <1>7, <1>8, <1>10
<1>13. SumOver(after.net, P) = 0
  <2>. DEFINE g == after.net
  <2>1. /\ g[d] = net[d] + amount /\ g[c] = net[c] - amount
        /\ \A p \in P \ {d, c} : g[p] = net[p]
    BY <1>10
  <2>. HIDE DEF g, net, P
  <2>2. SumOver(g, P) = SumOver(net, P)
    <3>1. Moves(net, g, P, d, c, amount)
      BY <1>2, <1>7, <1>8, <2>1 DEF Moves
    <3>. QED BY <1>1, <3>1, SumMoves
  <2>. QED BY <1>2, <2>2 DEF g
<1>14. \A p \in P : after.net[p] + Due(after.out, p) - Owes(after.out, p) = first[p]
  <2>. SUFFICES ASSUME NEW p \in P
                PROVE  after.net[p] + Due(after.out, p) - Owes(after.out, p) = first[p]
    OBVIOUS
  <2>1. net[p] + Due(out, p) - Owes(out, p) = first[p]
    BY DEF Netting
  <2>. HIDE DEF out, net, first, P
  <2>2. /\ Due(out, p) \in Int /\ Owes(out, p) \in Int
        /\ Due(Append(out, t), p) = Due(out, p) + (IF t.creditor = p THEN t.amount ELSE 0)
        /\ Owes(Append(out, t), p) = Owes(out, p) + (IF t.debtor = p THEN t.amount ELSE 0)
    <3>. HIDE DEF t
    <3>. QED BY <1>2, <1>11, TransferAdds
  <2>3. /\ Due(after.out, p) = Due(out, p) + (IF p = c THEN amount ELSE 0)
        /\ Owes(after.out, p) = Owes(out, p) + (IF p = d THEN amount ELSE 0)
    BY <1>10, <2>2
  <2>4. net[p] \in Int /\ first[p] \in Int /\ amount \in Int
    BY <1>1, <1>2, <1>8
  <2>. DEFINE x == after.net[p]
              u == Due(after.out, p)
              v == Owes(after.out, p)
              u0 == Due(out, p)
              v0 == Owes(out, p)
  <2>5. x = net[p] + (IF p = d THEN amount ELSE 0) - (IF p = c THEN amount ELSE 0)
    BY <1>12
  <2>6. /\ u = u0 + (IF p = c THEN amount ELSE 0) /\ v = v0 + (IF p = d THEN amount ELSE 0)
        /\ u0 \in Int /\ v0 \in Int /\ net[p] + u0 - v0 = first[p]
    BY <2>1, <2>2, <2>3
  <2>. HIDE DEF x, u, v, u0, v0
  <2>7. x + u - v = first[p]
    BY <2>4, <2>5, <2>6
  <2>. QED BY <2>7 DEF x, u, v
<1>15. first[d] < 0 /\ first[c] > 0
  <2>1. (first[d] >= 0 => net[d] >= 0) /\ (first[c] <= 0 => net[c] <= 0)
    BY <1>7 DEF Netting
  <2>2. first[d] \in Int /\ first[c] \in Int
    BY <1>1, <1>7
  <2>. HIDE DEF net, first
  <2>. QED BY <1>7, <2>1, <2>2
<1>16. \A p \in P : /\ first[p] <= 0 => after.net[p] <= 0
                    /\ first[p] >= 0 => after.net[p] >= 0
  <2>. SUFFICES ASSUME NEW p \in P
                PROVE  /\ first[p] <= 0 => after.net[p] <= 0
                       /\ first[p] >= 0 => after.net[p] >= 0
    OBVIOUS
  <2>1. /\ first[p] <= 0 => net[p] <= 0
        /\ first[p] >= 0 => net[p] >= 0
    BY DEF Netting
  <2>2. first[p] \in Int /\ net[p] \in Int
    BY <1>1, <1>2
  <2>. HIDE DEF net, first, P
  <2>3. CASE p = d
    BY <1>7, <1>8, <1>10, <1>15, <2>2, <2>3
  <2>4. CASE p = c
    BY <1>7, <1>8, <1>10, <1>15, <2>2, <2>4
  <2>5. CASE p \notin {d, c}
    BY <1>10, <2>1, <2>5
  <2>. QED BY <2>3, <2>4, <2>5
<1>17. \A i \in DOMAIN after.out :
           /\ after.out[i].amount > 0
           /\ after.out[i].debtor \in P /\ first[after.out[i].debtor] < 0
           /\ after.out[i].creditor \in P /\ first[after.out[i].creditor] > 0
  <2>. SUFFICES ASSUME NEW i \in DOMAIN after.out
                PROVE  /\ after.out[i].amount > 0
                       /\ after.out[i].debtor \in P /\ first[after.out[i].debtor] < 0
                       /\ after.out[i].creditor \in P /\ first[after.out[i].creditor] > 0
    OBVIOUS
  <2>1. CASE after.out[i] = t
    BY <1>7, <1>8, <1>15, <2>1
  <2>2. CASE i \in DOMAIN out /\ after.out[i] = out[i]
    BY <2>2 DEF Netting
  <2>. QED BY <1>11, <2>1, <2>2
<1>18. Netting(debts, after)
  BY <1>10, <1>11, <1>12, <1>13, <1>14, <1>16, <1>17 DEF Netting
<1>19. Unsettled(after) \subseteq Unsettled(s)
  BY <1>2, <1>7, <1>10 DEF Unsettled
<1>20. /\ d \in Unsettled(s) /\ c \in Unsettled(s)
       /\ d \notin Unsettled(after) \/ c \notin Unsettled(after)
  <2>1. d \in Unsettled(s) /\ c \in Unsettled(s)
    BY <1>2, <1>7 DEF Unsettled
  <2>2. after.net[d] = 0 \/ after.net[c] = 0
    BY <1>7, <1>8, <1>10
  <2>. QED BY <2>1, <2>2 DEF Unsettled
<1>. QED BY <1>7, <1>11, <1>18, <1>19, <1>20 DEF after


\* The states that N matches run through.
Matched(g, debts, N) ==
  g = [n \in 0..N |-> IF n = 0 THEN [net |-> NetPositions(debts), out |-> <<>>]
                               ELSE MatchLargest(g[n - 1])]

\* The matches of a netting can be run through.
LEMMA MatchesExist ==
  ASSUME NEW debts, NEW N \in Nat
  PROVE  \E g : Matched(g, debts, N)
<1>. DEFINE G == {n \in Nat : \E g : Matched(g, debts, n)}
            s0 == [net |-> NetPositions(debts), out |-> <<>>]
<1>. HIDE DEF s0
<1>1. 0 \in G
  <2>. DEFINE g == [n \in 0..0 |-> s0]
  <2>1. g = [n \in 0..0 |-> IF n = 0 THEN s0 ELSE MatchLargest(g[n - 1])]
    OBVIOUS
  <2>. HIDE DEF g
  <2>2. Matched(g, debts, 0)
    BY <2>1 DEF Matched, s0
  <2>. QED BY <2>2
<1>2. \A n \in G : n + 1 \in G
  <2>. SUFFICES ASSUME NEW n \in G PROVE n + 1 \in G
    OBVIOUS
  <2>1. PICK g : Matched(g, debts, n)
    OBVIOUS
  <2>. DEFINE h == [m \in 0..(n + 1) |-> IF m = 0 THEN s0 ELSE MatchLargest(g[m - 1])]
  <2>2. \A m \in 0..n : g[m] = IF m = 0 THEN s0 ELSE MatchLargest(g[m - 1])
    BY <2>1 DEF Matched, s0
  <2>3. \A m \in 0..n : h[m] = g[m]
    BY <2>2
  <2>4. h = [m \in 0..(n + 1) |-> IF m = 0 THEN s0 ELSE MatchLargest(h[m - 1])]
    <3>. SUFFICES ASSUME NEW m \in 0..(n + 1)
                  PROVE  h[m] = IF m = 0 THEN s0 ELSE MatchLargest(h[m - 1])
      OBVIOUS
    <3>1. h[m] = IF m = 0 THEN s0 ELSE MatchLargest(g[m - 1])
      OBVIOUS
    <3>. HIDE DEF h
    <3>2. m # 0 => m - 1 \in 0..n
      OBVIOUS
    <3>. QED BY <2>3, <3>1, <3>2
  <2>. HIDE DEF h
  <2>5. Matched(h, debts, n + 1)
    BY <2>4 DEF Matched, s0
  <2>. QED BY <2>5
<1>3. G = Nat
  BY <1>1, <1>2, NatInduct
<1>. QED BY <1>3

\* The parties still unsettled after n matches are at most those n have left.
Settling(debts, s, n) ==
  LET parties == Cardinality(Parties(debts))
      left == Cardinality(Unsettled(s))
  IN  \/ left = 0 /\ (s.out = <<>> \/ Len(s.out) < parties)
      \/ left # 0 /\ left + n <= parties /\ Len(s.out) = n

\* The unsettled are parties, finitely many.
LEMMA UnsettledFinite ==
  ASSUME NEW debts \in Seq(Debt), NEW s, Netting(debts, s)
  PROVE  /\ IsFiniteSet(Unsettled(s)) /\ Cardinality(Unsettled(s)) \in Nat
         /\ Cardinality(Unsettled(s)) = 0 <=> Unsettled(s) = {}
         /\ Cardinality(Unsettled(s)) <= Cardinality(Parties(debts))
         /\ Cardinality(Parties(debts)) \in Nat
<1>1. Unsettled(s) \subseteq Parties(debts) /\ IsFiniteSet(Parties(debts))
  BY NetsCancel DEF Netting, Unsettled
<1>. QED BY <1>1, FS_Subset, FS_CardinalityType, FS_EmptySet

\* One match more, and those still unsettled fit into what is left.
LEMMA MatchProgress ==
  ASSUME NEW debts \in Seq(Debt), NEW s, NEW n \in Nat, Netting(debts, s), Settling(debts, s, n)
  PROVE  Netting(debts, MatchLargest(s)) /\ Settling(debts, MatchLargest(s), n + 1)
<1>. DEFINE after == MatchLargest(s)
            U == Unsettled(s)
            V == Unsettled(after)
            parties == Cardinality(Parties(debts))
<1>1. /\ IsFiniteSet(U) /\ Cardinality(U) \in Nat /\ (Cardinality(U) = 0 <=> U = {})
      /\ Cardinality(U) <= parties /\ parties \in Nat
  BY UnsettledFinite
<1>2. CASE U = {}
  <2>1. {p \in DOMAIN s.net : s.net[p] < 0} = {}
    <3>1. \A p \in DOMAIN s.net : s.net[p] = 0
      BY <1>2 DEF Unsettled
    <3>. QED BY <3>1
  <2>2. after = s
    BY <2>1 DEF MatchLargest
  <2>3. Settling(debts, s, n + 1)
    BY <1>1, <1>2 DEF Settling
  <2>. QED BY <2>2, <2>3
<1>3. CASE U # {}
  <2>1. /\ Netting(debts, after) /\ V \subseteq U /\ Len(after.out) = Len(s.out) + 1
        /\ \E d, c \in U : d # c /\ (d \notin V \/ c \notin V)
    BY <1>3, MatchSettles
  <2>2. PICK d \in U, c \in U : d # c /\ (d \notin V \/ c \notin V)
    BY <2>1
  <2>. HIDE DEF after, U, V
  <2>3. /\ IsFiniteSet(V) /\ Cardinality(V) \in Nat /\ (Cardinality(V) = 0 <=> V = {})
    BY <2>1, UnsettledFinite DEF V
  <2>4. PICK x \in U : V \in SUBSET (U \ {x})
    BY <2>1, <2>2
  <2>5. Cardinality(V) <= Cardinality(U) - 1
    <3>. DEFINE W == U \ {x}
    <3>1. IsFiniteSet(W) /\ Cardinality(W) = Cardinality(U) - 1
      BY <1>1, <2>4, TakeOne
    <3>2. V \in SUBSET W
      BY <2>4
    <3>. HIDE DEF W
    <3>3. Cardinality(V) <= Cardinality(W)
      BY <3>1, <3>2, FS_Subset
    <3>. QED BY <3>1, <3>3
  <2>6. Cardinality(U) >= 2
    <3>1. {d, c} \in SUBSET U /\ IsFiniteSet(U \ {d}) /\ Cardinality(U \ {d}) = Cardinality(U) - 1
      BY <1>1, <2>2, TakeOne
    <3>2. c \in U \ {d}
      BY <2>2
    <3>3. Cardinality(U \ {d}) \in Nat \ {0}
      BY <3>1, <3>2, TakeOne
    <3>. QED BY <1>1, <3>1, <3>3
  <2>7. Cardinality(U) + n <= parties /\ Len(s.out) = n
    BY <1>1, <1>3 DEF Settling, U
  <2>8. Settling(debts, after, n + 1)
    BY <1>1, <2>1, <2>3, <2>5, <2>6, <2>7 DEF Settling, V
  <2>. QED BY <2>1, <2>8 DEF after
<1>. QED BY <1>2, <1>3

\* Netting refuses only what is no debt.  For any debts it ends, with fewer
\* transfers than there are parties; what it returns settles everybody's
\* position, from those who owed to those who were owed: packages/engine
\* nettedTransfers.
THEOREM NettedSettles ==
  ASSUME NEW debts \in Seq(Debt)
  PROVE  LET out == NettedTransfers(debts)
             P == Parties(debts)
             first == NetPositions(debts)
         IN  /\ ~DebtsLegal(debts) => out = Rejected
             /\ DebtsLegal(debts) =>
                  /\ out \in Seq(Debt)
                  /\ out = <<>> \/ Len(out) < Cardinality(P)
                  /\ \A p \in P : first[p] = Due(out, p) - Owes(out, p)
                  /\ \A i \in DOMAIN out :
                       /\ out[i].amount > 0
                       /\ out[i].debtor \in P /\ first[out[i].debtor] < 0
                       /\ out[i].creditor \in P /\ first[out[i].creditor] > 0
<1>. DEFINE N == Cardinality(Parties(debts))
            s0 == [net |-> NetPositions(debts), out |-> <<>>]
            after == CHOOSE g : g = [n \in 0..N |-> IF n = 0 THEN s0 ELSE MatchLargest(g[n - 1])]
            last == after[N]
<1>1. NettedTransfers(debts) =
        IF DebtsLegal(debts) /\ \A p \in DOMAIN last.net : last.net[p] = 0
        THEN last.out ELSE Rejected
  BY DEF NettedTransfers
<1>2. N \in Nat
  BY NetsCancel, FS_CardinalityType
<1>3. Matched(after, debts, N)
  <2>1. \E g : Matched(g, debts, N)
    BY <1>2, MatchesExist
  <2>2. after = CHOOSE g : Matched(g, debts, N)
    BY DEF Matched
  <2>. HIDE DEF after
  <2>. QED BY <2>1, <2>2
<1>. HIDE DEF after
<1>4. \A n \in 0..N : after[n] = IF n = 0 THEN s0 ELSE MatchLargest(after[n - 1])
  BY <1>3 DEF Matched
<1>. HIDE DEF s0, N
<1>5. Netting(debts, s0) /\ Settling(debts, s0, 0)
  <2>1. s0.net = NetPositions(debts) /\ s0.out = <<>> /\ Len(s0.out) = 0 /\ s0.out \in Seq(Debt)
    BY DEF s0
  <2>2. \A p : Due(<<>>, p) = 0 /\ Owes(<<>>, p) = 0
    <3>. SUFFICES ASSUME NEW p PROVE Due(<<>>, p) = 0 /\ Owes(<<>>, p) = 0
      OBVIOUS
    <3>1. {i \in DOMAIN <<>> : <<>>[i].creditor = p} = {} /\ {i \in DOMAIN <<>> : <<>>[i].debtor = p} = {}
      OBVIOUS
    <3>. QED BY <3>1, SumEmpty DEF Due, Owes
  <2>3. Netting(debts, s0)
    <3>. DEFINE first == NetPositions(debts)
                P == Parties(debts)
    <3>1. DOMAIN first = P /\ (\A p \in P : first[p] \in Int) /\ SumOver(first, P) = 0
      BY NetsCancel
    <3>. HIDE DEF first, P
    <3>2. \A p \in P : first[p] + 0 - 0 = first[p]
      BY <3>1
    <3>3. s0.net = first /\ DOMAIN s0.out = {}
      BY <2>1 DEF first
    <3>. QED BY <2>1, <2>2, <3>1, <3>2, <3>3 DEF Netting, first, P
  <2>4. Settling(debts, s0, 0)
    BY <2>1, <2>3, UnsettledFinite DEF Settling
  <2>. QED BY <2>3, <2>4
<1>. DEFINE G == {n \in Nat : n <= N => Netting(debts, after[n]) /\ Settling(debts, after[n], n)}
<1>6. 0 \in G
  BY <1>2, <1>4, <1>5
<1>7. \A n \in G : n + 1 \in G
  <2>. SUFFICES ASSUME NEW n \in G, n + 1 <= N
                PROVE  Netting(debts, after[n + 1]) /\ Settling(debts, after[n + 1], n + 1)
    OBVIOUS
  <2>1. Netting(debts, after[n]) /\ Settling(debts, after[n], n)
    BY <1>2
  <2>2. after[n + 1] = MatchLargest(after[n])
    BY <1>2, <1>4
  <2>. QED BY <2>1, <2>2, MatchProgress
<1>8. G = Nat
  BY <1>6, <1>7, NatInduct
<1>9. Netting(debts, last) /\ Settling(debts, last, N)
  BY <1>2, <1>8
<1>10. Unsettled(last) = {}
  BY <1>2, <1>9, UnsettledFinite DEF Settling, N
<1>. HIDE DEF last
<1>11. \A p \in DOMAIN last.net : last.net[p] = 0
  BY <1>10 DEF Unsettled
<1>12. CASE ~DebtsLegal(debts)
  BY <1>1, <1>12
<1>13. CASE DebtsLegal(debts)
  <2>1. NettedTransfers(debts) = last.out
    BY <1>1, <1>11, <1>13
  <2>. DEFINE out == last.out
              first == NetPositions(debts)
              P == Parties(debts)
  <2>2. out \in Seq(Debt)
    BY <1>9 DEF Netting
  <2>3. out = <<>> \/ Len(out) < Cardinality(P)
    BY <1>9, <1>10, UnsettledFinite DEF Settling
  <2>4. \A p \in P : first[p] = Due(out, p) - Owes(out, p)
    <3>. SUFFICES ASSUME NEW p \in P PROVE first[p] = Due(out, p) - Owes(out, p)
      OBVIOUS
    <3>1. last.net[p] + Due(out, p) - Owes(out, p) = first[p] /\ last.net[p] = 0
      BY <1>9, <1>11 DEF Netting
    <3>2. [debtor |-> 0, creditor |-> 0, amount |-> 0] \in Debt
      BY DEF Debt
    <3>3. Due(out, p) \in Int /\ Owes(out, p) \in Int
      BY <2>2, <3>2, TransferAdds
    <3>. QED BY <3>1, <3>3
  <2>5. \A i \in DOMAIN out :
          /\ out[i].amount > 0
          /\ out[i].debtor \in P /\ first[out[i].debtor] < 0
          /\ out[i].creditor \in P /\ first[out[i].creditor] > 0
    BY <1>9 DEF Netting
  <2>. QED BY <1>13, <2>1, <2>2, <2>3, <2>4, <2>5
<1>. QED BY <1>12, <1>13


-----------------------------------------------------------------------------
(* Debits and payouts. *)

\* A transfer between two addresses.
Transfer3 == [from : Nat, to : Nat, value : Nat]

\* What the values of one key sum to.
ByKey(values, key, K, a) == SumOver(values, {i \in K : key[i] = a})

\* Values, summed by key, in the order of the keys.
Keyed(values, key, K, A, s, sums) ==
  /\ \A i \in K : values[i] \in Nat /\ key[i] \in Nat
  /\ A = {key[i] : i \in K} /\ s = Sorted(A)
  /\ sums = [n \in DOMAIN s |-> ByKey(values, key, K, s[n])]

\* Values summed by their keys, in the order of the keys.
LEMMA SumsKeyed ==
  ASSUME NEW K, IsFiniteSet(K), NEW values, NEW key, NEW A, NEW s, NEW sums,
         Keyed(values, key, K, A, s, sums)
  PROVE  /\ A \in SUBSET Nat /\ IsFiniteSet(A)
         /\ \A a : ByKey(values, key, K, a) \in Nat
         /\ SumOver(sums, DOMAIN s) = SumOver(values, K)
         /\ \A a : SumOver(sums, {n \in DOMAIN s : s[n] = a}) = ByKey(values, key, K, a)
         /\ (\A i \in K : values[i] > 0) => \A n \in DOMAIN s : sums[n] > 0
<1>. DEFINE F == [a \in A |-> ByKey(values, key, K, a)]
<1>0. /\ \A i \in K : values[i] \in Nat /\ key[i] \in Nat
      /\ A = {key[i] : i \in K} /\ s = Sorted(A)
      /\ sums = [n \in DOMAIN s |-> ByKey(values, key, K, s[n])]
  BY DEF Keyed
<1>1. A \in SUBSET Nat
  BY <1>0
<1>2. IsFiniteSet(A)
  <2>. DEFINE G == {D \in SUBSET K : IsFiniteSet({key[i] : i \in D})}
  <2>1. {} \in G
    <3>1. {key[i] : i \in {}} = {}
      OBVIOUS
    <3>. QED BY <3>1, FS_EmptySet
  <2>2. \A D \in G : \A x \in K \ D : D \cup {x} \in G
    <3>. SUFFICES ASSUME NEW D \in G, NEW x \in K \ D PROVE D \cup {x} \in G
      OBVIOUS
    <3>. DEFINE old == {key[i] : i \in D}
    <3>1. {key[i] : i \in D \cup {x}} = old \cup {key[x]} /\ IsFiniteSet(old)
      OBVIOUS
    <3>. HIDE DEF old
    <3>2. IsFiniteSet(old \cup {key[x]})
      BY <3>1, FS_AddElement
    <3>. QED BY <3>1, <3>2
  <2>3. G \in SUBSET (SUBSET K)
    OBVIOUS
  <2>. HIDE DEF G
  <2>4. G = SUBSET K
    BY <2>1, <2>2, <2>3, SetInduct
  <2>. QED BY <2>4, <1>0 DEF G
<1>3. ASSUME NEW a PROVE ByKey(values, key, K, a) \in Nat
  <2>. DEFINE D == {i \in K : key[i] = a}
  <2>1. IsFiniteSet(D) /\ \A i \in D : values[i] \in Nat
    BY <1>0, FS_Subset
  <2>. HIDE DEF D
  <2>2. SumOver(values, D) \in Nat
    BY <2>1, SumNat
  <2>. QED BY <2>2 DEF ByKey, D
<1>4. /\ Cardinality(A) \in Nat /\ DOMAIN s = 1..Cardinality(A)
      /\ \A n \in DOMAIN s : s[n] \in A
      /\ \A a \in A : \E n \in DOMAIN s : s[n] = a
      /\ \A i, j \in DOMAIN s : s[i] = s[j] => i = j
  <2>. QED BY <1>0, <1>1, <1>2, SortedSorts
<1>5. IsFiniteSet(DOMAIN s)
  BY <1>4, FS_Interval
<1>6. \A n \in DOMAIN s : sums[n] = ByKey(values, key, K, s[n]) /\ sums[n] \in Nat
  BY <1>0, <1>3
<1>7. \A a \in A : F[a] = ByKey(values, key, K, a) /\ F[a] \in Int
  BY <1>3
<1>8. SumOver(sums, DOMAIN s) = SumOver(values, K)
  <2>1. \A i \in K : values[i] \in Int /\ key[i] \in A
    BY <1>0
  <2>2. Groups(values, key, K, F, A)
    BY <2>1 DEF Groups, ByKey
  <2>3. SumOver(F, A) = SumOver(values, K)
    BY <1>2, <2>2, SumByGroups
  <2>4. sums = [n \in DOMAIN s |-> F[s[n]]]
    BY <1>0, <1>4
  <2>. HIDE DEF F
  <2>. DEFINE D == DOMAIN s
  <2>5. /\ \A n \in D : s[n] \in A
        /\ \A i, j \in D : s[i] = s[j] => i = j
        /\ \A a \in A : \E n \in D : s[n] = a
        /\ \A a \in A : F[a] \in Int
        /\ IsFiniteSet(D)
    BY <1>4, <1>5, <1>7
  <2>6. sums = [n \in D |-> F[s[n]]]
    BY <2>4
  <2>. HIDE DEF D
  <2>7. SumOver([n \in D |-> F[s[n]]], D) = SumOver(F, A)
    BY <1>2, <2>5, SumRenames
  <2>8. SumOver(sums, D) = SumOver(F, A)
    BY <2>6, <2>7
  <2>. QED BY <2>3, <2>8 DEF D
<1>9. ASSUME NEW a PROVE SumOver(sums, {n \in DOMAIN s : s[n] = a}) = ByKey(values, key, K, a)
  <2>1. CASE a \in A
    <3>1. PICK n \in DOMAIN s : s[n] = a
      BY <1>4, <2>1
    <3>2. {m \in DOMAIN s : s[m] = a} = {n}
      BY <1>4, <3>1
    <3>3. sums[n] = ByKey(values, key, K, a) /\ sums[n] \in Int
      BY <1>6, <3>1
    <3>4. SumOver(sums, {n}) = sums[n]
      BY <3>3, SumOne
    <3>. QED BY <3>2, <3>3, <3>4
  <2>2. CASE a \notin A
    <3>1. {m \in DOMAIN s : s[m] = a} = {}
      BY <1>4, <2>2
    <3>2. {i \in K : key[i] = a} = {}
      BY <2>2, <1>0
    <3>. QED BY <3>1, <3>2, SumEmpty DEF ByKey
  <2>. QED BY <2>1, <2>2
<1>10. ASSUME \A i \in K : values[i] > 0, NEW n \in DOMAIN s PROVE sums[n] > 0
  <2>. DEFINE D == {i \in K : key[i] = s[n]}
  <2>0. s[n] \in A /\ A = {key[i] : i \in K}
    BY <1>4, <1>0, <1>10
  <2>1. PICK i \in K : key[i] = s[n]
    BY <2>0
  <2>2. IsFiniteSet(D) /\ (\A j \in D : values[j] \in Nat) /\ i \in D /\ values[i] # 0
    BY <1>0, <1>10, <2>1, FS_Subset
  <2>. HIDE DEF D
  <2>3. SumOver(values, D) # 0 /\ SumOver(values, D) \in Nat
    BY <2>2, SumPositive, SumNat
  <2>. QED BY <1>6, <2>3 DEF ByKey, D
<1>11. \A n \in DOMAIN s : sums[n] \in Nat
  BY <1>6
<1>. QED BY <1>1, <1>2, <1>3, <1>8, <1>9, <1>10, <1>11

\* What the records of a list come to.
Values(s) == [i \in DOMAIN s |-> s[i].value]

\* What the transfers take from an address.
From(transfers, a) == SumOver(Values(transfers), {i \in DOMAIN transfers : transfers[i].from = a})

\* What the transfers give to an address.
To(transfers, a) == SumOver(Values(transfers), {i \in DOMAIN transfers : transfers[i].to = a})

\* What the debits take from an address.
Debited(debits, a) == SumOver(Values(debits), {i \in DOMAIN debits : debits[i].debtor = a})

\* What the payouts give to an address.
Paid(payouts, a) == SumOver(Values(payouts), {i \in DOMAIN payouts : payouts[i].creditor = a})

\* For any transfers, the debits and payouts take from everybody and give to
\* everybody what the transfers do; each debtor and each creditor has one, by
\* ascending address, and both sides sum to the same:
\* aggregateSettlementTransfers.
THEOREM AggregatesTransfers ==
  ASSUME NEW transfers \in Seq(Transfer3)
  PROVE  LET ends == AggregateSettlementTransfers(transfers)
             froms == {transfers[i].from : i \in DOMAIN transfers}
             tos == {transfers[i].to : i \in DOMAIN transfers}
         IN  /\ ends.debits \in Seq([debtor : froms, value : Nat])
             /\ ends.payouts \in Seq([creditor : tos, value : Nat])
             /\ froms \in SUBSET Nat /\ tos \in SUBSET Nat
             /\ StrictlyAscending([i \in DOMAIN ends.debits |-> ends.debits[i].debtor])
             /\ StrictlyAscending([i \in DOMAIN ends.payouts |-> ends.payouts[i].creditor])
             /\ \A a : Debited(ends.debits, a) = From(transfers, a)
             /\ \A a : Paid(ends.payouts, a) = To(transfers, a)
             /\ SumSeq(Values(ends.debits)) = SumSeq(Values(ends.payouts))
             /\ \A a \in froms : \E i \in DOMAIN ends.debits :
                  ends.debits[i] = [debtor |-> a, value |-> From(transfers, a)]
             /\ (\A i \in DOMAIN transfers : transfers[i].value > 0) =>
                  /\ \A i \in DOMAIN ends.debits : ends.debits[i].value > 0
                  /\ \A i \in DOMAIN ends.payouts : ends.payouts[i].value > 0
             /\ transfers # <<>> => ends.debits # <<>> /\ ends.payouts # <<>>
<1>. DEFINE K == DOMAIN transfers
            values == Values(transfers)
            from == [i \in K |-> transfers[i].from]
            to == [i \in K |-> transfers[i].to]
            A == {from[i] : i \in K}
            B == {to[i] : i \in K}
            s == Sorted(A)
            r == Sorted(B)
            taken == [n \in DOMAIN s |-> ByKey(values, from, K, s[n])]
            given == [n \in DOMAIN r |-> ByKey(values, to, K, r[n])]
            ends == AggregateSettlementTransfers(transfers)
<1>1. IsFiniteSet(K) /\ Len(transfers) \in Nat /\ K = 1..Len(transfers)
  BY SeqDomain
<1>2. \A i \in K : /\ values[i] = transfers[i].value /\ values[i] \in Nat
                   /\ from[i] = transfers[i].from /\ from[i] \in Nat
                   /\ to[i] = transfers[i].to /\ to[i] \in Nat
  <2>1. \A i \in K : transfers[i] \in Transfer3
    BY SeqElement
  <2>. QED BY <2>1 DEF Values, Transfer3
<1>3. A = {transfers[i].from : i \in K} /\ B = {transfers[i].to : i \in K}
  OBVIOUS
<1>4. \A a : From(transfers, a) = ByKey(values, from, K, a) /\ To(transfers, a) = ByKey(values, to, K, a)
  <2>. SUFFICES ASSUME NEW a
                PROVE  /\ {i \in K : transfers[i].from = a} = {i \in K : from[i] = a}
                       /\ {i \in K : transfers[i].to = a} = {i \in K : to[i] = a}
    BY DEF From, To, ByKey
  <2>. QED OBVIOUS
<1>5. /\ ends.debits = [n \in DOMAIN s |-> [debtor |-> s[n], value |-> ByKey(values, from, K, s[n])]]
      /\ ends.payouts = [n \in DOMAIN r |-> [creditor |-> r[n], value |-> ByKey(values, to, K, r[n])]]
  <2>1. /\ ends.debits = [n \in DOMAIN s |-> [debtor |-> s[n], value |-> From(transfers, s[n])]]
        /\ ends.payouts = [n \in DOMAIN r |-> [creditor |-> r[n], value |-> To(transfers, r[n])]]
    BY <1>3 DEF AggregateSettlementTransfers, From, To, Values
  <2>. HIDE DEF s, r, values, from, to, K, ends
  <2>. QED BY <1>4, <2>1
<1>. HIDE DEF ends, values, from, to
<1>6. (\A i \in K : values[i] \in Nat /\ from[i] \in Nat) /\ (\A i \in K : values[i] \in Nat /\ to[i] \in Nat)
  BY <1>2
<1>a. Keyed(values, from, K, A, s, taken) /\ Keyed(values, to, K, B, r, given)
  BY <1>6 DEF Keyed
<1>. HIDE DEF A, B, s, r, taken, given
<1>7. /\ A \in SUBSET Nat /\ IsFiniteSet(A)
      /\ \A a : ByKey(values, from, K, a) \in Nat
      /\ SumOver(taken, DOMAIN s) = SumOver(values, K)
      /\ \A a : SumOver(taken, {n \in DOMAIN s : s[n] = a}) = ByKey(values, from, K, a)
      /\ (\A i \in K : values[i] > 0) => \A n \in DOMAIN s : taken[n] > 0
  BY <1>1, <1>a, SumsKeyed
<1>8. /\ B \in SUBSET Nat /\ IsFiniteSet(B)
      /\ \A a : ByKey(values, to, K, a) \in Nat
      /\ SumOver(given, DOMAIN r) = SumOver(values, K)
      /\ \A a : SumOver(given, {n \in DOMAIN r : r[n] = a}) = ByKey(values, to, K, a)
      /\ (\A i \in K : values[i] > 0) => \A n \in DOMAIN r : given[n] > 0
  BY <1>1, <1>a, SumsKeyed
<1>9. /\ Cardinality(A) \in Nat /\ DOMAIN s = 1..Cardinality(A)
      /\ \A i \in DOMAIN s : s[i] \in A
      /\ StrictlyAscending(s) /\ \A x \in A : \E n \in DOMAIN s : s[n] = x
  BY <1>7, SortedSorts DEF s
<1>10. /\ Cardinality(B) \in Nat /\ DOMAIN r = 1..Cardinality(B)
       /\ \A i \in DOMAIN r : r[i] \in B
       /\ StrictlyAscending(r) /\ \A x \in B : \E n \in DOMAIN r : r[n] = x
  BY <1>8, SortedSorts DEF r
<1>11. /\ DOMAIN ends.debits = DOMAIN s /\ Values(ends.debits) = taken
       /\ \A n \in DOMAIN s : /\ ends.debits[n].debtor = s[n]
                              /\ ends.debits[n].value = taken[n]
                              /\ ends.debits[n] \in [debtor : A, value : Nat]
                              /\ ends.debits[n] = [debtor |-> s[n],
                                                   value |-> ByKey(values, from, K, s[n])]
  BY <1>5, <1>7, <1>9 DEF Values, taken
<1>12. /\ DOMAIN ends.payouts = DOMAIN r /\ Values(ends.payouts) = given
       /\ \A n \in DOMAIN r : /\ ends.payouts[n].creditor = r[n]
                              /\ ends.payouts[n].value = given[n]
                              /\ ends.payouts[n] \in [creditor : B, value : Nat]
  BY <1>5, <1>8, <1>10 DEF Values, given
<1>13. ends.debits \in Seq([debtor : A, value : Nat])
  <2>1. ends.debits = [i \in DOMAIN ends.debits |-> ends.debits[i]]
    BY <1>5
  <2>. QED BY <1>9, <1>11, <2>1, IsSeq
<1>14. ends.payouts \in Seq([creditor : B, value : Nat])
  <2>1. ends.payouts = [i \in DOMAIN ends.payouts |-> ends.payouts[i]]
    BY <1>5
  <2>. QED BY <1>10, <1>12, <2>1, IsSeq
<1>15. /\ StrictlyAscending([i \in DOMAIN ends.debits |-> ends.debits[i].debtor])
       /\ StrictlyAscending([i \in DOMAIN ends.payouts |-> ends.payouts[i].creditor])
  <2>1. /\ \A i, j \in DOMAIN s : i < j => s[i] < s[j]
        /\ \A i, j \in DOMAIN r : i < j => r[i] < r[j]
    BY <1>9, <1>10 DEF StrictlyAscending
  <2>2. /\ DOMAIN [i \in DOMAIN ends.debits |-> ends.debits[i].debtor] = DOMAIN s
        /\ \A i \in DOMAIN s : [j \in DOMAIN ends.debits |-> ends.debits[j].debtor][i] = s[i]
    BY <1>11
  <2>3. /\ DOMAIN [i \in DOMAIN ends.payouts |-> ends.payouts[i].creditor] = DOMAIN r
        /\ \A i \in DOMAIN r : [j \in DOMAIN ends.payouts |-> ends.payouts[j].creditor][i] = r[i]
    BY <1>12
  <2>. DEFINE u == [i \in DOMAIN ends.debits |-> ends.debits[i].debtor]
              v == [i \in DOMAIN ends.payouts |-> ends.payouts[i].creditor]
  <2>4. /\ DOMAIN u = DOMAIN s /\ \A i \in DOMAIN s : u[i] = s[i]
        /\ DOMAIN v = DOMAIN r /\ \A i \in DOMAIN r : v[i] = r[i]
    BY <2>2, <2>3
  <2>. HIDE DEF u, v
  <2>5. StrictlyAscending(u) /\ StrictlyAscending(v)
    BY <2>1, <2>4 DEF StrictlyAscending
  <2>. QED BY <2>5 DEF u, v
<1>16. \A a : Debited(ends.debits, a) = From(transfers, a)
  <2>. SUFFICES ASSUME NEW a PROVE Debited(ends.debits, a) = From(transfers, a)
    OBVIOUS
  <2>1. {n \in DOMAIN ends.debits : ends.debits[n].debtor = a} = {n \in DOMAIN s : s[n] = a}
    BY <1>11
  <2>. QED BY <1>4, <1>7, <1>11, <2>1 DEF Debited
<1>17. \A a : Paid(ends.payouts, a) = To(transfers, a)
  <2>. SUFFICES ASSUME NEW a PROVE Paid(ends.payouts, a) = To(transfers, a)
    OBVIOUS
  <2>1. {n \in DOMAIN ends.payouts : ends.payouts[n].creditor = a} = {n \in DOMAIN r : r[n] = a}
    BY <1>12
  <2>. QED BY <1>4, <1>8, <1>12, <2>1 DEF Paid
<1>18. SumSeq(Values(ends.debits)) = SumSeq(Values(ends.payouts))
  <2>1. DOMAIN taken = DOMAIN s /\ DOMAIN given = DOMAIN r
    BY DEF taken, given
  <2>. QED BY <1>7, <1>8, <1>11, <1>12, <2>1 DEF SumSeq
<1>19. \A a \in A : \E i \in DOMAIN ends.debits :
         ends.debits[i] = [debtor |-> a, value |-> From(transfers, a)]
  BY <1>4, <1>9, <1>11
<1>20. ASSUME \A i \in K : transfers[i].value > 0
       PROVE  /\ \A i \in DOMAIN ends.debits : ends.debits[i].value > 0
              /\ \A i \in DOMAIN ends.payouts : ends.payouts[i].value > 0
  <2>1. \A i \in K : values[i] > 0
    BY <1>2, <1>20
  <2>. QED BY <1>7, <1>8, <1>11, <1>12, <2>1
<1>21. ASSUME transfers # <<>> PROVE ends.debits # <<>> /\ ends.payouts # <<>>
  <2>1. 1 \in K
    BY <1>1, <1>21
  <2>2. from[1] \in A /\ to[1] \in B
    BY <2>1 DEF A, B
  <2>3. DOMAIN s # {} /\ DOMAIN r # {}
    BY <1>9, <1>10, <2>2
  <2>. QED BY <1>11, <1>12, <2>3
<1>22. A = {transfers[i].from : i \in DOMAIN transfers} /\ B = {transfers[i].to : i \in DOMAIN transfers}
  BY <1>3
<1>. QED BY <1>7, <1>8, <1>13, <1>14, <1>15, <1>16, <1>17, <1>18, <1>19, <1>20, <1>21, <1>22 DEF ends
=============================================================================
