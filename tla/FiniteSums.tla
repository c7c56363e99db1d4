------------------------------ MODULE FiniteSums ------------------------------
(***************************************************************************)
(* Facts about SumFunctionOnSet, the sum of the values of a function over  *)
(* a finite set, which the accounting properties of the exchange are       *)
(* stated with: the sum does not depend on the order of the elements, and  *)
(* it follows an insert, an update and an addition of functions.           *)
(*                                                                         *)
(* The induction over finite sets is by smallest counterexample: a         *)
(* non-empty set of subsets has one of least cardinality.                  *)
(***************************************************************************)
EXTENDS Integers, FiniteSets, FiniteSetTheorems, TLAPS

\* One unfolding of the fold SumFunctionOnSet is defined by, and its solutions
\* over the sets D.
Unfolded(f, g, s) ==
    IF s = {} THEN 0
    ELSE LET x == CHOOSE y \in s : TRUE IN f[x] + g[s \ {x}]
IsFold(f, g, D) == g = [s \in D |-> Unfolded(f, g, s)]

\* A set of numbers has a least one: with the library's facts on finite sets,
\* since 0 .. m is a finite set that grows with m.
LEMMA NatMinimum ==
    ASSUME NEW T, T \subseteq Nat, T # {}
    PROVE  \E n \in T : \A m \in T : n <= m
  <1> DEFINE Below == {0 .. m : m \in T}
  <1>1. Below \subseteq FiniteSubsetsOf(Nat) /\ Below # {}
      <2> SUFFICES ASSUME NEW m \in T PROVE 0 .. m \in FiniteSubsetsOf(Nat)
          OBVIOUS
      <2>1. IsFiniteSet(0 .. m) /\ 0 .. m \subseteq Nat
          BY FS_Interval
      <2> QED BY <2>1 DEF FiniteSubsetsOf
  <1>2. PICK b \in Below : \A c \in Below : ~ (<<c, b>> \in StrictSubsetOrdering(Nat))
      BY <1>1, FS_StrictSubsetOrderingWellFounded, WFMin
  <1>3. PICK n \in T : b = 0 .. n
      OBVIOUS
  <1>4. ASSUME NEW m \in T PROVE n <= m
      <2> SUFFICES ASSUME m < n PROVE FALSE
          OBVIOUS
      <2>1. 0 .. m \in SUBSET Nat /\ 0 .. n \in SUBSET Nat
          OBVIOUS
      <2>2. 0 .. m \subseteq 0 .. n /\ n \in 0 .. n /\ n \notin 0 .. m
          OBVIOUS
      <2>3. <<0 .. m, 0 .. n>> \in StrictSubsetOrdering(Nat)
          <3> DEFINE c == 0 .. m
                     d == 0 .. n
          <3>1. c \in SUBSET Nat /\ d \in SUBSET Nat /\ c \subseteq d /\ c # d
              BY <2>1, <2>2
          <3> HIDE DEF c, d
          <3>2. <<c, d>> \in StrictSubsetOrdering(Nat)
              BY <3>1 DEF StrictSubsetOrdering
          <3> QED BY <3>2 DEF c, d
      <2> QED BY <1>2, <1>3, <2>3
  <1> QED BY <1>4

\* Among some subsets of a finite set there is one of the least size: what the
\* inductions below start from, as a smallest counterexample.
LEMMA LeastCardinality ==
    ASSUME NEW S, IsFiniteSet(S), NEW B \in SUBSET (SUBSET S), B # {}
    PROVE  \E s \in B : \A t \in B : Cardinality(s) <= Cardinality(t)
  <1> DEFINE T == {Cardinality(s) : s \in B}
  <1>1. \A s \in B : Cardinality(s) \in Nat
      BY FS_Subset, FS_CardinalityType
  <1>2. T \subseteq Nat /\ T # {}
      BY <1>1
  <1>3. PICK n \in T : \A m \in T : n <= m
      <2> HIDE DEF T
      <2> QED BY <1>2, NatMinimum
  <1> QED BY <1>3

\* A set without one of its elements is finite and smaller.
LEMMA Smaller ==
    ASSUME NEW S, IsFiniteSet(S), NEW s \in SUBSET S, NEW x \in s
    PROVE  /\ IsFiniteSet(s) /\ s \ {x} \in SUBSET S
           /\ Cardinality(s) \in Nat /\ Cardinality(s \ {x}) = Cardinality(s) - 1
           /\ Cardinality(s \ {x}) \in Nat
  <1>1. IsFiniteSet(s)
      BY FS_Subset
  <1>2. Cardinality(s \ {x}) = Cardinality(s) - 1 /\ IsFiniteSet(s \ {x})
      BY <1>1, FS_RemoveElement
  <1>3. Cardinality(s) \in Nat /\ Cardinality(s \ {x}) \in Nat
      BY <1>1, <1>2, FS_CardinalityType
  <1> QED BY <1>1, <1>2, <1>3

\* The recursion that defines a sum has a solution.
LEMMA FoldExists ==
    ASSUME NEW f, NEW S, IsFiniteSet(S)
    PROVE  \E g : IsFold(f, g, SUBSET S)
  <1> DEFINE D(n) == {s \in SUBSET S : Cardinality(s) <= n}
             Bad == {n \in Nat : ~ \E g : IsFold(f, g, D(n))}
  <1>0. \A s \in SUBSET S : IsFiniteSet(s) /\ Cardinality(s) \in Nat
      BY FS_Subset, FS_CardinalityType
  <1>1. Bad = {}
      <2> SUFFICES ASSUME Bad # {} PROVE FALSE OBVIOUS
      <2>1. PICK n \in Bad : \A m \in Bad : n <= m
          BY NatMinimum
      <2>2. CASE n = 0
          <3>1. D(0) = {{}}
              BY <1>0, FS_EmptySet
          <3> DEFINE g == [s \in D(0) |-> 0]
          <3>2. IsFold(f, g, D(0))
              BY <3>1 DEF IsFold, Unfolded
          <3> QED BY <2>2, <3>2
      <2>3. CASE n # 0
          <3>1. n - 1 \in Nat /\ n - 1 \notin Bad
              <4>1. n \in Nat
                  OBVIOUS
              <4> HIDE DEF Bad
              <4> QED BY <2>1, <2>3, <4>1
          <3>2. PICK g : IsFold(f, g, D(n - 1))
              BY <3>1
          <3> DEFINE h == [s \in D(n) |-> Unfolded(f, g, s)]
          <3>3. ASSUME NEW s \in D(n) PROVE Unfolded(f, g, s) = Unfolded(f, h, s)
              <4>1. CASE s = {}
                  BY <4>1 DEF Unfolded
              <4>2. CASE s # {}
                  <5> DEFINE x == CHOOSE y \in s : TRUE
                  <5>1. x \in s
                      BY <4>2
                  <5>2. s \ {x} \in D(n - 1) /\ s \ {x} \in D(n)
                      <6> HIDE DEF x
                      <6>1. /\ s \ {x} \in SUBSET S /\ Cardinality(s) \in Nat
                            /\ Cardinality(s \ {x}) = Cardinality(s) - 1
                          BY <5>1, Smaller
                      <6> QED BY <6>1, <3>1
                  <5>3. h[s \ {x}] = g[s \ {x}]
                      BY <5>2, <3>2 DEF IsFold
                  <5> QED BY <4>2, <5>3 DEF Unfolded
              <4> QED BY <4>1, <4>2
          <3>4. IsFold(f, h, D(n))
              BY <3>3 DEF IsFold
          <3> QED BY <3>4, <2>1
      <2> QED BY <2>2, <2>3
  <1>2. Cardinality(S) \in Nat /\ D(Cardinality(S)) = SUBSET S
      BY <1>0, FS_Subset
  <1> QED BY <1>1, <1>2

\* The sum is the value of such a solution.
LEMMA SumIsFold ==
    ASSUME NEW f, NEW S, IsFiniteSet(S)
    PROVE  \E g : IsFold(f, g, SUBSET S) /\ SumFunctionOnSet(f, S) = g[S]
  <1> DEFINE h == CHOOSE g : g = [s \in SUBSET S |-> Unfolded(f, g, s)]
  <1>1. h = [s \in SUBSET S |-> Unfolded(f, h, s)]
      BY FoldExists DEF IsFold
  <1>2. SumFunctionOnSet(f, S) = h[S]
      BY DEF SumFunctionOnSet, FoldFunctionOnSet, MapThenFoldSet, Unfolded
  <1> QED BY <1>1, <1>2 DEF IsFold

\* Every solution gives the sums of all subsets.
LEMMA FoldUnique ==
    ASSUME NEW f, NEW S, IsFiniteSet(S), NEW g, IsFold(f, g, SUBSET S),
           NEW T \in SUBSET S
    PROVE  g[T] = SumFunctionOnSet(f, T)
  <1>1. IsFiniteSet(T)
      BY FS_Subset
  <1>0. PICK h : IsFold(f, h, SUBSET T) /\ SumFunctionOnSet(f, T) = h[T]
      BY <1>1, SumIsFold
  <1> SUFFICES g[T] = h[T]
      BY <1>0
  <1> DEFINE Bad == {s \in SUBSET T : g[s] # h[s]}
  <1> SUFFICES ASSUME Bad # {} PROVE FALSE
      OBVIOUS
  <1>2. PICK s \in Bad : \A t \in Bad : Cardinality(s) <= Cardinality(t)
      BY <1>1, LeastCardinality
  <1>3. g[s] = Unfolded(f, g, s) /\ h[s] = Unfolded(f, h, s)
      BY <1>0 DEF IsFold
  <1>4. s # {}
      BY <1>2, <1>3 DEF Unfolded
  <1> DEFINE x == CHOOSE y \in s : TRUE
  <1>5. x \in s
      BY <1>4
  <1>6. /\ s \ {x} \in SUBSET T /\ Cardinality(s) \in Nat
        /\ Cardinality(s \ {x}) = Cardinality(s) - 1
      <2> HIDE DEF x
      <2> QED BY <1>1, <1>5, Smaller
  <1>7. g[s \ {x}] = h[s \ {x}]
      <2> HIDE DEF x
      <2>1. s \ {x} \notin Bad
          <3> HIDE DEF Bad
          <3> QED BY <1>2, <1>6
      <2> QED BY <2>1, <1>6
  <1> QED BY <1>2, <1>3, <1>4, <1>7 DEF Unfolded

\* The sum unfolds at the element CHOOSE takes.
LEMMA SumChosen ==
    ASSUME NEW f, NEW S, IsFiniteSet(S), S # {}
    PROVE  LET x == CHOOSE y \in S : TRUE
           IN  SumFunctionOnSet(f, S) = f[x] + SumFunctionOnSet(f, S \ {x})
  <1> DEFINE x == CHOOSE y \in S : TRUE
             T == S \ {x}
  <1>1. PICK g : IsFold(f, g, SUBSET S) /\ SumFunctionOnSet(f, S) = g[S]
      BY SumIsFold
  <1>2. g[T] = SumFunctionOnSet(f, T)
      <2>1. T \in SUBSET S
          OBVIOUS
      <2>2. IsFold(f, g, SUBSET S)
          BY <1>1
      <2> HIDE DEF T
      <2> QED BY <2>1, <2>2, FoldUnique, Zenon
  <1>5. g[S] = f[x] + g[T]
      BY <1>1 DEF IsFold, Unfolded
  <1> QED BY <1>1, <1>2, <1>5

\* The empty sum.
LEMMA SumEmpty == \A f : SumFunctionOnSet(f, {}) = 0
  <1> TAKE f
  <1>1. PICK g : IsFold(f, g, SUBSET {}) /\ SumFunctionOnSet(f, {}) = g[{}]
      BY SumIsFold, FS_EmptySet
  <1> QED BY <1>1 DEF IsFold, Unfolded

\* A sum of integers is one.
LEMMA SumInt ==
    ASSUME NEW S, IsFiniteSet(S), NEW f, \A x \in S : f[x] \in Int
    PROVE  SumFunctionOnSet(f, S) \in Int
  <1> DEFINE Bad == {s \in SUBSET S : SumFunctionOnSet(f, s) \notin Int}
  <1> SUFFICES ASSUME Bad # {} PROVE FALSE
      OBVIOUS
  <1>2. PICK s \in Bad : \A t \in Bad : Cardinality(s) <= Cardinality(t)
      BY LeastCardinality
  <1>3. s # {}
      BY <1>2, SumEmpty
  <1> DEFINE x == CHOOSE y \in s : TRUE
  <1>5. x \in s
      BY <1>3
  <1>6. /\ s \ {x} \in SUBSET S /\ Cardinality(s) \in Nat /\ IsFiniteSet(s)
        /\ Cardinality(s \ {x}) = Cardinality(s) - 1
      <2> HIDE DEF x
      <2> QED BY <1>5, Smaller
  <1>7. SumFunctionOnSet(f, s \ {x}) \in Int
      <2> HIDE DEF x
      <2>1. s \ {x} \notin Bad
          <3> HIDE DEF Bad
          <3> QED BY <1>2, <1>6
      <2> QED BY <2>1, <1>6
  <1>8. SumFunctionOnSet(f, s) = f[x] + SumFunctionOnSet(f, s \ {x})
      BY <1>3, <1>6, SumChosen
  <1> QED BY <1>2, <1>5, <1>7, <1>8

\* The order in which the elements are taken does not matter.
LEMMA SumRemove ==
    ASSUME NEW S, IsFiniteSet(S), NEW f, \A y \in S : f[y] \in Int, NEW e \in S
    PROVE  SumFunctionOnSet(f, S) = f[e] + SumFunctionOnSet(f, S \ {e})
  <1> DEFINE Differs(s) == \E z \in s : SumFunctionOnSet(f, s) # f[z] + SumFunctionOnSet(f, s \ {z})
             Bad == {s \in SUBSET S : Differs(s)}
  <1>0. \A s \in SUBSET S : IsFiniteSet(s) /\ SumFunctionOnSet(f, s) \in Int
      BY FS_Subset, SumInt
  <1> SUFFICES ASSUME Bad # {} PROVE FALSE
      OBVIOUS
  <1>1. PICK s \in Bad : \A t \in Bad : Cardinality(s) <= Cardinality(t)
      BY LeastCardinality
  <1>2. \A x \in s : s \ {x} \in SUBSET S /\ s \ {x} \notin Bad
      <2> TAKE x \in s
      <2>1. /\ s \ {x} \in SUBSET S /\ Cardinality(s) \in Nat
            /\ Cardinality(s \ {x}) = Cardinality(s) - 1
          BY Smaller
      <2> HIDE DEF Bad
      <2> QED BY <1>1, <2>1
  <1>3. PICK z \in s : SumFunctionOnSet(f, s) # f[z] + SumFunctionOnSet(f, s \ {z})
      OBVIOUS
  <1> DEFINE c == CHOOSE y \in s : TRUE
  <1>4. c \in s /\ SumFunctionOnSet(f, s) = f[c] + SumFunctionOnSet(f, s \ {c})
      BY <1>0, SumChosen
  <1> HIDE DEF c
  <1>5. c # z
      BY <1>3, <1>4
  <1>8. SumFunctionOnSet(f, s \ {c}) = f[z] + SumFunctionOnSet(f, (s \ {c}) \ {z})
      BY <1>2, <1>4, <1>5
  <1>9. SumFunctionOnSet(f, s \ {z}) = f[c] + SumFunctionOnSet(f, (s \ {z}) \ {c})
      BY <1>2, <1>4, <1>5
  <1> DEFINE r == (s \ {c}) \ {z}
  <1>10. (s \ {z}) \ {c} = r /\ r \in SUBSET S
      OBVIOUS
  <1>11. SumFunctionOnSet(f, r) \in Int /\ f[c] \in Int /\ f[z] \in Int
      BY <1>0, <1>4, <1>10
  <1>12. /\ SumFunctionOnSet(f, s \ {c}) = f[z] + SumFunctionOnSet(f, r)
         /\ SumFunctionOnSet(f, s \ {z}) = f[c] + SumFunctionOnSet(f, r)
      BY <1>8, <1>9, <1>10
  <1> HIDE DEF r
  <1>13. f[c] + SumFunctionOnSet(f, s \ {c}) = f[z] + SumFunctionOnSet(f, s \ {z})
      BY <1>11, <1>12
  <1> QED BY ONLY <1>3, <1>4, <1>13

\* Sums of functions that agree on the set are equal.
LEMMA SumEqual ==
    ASSUME NEW S, IsFiniteSet(S), NEW f, NEW g, \A y \in S : f[y] = g[y]
    PROVE  SumFunctionOnSet(f, S) = SumFunctionOnSet(g, S)
  <1> DEFINE Bad == {s \in SUBSET S : SumFunctionOnSet(f, s) # SumFunctionOnSet(g, s)}
  <1> SUFFICES ASSUME Bad # {} PROVE FALSE
      OBVIOUS
  <1>1. PICK s \in Bad : \A t \in Bad : Cardinality(s) <= Cardinality(t)
      BY LeastCardinality
  <1>2. s # {}
      BY <1>1, SumEmpty
  <1> DEFINE x == CHOOSE y \in s : TRUE
  <1>3. x \in s
      BY <1>2
  <1>4. /\ s \ {x} \in SUBSET S /\ Cardinality(s) \in Nat /\ IsFiniteSet(s)
        /\ Cardinality(s \ {x}) = Cardinality(s) - 1
      <2> HIDE DEF x
      <2> QED BY <1>3, Smaller
  <1>5. SumFunctionOnSet(f, s \ {x}) = SumFunctionOnSet(g, s \ {x})
      <2> HIDE DEF x
      <2>1. s \ {x} \notin Bad
          <3> HIDE DEF Bad
          <3> QED BY <1>1, <1>4
      <2> QED BY <2>1, <1>4
  <1>6. /\ SumFunctionOnSet(f, s) = f[x] + SumFunctionOnSet(f, s \ {x})
        /\ SumFunctionOnSet(g, s) = g[x] + SumFunctionOnSet(g, s \ {x})
      BY <1>2, <1>4, SumChosen
  <1>7. f[x] = g[x]
      <2> HIDE DEF x
      <2> QED BY <1>3
  <1> QED BY <1>1, <1>5, <1>6, <1>7

\* A new element adds its value.
LEMMA SumAdd ==
    ASSUME NEW S, IsFiniteSet(S), NEW f, NEW e, e \notin S,
           \A y \in S \cup {e} : f[y] \in Int
    PROVE  /\ SumFunctionOnSet(f, S \cup {e}) = SumFunctionOnSet(f, S) + f[e]
           /\ SumFunctionOnSet(f, S) \in Int
  <1>1. IsFiniteSet(S \cup {e}) /\ (S \cup {e}) \ {e} = S
      BY FS_AddElement
  <1>2. SumFunctionOnSet(f, S) \in Int
      BY SumInt
  <1>3. SumFunctionOnSet(f, S \cup {e}) = f[e] + SumFunctionOnSet(f, S)
      <2> DEFINE T == S \cup {e}
      <2>1. IsFiniteSet(T) /\ e \in T /\ \A y \in T : f[y] \in Int
          BY <1>1
      <2> HIDE DEF T
      <2>2. SumFunctionOnSet(f, T) = f[e] + SumFunctionOnSet(f, T \ {e})
          BY <2>1, SumRemove
      <2>3. T \ {e} = S
          BY <1>1 DEF T
      <2> QED BY <2>2, <2>3 DEF T
  <1>4. f[e] \in Int
      OBVIOUS
  <1> QED BY <1>2, <1>3, <1>4

\* Changing one value changes the sum by as much.
LEMMA SumChange ==
    ASSUME NEW S, IsFiniteSet(S), NEW f, NEW g, NEW e \in S,
           \A y \in S : f[y] \in Int, g[e] \in Int,
           \A y \in S \ {e} : g[y] = f[y]
    PROVE  /\ SumFunctionOnSet(g, S) = SumFunctionOnSet(f, S) + g[e] - f[e]
           /\ SumFunctionOnSet(f, S) \in Int
  <1>1. \A y \in S : g[y] \in Int
      OBVIOUS
  <1>2. SumFunctionOnSet(f, S) = f[e] + SumFunctionOnSet(f, S \ {e})
      BY SumRemove
  <1>3. SumFunctionOnSet(g, S) = g[e] + SumFunctionOnSet(g, S \ {e})
      BY <1>1, SumRemove
  <1>4. IsFiniteSet(S \ {e})
      BY FS_RemoveElement
  <1>5. SumFunctionOnSet(f, S \ {e}) = SumFunctionOnSet(g, S \ {e})
      <2> DEFINE T == S \ {e}
      <2>1. \A y \in T : f[y] = g[y]
          OBVIOUS
      <2>2. IsFiniteSet(T)
          BY <1>4
      <2> HIDE DEF T
      <2>3. SumFunctionOnSet(f, T) = SumFunctionOnSet(g, T)
          BY <2>1, <2>2, SumEqual
      <2> QED BY <2>3 DEF T
  <1>6. SumFunctionOnSet(f, S \ {e}) \in Int
      <2> DEFINE T == S \ {e}
      <2>1. \A y \in T : f[y] \in Int
          OBVIOUS
      <2>2. IsFiniteSet(T)
          BY <1>4
      <2> HIDE DEF T
      <2>3. SumFunctionOnSet(f, T) \in Int
          BY <2>1, <2>2, SumInt
      <2> QED BY <2>3 DEF T
  <1> QED BY <1>2, <1>3, <1>5, <1>6

\* A sum of zeros is zero.
LEMMA SumZero ==
    ASSUME NEW S, IsFiniteSet(S), NEW f, \A y \in S : f[y] = 0
    PROVE  SumFunctionOnSet(f, S) = 0
  <1> DEFINE Bad == {s \in SUBSET S : SumFunctionOnSet(f, s) # 0}
  <1> SUFFICES ASSUME Bad # {} PROVE FALSE
      OBVIOUS
  <1>1. PICK s \in Bad : \A t \in Bad : Cardinality(s) <= Cardinality(t)
      BY LeastCardinality
  <1>2. s # {}
      BY <1>1, SumEmpty
  <1> DEFINE x == CHOOSE y \in s : TRUE
  <1>3. x \in s
      BY <1>2
  <1>4. /\ s \ {x} \in SUBSET S /\ Cardinality(s) \in Nat /\ IsFiniteSet(s)
        /\ Cardinality(s \ {x}) = Cardinality(s) - 1
      <2> HIDE DEF x
      <2> QED BY <1>3, Smaller
  <1>5. SumFunctionOnSet(f, s \ {x}) = 0
      <2> HIDE DEF x
      <2>1. s \ {x} \notin Bad
          <3> HIDE DEF Bad
          <3> QED BY <1>1, <1>4
      <2> QED BY <2>1, <1>4
  <1>6. SumFunctionOnSet(f, s) = f[x] + SumFunctionOnSet(f, s \ {x})
      BY <1>2, <1>4, SumChosen
  <1>7. f[x] = 0
      <2> HIDE DEF x
      <2> QED BY <1>3
  <1> QED BY <1>1, <1>5, <1>6, <1>7

\* Sums add up value by value.
LEMMA SumPlus ==
    ASSUME NEW S, IsFiniteSet(S), NEW f, NEW g, NEW h,
           \A y \in S : f[y] \in Int /\ g[y] \in Int /\ h[y] = f[y] + g[y]
    PROVE  SumFunctionOnSet(h, S) = SumFunctionOnSet(f, S) + SumFunctionOnSet(g, S)
  <1> DEFINE Bad == {s \in SUBSET S : SumFunctionOnSet(h, s)
                        # SumFunctionOnSet(f, s) + SumFunctionOnSet(g, s)}
  <1> SUFFICES ASSUME Bad # {} PROVE FALSE
      OBVIOUS
  <1>1. PICK s \in Bad : \A t \in Bad : Cardinality(s) <= Cardinality(t)
      BY LeastCardinality
  <1>2. s # {}
      <2> SUFFICES ASSUME s = {} PROVE FALSE
          OBVIOUS
      <2>1. /\ SumFunctionOnSet(f, s) = 0 /\ SumFunctionOnSet(g, s) = 0
            /\ SumFunctionOnSet(h, s) = 0
          BY SumEmpty
      <2> QED BY <1>1, <2>1
  <1> DEFINE x == CHOOSE y \in s : TRUE
             r == s \ {x}
  <1>3. x \in s
      BY <1>2
  <1>4. /\ r \in SUBSET S /\ Cardinality(s) \in Nat /\ IsFiniteSet(s)
        /\ Cardinality(r) = Cardinality(s) - 1
      <2> HIDE DEF x
      <2> QED BY <1>3, Smaller
  <1>5. /\ SumFunctionOnSet(f, s) = f[x] + SumFunctionOnSet(f, r)
        /\ SumFunctionOnSet(g, s) = g[x] + SumFunctionOnSet(g, r)
        /\ SumFunctionOnSet(h, s) = h[x] + SumFunctionOnSet(h, r)
      BY <1>2, <1>4, SumChosen
  <1>6. f[x] \in Int /\ g[x] \in Int /\ h[x] = f[x] + g[x]
      <2> HIDE DEF x
      <2> QED BY <1>3
  <1> HIDE DEF x, r
  <1>7. SumFunctionOnSet(h, r) = SumFunctionOnSet(f, r) + SumFunctionOnSet(g, r)
      <2>1. r \notin Bad
          <3> HIDE DEF Bad
          <3> QED BY <1>1, <1>4
      <2> QED BY <2>1, <1>4
  <1>8. SumFunctionOnSet(f, r) \in Int /\ SumFunctionOnSet(g, r) \in Int
      <2>1. IsFiniteSet(r) /\ \A y \in r : f[y] \in Int /\ g[y] \in Int
          BY <1>4, FS_Subset
      <2> QED BY <2>1, SumInt
  <1>9. SumFunctionOnSet(h, s) = SumFunctionOnSet(f, s) + SumFunctionOnSet(g, s)
      BY <1>5, <1>6, <1>7, <1>8
  <1> QED BY <1>1, <1>9

\* A sum of values that are not negative is not negative.
LEMMA SumNat ==
    ASSUME NEW S, IsFiniteSet(S), NEW f, \A y \in S : f[y] \in Nat
    PROVE  SumFunctionOnSet(f, S) \in Nat
  <1> DEFINE Bad == {s \in SUBSET S : SumFunctionOnSet(f, s) \notin Nat}
  <1> SUFFICES ASSUME Bad # {} PROVE FALSE
      OBVIOUS
  <1>1. PICK s \in Bad : \A t \in Bad : Cardinality(s) <= Cardinality(t)
      BY LeastCardinality
  <1>2. s # {}
      BY <1>1, SumEmpty
  <1> DEFINE x == CHOOSE y \in s : TRUE
             r == s \ {x}
  <1>3. x \in s
      BY <1>2
  <1>4. /\ r \in SUBSET S /\ Cardinality(s) \in Nat /\ IsFiniteSet(s)
        /\ Cardinality(r) = Cardinality(s) - 1
      <2> HIDE DEF x
      <2> QED BY <1>3, Smaller
  <1>5. SumFunctionOnSet(f, s) = f[x] + SumFunctionOnSet(f, r)
      BY <1>2, <1>4, SumChosen
  <1>6. f[x] \in Nat
      <2> HIDE DEF x
      <2> QED BY <1>3
  <1> HIDE DEF x, r
  <1>7. SumFunctionOnSet(f, r) \in Nat
      <2>1. r \notin Bad
          <3> HIDE DEF Bad
          <3> QED BY <1>1, <1>4
      <2> QED BY <2>1, <1>4
  <1> QED BY <1>1, <1>5, <1>6, <1>7

\* A sum of equal values.
LEMMA SumConst ==
    ASSUME NEW S, IsFiniteSet(S), NEW f, NEW c \in Int, \A y \in S : f[y] = c
    PROVE  SumFunctionOnSet(f, S) = Cardinality(S) * c
  <1> DEFINE Bad == {s \in SUBSET S : SumFunctionOnSet(f, s) # Cardinality(s) * c}
  <1> SUFFICES ASSUME Bad # {} PROVE FALSE
      OBVIOUS
  <1>1. PICK s \in Bad : \A t \in Bad : Cardinality(s) <= Cardinality(t)
      BY LeastCardinality
  <1>2. s # {}
      BY <1>1, SumEmpty, FS_EmptySet
  <1> DEFINE x == CHOOSE y \in s : TRUE
             r == s \ {x}
  <1>3. x \in s
      BY <1>2
  <1>4. /\ r \in SUBSET S /\ Cardinality(s) \in Nat /\ IsFiniteSet(s)
        /\ Cardinality(r) = Cardinality(s) - 1 /\ Cardinality(r) \in Nat
      <2> HIDE DEF x
      <2> QED BY <1>3, Smaller
  <1>5. SumFunctionOnSet(f, s) = f[x] + SumFunctionOnSet(f, r)
      BY <1>2, <1>4, SumChosen
  <1>6. f[x] = c
      <2> HIDE DEF x
      <2> QED BY <1>3
  <1> HIDE DEF x, r
  <1>7. SumFunctionOnSet(f, r) = Cardinality(r) * c
      <2>1. r \notin Bad
          <3> HIDE DEF Bad
          <3> QED BY <1>1, <1>4
      <2> QED BY <2>1, <1>4
  <1>8. \A n \in Nat : c + (n - 1) * c = n * c
      OBVIOUS
  <1>9. SumFunctionOnSet(f, s) = Cardinality(s) * c
      BY <1>4, <1>5, <1>6, <1>7, <1>8
  <1> QED BY <1>1, <1>9

\* A factor of every value is one of the sum.
LEMMA SumScale ==
    ASSUME NEW S, IsFiniteSet(S), NEW f, NEW g, NEW c \in Int,
           \A y \in S : f[y] \in Int /\ g[y] = c * f[y]
    PROVE  SumFunctionOnSet(g, S) = c * SumFunctionOnSet(f, S)
  <1> DEFINE Bad == {s \in SUBSET S : SumFunctionOnSet(g, s) # c * SumFunctionOnSet(f, s)}
  <1> SUFFICES ASSUME Bad # {} PROVE FALSE
      OBVIOUS
  <1>1. PICK s \in Bad : \A t \in Bad : Cardinality(s) <= Cardinality(t)
      BY LeastCardinality
  <1>2. s # {}
      <2> SUFFICES ASSUME s = {} PROVE FALSE
          OBVIOUS
      <2>1. SumFunctionOnSet(f, s) = 0 /\ SumFunctionOnSet(g, s) = 0
          BY SumEmpty
      <2>2. c * 0 = 0
          OBVIOUS
      <2> QED BY <1>1, <2>1, <2>2
  <1> DEFINE x == CHOOSE y \in s : TRUE
             r == s \ {x}
  <1>3. x \in s
      BY <1>2
  <1>4. /\ r \in SUBSET S /\ Cardinality(s) \in Nat /\ IsFiniteSet(s)
        /\ Cardinality(r) = Cardinality(s) - 1
      <2> HIDE DEF x
      <2> QED BY <1>3, Smaller
  <1>5. /\ SumFunctionOnSet(f, s) = f[x] + SumFunctionOnSet(f, r)
        /\ SumFunctionOnSet(g, s) = g[x] + SumFunctionOnSet(g, r)
      BY <1>2, <1>4, SumChosen
  <1>6. f[x] \in Int /\ g[x] = c * f[x]
      <2> HIDE DEF x
      <2> QED BY <1>3
  <1> HIDE DEF x, r
  <1>7. SumFunctionOnSet(g, r) = c * SumFunctionOnSet(f, r)
      <2>1. r \notin Bad
          <3> HIDE DEF Bad
          <3> QED BY <1>1, <1>4
      <2> QED BY <2>1, <1>4
  <1>8. SumFunctionOnSet(f, r) \in Int
      <2>1. IsFiniteSet(r) /\ \A y \in r : f[y] \in Int
          BY <1>4, FS_Subset
      <2> QED BY <2>1, SumInt
  <1>9. \A a, b \in Int : c * (a + b) = c * a + c * b
      OBVIOUS
  <1>10. SumFunctionOnSet(g, s) = c * SumFunctionOnSet(f, s)
      BY <1>5, <1>6, <1>7, <1>8, <1>9
  <1> QED BY <1>1, <1>10

\* A sum over a subset, as a sum over the whole set.
LEMMA SumRestrict ==
    ASSUME NEW S, IsFiniteSet(S), NEW T \in SUBSET S, NEW f, NEW g,
           \A y \in T : f[y] \in Int /\ g[y] = f[y],
           \A y \in S \ T : g[y] = 0
    PROVE  SumFunctionOnSet(g, S) = SumFunctionOnSet(f, T)
  <1> DEFINE Bad == {s \in SUBSET S : SumFunctionOnSet(g, s) # SumFunctionOnSet(f, s \cap T)}
  <1>0. S \notin Bad => SumFunctionOnSet(g, S) = SumFunctionOnSet(f, T)
      <2>1. S \cap T = T
          OBVIOUS
      <2> QED BY <2>1
  <1> SUFFICES ASSUME Bad # {} PROVE FALSE
      BY <1>0
  <1>1. PICK s \in Bad : \A t \in Bad : Cardinality(s) <= Cardinality(t)
      BY LeastCardinality
  <1>2. s # {}
      BY <1>1, SumEmpty
  <1> DEFINE x == CHOOSE y \in s : TRUE
             r == s \ {x}
  <1>3. x \in s
      BY <1>2
  <1>4. /\ r \in SUBSET S /\ Cardinality(s) \in Nat /\ IsFiniteSet(s)
        /\ Cardinality(r) = Cardinality(s) - 1 /\ Cardinality(r) \in Nat
      <2> HIDE DEF x
      <2> QED BY <1>3, Smaller
  <1>5. SumFunctionOnSet(g, s) = g[x] + SumFunctionOnSet(g, r)
      BY <1>2, <1>4, SumChosen
  <1> HIDE DEF x
  <1>6. SumFunctionOnSet(g, r) = SumFunctionOnSet(f, r \cap T)
      <2> HIDE DEF r
      <2>1. r \notin Bad
          <3> HIDE DEF Bad
          <3> QED BY <1>1, <1>4
      <2> QED BY <2>1, <1>4
  <1>7. /\ IsFiniteSet(r \cap T) /\ IsFiniteSet(s \cap T)
        /\ \A y \in r \cap T : f[y] \in Int
        /\ \A y \in s \cap T : f[y] \in Int
      BY <1>4, FS_Subset
  <1>8. SumFunctionOnSet(f, r \cap T) \in Int
      <2> HIDE DEF r
      <2> QED BY <1>7, SumInt
  <1>9. CASE x \in T
      <2>1. x \in s \cap T
          BY <1>3, <1>9
      <2>2. SumFunctionOnSet(f, s \cap T) = f[x] + SumFunctionOnSet(f, (s \cap T) \ {x})
          BY <1>7, <2>1, SumRemove
      <2>3. (s \cap T) \ {x} = r \cap T
          OBVIOUS
      <2>4. SumFunctionOnSet(f, s \cap T) = f[x] + SumFunctionOnSet(f, r \cap T)
          BY <2>2, <2>3
      <2>5. g[x] = f[x]
          BY <1>9
      <2> HIDE DEF r
      <2> QED BY <1>1, <1>5, <1>6, <2>4, <2>5
  <1>10. CASE x \notin T
      <2>1. s \cap T = r \cap T
          BY <1>10
      <2>2. g[x] = 0
          BY <1>3, <1>10
      <2>3. SumFunctionOnSet(f, s \cap T) = SumFunctionOnSet(f, r \cap T)
          BY <2>1
      <2> HIDE DEF r
      <2>4. SumFunctionOnSet(g, s) = SumFunctionOnSet(f, r \cap T)
          BY <1>5, <1>6, <1>8, <2>2
      <2> QED BY <1>1, <2>3, <2>4
  <1> QED BY <1>9, <1>10

\* No value of a sum of natural numbers is more than the sum.
LEMMA SumAtLeast ==
    ASSUME NEW S, IsFiniteSet(S), NEW f, \A y \in S : f[y] \in Nat, NEW e \in S
    PROVE  f[e] <= SumFunctionOnSet(f, S)
  <1> DEFINE r == S \ {e}
  <1>1. IsFiniteSet(r) /\ \A y \in r : f[y] \in Nat
      BY FS_Subset
  <1>2. SumFunctionOnSet(f, r) \in Nat
      <2> HIDE DEF r
      <2> QED BY <1>1, SumNat
  <1>3. SumFunctionOnSet(f, S) = f[e] + SumFunctionOnSet(f, r)
      BY SumRemove
  <1> HIDE DEF r
  <1> QED BY <1>2, <1>3

\* Smaller values have a smaller sum.
LEMMA SumAtMost ==
    ASSUME NEW S, IsFiniteSet(S), NEW f, NEW g,
           \A y \in S : f[y] \in Int /\ g[y] \in Int /\ f[y] <= g[y]
    PROVE  SumFunctionOnSet(f, S) <= SumFunctionOnSet(g, S)
  <1> DEFINE h == [y \in S |-> g[y] - f[y]]
  <1>1. \A y \in S : h[y] \in Nat /\ f[y] \in Int /\ h[y] \in Int /\ g[y] = f[y] + h[y]
      OBVIOUS
  <1> HIDE DEF h
  <1>2. SumFunctionOnSet(h, S) \in Nat
      BY <1>1, SumNat
  <1>3. SumFunctionOnSet(g, S) = SumFunctionOnSet(f, S) + SumFunctionOnSet(h, S)
      BY <1>1, SumPlus
  <1>4. SumFunctionOnSet(f, S) \in Int
      BY <1>1, SumInt
  <1> QED BY <1>2, <1>3, <1>4

=============================================================================
