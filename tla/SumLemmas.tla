------------------------------ MODULE SumLemmas ------------------------------
(***************************************************************************)
(* What a sum over a finite set is, for the sums of the models: the fold    *)
(* MapThenSumSet is a recursive function that takes the elements in an      *)
(* order of its own.  It is shown here that such a function exists, that    *)
(* the order does not matter, and what follows for sums of numbers.        *)
(***************************************************************************)
EXTENDS Integers, FiniteSetsExt, FiniteSetTheorems, WellFoundedInduction, TLAPS

(* The element of s that the fold takes first.                              *)
Chosen(s) == CHOOSE y \in s : TRUE

(* One step of the fold: the sum of s from what g says of less than s.      *)
FoldStep(g, F, s) == IF s = {} THEN 0 ELSE F[Chosen(s)] + g[s \ {Chosen(s)}]

(* g gives the sum of F over every subset of S.                             *)
Sums(g, F, S) == g = [s \in SUBSET S |-> FoldStep(g, F, s)]

(* The same for the subsets of at most n elements, by which a g is built.   *)
Small(S, n) == {s \in SUBSET S : Cardinality(s) <= n}

SumsUpTo(g, F, S, n) == g = [s \in Small(S, n) |-> FoldStep(g, F, s)]

-----------------------------------------------------------------------------
(* Any set of numbers has a least one: what stands for induction.           *)
Below == {ss \in Nat \X Nat : ss[1] < ss[2]}

LEMMA BelowIsWellFounded == IsWellFoundedOn(Below, Nat)
BY NatLessThanWellFounded DEF OpToRel, Below

LEMMA Least ==
  ASSUME NEW T \in SUBSET Nat, T # {}
  PROVE  \E n \in T : \A m \in T : n <= m
<1>1. PICK n \in T : \A m \in T : ~(<<m, n>> \in Below)
  BY BelowIsWellFounded, WFMin
<1>2. \A m \in T : ~(m < n)
  <2> TAKE m \in T
  <2>1. <<m, n>> \in Nat \X Nat /\ <<m, n>>[1] = m /\ <<m, n>>[2] = n
    OBVIOUS
  <2> QED
    BY <1>1, <2>1 DEF Below
<1>. QED
  BY <1>2

LEMMA ChosenIn == ASSUME NEW s, s # {} PROVE Chosen(s) \in s
BY DEF Chosen

LEMMA OneLess ==
  ASSUME NEW s, IsFiniteSet(s), NEW x \in s
  PROVE  /\ IsFiniteSet(s \ {x})
         /\ Cardinality(s) \in Nat
         /\ Cardinality(s \ {x}) \in Nat
         /\ Cardinality(s \ {x}) = Cardinality(s) - 1
BY FS_RemoveElement, FS_CardinalityType

-----------------------------------------------------------------------------
(* The recursion of the fold has a solution: for a least n without one, the *)
(* solution for n - 1 gives another.                                        *)
LEMMA SumsUpToExist ==
  ASSUME NEW F, NEW S, IsFiniteSet(S), NEW n \in Nat
  PROVE  \E g : SumsUpTo(g, F, S, n)
<1> DEFINE Bad == {m \in Nat : ~ \E g : SumsUpTo(g, F, S, m)}
<1>1. SUFFICES ASSUME Bad # {} PROVE FALSE
  OBVIOUS
<1>2. PICK m \in Bad : \A k \in Bad : m <= k
  <2> HIDE DEF Bad
  <2>1. Bad \in SUBSET Nat
    BY DEF Bad
  <2> QED
    BY <1>1, <2>1, Least
<1>3. \A s \in SUBSET S : IsFiniteSet(s) /\ Cardinality(s) \in Nat
  BY FS_Subset, FS_CardinalityType
<1>4. CASE m = 0
  <2>1. \A s \in Small(S, 0) : s = {}
    BY <1>3, FS_EmptySet DEF Small
  <2>2. SumsUpTo([s \in Small(S, 0) |-> 0], F, S, 0)
    BY <2>1 DEF SumsUpTo, FoldStep
  <2>. QED
    BY <1>2, <1>4, <2>2
<1>5. CASE m # 0
  <2>1. m - 1 \in Nat /\ m - 1 \notin Bad
    BY <1>2, <1>5
  <2>2. PICK g : SumsUpTo(g, F, S, m - 1)
    BY <2>1
  <2> DEFINE h == [s \in Small(S, m) |-> FoldStep(g, F, s)]
  <2>3. ASSUME NEW s \in Small(S, m), s # {}
        PROVE  s \ {Chosen(s)} \in Small(S, m - 1)
    <3>1. Chosen(s) \in s
      BY <2>3, ChosenIn
    <3>2. /\ Cardinality(s \ {Chosen(s)}) = Cardinality(s) - 1
          /\ Cardinality(s) \in Nat
      BY <3>1, <1>3, OneLess DEF Small
    <3>. QED
      BY <3>2, <1>2 DEF Small
  <2>4. ASSUME NEW s \in Small(S, m - 1)
        PROVE  g[s] = h[s]
    <3>1. s \in Small(S, m)
      BY <1>2, <1>3 DEF Small
    <3>2. h[s] = FoldStep(g, F, s)
      BY <3>1
    <3>3. g[s] = FoldStep(g, F, s)
      BY <2>2 DEF SumsUpTo
    <3>. QED
      BY <3>2, <3>3
  <2>5. \A s \in Small(S, m) : FoldStep(g, F, s) = FoldStep(h, F, s)
    <3> TAKE s \in Small(S, m)
    <3> HIDE DEF h
    <3> QED
      BY <2>3, <2>4 DEF FoldStep
  <2>6. h = [s \in Small(S, m) |-> FoldStep(h, F, s)]
    <3>1. [s \in Small(S, m) |-> FoldStep(h, F, s)]
            = [s \in Small(S, m) |-> FoldStep(g, F, s)]
      <4> HIDE DEF h
      <4> QED BY <2>5
    <3>. QED BY <3>1
  <2>7. SumsUpTo(h, F, S, m)
    <3> HIDE DEF h
    <3> QED BY <2>6 DEF SumsUpTo
  <2>. QED
    BY <1>2, <2>7
<1>. QED
  BY <1>4, <1>5

LEMMA SumsExist ==
  ASSUME NEW F, NEW S, IsFiniteSet(S)
  PROVE  \E g : Sums(g, F, S)
<1>1. \A s \in SUBSET S : Cardinality(s) <= Cardinality(S) 
  BY FS_Subset, FS_CardinalityType
<1>2. Small(S, Cardinality(S)) = SUBSET S
  BY <1>1 DEF Small
<1>3. PICK g : SumsUpTo(g, F, S, Cardinality(S))
  BY SumsUpToExist, FS_CardinalityType
<1>. QED
  BY <1>2, <1>3 DEF Sums, SumsUpTo

-----------------------------------------------------------------------------
(* A set of subsets of S has one that leaves it with each element it loses: *)
(* induction over finite sets, as the absence of a least counterexample.    *)
LEMMA LeastSet ==
  ASSUME NEW S, IsFiniteSet(S), NEW B \in SUBSET SUBSET S, B # {}
  PROVE  \E s \in B : \A x \in s : s \ {x} \notin B
<1> DEFINE T == {Cardinality(s) : s \in B}
<1>1. \A s \in B : IsFiniteSet(s) /\ Cardinality(s) \in Nat
  BY FS_Subset, FS_CardinalityType
<1>2. T \in SUBSET Nat /\ T # {}
  BY <1>1
<1>3. PICK n \in T : \A m \in T : n <= m
  <2> HIDE DEF T
  <2>. QED
    BY <1>2, Least
<1>4. PICK s \in B : Cardinality(s) = n
  OBVIOUS
<1>5. ASSUME NEW x \in s, s \ {x} \in B PROVE FALSE
  <2>1. Cardinality(s \ {x}) \in T
    BY <1>5
  <2>2. Cardinality(s \ {x}) = Cardinality(s) - 1 /\ Cardinality(s) \in Nat
    BY <1>1, OneLess
  <2>. QED
    BY <1>3, <1>4, <2>1, <2>2, <1>2
<1>. QED
  BY <1>5

(* The sum as the models write it, and the function that computes it.       *)
Total(F, S) == MapThenSumSet(LAMBDA k : F[k], S)

LEMMA TotalIs ==
  ASSUME NEW F, NEW S, IsFiniteSet(S)
  PROVE  \E g : Sums(g, F, S) /\ Total(F, S) = g[S]
<1>1. \E g : Sums(g, F, S)
  BY SumsExist
<1>. QED
  BY <1>1 DEF Total, MapThenSumSet, MapThenFoldSet, Sums, FoldStep, Chosen

(* The sum over u does not depend on the set in which it is taken, nor on   *)
(* what F is outside u.                                                     *)
LEMMA SumsAgree ==
  ASSUME NEW F, NEW G, NEW S, NEW T, NEW g, NEW h,
         Sums(g, F, S), Sums(h, G, T),
         NEW u, u \subseteq S, u \subseteq T, IsFiniteSet(u),
         \A x \in u : F[x] = G[x]
  PROVE  g[u] = h[u]
<1> DEFINE B == {s \in SUBSET u : g[s] # h[s]}
<1>1. SUFFICES ASSUME B # {} PROVE FALSE
  OBVIOUS
<1>2. PICK s \in B : \A x \in s : s \ {x} \notin B
  <2>1. B \in SUBSET SUBSET u
    OBVIOUS
  <2> HIDE DEF B
  <2>. QED
    BY <1>1, <2>1, LeastSet
<1>3. g[s] = FoldStep(g, F, s) /\ h[s] = FoldStep(h, G, s)
  BY DEF Sums
<1>4. CASE s = {}
  BY <1>2, <1>3, <1>4 DEF FoldStep
<1>5. CASE s # {}
  <2>1. Chosen(s) \in s
    BY <1>5, ChosenIn
  <2>2. g[s \ {Chosen(s)}] = h[s \ {Chosen(s)}]
    BY <1>2, <2>1
  <2>. QED
    BY <1>2, <1>3, <1>5, <2>1, <2>2 DEF FoldStep
<1>. QED
  BY <1>4, <1>5

(* A sum of numbers is a number.                                            *)
LEMMA SumsAreNumbers ==
  ASSUME NEW F, NEW S, IsFiniteSet(S), \A x \in S : F[x] \in Nat,
         NEW g, Sums(g, F, S), NEW u \in SUBSET S
  PROVE  g[u] \in Nat
<1> DEFINE B == {s \in SUBSET S : g[s] \notin Nat}
<1>1. SUFFICES ASSUME B # {} PROVE FALSE
  OBVIOUS
<1>2. PICK s \in B : \A x \in s : s \ {x} \notin B
  <2>1. B \in SUBSET SUBSET S
    OBVIOUS
  <2> HIDE DEF B
  <2>. QED
    BY <1>1, <2>1, LeastSet
<1>3. g[s] = FoldStep(g, F, s)
  BY DEF Sums
<1>4. CASE s = {}
  BY <1>2, <1>3, <1>4 DEF FoldStep
<1>5. CASE s # {}
  <2>1. Chosen(s) \in s /\ Chosen(s) \in S
    BY <1>5, ChosenIn
  <2>2. g[s \ {Chosen(s)}] \in Nat
    BY <1>2, <2>1
  <2>. QED
    BY <1>2, <1>3, <1>5, <2>1, <2>2 DEF FoldStep
<1>. QED
  BY <1>4, <1>5

(* The order does not matter: any element may be taken out first.           *)
LEMMA SumsSplit ==
  ASSUME NEW F, NEW S, IsFiniteSet(S), \A x \in S : F[x] \in Nat,
         NEW g, Sums(g, F, S), NEW u \in SUBSET S, NEW y \in u
  PROVE  g[u] = F[y] + g[u \ {y}]
<1> DEFINE B == {s \in SUBSET S : \E z \in s : g[s] # F[z] + g[s \ {z}]}
<1>1. SUFFICES ASSUME B # {} PROVE FALSE
  OBVIOUS
<1>2. PICK s \in B : \A x \in s : s \ {x} \notin B
  <2>1. B \in SUBSET SUBSET S
    OBVIOUS
  <2> HIDE DEF B
  <2>. QED
    BY <1>1, <2>1, LeastSet
<1>3. PICK z \in s : g[s] # F[z] + g[s \ {z}]
  OBVIOUS
<1> DEFINE c == Chosen(s)
<1>4. c \in s /\ g[s] = F[c] + g[s \ {c}]
  BY ChosenIn DEF Sums, FoldStep
<1>5. z # c
  BY <1>3, <1>4
<1>6. g[s \ {c}] = F[z] + g[(s \ {c}) \ {z}]
  <2> HIDE DEF c
  <2>1. s \ {c} \in SUBSET S /\ s \ {c} \notin B /\ z \in s \ {c}
    BY <1>2, <1>4, <1>5
  <2>. QED
    BY <2>1
<1>7. g[s \ {z}] = F[c] + g[(s \ {z}) \ {c}]
  <2> HIDE DEF c
  <2>1. s \ {z} \in SUBSET S /\ s \ {z} \notin B /\ c \in s \ {z}
    BY <1>2, <1>4, <1>5
  <2>. QED
    BY <2>1
<1>8. (s \ {c}) \ {z} = (s \ {z}) \ {c}
  OBVIOUS
<1>9. /\ F[c] \in Nat /\ F[z] \in Nat
      /\ g[(s \ {z}) \ {c}] \in Nat
  <2> HIDE DEF c
  <2>1. (s \ {z}) \ {c} \in SUBSET S
    OBVIOUS
  <2>2. g[(s \ {z}) \ {c}] \in Nat
    BY <2>1, SumsAreNumbers
  <2>. QED
    BY <1>4, <2>2
<1>. QED
  <2> DEFINE rest == g[(s \ {z}) \ {c}]
  <2>1. g[s] = F[c] + (F[z] + rest)
    BY <1>4, <1>6, <1>8
  <2>2. F[z] + g[s \ {z}] = F[z] + (F[c] + rest)
    BY <1>7
  <2>3. F[c] \in Nat /\ F[z] \in Nat /\ rest \in Nat
    BY <1>9
  <2>4. \A a, b, d \in Nat : a + (b + d) = b + (a + d)
    OBVIOUS
  <2>5. F[c] + (F[z] + rest) = F[z] + (F[c] + rest)
    <3> HIDE DEF c, rest
    <3> QED
      BY <2>3, <2>4
  <2>. QED
    BY <1>3, <2>1, <2>2, <2>5

-----------------------------------------------------------------------------
(* What the proofs use of a sum.                                            *)
LEMMA TotalEmpty == ASSUME NEW F PROVE Total(F, {}) = 0
<1>1. PICK g : Sums(g, F, {}) /\ Total(F, {}) = g[{}]
  BY TotalIs, FS_EmptySet
<1>. QED
  BY <1>1 DEF Sums, FoldStep

LEMMA TotalNumber ==
  ASSUME NEW F, NEW S, IsFiniteSet(S), \A x \in S : F[x] \in Nat
  PROVE  Total(F, S) \in Nat
<1>1. PICK g : Sums(g, F, S) /\ Total(F, S) = g[S]
  BY TotalIs
<1>. QED
  BY <1>1, SumsAreNumbers

LEMMA TotalSplit ==
  ASSUME NEW F, NEW S, IsFiniteSet(S), \A x \in S : F[x] \in Nat, NEW y \in S
  PROVE  Total(F, S) = F[y] + Total(F, S \ {y})
<1>1. PICK g : Sums(g, F, S) /\ Total(F, S) = g[S]
  BY TotalIs
<1>2. IsFiniteSet(S \ {y})
  BY OneLess
<1>3. PICK h : Sums(h, F, S \ {y}) /\ Total(F, S \ {y}) = h[S \ {y}]
  BY <1>2, TotalIs
<1>4. g[S] = F[y] + g[S \ {y}]
  BY <1>1, SumsSplit
<1>5. g[S \ {y}] = h[S \ {y}]
  BY <1>1, <1>2, <1>3, SumsAgree
<1>. QED
  BY <1>1, <1>3, <1>4, <1>5

LEMMA TotalSame ==
  ASSUME NEW F, NEW G, NEW S, IsFiniteSet(S), \A x \in S : F[x] = G[x]
  PROVE  Total(F, S) = Total(G, S)
<1>1. PICK g : Sums(g, F, S) /\ Total(F, S) = g[S]
  BY TotalIs
<1>2. PICK h : Sums(h, G, S) /\ Total(G, S) = h[S]
  BY TotalIs
<1>. QED
  BY <1>1, <1>2, SumsAgree

(* Where one number changes, the sum changes by as much.                    *)
LEMMA TotalChanged ==
  ASSUME NEW F, NEW G, NEW S, IsFiniteSet(S), NEW y \in S,
         \A x \in S : F[x] \in Nat /\ G[x] \in Nat,
         \A x \in S \ {y} : F[x] = G[x]
  PROVE  Total(F, S) + G[y] = Total(G, S) + F[y]
<1>1. Total(F, S) = F[y] + Total(F, S \ {y})
  BY TotalSplit
<1>2. Total(G, S) = G[y] + Total(G, S \ {y})
  BY TotalSplit
<1>3. IsFiniteSet(S \ {y})
  BY OneLess
<1>4. Total(F, S \ {y}) = Total(G, S \ {y})
  BY <1>3, TotalSame
<1>5. Total(G, S \ {y}) \in Nat
  BY <1>3, TotalNumber
<1>. QED
  BY <1>1, <1>2, <1>4, <1>5

LEMMA TotalZero ==
  ASSUME NEW F, NEW S, IsFiniteSet(S), \A x \in S : F[x] = 0
  PROVE  Total(F, S) = 0
<1> DEFINE B == {s \in SUBSET S : Total(F, s) # 0}
<1>1. SUFFICES ASSUME B # {} PROVE FALSE
  OBVIOUS
<1>2. PICK s \in B : \A x \in s : s \ {x} \notin B
  <2>1. B \in SUBSET SUBSET S
    OBVIOUS
  <2> HIDE DEF B
  <2>. QED
    BY <1>1, <2>1, LeastSet
<1>3. CASE s = {}
  BY <1>2, <1>3, TotalEmpty
<1>4. ASSUME NEW x \in s PROVE FALSE
  <2>1. Total(F, s) = F[x] + Total(F, s \ {x})
    BY TotalSplit, FS_Subset
  <2>2. Total(F, s \ {x}) = 0
    BY <1>2
  <2>. QED
    BY <1>2, <2>1, <2>2
<1>. QED
  BY <1>3, <1>4

(* A set may be summed in two parts.                                        *)
LEMMA TotalOfParts ==
  ASSUME NEW F, NEW S, IsFiniteSet(S), \A x \in S : F[x] \in Nat,
         NEW T \in SUBSET S
  PROVE  Total(F, S) = Total(F, T) + Total(F, S \ T)
<1> DEFINE R == S \ T
           B == {t \in SUBSET T : Total(F, R \cup t) # Total(F, t) + Total(F, R)}
<1>1. SUFFICES ASSUME B # {} PROVE FALSE
  <2>1. T \notin B => Total(F, R \cup T) = Total(F, T) + Total(F, R)
    OBVIOUS
  <2>2. R \cup T = S
    OBVIOUS
  <2> HIDE DEF B
  <2>. QED
    BY <2>1, <2>2
<1>2. PICK t \in B : \A x \in t : t \ {x} \notin B
  <2>1. B \in SUBSET SUBSET T
    OBVIOUS
  <2>2. IsFiniteSet(T)
    BY FS_Subset
  <2> HIDE DEF B
  <2>. QED
    BY <1>1, <2>1, <2>2, LeastSet
<1>3. \A u \in SUBSET S : IsFiniteSet(u) /\ Total(F, u) \in Nat
  BY TotalNumber, FS_Subset
<1>4. CASE t = {}
  <2>1. R \cup t = R
    BY <1>4
  <2>2. Total(F, t) = 0
    BY <1>4, TotalEmpty
  <2>3. Total(F, R) \in Nat
    BY <1>3
  <2>. QED
    BY <1>2, <2>1, <2>2, <2>3
<1>5. ASSUME NEW x \in t PROVE FALSE
  <2>1. Total(F, t) = F[x] + Total(F, t \ {x})
    BY <1>3, TotalSplit
  <2>2. R \cup t \in SUBSET S /\ x \in R \cup t
    OBVIOUS
  <2>3. Total(F, R \cup t) = F[x] + Total(F, (R \cup t) \ {x})
    <3> HIDE DEF R
    <3>. QED
      BY <1>3, <2>2, TotalSplit
  <2>4. (R \cup t) \ {x} = R \cup (t \ {x})
    OBVIOUS
  <2>5. Total(F, R \cup (t \ {x})) = Total(F, t \ {x}) + Total(F, R)
    BY <1>2
  <2>6. F[x] \in Nat /\ Total(F, t \ {x}) \in Nat /\ Total(F, R) \in Nat
    BY <1>3
  <2>7. Total(F, R \cup t) # Total(F, t) + Total(F, R)
    BY <1>2
  <2> DEFINE part == Total(F, t \ {x})
             rest == Total(F, R)
  <2>8. F[x] + (part + rest) = (F[x] + part) + rest
    <3>1. F[x] \in Nat /\ part \in Nat /\ rest \in Nat
      BY <2>6
    <3> HIDE DEF part, rest
    <3>. QED
      BY <3>1
  <2>9. Total(F, R \cup t) = F[x] + (part + rest)
    BY <2>3, <2>4, <2>5
  <2>10. Total(F, t) + rest = (F[x] + part) + rest
    BY <2>1
  <2>. QED
    BY <2>7, <2>8, <2>9, <2>10
<1>. QED
  BY <1>4, <1>5

(* Part of a set has at most the sum of the whole.                          *)
LEMMA TotalOfPart ==
  ASSUME NEW F, NEW S, IsFiniteSet(S), \A x \in S : F[x] \in Nat,
         NEW T \in SUBSET S
  PROVE  Total(F, T) <= Total(F, S)
<1>1. Total(F, T) \in Nat /\ Total(F, S \ T) \in Nat
  BY TotalNumber, FS_Subset
<1>. QED
  BY <1>1, TotalOfParts

(* Numbers that all move up by one place have the same sum there.           *)
LEMMA TotalMoved ==
  ASSUME NEW F, NEW G, NEW S, S \subseteq Nat, IsFiniteSet(S),
         NEW T, IsFiniteSet(T),
         \A x \in S : F[x] \in Nat /\ x + 1 \in T /\ G[x + 1] = F[x]
  PROVE  Total(G, {x + 1 : x \in S}) = Total(F, S)
<1> DEFINE Up(s) == {x + 1 : x \in s}
           B == {s \in SUBSET S : Total(G, Up(s)) # Total(F, s)}
<1>1. SUFFICES ASSUME B # {} PROVE FALSE
  OBVIOUS
<1>2. PICK s \in B : \A x \in s : s \ {x} \notin B
  <2>1. B \in SUBSET SUBSET S
    OBVIOUS
  <2> HIDE DEF B
  <2>. QED
    BY <1>1, <2>1, LeastSet
<1>3. CASE s = {}
  <2>1. Up(s) = {}
    BY <1>3
  <2>. QED
    BY <1>2, <1>3, <2>1, TotalEmpty
<1>4. ASSUME NEW x \in s PROVE FALSE
  <2>1. Total(F, s) = F[x] + Total(F, s \ {x})
    <3>1. s \in SUBSET S
      OBVIOUS
    <3>2. IsFiniteSet(s) /\ \A y \in s : F[y] \in Nat
      BY <3>1, FS_Subset
    <3> HIDE DEF B, Up
    <3>. QED
      BY <3>2, TotalSplit
  <2>2. Up(s) \in SUBSET T /\ x + 1 \in Up(s)
    OBVIOUS
  <2>3. \A y \in Up(s) : G[y] \in Nat
    OBVIOUS
  <2>4. Total(G, Up(s)) = G[x + 1] + Total(G, Up(s) \ {x + 1})
    <3> HIDE DEF Up
    <3>. QED
      BY <2>2, <2>3, TotalSplit, FS_Subset
  <2>5. Up(s) \ {x + 1} = Up(s \ {x})
    <3>1. \A y \in s : y + 1 = x + 1 <=> y = x
      OBVIOUS
    <3>. QED
      BY <3>1
  <2>6. Total(G, Up(s \ {x})) = Total(F, s \ {x})
    BY <1>2
  <2>7. G[x + 1] = F[x]
    OBVIOUS
  <2>8. Total(G, Up(s)) # Total(F, s)
    BY <1>2
  <2> HIDE DEF Up
  <2>. QED
    BY <2>1, <2>4, <2>5, <2>6, <2>7, <2>8
<1>. QED
  BY <1>3, <1>4
=============================================================================
