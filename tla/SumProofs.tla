-------------------------------- MODULE SumProofs -------------------------------
(***************************************************************************)
(* What the sums over finite sets are that the specifications take from    *)
(* FiniteSetsExt: lemmas for the proofs about points and coins. Sums are   *)
(* here of the values of a function. Inductions over a finite set are      *)
(* arguments about a smallest counterexample.                              *)
(***************************************************************************)
EXTENDS Integers, FiniteSetsExt, FiniteSetTheorems, WellFoundedInduction, TLAPS

Sum(h, S) == MapThenSumSet(LAMBDA x : h[x], S)

(* The recursion the sum is defined by.                                    *)
Pick(s) == CHOOSE x \in s : TRUE
Adds(h, S, it) ==
  it = [s \in SUBSET S |-> IF s = {} THEN 0 ELSE h[Pick(s)] + it[s \ {Pick(s)}]]

LEMMA SumIs ==
  ASSUME NEW h, NEW S
  PROVE  Sum(h, S) = (CHOOSE it : Adds(h, S, it))[S]
BY DEF Sum, MapThenSumSet, MapThenFoldSet, Adds, Pick

LEMMA PickIs == ASSUME NEW s, s # {} PROVE Pick(s) \in s
BY DEF Pick

(* Of a family of subsets of a finite set, one is smallest.                *)
LEMMA Smallest ==
  ASSUME NEW S, IsFiniteSet(S), NEW T, T \subseteq SUBSET S, T # {}
  PROVE  \E m \in T : \A y \in T : y \subseteq m => y = m
<1>1. IsWellFoundedOn(StrictSubsetOrdering(S), SUBSET S)
  BY FS_StrictSubsetOrderingWellFounded, FS_FiniteSubsetsOfFinite
<1>2. PICK m \in T : \A y \in T : ~ (<<y, m>> \in StrictSubsetOrdering(S))
  BY <1>1, WFMin
<1>. QED
  BY <1>2 DEF StrictSubsetOrdering

LEMMA Restricted ==
  ASSUME NEW h, NEW S, NEW it, Adds(h, S, it), NEW R \in SUBSET S
  PROVE  Adds(h, R, [s \in SUBSET R |-> it[s]])
<1>. DEFINE r == [s \in SUBSET R |-> it[s]]
<1>1. \A s \in SUBSET S :
        it[s] = IF s = {} THEN 0 ELSE h[Pick(s)] + it[s \ {Pick(s)}]
  BY DEF Adds
<1>2. \A s \in SUBSET R : r[s] = IF s = {} THEN 0 ELSE h[Pick(s)] + r[s \ {Pick(s)}]
  BY <1>1
<1>3. DOMAIN r = SUBSET R
  OBVIOUS
<1>4. r = [s \in SUBSET R |-> IF s = {} THEN 0 ELSE h[Pick(s)] + r[s \ {Pick(s)}]]
  BY <1>2
<1>. HIDE DEF r
<1>5. Adds(h, R, r)
  BY <1>4 DEF Adds
<1>. QED
  BY <1>5 DEF r

LEMMA OnlyOne ==
  ASSUME NEW h, NEW S, IsFiniteSet(S), NEW f, NEW g, Adds(h, S, f), Adds(h, S, g)
  PROVE  f = g
<1>. DEFINE T == {s \in SUBSET S : f[s] # g[s]}
<1>1. \A s \in SUBSET S :
        /\ f[s] = IF s = {} THEN 0 ELSE h[Pick(s)] + f[s \ {Pick(s)}]
        /\ g[s] = IF s = {} THEN 0 ELSE h[Pick(s)] + g[s \ {Pick(s)}]
  BY DEF Adds
<1>2. ASSUME T # {} PROVE FALSE
  <2>1. PICK m \in T : \A y \in T : y \subseteq m => y = m
    <3>1. T \subseteq SUBSET S
      OBVIOUS
    <3>. HIDE DEF T
    <3>. QED
      BY <1>2, <3>1, Smallest
  <2>2. m # {}
    BY <1>1
  <2>3. m \ {Pick(m)} \subseteq m /\ m \ {Pick(m)} # m
    BY <2>2, PickIs
  <2>4. m \ {Pick(m)} \notin T /\ m \ {Pick(m)} \in SUBSET S
    BY <2>1, <2>3
  <2>. QED
    BY <1>1, <2>1, <2>2, <2>4
<1>3. \A s \in SUBSET S : f[s] = g[s]
  BY <1>2
<1>4. f = [s \in SUBSET S |-> f[s]] /\ g = [s \in SUBSET S |-> g[s]]
  BY DEF Adds
<1>. QED
  BY <1>3, <1>4

LEMMA SomeOne ==
  ASSUME NEW h, NEW S, IsFiniteSet(S)
  PROVE  \E it : Adds(h, S, it)
<1>. DEFINE T == {s \in SUBSET S : ~ \E it : Adds(h, s, it)}
<1>1. SUFFICES ASSUME T # {} PROVE FALSE
  OBVIOUS
<1>2. PICK m \in T : \A y \in T : y \subseteq m => y = m
  <2>1. T \subseteq SUBSET S
    OBVIOUS
  <2>. HIDE DEF T
  <2>. QED
    BY <1>1, <2>1, Smallest
<1>. DEFINE at(s) == CHOOSE it : Adds(h, s, it)
            w == [s \in SUBSET m |-> IF s = {} THEN 0 ELSE h[Pick(s)] + Sum(h, s \ {Pick(s)})]
<1>3. ASSUME NEW s \in SUBSET m, s # m PROVE Adds(h, s, at(s)) /\ Sum(h, s) = at(s)[s]
  BY <1>2, <1>3, SumIs
<1>4. ASSUME NEW s \in SUBSET m, s # m, s # {}
      PROVE  Sum(h, s) = h[Pick(s)] + Sum(h, s \ {Pick(s)})
  <2>. DEFINE t == s \ {Pick(s)}
              r == [x \in SUBSET t |-> at(s)[x]]
  <2>1. t \in SUBSET m /\ t # m /\ t \in SUBSET s /\ t \in SUBSET t
    BY <1>4, PickIs
  <2>2. Adds(h, s, at(s)) /\ Sum(h, s) = at(s)[s]
    BY <1>3, <1>4
  <2>3. Sum(h, t) = at(t)[t] /\ Adds(h, t, at(t))
    BY <1>3, <2>1
  <2>. HIDE DEF at
  <2>4. Adds(h, t, r)
    BY <2>1, <2>2, Restricted
  <2>5. IsFiniteSet(t)
    BY <2>1, FS_Subset
  <2>6. r = at(t)
    BY <2>3, <2>4, <2>5, OnlyOne
  <2>7. at(s)[t] = at(t)[t]
    BY <2>1, <2>6
  <2>8. at(s)[s] = h[Pick(s)] + at(s)[t]
    BY <1>4, <2>2 DEF Adds
  <2>. QED
    BY <2>2, <2>3, <2>7, <2>8
<1>5. Sum(h, {}) = 0 \/ m = {}
  <2>1. m # {} => Adds(h, {}, at({})) /\ Sum(h, {}) = at({})[{}]
    BY <1>3
  <2>. QED
    BY <2>1 DEF Adds
<1>6. ASSUME NEW s \in SUBSET m, s # {} PROVE w[s \ {Pick(s)}] = Sum(h, s \ {Pick(s)})
  <2>. DEFINE t == s \ {Pick(s)}
  <2>1. t \in SUBSET m /\ t # m /\ m # {}
    BY <1>6, PickIs
  <2>. QED
    BY <1>4, <1>5, <2>1
<1>7. \A s \in SUBSET m : w[s] = IF s = {} THEN 0 ELSE h[Pick(s)] + w[s \ {Pick(s)}]
  BY <1>6
<1>8. w = [s \in SUBSET m |-> IF s = {} THEN 0 ELSE h[Pick(s)] + w[s \ {Pick(s)}]]
  BY <1>7
<1>. HIDE DEF w
<1>9. Adds(h, m, w)
  BY <1>8 DEF Adds
<1>. QED
  BY <1>2, <1>9

-----------------------------------------------------------------------------
(* The sums.                                                               *)

LEMMA SumEmpty == ASSUME NEW h PROVE Sum(h, {}) = 0
<1>1. PICK it : Adds(h, {}, it)
  BY SomeOne, FS_EmptySet
<1>2. Adds(h, {}, CHOOSE f : Adds(h, {}, f))
  BY <1>1
<1>. QED
  BY <1>2, SumIs DEF Adds

LEMMA SumTake ==
  ASSUME NEW h, NEW S, IsFiniteSet(S), S # {}
  PROVE  Sum(h, S) = h[Pick(S)] + Sum(h, S \ {Pick(S)})
<1>. DEFINE t == S \ {Pick(S)}
            at(s) == CHOOSE it : Adds(h, s, it)
            r == [x \in SUBSET t |-> at(S)[x]]
<1>1. IsFiniteSet(t) /\ t \in SUBSET S /\ t \in SUBSET t
  BY FS_Subset
<1>2. Adds(h, S, at(S)) /\ Adds(h, t, at(t))
  BY <1>1, SomeOne
<1>3. Sum(h, S) = at(S)[S] /\ Sum(h, t) = at(t)[t]
  BY SumIs
<1>. HIDE DEF at
<1>4. Adds(h, t, r)
  BY <1>1, <1>2, Restricted
<1>5. r = at(t)
  BY <1>1, <1>2, <1>4, OnlyOne
<1>6. at(S)[t] = at(t)[t]
  BY <1>1, <1>5
<1>7. at(S)[S] = h[Pick(S)] + at(S)[t]
  BY <1>2 DEF Adds
<1>. QED
  BY <1>3, <1>6, <1>7

(* Inductions: S is any set of subsets that is closed under adding what is *)
(* picked.                                                                 *)
LEMMA Grows ==
  ASSUME NEW S, IsFiniteSet(S), NEW F,
         {} \in F,
         \A s \in SUBSET S : s # {} /\ s \ {Pick(s)} \in F => s \in F
  PROVE  S \in F
<1>. DEFINE T == (SUBSET S) \ F
<1>1. SUFFICES ASSUME T # {} PROVE FALSE
  OBVIOUS
<1>2. PICK m \in T : \A y \in T : y \subseteq m => y = m
  <2>1. T \subseteq SUBSET S
    OBVIOUS
  <2>. HIDE DEF T
  <2>. QED
    BY <1>1, <2>1, Smallest
<1>3. m # {} /\ m \in SUBSET S
  BY <1>2
<1>4. m \ {Pick(m)} \notin T
  BY <1>2, <1>3, PickIs
<1>. QED
  BY <1>2, <1>3, <1>4

LEMMA SumType ==
  ASSUME NEW h, NEW S, IsFiniteSet(S), \A x \in S : h[x] \in Int
  PROVE  Sum(h, S) \in Int
<1>. DEFINE F == {s \in SUBSET S : Sum(h, s) \in Int}
<1>1. {} \in F
  BY SumEmpty
<1>2. ASSUME NEW s \in SUBSET S, s # {}, s \ {Pick(s)} \in F PROVE s \in F
  <2>1. Sum(h, s) = h[Pick(s)] + Sum(h, s \ {Pick(s)}) /\ h[Pick(s)] \in Int
    BY <1>2, SumTake, PickIs, FS_Subset
  <2>2. Sum(h, s \ {Pick(s)}) \in Int
    BY <1>2
  <2>3. Sum(h, s) \in Int
    BY <2>1, <2>2
  <2>. QED
    BY <2>3
<1>. HIDE DEF F
<1>3. S \in F
  BY <1>1, <1>2, Grows
<1>. QED
  BY <1>3 DEF F

LEMMA SumSame ==
  ASSUME NEW h, NEW k, NEW S, IsFiniteSet(S), \A x \in S : h[x] = k[x]
  PROVE  Sum(h, S) = Sum(k, S)
<1>. DEFINE F == {s \in SUBSET S : Sum(h, s) = Sum(k, s)}
<1>1. {} \in F
  BY SumEmpty
<1>2. ASSUME NEW s \in SUBSET S, s # {}, s \ {Pick(s)} \in F PROVE s \in F
  <2>1. Sum(h, s) = h[Pick(s)] + Sum(h, s \ {Pick(s)})
        /\ Sum(k, s) = k[Pick(s)] + Sum(k, s \ {Pick(s)}) /\ h[Pick(s)] = k[Pick(s)]
    BY <1>2, SumTake, PickIs, FS_Subset
  <2>2. Sum(h, s \ {Pick(s)}) = Sum(k, s \ {Pick(s)})
    BY <1>2
  <2>3. Sum(h, s) = Sum(k, s)
    BY <2>1, <2>2
  <2>. QED
    BY <2>3
<1>. HIDE DEF F
<1>3. S \in F
  BY <1>1, <1>2, Grows
<1>. QED
  BY <1>3 DEF F

(* Any element can be taken out.                                           *)
LEMMA SumWithout ==
  ASSUME NEW h, NEW S, IsFiniteSet(S), \A x \in S : h[x] \in Int, NEW e \in S
  PROVE  Sum(h, S) = h[e] + Sum(h, S \ {e})
<1>. DEFINE T == {s \in SUBSET S : \E x \in s : Sum(h, s) # h[x] + Sum(h, s \ {x})}
<1>1. SUFFICES ASSUME T # {} PROVE FALSE
  OBVIOUS
<1>2. PICK m \in T : \A y \in T : y \subseteq m => y = m
  <2>1. T \subseteq SUBSET S
    OBVIOUS
  <2>. HIDE DEF T
  <2>. QED
    BY <1>1, <2>1, Smallest
<1>3. PICK x \in m : Sum(h, m) # h[x] + Sum(h, m \ {x})
  BY <1>2
<1>. DEFINE y == Pick(m)
<1>4. y \in m /\ m \in SUBSET S /\ IsFiniteSet(m) /\ IsFiniteSet(m \ {x, y})
  BY <1>2, <1>3, PickIs, FS_Subset
<1>. HIDE DEF y
<1>5. Sum(h, m) = h[y] + Sum(h, m \ {y})
  BY <1>3, <1>4, SumTake DEF y
<1>6. x # y
  BY <1>3, <1>5
<1>7. m \ {y} \notin T /\ m \ {x} \notin T
  BY <1>2, <1>3, <1>4
<1>8. Sum(h, m \ {y}) = h[x] + Sum(h, m \ {x, y})
  <2>1. (m \ {y}) \ {x} = m \ {x, y} /\ x \in m \ {y} /\ m \ {y} \in SUBSET S
    BY <1>3, <1>4, <1>6
  <2>. QED
    BY <1>7, <2>1
<1>9. Sum(h, m \ {x}) = h[y] + Sum(h, m \ {x, y})
  <2>1. (m \ {x}) \ {y} = m \ {x, y} /\ y \in m \ {x} /\ m \ {x} \in SUBSET S
    BY <1>3, <1>4, <1>6
  <2>. QED
    BY <1>7, <2>1
<1>10. h[x] \in Int /\ h[y] \in Int /\ Sum(h, m \ {x, y}) \in Int
  BY <1>3, <1>4, SumType
<1>. QED
  BY <1>3, <1>5, <1>8, <1>9, <1>10

LEMMA SumWith ==
  ASSUME NEW h, NEW S, IsFiniteSet(S), NEW e, e \notin S, \A x \in S \cup {e} : h[x] \in Int
  PROVE  Sum(h, S \cup {e}) = h[e] + Sum(h, S)
<1>1. IsFiniteSet(S \cup {e}) /\ (S \cup {e}) \ {e} = S
  BY FS_AddElement
<1>. QED
  BY <1>1, SumWithout

(* One value changes.                                                      *)
LEMMA SumChanged ==
  ASSUME NEW h, NEW k, NEW S, IsFiniteSet(S), NEW e \in S,
         \A x \in S : h[x] \in Int /\ k[x] \in Int, \A x \in S : x # e => k[x] = h[x]
  PROVE  Sum(k, S) = Sum(h, S) + (k[e] - h[e])
<1>1. IsFiniteSet(S \ {e})
  BY FS_Subset
<1>2. Sum(h, S \ {e}) = Sum(k, S \ {e}) /\ Sum(h, S \ {e}) \in Int
  BY <1>1, SumSame, SumType
<1>3. Sum(h, S) = h[e] + Sum(h, S \ {e}) /\ Sum(k, S) = k[e] + Sum(k, S \ {e})
  BY SumWithout
<1>. QED
  BY <1>2, <1>3

(* Two sums over the same set, value by value.                             *)
LEMMA SumPlus ==
  ASSUME NEW h, NEW k, NEW l, NEW S, IsFiniteSet(S),
         \A x \in S : h[x] \in Int /\ k[x] \in Int /\ l[x] = h[x] + k[x]
  PROVE  Sum(l, S) = Sum(h, S) + Sum(k, S)
<1>. DEFINE F == {s \in SUBSET S : Sum(l, s) = Sum(h, s) + Sum(k, s)}
<1>1. {} \in F
  BY SumEmpty
<1>2. ASSUME NEW s \in SUBSET S, s # {}, s \ {Pick(s)} \in F PROVE s \in F
  <2>. DEFINE x == Pick(s)
              t == s \ {x}
  <2>1. x \in S /\ IsFiniteSet(t) /\ \A y \in t : y \in S
    BY <1>2, PickIs, FS_Subset
  <2>2. Sum(l, s) = l[x] + Sum(l, t) /\ Sum(h, s) = h[x] + Sum(h, t)
        /\ Sum(k, s) = k[x] + Sum(k, t)
    BY <1>2, SumTake, FS_Subset
  <2>3. Sum(l, t) = Sum(h, t) + Sum(k, t)
    BY <1>2
  <2>. HIDE DEF x, t
  <2>4. Sum(h, t) \in Int /\ Sum(k, t) \in Int
    BY <2>1, SumType
  <2>5. Sum(l, s) = Sum(h, s) + Sum(k, s)
    BY <2>1, <2>2, <2>3, <2>4
  <2>. QED
    BY <2>5
<1>. HIDE DEF F
<1>3. S \in F
  BY <1>1, <1>2, Grows
<1>. QED
  BY <1>3 DEF F

(* Values that are all the same.                                           *)
LEMMA SumConstant ==
  ASSUME NEW h, NEW S, IsFiniteSet(S), NEW c \in Int, \A x \in S : h[x] = c
  PROVE  Sum(h, S) = c * Cardinality(S)
<1>. DEFINE F == {s \in SUBSET S : Sum(h, s) = c * Cardinality(s)}
<1>1. {} \in F
  <2>1. Cardinality({}) = 0 /\ Sum(h, {}) = 0
    BY SumEmpty, FS_EmptySet
  <2>. QED
    BY <2>1
<1>2. ASSUME NEW s \in SUBSET S, s # {}, s \ {Pick(s)} \in F PROVE s \in F
  <2>. DEFINE x == Pick(s)
              t == s \ {x}
  <2>1. x \in s /\ IsFiniteSet(t) /\ IsFiniteSet(s)
    BY <1>2, PickIs, FS_Subset
  <2>2. Sum(h, s) = c + Sum(h, t)
    BY <1>2, <2>1, SumTake
  <2>3. Sum(h, t) = c * Cardinality(t)
    BY <1>2
  <2>4. Cardinality(t) = Cardinality(s) - 1
    BY <2>1, FS_RemoveElement
  <2>. HIDE DEF x, t
  <2>5. Cardinality(s) \in Nat
    BY <2>1, FS_CardinalityType
  <2>6. c + c * (Cardinality(s) - 1) = c * Cardinality(s)
    BY <2>5
  <2>7. Sum(h, s) = c * Cardinality(s)
    BY <2>2, <2>3, <2>4, <2>6
  <2>. QED
    BY <2>7
<1>. HIDE DEF F
<1>3. S \in F
  BY <1>1, <1>2, Grows
<1>. QED
  BY <1>3 DEF F

(* Over two sets without a common element.                                 *)
LEMMA SumUnion ==
  ASSUME NEW h, NEW A, NEW B, IsFiniteSet(A), IsFiniteSet(B), A \cap B = {},
         \A x \in A \cup B : h[x] \in Int
  PROVE  Sum(h, A \cup B) = Sum(h, A) + Sum(h, B)
<1>. DEFINE F == {s \in SUBSET B : Sum(h, A \cup s) = Sum(h, A) + Sum(h, s)}
<1>1. {} \in F
  <2>1. A \cup {} = A /\ Sum(h, {}) = 0 /\ Sum(h, A) \in Int
    BY SumEmpty, SumType
  <2>2. Sum(h, A \cup {}) = Sum(h, A) + Sum(h, {})
    BY <2>1
  <2>. QED
    BY <2>2
<1>2. ASSUME NEW s \in SUBSET B, s # {}, s \ {Pick(s)} \in F PROVE s \in F
  <2>. DEFINE x == Pick(s)
              t == s \ {x}
  <2>1. x \in s /\ IsFiniteSet(t) /\ IsFiniteSet(s) /\ IsFiniteSet(A \cup t)
    BY <1>2, PickIs, FS_Subset, FS_Union
  <2>2. Sum(h, s) = h[x] + Sum(h, t)
    BY <1>2, <2>1, SumTake
  <2>3. Sum(h, A \cup t) = Sum(h, A) + Sum(h, t)
    BY <1>2
  <2>4. A \cup s = (A \cup t) \cup {x} /\ x \notin A \cup t
    BY <2>1
  <2>. HIDE DEF x, t
  <2>5. Sum(h, A \cup s) = h[x] + Sum(h, A \cup t)
    <3>1. \A y \in (A \cup t) \cup {x} : h[y] \in Int
      BY <2>4
    <3>. QED
      BY <2>1, <2>4, <3>1, SumWith
  <2>6. h[x] \in Int /\ Sum(h, A) \in Int /\ Sum(h, t) \in Int
    BY <2>1, SumType DEF t
  <2>7. Sum(h, A \cup s) = Sum(h, A) + Sum(h, s)
    BY <2>2, <2>3, <2>5, <2>6
  <2>. QED
    BY <2>7
<1>. HIDE DEF F
<1>3. B \in F
  BY <1>1, <1>2, Grows
<1>. QED
  BY <1>3 DEF F

LEMMA SumNatural ==
  ASSUME NEW h, NEW S, IsFiniteSet(S), \A x \in S : h[x] \in Nat
  PROVE  Sum(h, S) \in Nat
<1>. DEFINE F == {s \in SUBSET S : Sum(h, s) \in Nat}
<1>1. {} \in F
  BY SumEmpty
<1>2. ASSUME NEW s \in SUBSET S, s # {}, s \ {Pick(s)} \in F PROVE s \in F
  <2>1. Sum(h, s) = h[Pick(s)] + Sum(h, s \ {Pick(s)}) /\ h[Pick(s)] \in Nat
    BY <1>2, SumTake, PickIs, FS_Subset
  <2>2. Sum(h, s \ {Pick(s)}) \in Nat
    BY <1>2
  <2>3. Sum(h, s) \in Nat
    BY <2>1, <2>2
  <2>. QED
    BY <2>3
<1>. HIDE DEF F
<1>3. S \in F
  BY <1>1, <1>2, Grows
<1>. QED
  BY <1>3 DEF F

LEMMA SumLess ==
  ASSUME NEW h, NEW k, NEW S, IsFiniteSet(S),
         \A x \in S : h[x] \in Int /\ k[x] \in Int /\ h[x] <= k[x]
  PROVE  Sum(h, S) <= Sum(k, S)
<1>. DEFINE F == {s \in SUBSET S : Sum(h, s) <= Sum(k, s)}
<1>1. {} \in F
  BY SumEmpty
<1>2. ASSUME NEW s \in SUBSET S, s # {}, s \ {Pick(s)} \in F PROVE s \in F
  <2>1. IsFiniteSet(s) /\ IsFiniteSet(s \ {Pick(s)}) /\ Pick(s) \in S
    BY <1>2, FS_Subset, PickIs
  <2>2. /\ Sum(h, s) = h[Pick(s)] + Sum(h, s \ {Pick(s)})
        /\ Sum(k, s) = k[Pick(s)] + Sum(k, s \ {Pick(s)})
    BY <1>2, <2>1, SumTake
  <2>3. Sum(h, s \ {Pick(s)}) \in Int /\ Sum(k, s \ {Pick(s)}) \in Int
    BY <2>1, SumType
  <2>4. h[Pick(s)] \in Int /\ k[Pick(s)] \in Int /\ h[Pick(s)] <= k[Pick(s)]
    BY <2>1
  <2>5. Sum(h, s \ {Pick(s)}) <= Sum(k, s \ {Pick(s)})
    BY <1>2
  <2>6. Sum(h, s) <= Sum(k, s)
    BY <2>2, <2>3, <2>4, <2>5
  <2>. QED
    BY <2>6
<1>. HIDE DEF F
<1>3. S \in F
  BY <1>1, <1>2, Grows
<1>. QED
  BY <1>3 DEF F

LEMMA SumTimes ==
  ASSUME NEW h, NEW k, NEW c \in Int, NEW S, IsFiniteSet(S),
         \A x \in S : h[x] \in Int /\ k[x] = c * h[x]
  PROVE  Sum(k, S) = c * Sum(h, S)
<1>. DEFINE F == {s \in SUBSET S : Sum(k, s) = c * Sum(h, s)}
<1>1. {} \in F
  BY SumEmpty
<1>2. ASSUME NEW s \in SUBSET S, s # {}, s \ {Pick(s)} \in F PROVE s \in F
  <2>. DEFINE x == h[Pick(s)]
              y == Sum(h, s \ {Pick(s)})
  <2>1. IsFiniteSet(s) /\ IsFiniteSet(s \ {Pick(s)}) /\ Pick(s) \in S
    BY <1>2, FS_Subset, PickIs
  <2>2. Sum(h, s) = x + y /\ Sum(k, s) = k[Pick(s)] + Sum(k, s \ {Pick(s)})
    BY <1>2, <2>1, SumTake
  <2>3. x \in Int /\ y \in Int
    BY <2>1, SumType
  <2>4. k[Pick(s)] = c * x /\ Sum(k, s \ {Pick(s)}) = c * y
    BY <1>2, <2>1
  <2>. HIDE DEF x, y
  <2>5. c * (x + y) = (c * x) + (c * y)
    BY <2>3
  <2>. QED
    BY <2>2, <2>4, <2>5
<1>. HIDE DEF F
<1>3. S \in F
  BY <1>1, <1>2, Grows
<1>. QED
  BY <1>3 DEF F

(* What only e has is all there is.                                        *)
LEMMA SumOnly ==
  ASSUME NEW h, NEW S, IsFiniteSet(S), NEW e \in S, h[e] \in Int, \A x \in S \ {e} : h[x] = 0
  PROVE  Sum(h, S) = h[e]
<1>1. IsFiniteSet(S \ {e}) /\ \A x \in S : h[x] \in Int
  BY FS_Subset
<1>2. Sum(h, S) = h[e] + Sum(h, S \ {e})
  BY <1>1, SumWithout
<1>3. Sum(h, S \ {e}) = 0
  <2>1. Sum(h, S \ {e}) = 0 * Cardinality(S \ {e})
    BY <1>1, SumConstant
  <2>2. Cardinality(S \ {e}) \in Nat
    BY <1>1, FS_CardinalityType
  <2>. QED
    BY <2>1, <2>2
<1>. QED
  BY <1>2, <1>3

LEMMA SumNone ==
  ASSUME NEW h, NEW S, IsFiniteSet(S), \A x \in S : h[x] = 0
  PROVE  Sum(h, S) = 0
<1>1. Sum(h, S) = 0 * Cardinality(S)
  BY SumConstant
<1>2. Cardinality(S) \in Nat
  BY FS_CardinalityType
<1>. QED
  BY <1>1, <1>2

(* The sum over a set that is divided, part by part.                       *)
PartsOf(f, P) == UNION {f[p] : p \in P}

LEMMA SumOfSums ==
  ASSUME NEW P, IsFiniteSet(P), NEW f, \A p \in P : IsFiniteSet(f[p]),
         \A p, q \in P : p # q => f[p] \cap f[q] = {},
         NEW h, \A p \in P : \A x \in f[p] : h[x] \in Int,
         NEW k, \A p \in P : k[p] = Sum(h, f[p])
  PROVE  Sum(k, P) = Sum(h, PartsOf(f, P)) /\ IsFiniteSet(PartsOf(f, P))
<1>. DEFINE all(s) == UNION {f[p] : p \in s}
            F == {s \in SUBSET P : Sum(k, s) = Sum(h, all(s)) /\ IsFiniteSet(all(s))}
<1>1. {} \in F
  <2>1. all({}) = {}
    OBVIOUS
  <2>. QED
    BY <2>1, SumEmpty, FS_EmptySet
<1>2. ASSUME NEW s \in SUBSET P, s # {}, s \ {Pick(s)} \in F PROVE s \in F
  <2>. DEFINE e == Pick(s)
              t == s \ {e}
  <2>1. e \in s /\ IsFiniteSet(s)
    BY <1>2, PickIs, FS_Subset
  <2>2. Sum(k, s) = k[e] + Sum(k, t) /\ k[e] = Sum(h, f[e])
    BY <1>2, <2>1, SumTake
  <2>3. Sum(k, t) = Sum(h, all(t)) /\ IsFiniteSet(all(t)) /\ IsFiniteSet(f[e])
    BY <1>2, <2>1
  <2>. HIDE DEF e
  <2>4. all(s) = f[e] \cup all(t)
    BY <2>1
  <2>5. f[e] \cap all(t) = {} /\ \A x \in f[e] \cup all(t) : h[x] \in Int
    BY <2>1
  <2>. HIDE DEF all, t
  <2>6. Sum(h, all(s)) = Sum(h, f[e]) + Sum(h, all(t)) /\ IsFiniteSet(all(s))
    <3>1. Sum(h, f[e] \cup all(t)) = Sum(h, f[e]) + Sum(h, all(t))
      BY <2>3, <2>5, SumUnion
    <3>2. IsFiniteSet(f[e] \cup all(t))
      BY <2>3, FS_Union
    <3>. QED
      BY <2>4, <3>1, <3>2
  <2>7. Sum(k, s) = Sum(h, all(s))
    BY <2>2, <2>3, <2>6
  <2>. QED
    BY <2>6, <2>7
<1>. HIDE DEF F, all
<1>3. P \in F
  BY <1>1, <1>2, Grows
<1>. QED
  BY <1>3 DEF F, all, PartsOf

(* Value by value, less.                                                   *)
LEMMA SumDifference ==
  ASSUME NEW h, NEW k, NEW l, NEW S, IsFiniteSet(S),
         \A x \in S : h[x] \in Int /\ k[x] \in Int /\ l[x] = h[x] - k[x]
  PROVE  Sum(l, S) = Sum(h, S) - Sum(k, S)
<1>1. \A x \in S : l[x] \in Int /\ h[x] = l[x] + k[x]
  OBVIOUS
<1>2. Sum(h, S) = Sum(l, S) + Sum(k, S)
  BY <1>1, SumPlus
<1>3. Sum(l, S) \in Int /\ Sum(k, S) \in Int
  BY <1>1, SumType
<1>. QED
  BY <1>2, <1>3

(* A value that at most one element has.                                   *)
LEMMA BonusSum ==
  ASSUME NEW S, IsFiniteSet(S), NEW e, NEW v \in Nat
  PROVE  Sum([p \in S |-> IF e = p THEN v ELSE 0], S) = IF e \in S THEN v ELSE 0
<1>. DEFINE h == [p \in S |-> IF e = p THEN v ELSE 0]
<1>1. CASE e \in S
  <2>1. h[e] = v /\ \A x \in S \ {e} : h[x] = 0
    BY <1>1
  <2>. HIDE DEF h
  <2>2. Sum(h, S) = h[e]
    BY <1>1, <2>1, SumOnly
  <2>. QED
    BY <1>1, <2>1, <2>2 DEF h
<1>2. CASE e \notin S
  <2>1. \A x \in S : h[x] = 0
    BY <1>2
  <2>. HIDE DEF h
  <2>2. Sum(h, S) = 0
    BY <2>1, SumNone
  <2>. QED
    BY <1>2, <2>2 DEF h
<1>. QED
  BY <1>1, <1>2
==================================================================================
