------------------------------ MODULE AdvisorProofs ------------------------------
(***************************************************************************)
(* Proofs about what a player is told of his hand, for every deck, hand    *)
(* and table: the short search of the hint engine misses nothing           *)
(* (game/suggest.go), and the search for a way to go out finds one         *)
(* whenever there is one, which can then be played (game/autoknock.go).    *)
(***************************************************************************)
EXTENDS MCAutoKnockSearch, SumProofs, SequenceTheorems

-----------------------------------------------------------------------------
(* Ranks.                                                                  *)

LEMMA RanksTyped ==
  /\ King \in Nat /\ King > 1 /\ Ace = 1 /\ MinMeldLen \in Nat /\ MinMeldLen > 1
  /\ \A C : C \subseteq Cards =>
       /\ RanksOf(C) \subseteq 1..King /\ IsFiniteSet(C)
       /\ \A v : v \in RanksOf(C) <=> \E c \in C : c.rank = v
<1>1. IsFiniteSet(Cards)
  <2> DEFINE f == [x \in Suits \X Ranks |-> [suit |-> x[1], rank |-> x[2]]]
  <2>1. IsFiniteSet(Suits \X Ranks)
    <3>1. IsFiniteSet(Ranks)
      BY RulesAssumption, FS_Interval DEF Ranks, Ace
    <3>. QED
      BY <3>1, RulesAssumption, FS_Product
  <2>2. f \in Surjection(Suits \X Ranks, Cards)
    <3>1. f \in [Suits \X Ranks -> Cards]
      BY DEF Cards
    <3>2. ASSUME NEW c \in Cards PROVE \E x \in Suits \X Ranks : f[x] = c
      <4>1. <<c.suit, c.rank>> \in Suits \X Ranks /\ f[<<c.suit, c.rank>>] = c
        BY DEF Cards
      <4>. QED
        BY <4>1
    <3>. QED
      BY <3>1, <3>2 DEF Surjection
  <2>. QED
    BY <2>1, <2>2, FS_Surjection
<1>2. \A C : C \subseteq Cards => IsFiniteSet(C)
  BY <1>1, FS_Subset
<1>. QED
  BY <1>2, RulesAssumption DEF RanksOf, Cards, Ranks, Ace

(* In one suit, cards are ranks.                                           *)
LEMMA OneSuit ==
  ASSUME NEW C, C \subseteq Cards, SameSuit(C)
  PROVE  /\ Cardinality(C) = Cardinality(RanksOf(C))
         /\ \A c, d \in C : c.rank = d.rank => c = d
<1>. DEFINE f == [c \in C |-> c.rank]
<1>1. \A c, d \in C : c.rank = d.rank => c = d
  BY DEF SameSuit, Cards
<1>2. f \in Bijection(C, RanksOf(C))
  BY <1>1 DEF Bijection, Injection, Surjection, IsInjective, RanksOf
<1>3. IsFiniteSet(C)
  BY RanksTyped
<1>. QED
  BY <1>1, <1>2, <1>3, FS_Bijection DEF ExistsBijection

LEMMA SubsetOfSize ==
  ASSUME NEW S, IsFiniteSet(S), NEW k \in Nat, k <= Cardinality(S)
  PROVE  \E T \in SUBSET S : Cardinality(T) = k
<1>. DEFINE F == {T \in SUBSET S : Cardinality(T) >= k}
<1>1. S \in F
  OBVIOUS
<1>2. PICK m \in F : \A y \in F : y \subseteq m => y = m
  <2>1. F \subseteq SUBSET S /\ F # {}
    BY <1>1
  <2>. HIDE DEF F
  <2>. QED
    BY <2>1, Smallest
<1>3. m \in SUBSET S /\ IsFiniteSet(m) /\ Cardinality(m) \in Nat /\ Cardinality(m) >= k
  BY FS_Subset, FS_CardinalityType
<1>4. ASSUME Cardinality(m) # k PROVE FALSE
  <2>1. m # {}
    BY <1>3, <1>4, FS_EmptySet
  <2>2. PICK x \in m : TRUE
    BY <2>1
  <2>3. Cardinality(m \ {x}) = Cardinality(m) - 1
    BY <1>3, FS_RemoveElement
  <2>4. m \ {x} \in F
    BY <1>3, <1>4, <2>3
  <2>. QED
    BY <1>2, <2>2, <2>4
<1>. QED
  BY <1>3, <1>4

LEMMA LongEnough ==
  ASSUME NEW A, NEW B, B \subseteq Cards, A \subseteq B
  PROVE  Cardinality(A) \in Nat /\ Cardinality(B) \in Nat /\ Cardinality(A) <= Cardinality(B)
<1>1. IsFiniteSet(A) /\ IsFiniteSet(B)
  BY RanksTyped, FS_Subset
<1>. QED
  BY <1>1, FS_CardinalityType, FS_Subset

-----------------------------------------------------------------------------
(* Every meld has one of the smallest size in it.                          *)

LEMMA SetShrinks ==
  ASSUME NEW C, C \subseteq Cards, IsSet(C)
  PROVE  \E G \in SUBSET C : IsMeld(G) /\ Cardinality(G) = MinMeldLen
<1>1. PICK G \in SUBSET C : Cardinality(G) = MinMeldLen
  BY RanksTyped, SubsetOfSize DEF IsSet
<1>2. IsSet(G)
  BY <1>1, RanksTyped DEF IsSet, SameRank
<1>. QED
  BY <1>1, <1>2 DEF IsMeld

(* A stretch of a run, as long as it may not be shorter.                   *)
LEMMA StretchOfRun ==
  ASSUME NEW C, C \subseteq Cards, SameSuit(C), NEW lo \in Nat,
         lo..(lo + MinMeldLen - 1) \subseteq RanksOf(C)
  PROVE  \E G \in SUBSET C : IsMeld(G) /\ Cardinality(G) = MinMeldLen
<1>. DEFINE hi == lo + (MinMeldLen - 1)
            G == {c \in C : c.rank \in lo..hi}
<1>1. MinMeldLen \in Nat /\ MinMeldLen > 1 /\ hi \in Nat /\ lo < hi /\ lo \in lo..hi /\ hi \in lo..hi
      /\ lo..hi \subseteq RanksOf(C)
  BY RanksTyped
<1>2. RanksOf(G) = lo..hi
  <2>1. \A v \in lo..hi : \E c \in C : c.rank = v
    BY <1>1, RanksTyped
  <2>. QED
    BY <2>1 DEF RanksOf
<1>3. SameSuit(G) /\ G \subseteq Cards
  BY DEF SameSuit
<1>4. Cardinality(G) = MinMeldLen
  <2>1. Cardinality(lo..hi) = MinMeldLen
    BY <1>1, FS_Interval
  <2>. QED
    BY <1>2, <1>3, <2>1, OneSuit
<1>5. ~SameRank(G)
  <2>1. \E c \in G : c.rank = lo
    BY <1>1, <1>2 DEF RanksOf
  <2>2. \E c \in G : c.rank = hi
    BY <1>1, <1>2 DEF RanksOf
  <2>. QED
    BY <1>1, <2>1, <2>2 DEF SameRank
<1>6. RunAceLow(G)
  BY <1>1, <1>2 DEF RunAceLow, Consecutive
<1>7. IsRun(G)
  BY <1>1, <1>3, <1>4, <1>5, <1>6 DEF IsRun
<1>. QED
  BY <1>4, <1>7 DEF IsMeld

(* The ranks of a run with the Ace above the King.                         *)
LEMMA HighRun ==
  ASSUME NEW V, V \subseteq 1..King, NEW lo \in AceAboveKing(V),
         AceAboveKing(V) = lo..(King + 1)
  PROVE  /\ lo \in 2..(King + 1) /\ 1 \in V
         /\ \A v : v \in V <=> v = 1 \/ v \in lo..King
<1>1. King \in Nat /\ King > 1 /\ Ace = 1
  BY RanksTyped
<1>2. \A x : x \in AceAboveKing(V) <=> \E v \in V : x = IF v = 1 THEN King + 1 ELSE v
  BY <1>1 DEF AceAboveKing
<1>3. lo \in 2..(King + 1)
  BY <1>1, <1>2
<1>4. 1 \in V
  <2>1. King + 1 \in lo..(King + 1)
    BY <1>1, <1>3
  <2>2. PICK v \in V : King + 1 = IF v = 1 THEN King + 1 ELSE v
    BY <1>2, <2>1
  <2>. QED
    BY <1>1, <2>2
<1>5. ASSUME NEW v \in V, v # 1 PROVE v \in lo..King
  <2>1. v \in AceAboveKing(V)
    BY <1>2, <1>5
  <2>. QED
    BY <1>1, <1>3, <2>1
<1>6. ASSUME NEW v \in lo..King PROVE v \in V
  <2>1. v \in lo..(King + 1) /\ v # King + 1
    BY <1>1, <1>3
  <2>. QED
    BY <1>2, <2>1
<1>. QED
  BY <1>3, <1>4, <1>5, <1>6

LEMMA HighRunEnds ==
  ASSUME NEW V, V \subseteq 1..King, 1 \in V, Consecutive(AceAboveKing(V))
  PROVE  \E lo \in AceAboveKing(V) : AceAboveKing(V) = lo..(King + 1)
<1>1. King \in Nat /\ King > 1 /\ Ace = 1
  BY RanksTyped
<1>2. \A x : x \in AceAboveKing(V) <=> \E v \in V : x = IF v = 1 THEN King + 1 ELSE v
  BY <1>1 DEF AceAboveKing
<1>3. PICK lo \in AceAboveKing(V), hi \in AceAboveKing(V) : AceAboveKing(V) = lo..hi
  BY DEF Consecutive
<1>4. King + 1 \in AceAboveKing(V) /\ \A x \in AceAboveKing(V) : x \in 2..(King + 1)
  BY <1>1, <1>2
<1>5. hi = King + 1
  BY <1>1, <1>3, <1>4
<1>. QED
  BY <1>3, <1>5

LEMMA RunShrinks ==
  ASSUME NEW C, C \subseteq Cards, IsRun(C)
  PROVE  \E G \in SUBSET C : IsMeld(G) /\ Cardinality(G) = MinMeldLen
<1>. DEFINE V == RanksOf(C)
<1>1. /\ King \in Nat /\ King > 1 /\ MinMeldLen \in Nat /\ MinMeldLen > 1
      /\ V \subseteq 1..King /\ SameSuit(C) /\ Cardinality(C) >= MinMeldLen
      /\ Cardinality(C) = Cardinality(V)
  BY RanksTyped, OneSuit DEF IsRun
<1>2. CASE RunAceLow(C)
  <2>1. PICK lo \in V, hi \in V : V = lo..hi
    BY <1>2 DEF RunAceLow, Consecutive
  <2>2. lo \in Nat /\ hi \in Nat
    BY <1>1, <2>1
  <2>3. Cardinality(V) = IF lo > hi THEN 0 ELSE hi - lo + 1
    BY <2>1, <2>2, FS_Interval
  <2>4. lo + MinMeldLen - 1 <= hi
    BY <1>1, <2>2, <2>3
  <2>5. lo..(lo + MinMeldLen - 1) \subseteq V
    BY <1>1, <2>1, <2>2, <2>4
  <2>. QED
    BY <1>1, <2>2, <2>5, StretchOfRun
<1>3. CASE RunAceHigh(C) /\ Cardinality(C) # MinMeldLen
  <2>1. 1 \in V /\ Consecutive(AceAboveKing(V))
    BY <1>3, RanksTyped DEF RunAceHigh
  <2>2. PICK lo \in AceAboveKing(V) : AceAboveKing(V) = lo..(King + 1)
    BY <1>1, <2>1, HighRunEnds
  <2>3. lo \in 2..(King + 1) /\ \A v : v \in V <=> v = 1 \/ v \in lo..King
    BY <1>1, <2>2, HighRun
  <2>. HIDE DEF V
  <2>4. Cardinality(V) = (King - lo + 1) + 1
    <3>1. V = lo..King \cup {1} /\ 1 \notin lo..King
      BY <2>3
    <3>2. IsFiniteSet(lo..King) /\ Cardinality(lo..King) = King - lo + 1
      <4>1. lo \in Int /\ King \in Int /\ lo <= King + 1
        BY <1>1, <2>3
      <4>2. /\ IsFiniteSet(lo..King)
            /\ Cardinality(lo..King) = IF lo > King THEN 0 ELSE King - lo + 1
        BY <4>1, FS_Interval
      <4>. QED
        BY <4>1, <4>2
    <3>. QED
      BY <3>1, <3>2, FS_AddElement
  <2>5. lo + MinMeldLen - 1 <= King
    BY <1>1, <1>3, <2>3, <2>4
  <2>6. lo..(lo + MinMeldLen - 1) \subseteq V /\ lo \in Nat
    BY <1>1, <2>3, <2>5
  <2>. QED
    BY <1>1, <2>6, StretchOfRun DEF V
<1>4. CASE Cardinality(C) = MinMeldLen
  BY <1>4 DEF IsMeld
<1>. QED
  BY <1>2, <1>3, <1>4 DEF IsRun

LEMMA MeldShrinks ==
  ASSUME NEW C, C \subseteq Cards, IsMeld(C)
  PROVE  \E G \in SUBSET C : IsMeld(G) /\ Cardinality(G) = MinMeldLen
BY SetShrinks, RunShrinks DEF IsMeld

-----------------------------------------------------------------------------
(* What goes onto a meld all at once has a card that goes onto it alone.   *)

Straight(V) == Consecutive(V) \/ (Ace \in V /\ Consecutive(AceAboveKing(V)))

LEMMA HighIs ==
  ASSUME NEW lo \in 2..(King + 1)
  PROVE  Ace \in {1} \cup lo..King /\ Consecutive(AceAboveKing({1} \cup lo..King))
<1>. DEFINE V == {1} \cup lo..King
<1>1. King \in Nat /\ King > 1 /\ Ace = 1
  BY RanksTyped
<1>2. \A x : x \in AceAboveKing(V) <=> \E v \in V : x = IF v = 1 THEN King + 1 ELSE v
  BY <1>1 DEF AceAboveKing
<1>3. ASSUME NEW x \in lo..(King + 1) PROVE x \in AceAboveKing(V)
  <2>1. CASE x = King + 1
    <3>1. 1 \in V
      OBVIOUS
    <3>. QED
      BY <1>2, <2>1, <3>1
  <2>2. CASE x # King + 1
    <3>1. x \in V /\ x # 1
      BY <1>1, <2>2
    <3>. QED
      BY <1>2, <3>1
  <2>. QED
    BY <2>1, <2>2
<1>4. ASSUME NEW x \in AceAboveKing(V) PROVE x \in lo..(King + 1)
  <2>1. PICK v \in V : x = IF v = 1 THEN King + 1 ELSE v
    BY <1>2
  <2>. QED
    BY <1>1, <2>1
<1>5. AceAboveKing(V) = lo..(King + 1)
  BY <1>3, <1>4
<1>6. lo \in AceAboveKing(V) /\ King + 1 \in AceAboveKing(V)
  BY <1>1, <1>5
<1>. QED
  BY <1>1, <1>5, <1>6 DEF Consecutive

LEMMA StraightIs ==
  ASSUME NEW V, V \subseteq 1..King, Straight(V)
  PROVE  \/ \E a, b \in V : V = a..b
         \/ \E lo \in 2..(King + 1) : V = {1} \cup lo..King
<1>1. Ace = 1
  BY RanksTyped
<1>2. CASE Consecutive(V)
  BY <1>2 DEF Consecutive
<1>3. CASE 1 \in V /\ Consecutive(AceAboveKing(V))
  <2>1. PICK lo \in AceAboveKing(V) : AceAboveKing(V) = lo..(King + 1)
    BY <1>3, HighRunEnds
  <2>2. lo \in 2..(King + 1) /\ \A v : v \in V <=> v = 1 \/ v \in lo..King
    BY <2>1, HighRun
  <2>3. V = {1} \cup lo..King
    BY <2>2
  <2>. QED
    BY <2>2, <2>3
<1>. QED
  BY <1>1, <1>2, <1>3 DEF Straight

LEMMA IsStraight ==
  ASSUME NEW V
  PROVE  /\ \A a, b \in V : V = a..b => Straight(V)
         /\ \A lo \in 2..(King + 1) : V = {1} \cup lo..King => Straight(V)
<1>1. ASSUME NEW a \in V, NEW b \in V, V = a..b PROVE Straight(V)
  BY <1>1 DEF Straight, Consecutive
<1>2. ASSUME NEW lo \in 2..(King + 1), V = {1} \cup lo..King PROVE Straight(V)
  BY <1>2, HighIs DEF Straight
<1>. QED
  BY <1>1, <1>2

(* A straight within a longer one can take a next rank.                    *)
LEMMA StraightGrows ==
  ASSUME NEW V, NEW W, V \subseteq W, W \subseteq 1..King, V # W, V # {},
         Straight(V), Straight(W)
  PROVE  \E r \in W \ V : Straight(V \cup {r})
<1>1. King \in Nat /\ King > 1
  BY RanksTyped
<1>2. CASE \E a, b \in V : V = a..b
  <2>1. PICK a \in V, b \in V : V = a..b
    BY <1>2
  <2>2. a \in 1..King /\ b \in 1..King /\ a <= b
    BY <2>1
  <2>3. CASE b + 1 \in W
    <3>1. V \cup {b + 1} = a..(b + 1) /\ b + 1 \notin V
      BY <2>1, <2>2
    <3>2. Straight(V \cup {b + 1})
      BY <2>2, <3>1, IsStraight
    <3>. QED
      BY <2>3, <3>1, <3>2
  <2>4. CASE a - 1 \in W
    <3>1. V \cup {a - 1} = (a - 1)..b /\ a - 1 \notin V
      BY <2>1, <2>2
    <3>2. Straight(V \cup {a - 1})
      BY <2>2, <3>1, IsStraight
    <3>. QED
      BY <2>4, <3>1, <3>2
  <2>5. CASE b + 1 \notin W /\ a - 1 \notin W /\ \E p, q \in W : W = p..q
    <3>1. PICK p \in W, q \in W : W = p..q
      BY <2>5
    <3>2. p \in Int /\ q \in Int
      BY <3>1
    <3>3. p = a /\ q = b
      BY <2>1, <2>2, <2>5, <3>1, <3>2
    <3>. QED
      BY <2>1, <3>1, <3>3
  <2>6. CASE b + 1 \notin W /\ a - 1 \notin W /\ \E lo \in 2..(King + 1) : W = {1} \cup lo..King
    <3>1. PICK lo \in 2..(King + 1) : W = {1} \cup lo..King
      BY <2>6
    <3>2. CASE a # 1
      <4>1. a = lo /\ b = King
        BY <1>1, <2>1, <2>2, <2>6, <3>1, <3>2
      <4>2. V \cup {1} = {1} \cup lo..King /\ 1 \notin V /\ 1 \in W
        BY <2>1, <2>2, <3>1, <3>2, <4>1
      <4>3. Straight(V \cup {1})
        BY <4>2, IsStraight
      <4>. QED
        BY <4>2, <4>3
    <3>3. CASE a = 1
      <4>1. b = 1 \/ b = King
        BY <1>1, <2>1, <2>2, <2>6, <3>1, <3>3
      <4>2. b # King
        BY <1>1, <2>1, <3>1, <3>3
      <4>3. V = {1} /\ lo <= King
        BY <1>1, <2>1, <3>1, <3>3, <4>1, <4>2
      <4>4. V \cup {King} = {1} \cup King..King /\ King \in W \ V
        BY <1>1, <3>1, <4>3
      <4>5. Straight(V \cup {King})
        BY <1>1, <4>4, IsStraight
      <4>. QED
        BY <4>4, <4>5
    <3>. QED
      BY <3>2, <3>3
  <2>. QED
    BY <2>3, <2>4, <2>5, <2>6, StraightIs
<1>3. CASE \E lo \in 2..(King + 1) : V = {1} \cup lo..King
  <2>1. PICK lo \in 2..(King + 1) : V = {1} \cup lo..King
    BY <1>3
  <2>2. CASE lo - 1 \in W
    <3>1. lo # 2
      <4>1. CASE lo = 2
        <5>1. V = 1..King
          BY <1>1, <2>1, <4>1
        <5>. QED
          BY <5>1
      <4>. QED
        BY <4>1
    <3>2. V \cup {lo - 1} = {1} \cup (lo - 1)..King /\ lo - 1 \notin V /\ lo - 1 \in 2..(King + 1)
      BY <1>1, <2>1, <3>1
    <3>3. Straight(V \cup {lo - 1})
      BY <3>2, IsStraight
    <3>. QED
      BY <2>2, <3>2, <3>3
  <2>3. CASE lo - 1 \notin W /\ \E p, q \in W : W = p..q
    <3>1. PICK p \in W, q \in W : W = p..q
      BY <2>3
    <3>2. p = 1 /\ q \in 1..King
      BY <2>1, <3>1
    <3>3. lo = King + 1
      BY <1>1, <2>1, <2>3, <3>1, <3>2
    <3>4. V = {1} /\ q # 1
      BY <1>1, <2>1, <3>1, <3>2, <3>3
    <3>5. V \cup {2} = 1..2 /\ 2 \in W \ V /\ 1 \in V \cup {2} /\ 2 \in V \cup {2}
      BY <3>1, <3>2, <3>4
    <3>6. Straight(V \cup {2})
      BY <3>5, IsStraight
    <3>. QED
      BY <3>5, <3>6
  <2>4. CASE lo - 1 \notin W /\ \E l \in 2..(King + 1) : W = {1} \cup l..King
    <3>1. PICK l \in 2..(King + 1) : W = {1} \cup l..King
      BY <2>4
    <3>2. l = lo
      BY <1>1, <2>1, <2>4, <3>1
    <3>. QED
      BY <2>1, <3>1, <3>2
  <2>. QED
    BY <2>2, <2>3, <2>4, StraightIs
<1>. QED
  BY <1>2, <1>3, StraightIs

LEMMA RunIs ==
  ASSUME NEW C
  PROVE  IsRun(C) <=> /\ Cardinality(C) >= MinMeldLen
                      /\ ~SameRank(C)
                      /\ SameSuit(C)
                      /\ Straight(RanksOf(C))
BY DEF IsRun, Straight, RunAceLow, RunAceHigh

TableMeld(m) == m.cards \in SUBSET Cards /\ IsMeld(m.cards) /\ m.kind = KindOf(m.cards)

LEMMA LayOffOne ==
  ASSUME NEW m, TableMeld(m), NEW C, C \subseteq Cards, CanLayOff(m, C)
  PROVE  \E c \in C : CanLayOff(m, {c})
<1>. DEFINE M == m.cards
            U == M \cup C
            V == RanksOf(M)
            W == RanksOf(U)
<1>1. /\ M \subseteq Cards /\ U \subseteq Cards /\ C # {} /\ MinMeldLen \in Nat /\ MinMeldLen > 1
      /\ IsMeld(M) /\ IsMeld(U) /\ KindOf(M) = KindOf(U) /\ m.kind = KindOf(M)
  BY RanksTyped DEF TableMeld, CanLayOff
<1>. HIDE DEF M
<1>2. ASSUME NEW c \in C
      PROVE  /\ M \cup {c} \subseteq Cards
             /\ Cardinality(M \cup {c}) \in Nat /\ Cardinality(M) \in Nat
             /\ Cardinality(M) <= Cardinality(M \cup {c})
  <2>1. M \subseteq M \cup {c} /\ M \cup {c} \subseteq Cards
    BY <1>1
  <2>. QED
    BY <2>1, LongEnough
<1>3. CASE IsSet(U)
  <2>1. IsSet(M)
    BY <1>1, <1>3 DEF KindOf
  <2>2. ASSUME NEW c \in C PROVE IsSet(M \cup {c})
    <3>1. SameRank(M \cup {c})
      BY <1>3 DEF IsSet, SameRank
    <3>2. Cardinality(M \cup {c}) >= MinMeldLen
      BY <1>1, <1>2, <2>1 DEF IsSet
    <3>. QED
      BY <3>1, <3>2 DEF IsSet
  <2>3. ASSUME NEW c \in C PROVE CanLayOff(m, {c})
    BY <1>1, <2>1, <2>2 DEF CanLayOff, IsMeld, KindOf, M
  <2>. QED
    BY <1>1, <2>3
<1>4. CASE ~IsSet(U)
  <2>1. ~IsSet(M) /\ IsRun(U) /\ IsRun(M)
    BY <1>1, <1>4 DEF KindOf, IsMeld
  <2>2. /\ Cardinality(M) >= MinMeldLen /\ ~SameRank(M) /\ SameSuit(U)
        /\ Straight(V) /\ Straight(W)
    BY <2>1, RunIs
  <2>3. /\ V \subseteq W /\ W \subseteq 1..King /\ V # {}
        /\ \A r : r \in W \ V => \E c \in C : c.rank = r
    <3>1. W \subseteq 1..King
      BY <1>1, RanksTyped
    <3>2. V \subseteq W /\ \A r : r \in W \ V => \E c \in C : c.rank = r
      BY DEF RanksOf
    <3>3. V # {}
      BY <2>2 DEF SameRank, RanksOf
    <3>. QED
      BY <3>1, <3>2, <3>3
  <2>4. ASSUME NEW c \in C, Straight(V \cup {c.rank}) PROVE CanLayOff(m, {c})
    <3>1. RanksOf(M \cup {c}) = V \cup {c.rank}
      BY DEF RanksOf
    <3>2. ~SameRank(M \cup {c}) /\ SameSuit(M \cup {c})
      BY <2>2 DEF SameRank, SameSuit
    <3>3. Cardinality(M \cup {c}) >= MinMeldLen
      BY <1>1, <1>2, <2>2
    <3>4. IsRun(M \cup {c}) /\ ~IsSet(M \cup {c})
      BY <2>4, <3>1, <3>2, <3>3, RunIs DEF IsSet
    <3>. QED
      BY <1>1, <2>1, <3>4 DEF CanLayOff, IsMeld, KindOf, M
  <2>5. CASE V = W
    <3>1. PICK c \in C : TRUE
      BY <1>1
    <3>2. V \cup {c.rank} = V
      BY <2>5 DEF RanksOf
    <3>3. Straight(V \cup {c.rank})
      BY <2>2, <3>2
    <3>. QED
      BY <2>4, <3>3
  <2>6. CASE V # W
    <3>1. PICK r \in W \ V : Straight(V \cup {r})
      BY <2>2, <2>3, <2>6, StraightGrows
    <3>2. PICK c \in C : c.rank = r
      BY <2>3, <3>1
    <3>. QED
      BY <2>4, <3>1, <3>2
  <2>. QED
    BY <2>5, <2>6
<1>. QED
  BY <1>3, <1>4

-----------------------------------------------------------------------------
(* The hint engine.                                                        *)

(* A hand of cards, beside melds that were accepted as melds: what a room  *)
(* hands to the advisors in the meld phase.                                *)
FairTable ==
  /\ hand \in Seq(Cards) /\ hand # <<>>
  /\ \A i \in DOMAIN table : TableMeld(table[i])

LEMMA HandIs ==
  ASSUME FairTable
  PROVE  ToSet(hand) \subseteq Cards /\ ToSet(hand) # {}
<1>1. hand \in Seq(Cards) /\ hand # <<>> /\ Len(hand) \in Nat /\ DOMAIN hand = 1..Len(hand)
  BY DEF FairTable
<1>2. 1 \in DOMAIN hand
  BY <1>1
<1>. QED
  BY <1>1, <1>2 DEF ToSet

(* The advice is complete with any hand, beside any melds of the table     *)
(* (suggest.go:63-121): no meld to be had means none of the smallest size, *)
(* and what lies against a meld in any number has a card that lies against *)
(* it alone, the run whose Ace moves above the King included.              *)
THEOREM AdviceIsComplete ==
  FairTable => AdviceMissesNothing
<1>. SUFFICES ASSUME FairTable PROVE AdviceMissesNothing
  OBVIOUS
<1>. DEFINE H == ToSet(hand)
<1>1. H \subseteq Cards
  BY HandIs
<1>. HIDE DEF H
<1>. SUFFICES ASSUME NEW s \in SuggestMoves(H, table), s.kind = "discard",
                     NEW C \in SUBSET H
              PROVE  ~IsMeld(C) /\ \A i \in DOMAIN table : ~CanLayOff(table[i], C)
  BY DEF AdviceMissesNothing, H
<1>2. SmallestMelds(H) = {} /\ LayOffs(H, table) = {}
  <2>1. CASE CanAutoKnock(H, table)
    BY <2>1 DEF SuggestMoves
  <2>2. CASE ~CanAutoKnock(H, table) /\ SmallestMelds(H) # {}
    BY <2>2 DEF SuggestMoves
  <2>3. CASE ~CanAutoKnock(H, table) /\ SmallestMelds(H) = {} /\ LayOffs(H, table) # {}
    BY <2>3 DEF SuggestMoves
  <2>. QED
    BY <2>1, <2>2, <2>3
<1>3. ASSUME IsMeld(C) PROVE FALSE
  <2>1. PICK G \in SUBSET C : IsMeld(G) /\ Cardinality(G) = MinMeldLen
    BY <1>1, <1>3, MeldShrinks
  <2>2. G \in SmallestMelds(H)
    BY <2>1 DEF SmallestMelds, NewMeldsIn
  <2>. QED
    BY <1>2, <2>2
<1>4. ASSUME NEW i \in DOMAIN table, CanLayOff(table[i], C) PROVE FALSE
  <2>1. TableMeld(table[i])
    BY DEF FairTable
  <2>2. PICK c \in C : CanLayOff(table[i], {c})
    BY <1>1, <1>4, <2>1, LayOffOne
  <2>3. <<i, c>> \in LayOffs(H, table)
    BY <2>2 DEF LayOffs
  <2>. QED
    BY <1>2, <2>3
<1>. QED
  BY <1>3, <1>4

-----------------------------------------------------------------------------

LEMMA HeldIsFair ==
  Held => FairTable
<1>. SUFFICES ASSUME Held PROVE FairTable
  OBVIOUS
<1>1. PICK H \in SUBSET Cards : /\ Cardinality(H) \in 1..MaxHand
                                /\ hand \in SetToSeqs(H)
                                /\ table \in Tables(Cards \ H)
  BY DEF Held
<1>2. hand \in [1..Cardinality(H) -> H] /\ Cardinality(H) \in Nat /\ Cardinality(H) > 0
  BY <1>1 DEF SetToSeqs
<1>3. hand \in Seq(Cards) /\ hand # <<>>
  BY <1>2
<1>4. ASSUME NEW G \in NewMeldsIn(Cards \ H), NEW o PROVE TableMeld(MeldOf(G, o))
  BY DEF NewMeldsIn, MeldOf, TableMeld
<1>5. ASSUME NEW i \in DOMAIN table PROVE TableMeld(table[i])
  <2>1. CASE table = <<>>
    BY <2>1
  <2>2. CASE \E G \in NewMeldsIn(Cards \ H) : table = <<MeldOf(G, 0)>>
    BY <1>4, <2>2
  <2>3. CASE \E G, F \in NewMeldsIn(Cards \ H) : table = <<MeldOf(G, 0), MeldOf(F, 1)>>
    BY <1>4, <2>3
  <2>. QED
    BY <1>1, <2>1, <2>2, <2>3 DEF Tables
<1>. QED
  BY <1>3, <1>5 DEF FairTable

-----------------------------------------------------------------------------
(* What the recursions define.                                             *)

LEMMA NatSmallest ==
  ASSUME NEW T, T \subseteq Nat, T # {}
  PROVE  \E m \in T : \A n \in T : m <= n
<1>1. PICK m \in T : \A n \in T : ~ (<<n, m>> \in OpToRel(<, Nat))
  BY NatLessThanWellFounded, WFMin
<1>2. \A n \in T : ~ (n < m)
  BY <1>1 DEF OpToRel
<1>. QED
  BY <1>2

LEMMA FirstIsLeft ==
  ASSUME NEW h \in Seq(Cards), NEW left, left \subseteq ToSet(h), left # {}
  PROVE  FirstOf(h, left) \in left
<1>. DEFINE I == {i \in DOMAIN h : h[i] \in left}
<1>1. I \subseteq Nat /\ I # {}
  BY DEF ToSet
<1>2. PICK m \in I : \A i \in I : m <= i
  <2>. HIDE DEF I
  <2>. QED
    BY <1>1, NatSmallest
<1>3. /\ m \in DOMAIN h /\ h[m] \in left
      /\ \A j \in DOMAIN h : h[j] \in left => m <= j
  BY <1>2
<1>. QED
  BY <1>3 DEF FirstOf

(* A new meld and a layoff each take the pinned card away.                 *)
LEMMA GroupIs ==
  ASSUME NEW left, NEW pin \in left, NEW G \in Groups(pin, left \ {pin})
  PROVE  pin \in G /\ G \subseteq left /\ left \ G \in SUBSET left /\ left \ G # left
BY DEF Groups

LEMMA ChoicesAre ==
  ASSUME NEW left, NEW pin \in left, NEW melds
  PROVE  /\ \A G : G \in NewMelds(pin, left \ {pin})
                     <=> pin \in G /\ G \in SUBSET left /\ IsMeld(G)
         /\ \A i, G : [meld |-> i, cards |-> G] \in LayOffSteps(pin, left \ {pin}, melds)
                        <=> /\ i \in DOMAIN melds /\ pin \in G /\ G \in SUBSET left
                            /\ CanLayOff(melds[i], G)
         /\ \A s \in LayOffSteps(pin, left \ {pin}, melds) :
              s = [meld |-> s.meld, cards |-> s.cards]
<1>1. \A G : G \in Groups(pin, left \ {pin}) <=> pin \in G /\ G \in SUBSET left
  <2>1. ASSUME NEW G, pin \in G, G \in SUBSET left PROVE G \in Groups(pin, left \ {pin})
    <3>1. G = {pin} \cup (G \ {pin}) /\ G \ {pin} \in SUBSET (left \ {pin})
      BY <2>1
    <3>. QED
      BY <3>1 DEF Groups
  <2>. QED
    BY <2>1 DEF Groups
<1>2. \A G : G \in NewMelds(pin, left \ {pin}) <=> pin \in G /\ G \in SUBSET left /\ IsMeld(G)
  BY <1>1 DEF NewMelds
<1>3. ASSUME NEW i, NEW G
      PROVE  [meld |-> i, cards |-> G] \in LayOffSteps(pin, left \ {pin}, melds)
                <=> /\ i \in DOMAIN melds /\ G \in Groups(pin, left \ {pin})
                    /\ CanLayOff(melds[i], G)
  BY DEF LayOffSteps
<1>4. \A s \in LayOffSteps(pin, left \ {pin}, melds) : s = [meld |-> s.meld, cards |-> s.cards]
  BY DEF LayOffSteps
<1>. QED
  BY <1>1, <1>2, <1>3, <1>4

LEMMA PlacedHas ==
  ASSUME NEW h, NEW f, NEW left, left # {}, NEW melds, NEW x
  PROVE  x \in Placed(h, f, left, melds)
           <=> \/ \E G \in NewMelds(FirstOf(h, left), left \ {FirstOf(h, left)}) :
                    x \in WithMeld(G, f[left \ G][melds])
               \/ \E s \in LayOffSteps(FirstOf(h, left), left \ {FirstOf(h, left)}, melds) :
                    x \in WithStep(s, f[left \ s.cards][Applied(melds, s)])
<1>. DEFINE pin == FirstOf(h, left)
            M == {WithMeld(G, f[left \ G][melds]) : G \in NewMelds(pin, left \ {pin})}
            L == {WithStep(s, f[left \ s.cards][Applied(melds, s)]) :
                    s \in LayOffSteps(pin, left \ {pin}, melds)}
<1>1. Placed(h, f, left, melds) = (UNION M) \cup (UNION L)
  BY DEF Placed
<1>2. x \in Placed(h, f, left, melds) <=> (\E y \in M : x \in y) \/ (\E y \in L : x \in y)
  <2>. HIDE DEF M, L
  <2>1. x \in (UNION M) \cup (UNION L) <=> (\E y \in M : x \in y) \/ (\E y \in L : x \in y)
    OBVIOUS
  <2>. QED
    BY <1>1, <2>1, Zenon
<1>3. (\E y \in M : x \in y)
        <=> \E G \in NewMelds(pin, left \ {pin}) : x \in WithMeld(G, f[left \ G][melds])
  BY Zenon
<1>4. (\E y \in L : x \in y)
        <=> \E s \in LayOffSteps(pin, left \ {pin}, melds) :
              x \in WithStep(s, f[left \ s.cards][Applied(melds, s)])
  BY Zenon
<1>. QED
  BY <1>2, <1>3, <1>4

LEMMA PlacedNothing ==
  ASSUME NEW h, NEW f, NEW melds
  PROVE  Placed(h, f, {}, melds) = {[groups |-> {}, steps |-> <<>>]}
BY DEF Placed

(* One level of the search looks at what is below it only.                 *)
LEMMA PlacedLooksBelow ==
  ASSUME NEW h \in Seq(Cards), NEW left \in SUBSET ToSet(h), NEW f, NEW g, NEW melds,
         \A D \in SUBSET left : D # left => f[D] = g[D]
  PROVE  Placed(h, f, left, melds) = Placed(h, g, left, melds)
<1>1. CASE left = {}
  BY <1>1, PlacedNothing
<1>2. CASE left # {}
  <2>. DEFINE pin == FirstOf(h, left)
  <2>1. pin \in left
    BY <1>2, FirstIsLeft
  <2>. HIDE DEF pin
  <2>2. ASSUME NEW G \in NewMelds(pin, left \ {pin}) PROVE f[left \ G] = g[left \ G]
    <3>1. left \ G \in SUBSET left /\ left \ G # left
      BY <2>1, ChoicesAre
    <3>. QED
      BY <3>1
  <2>3. ASSUME NEW s \in LayOffSteps(pin, left \ {pin}, melds)
        PROVE  f[left \ s.cards] = g[left \ s.cards]
    <3>1. s.cards \in Groups(pin, left \ {pin})
      BY DEF LayOffSteps
    <3>2. left \ s.cards \in SUBSET left /\ left \ s.cards # left
      BY <2>1, <3>1, GroupIs
    <3>. QED
      BY <3>2
  <2>4. ASSUME NEW x PROVE x \in Placed(h, f, left, melds) <=> x \in Placed(h, g, left, melds)
    <3>1. /\ x \in Placed(h, f, left, melds)
               <=> \/ \E G \in NewMelds(pin, left \ {pin}) :
                        x \in WithMeld(G, f[left \ G][melds])
                   \/ \E s \in LayOffSteps(pin, left \ {pin}, melds) :
                        x \in WithStep(s, f[left \ s.cards][Applied(melds, s)])
          /\ x \in Placed(h, g, left, melds)
               <=> \/ \E G \in NewMelds(pin, left \ {pin}) :
                        x \in WithMeld(G, g[left \ G][melds])
                   \/ \E s \in LayOffSteps(pin, left \ {pin}, melds) :
                        x \in WithStep(s, g[left \ s.cards][Applied(melds, s)])
      BY <1>2, PlacedHas DEF pin
    <3>. QED
      BY <2>2, <2>3, <3>1
  <2>. QED
    BY <2>4
<1>. QED
  BY <1>1, <1>2

Level(h, f, left) == [melds \in Seq(OnTable) |-> Placed(h, f, left, melds)]

LEMMA HandFinite ==
  ASSUME NEW h \in Seq(Cards)
  PROVE  /\ ToSet(h) \subseteq Cards
         /\ \A left \in SUBSET ToSet(h) : IsFiniteSet(left) /\ Cardinality(left) \in Nat
<1>1. ToSet(h) \subseteq Cards
  BY DEF ToSet
<1>. QED
  BY <1>1, RanksTyped, FS_CardinalityType

(* As far as n cards, there is such a function, for every n.               *)
LEMMA SearchExists ==
  ASSUME NEW h \in Seq(Cards), NEW n \in Nat
  PROVE  \E f : /\ f = [left \in SUBSET ToSet(h) |-> f[left]]
                /\ \A left \in SUBSET ToSet(h) :
                     Cardinality(left) < n => f[left] = Level(h, f, left)
<1>. DEFINE Good(f, k) == /\ f = [left \in SUBSET ToSet(h) |-> f[left]]
                          /\ \A left \in SUBSET ToSet(h) :
                               Cardinality(left) < k => f[left] = Level(h, f, left)
            T == {k \in Nat : ~ \E f : Good(f, k)}
<1>1. SUFFICES ASSUME T # {} PROVE FALSE
  <2>1. n \notin T
    BY <1>1
  <2>. QED
    BY <2>1
<1>2. PICK k \in T : \A j \in T : k <= j
  <2>1. T \subseteq Nat
    OBVIOUS
  <2>. HIDE DEF T
  <2>. QED
    BY <1>1, <2>1, NatSmallest
<1>3. CASE k = 0
  <2>. DEFINE f == [left \in SUBSET ToSet(h) |-> {}]
  <2>1. f = [left \in SUBSET ToSet(h) |-> f[left]]
    OBVIOUS
  <2>2. \A left \in SUBSET ToSet(h) : ~ (Cardinality(left) < 0)
    BY HandFinite
  <2>. HIDE DEF f
  <2>3. Good(f, 0)
    BY <2>1, <2>2
  <2>. QED
    BY <1>3, <2>3
<1>4. CASE k # 0
  <2>1. k - 1 \in Nat /\ k - 1 \notin T
    <3>1. k \in Nat
      OBVIOUS
    <3>. HIDE DEF T
    <3>. QED
      BY <1>2, <1>4, <3>1
  <2>2. PICK f : Good(f, k - 1)
    BY <2>1
  <2>. DEFINE g == [left \in SUBSET ToSet(h) |-> Level(h, f, left)]
  <2>3. ASSUME NEW left \in SUBSET ToSet(h), Cardinality(left) < k
        PROVE  Level(h, g, left) = Level(h, f, left)
    <3>1. ASSUME NEW D \in SUBSET left, D # left PROVE g[D] = f[D]
      <4>1. /\ D \in SUBSET ToSet(h) /\ IsFiniteSet(left)
            /\ Cardinality(D) \in Nat /\ Cardinality(left) \in Nat
        BY HandFinite
      <4>2. Cardinality(D) < Cardinality(left)
        BY <3>1, <4>1, FS_Subset
      <4>3. Cardinality(D) < k - 1
        BY <2>1, <2>3, <4>1, <4>2
      <4>. QED
        BY <2>2, <4>1, <4>3
    <3>. HIDE DEF g
    <3>2. ASSUME NEW melds PROVE Placed(h, g, left, melds) = Placed(h, f, left, melds)
      BY <3>1, PlacedLooksBelow
    <3>. QED
      BY <3>2 DEF Level
  <2>4. \A left \in SUBSET ToSet(h) : g[left] = Level(h, f, left)
    OBVIOUS
  <2>5. g = [left \in SUBSET ToSet(h) |-> g[left]]
    OBVIOUS
  <2>. HIDE DEF g
  <2>6. Good(g, k)
    BY <2>3, <2>4, <2>5
  <2>. QED
    BY <2>6
<1>. QED
  BY <1>3, <1>4

LEMMA SearchIs ==
  ASSUME NEW h \in Seq(Cards), NEW left \in SUBSET ToSet(h), NEW melds \in Seq(OnTable)
  PROVE  PartitionForKnock(h)[left][melds] = Placed(h, PartitionForKnock(h), left, melds)
<1>. DEFINE X == SUBSET ToSet(h)
            Solves(f) == f = [D \in X |-> Level(h, f, D)]
<1>1. \E f : Solves(f)
  <2>. DEFINE n == Cardinality(ToSet(h)) + 1
  <2>1. /\ n \in Nat
        /\ \A D \in X : Cardinality(D) < n
    <3>1. ToSet(h) \in SUBSET ToSet(h)
      OBVIOUS
    <3>2. IsFiniteSet(ToSet(h)) /\ Cardinality(ToSet(h)) \in Nat
      BY <3>1, HandFinite
    <3>3. \A D \in X : Cardinality(D) \in Nat /\ Cardinality(D) <= Cardinality(ToSet(h))
      BY <3>2, HandFinite, FS_Subset
    <3>. QED
      BY <3>2, <3>3
  <2>. HIDE DEF n
  <2>2. PICK f : /\ f = [D \in X |-> f[D]]
                 /\ \A D \in X : Cardinality(D) < n => f[D] = Level(h, f, D)
    BY <2>1, SearchExists
  <2>3. \A D \in X : f[D] = Level(h, f, D)
    BY <2>1, <2>2
  <2>4. f = [D \in X |-> Level(h, f, D)]
    BY <2>2, <2>3
  <2>. QED
    BY <2>4
<1>2. PartitionForKnock(h) = CHOOSE f : Solves(f)
  BY DEF PartitionForKnock, Level
<1>3. Solves(PartitionForKnock(h))
  BY <1>1, <1>2
<1>4. PartitionForKnock(h)[left] = Level(h, PartitionForKnock(h), left)
  BY <1>3
<1>. QED
  BY <1>4 DEF Level

-----------------------------------------------------------------------------
(* Plans by definition.                                                    *)

LEMMA LaidIs ==
  ASSUME NEW lay, NEW c
  PROVE  c \in LaidCards(lay) <=> \E i \in DOMAIN lay : c \in lay[i]
BY DEF LaidCards

LEMMA PartitionIs ==
  ASSUME NEW P, NEW D
  PROVE  P \in Partitions(D) <=> /\ \A G \in P : G \subseteq D /\ IsMeld(G)
                                 /\ \A c \in D : \E G \in P : c \in G
                                 /\ \A G, H \in P : G # H => G \cap H = {}
<1>1. P \in Partitions(D) <=> /\ \A G \in P : G \in NewMeldsIn(D)
                              /\ UNION P = D
                              /\ \A G, H \in P : G # H => G \cap H = {}
  BY DEF Partitions
<1>2. \A G : G \in NewMeldsIn(D) <=> G \subseteq D /\ IsMeld(G)
  BY DEF NewMeldsIn
<1>3. (\A G \in P : G \subseteq D) => (UNION P = D <=> \A c \in D : \E G \in P : c \in G)
  OBVIOUS
<1>. QED
  BY <1>1, <1>2, <1>3

LEMMA ChoiceIs ==
  ASSUME NEW C, NEW melds, NEW lay
  PROVE  lay \in LayoffChoices(C, melds)
           <=> /\ lay \in [DOMAIN melds -> SUBSET C]
               /\ \A i \in DOMAIN melds : lay[i] = {} \/ CanLayOff(melds[i], lay[i])
               /\ \A i, j \in DOMAIN melds : i # j => lay[i] \cap lay[j] = {}
BY DEF LayoffChoices

LEMMA LaidOffIs ==
  ASSUME NEW m \in OnTable, NEW G \in SUBSET Cards
  PROVE  /\ LaidOff(m, G) \in OnTable
         /\ LaidOff(m, G).cards = m.cards \cup G /\ LaidOff(m, G).kind = m.kind
<1>1. /\ LaidOff(m, G) = [m EXCEPT !.cards = m.cards \cup G, !.aceHigh = AceActsHigh(m.cards \cup G)]
      /\ m.cards \cup G \in SUBSET Cards
  BY DEF LaidOff, OnTable
<1>2. AceActsHigh(m.cards \cup G) \in BOOLEAN
  BY DEF AceActsHigh
<1>. QED
  BY <1>1, <1>2 DEF OnTable

LEMMA AppliedIs ==
  ASSUME NEW melds \in Seq(OnTable), NEW i \in DOMAIN melds, NEW G \in SUBSET Cards
  PROVE  LET T == Applied(melds, [meld |-> i, cards |-> G]) IN
         /\ T \in Seq(OnTable) /\ DOMAIN T = DOMAIN melds
         /\ T[i] = LaidOff(melds[i], G)
         /\ \A j \in DOMAIN melds : j # i => T[j] = melds[j]
<1>. DEFINE T == Applied(melds, [meld |-> i, cards |-> G])
            m == LaidOff(melds[i], G)
<1>1. melds[i] \in OnTable /\ DOMAIN melds = 1..Len(melds) /\ i \in 1..Len(melds) /\ Len(melds) \in Nat
  OBVIOUS
<1>2. m \in OnTable
  BY <1>1, LaidOffIs
<1>3. T = [melds EXCEPT ![i] = m]
  BY DEF Applied
<1>. HIDE DEF T, m
<1>4. T \in Seq(OnTable) /\ DOMAIN T = DOMAIN melds /\ T[i] = m
      /\ \A j \in DOMAIN melds : j # i => T[j] = melds[j]
  BY <1>1, <1>2, <1>3
<1>. QED
  BY <1>4 DEF T, m

(* What a layoff leaves for a later one is the two together.               *)
LEMMA LayOffTwice ==
  ASSUME NEW m \in OnTable, NEW G \in SUBSET Cards, NEW H \in SUBSET Cards, G # {}, H # {}
  PROVE  CanLayOff(LaidOff(m, G), H) <=> CanLayOff(m, G \cup H)
<1>1. (m.cards \cup G) \cup H = m.cards \cup (G \cup H) /\ G \cup H # {}
  OBVIOUS
<1>. QED
  BY <1>1, LaidOffIs DEF CanLayOff

-----------------------------------------------------------------------------
(* The table after each layoff step of a plan.                             *)

Turned(g, melds, steps, n) == IF n = 0 THEN melds ELSE Applied(g[n - 1], steps[n])

LEMMA TablesExist ==
  ASSUME NEW melds, NEW steps, Len(steps) \in Nat, NEW k \in Nat
  PROVE  \E g : /\ g = [n \in 0..Len(steps) |-> g[n]]
                /\ \A n \in 0..Len(steps) : n < k => g[n] = Turned(g, melds, steps, n)
<1>. DEFINE N == 0..Len(steps)
            Good(g, j) == /\ g = [n \in N |-> g[n]]
                          /\ \A n \in N : n < j => g[n] = Turned(g, melds, steps, n)
            T == {j \in Nat : ~ \E g : Good(g, j)}
<1>1. SUFFICES ASSUME T # {} PROVE FALSE
  <2>1. k \notin T
    BY <1>1
  <2>. QED
    BY <2>1
<1>2. PICK j \in T : \A i \in T : j <= i
  <2>1. T \subseteq Nat
    OBVIOUS
  <2>. HIDE DEF T
  <2>. QED
    BY <1>1, <2>1, NatSmallest
<1>3. CASE j = 0
  <2>. DEFINE g == [n \in N |-> {}]
  <2>1. g = [n \in N |-> g[n]]
    OBVIOUS
  <2>2. \A n \in N : ~ (n < 0)
    OBVIOUS
  <2>. HIDE DEF g
  <2>3. Good(g, 0)
    BY <2>1, <2>2
  <2>. QED
    BY <1>3, <2>3
<1>4. CASE j # 0
  <2>1. j \in Nat /\ j - 1 \in Nat /\ j - 1 \notin T
    <3>1. j \in Nat
      OBVIOUS
    <3>. HIDE DEF T
    <3>. QED
      BY <1>2, <1>4, <3>1
  <2>2. PICK f : Good(f, j - 1)
    BY <2>1
  <2>. DEFINE g == [n \in N |-> Turned(f, melds, steps, n)]
  <2>3. \A n \in N : g[n] = Turned(f, melds, steps, n)
    OBVIOUS
  <2>4. g = [n \in N |-> g[n]]
    OBVIOUS
  <2>. HIDE DEF g, T
  <2>5. ASSUME NEW n \in N, n < j PROVE g[n] = Turned(g, melds, steps, n)
    <3>1. CASE n = 0
      BY <2>3, <3>1 DEF Turned
    <3>2. CASE n # 0
      <4>1. n - 1 \in N /\ n - 1 < j - 1
        BY <2>1, <2>5, <3>2
      <4>2. f[n - 1] = Turned(f, melds, steps, n - 1)
        BY <2>2, <4>1
      <4>3. f[n - 1] = g[n - 1]
        BY <2>3, <4>1, <4>2
      <4>. QED
        BY <2>3, <4>3 DEF Turned
    <3>. QED
      BY <3>1, <3>2
  <2>6. Good(g, j)
    BY <2>4, <2>5
  <2>. QED
    BY <2>6 DEF T
<1>. QED
  BY <1>3, <1>4

LEMMA TableAfterIs ==
  ASSUME NEW melds, NEW steps, Len(steps) \in Nat
  PROVE  /\ TableAfter(melds, steps)[0] = melds
         /\ \A n \in 0..Len(steps) : n # 0 =>
              TableAfter(melds, steps)[n] = Applied(TableAfter(melds, steps)[n - 1], steps[n])
<1>. DEFINE N == 0..Len(steps)
            Solves(g) == g = [n \in N |-> Turned(g, melds, steps, n)]
<1>1. \E g : Solves(g)
  <2>1. PICK g : /\ g = [n \in N |-> g[n]]
                 /\ \A n \in N : n < Len(steps) + 1 => g[n] = Turned(g, melds, steps, n)
    BY TablesExist
  <2>2. \A n \in N : g[n] = Turned(g, melds, steps, n)
    BY <2>1
  <2>3. g = [n \in N |-> Turned(g, melds, steps, n)]
    BY <2>1, <2>2
  <2>. QED
    BY <2>3
<1>2. TableAfter(melds, steps) = CHOOSE g : Solves(g)
  BY DEF TableAfter, Turned
<1>3. Solves(TableAfter(melds, steps))
  BY <1>1, <1>2
<1>4. \A n \in N : TableAfter(melds, steps)[n] = Turned(TableAfter(melds, steps), melds, steps, n)
  BY <1>3
<1>. QED
  BY <1>4 DEF Turned

LayOff == [meld: Nat, cards: SUBSET Cards]

LEMMA ConsIs ==
  ASSUME NEW s \in LayOff, NEW q \in Seq(LayOff)
  PROVE  /\ <<s>> \o q \in Seq(LayOff)
         /\ Len(<<s>> \o q) = Len(q) + 1 /\ Len(q) \in Nat
         /\ (<<s>> \o q)[1] = s
         /\ \A n \in 1..Len(q) : (<<s>> \o q)[n + 1] = q[n]
<1>. DEFINE p == <<s>> \o q
<1>1. p \in Seq(LayOff) /\ Len(q) \in Nat /\ Len(p) = Len(q) + 1
  OBVIOUS
<1>2. \A n \in 1..(Len(q) + 1) : p[n] = IF n <= 1 THEN <<s>>[n] ELSE q[n - 1]
  OBVIOUS
<1>. HIDE DEF p
<1>3. \A n \in 1..Len(q) : p[n + 1] = q[n]
  BY <1>1, <1>2
<1>4. p[1] = s
  BY <1>1, <1>2
<1>. QED
  BY <1>1, <1>3, <1>4 DEF p

(* A first step, then the others on the table it leaves.                   *)
LEMMA TableAfterCons ==
  ASSUME NEW melds, NEW s \in LayOff, NEW q \in Seq(LayOff), NEW n \in 0..Len(q)
  PROVE  TableAfter(melds, <<s>> \o q)[n + 1] = TableAfter(Applied(melds, s), q)[n]
<1>. DEFINE p == <<s>> \o q
            A == TableAfter(melds, p)
            B == TableAfter(Applied(melds, s), q)
            T == {k \in 0..Len(q) : A[k + 1] # B[k]}
<1>1. SUFFICES ASSUME T # {} PROVE FALSE
  <2>1. n \notin T
    BY <1>1
  <2>. QED
    BY <2>1
<1>2. PICK k \in T : \A i \in T : k <= i
  <2>1. T \subseteq Nat
    OBVIOUS
  <2>. HIDE DEF T
  <2>. QED
    BY <1>1, <2>1, NatSmallest
<1>3. k \in 0..Len(q) /\ A[k + 1] # B[k]
  OBVIOUS
<1>4. /\ Len(p) = Len(q) + 1 /\ Len(q) \in Nat /\ p[1] = s
      /\ \A i \in 1..Len(q) : p[i + 1] = q[i]
  BY ConsIs
<1>5. /\ A[0] = melds /\ B[0] = Applied(melds, s)
      /\ \A i \in 0..Len(p) : i # 0 => A[i] = Applied(A[i - 1], p[i])
      /\ \A i \in 0..Len(q) : i # 0 => B[i] = Applied(B[i - 1], q[i])
  <2>1. Len(p) \in Nat /\ Len(q) \in Nat
    BY <1>4
  <2>. HIDE DEF p, T
  <2>2. /\ A[0] = melds
        /\ \A i \in 0..Len(p) : i # 0 => A[i] = Applied(A[i - 1], p[i])
    BY <2>1, TableAfterIs
  <2>3. /\ B[0] = Applied(melds, s)
        /\ \A i \in 0..Len(q) : i # 0 => B[i] = Applied(B[i - 1], q[i])
    BY <2>1, TableAfterIs
  <2>. QED
    BY <2>2, <2>3
<1>6. CASE k = 0
  <2>1. A[1] = Applied(A[0], p[1])
    <3>. HIDE DEF A, p
    <3>1. 1 \in 0..Len(p) /\ 1 # 0 /\ 1 - 1 = 0
      BY <1>4
    <3>2. A[1] = Applied(A[1 - 1], p[1])
      BY <1>5, <3>1
    <3>. QED
      BY <3>1, <3>2
  <2>. HIDE DEF A, B, T, p
  <2>2. k + 1 = 1
    BY <1>6
  <2>. QED
    BY <1>3, <1>4, <1>5, <1>6, <2>1, <2>2
<1>7. CASE k # 0
  <2>1. k - 1 \notin T
    <3>. HIDE DEF T
    <3>. QED
      BY <1>2, <1>3, <1>4, <1>7
  <2>2. k - 1 \in 0..Len(q) /\ (k - 1) + 1 = k
    BY <1>3, <1>4, <1>7
  <2>3. A[k] = B[k - 1]
    <3>1. A[(k - 1) + 1] = B[k - 1]
      BY <2>1, <2>2
    <3>. QED
      BY <2>2, <3>1
  <2>. HIDE DEF A, B, T, p
  <2>4. k + 1 \in 0..Len(p) /\ k + 1 # 0 /\ (k + 1) - 1 = k /\ k \in 1..Len(q)
    BY <1>3, <1>4, <1>7
  <2>5. A[k + 1] = Applied(A[(k + 1) - 1], p[k + 1])
    BY <1>5, <2>4
  <2>6. B[k] = Applied(B[k - 1], q[k])
    BY <1>3, <1>5, <1>7
  <2>7. p[k + 1] = q[k]
    BY <1>4, <2>4
  <2>. QED
    BY <1>3, <2>3, <2>4, <2>5, <2>6, <2>7
<1>. QED
  BY <1>6, <1>7

-----------------------------------------------------------------------------
(* What a split the search returns is good for.                            *)

Playable(C, melds, sub) ==
  /\ sub = [groups |-> sub.groups, steps |-> sub.steps]
  /\ sub.steps \in Seq(LayOff)
  /\ \A G \in sub.groups : IsMeld(G) /\ G \subseteq C
  /\ \A n \in DOMAIN sub.steps :
       /\ sub.steps[n].cards \subseteq C
       /\ sub.steps[n].meld \in DOMAIN melds
       /\ CanLayOff(TableAfter(melds, sub.steps)[n - 1][sub.steps[n].meld], sub.steps[n].cards)
  /\ \A c \in C : \/ \E G \in sub.groups : c \in G
                  \/ \E n \in DOMAIN sub.steps : c \in sub.steps[n].cards
  /\ PlanIsDisjoint(sub)

LEMMA PlayableNothing ==
  ASSUME NEW melds
  PROVE  Playable({}, melds, [groups |-> {}, steps |-> <<>>])
BY DEF Playable, PlanIsDisjoint

LEMMA PlayableWithMeld ==
  ASSUME NEW C, NEW melds, NEW G \in SUBSET C, IsMeld(G),
         NEW sub, Playable(C \ G, melds, sub)
  PROVE  Playable(C, melds, [sub EXCEPT !.groups = @ \cup {G}])
<1>. DEFINE gs == sub.groups
            q == sub.steps
            new == [sub EXCEPT !.groups = @ \cup {G}]
<1>1. /\ sub = [groups |-> gs, steps |-> q] /\ q \in Seq(LayOff)
      /\ \A H \in gs : IsMeld(H) /\ H \subseteq C \ G
      /\ \A n \in DOMAIN q :
           /\ q[n].cards \subseteq C \ G /\ q[n].meld \in DOMAIN melds
           /\ CanLayOff(TableAfter(melds, q)[n - 1][q[n].meld], q[n].cards)
      /\ \A c \in C \ G : (\E H \in gs : c \in H) \/ (\E n \in DOMAIN q : c \in q[n].cards)
  BY DEF Playable
<1>2. /\ \A H, K \in gs : H # K => H \cap K = {}
      /\ \A m, n \in DOMAIN q : m # n => q[m].cards \cap q[n].cards = {}
      /\ \A H \in gs : \A n \in DOMAIN q : H \cap q[n].cards = {}
  BY DEF Playable, PlanIsDisjoint
<1>3. new = [groups |-> gs \cup {G}, steps |-> q]
  <2>1. sub = [groups |-> gs, steps |-> q]
    BY <1>1
  <2>. HIDE DEF gs, q
  <2>. QED
    BY <2>1
<1>. HIDE DEF gs, q, new
<1>4. new.groups = gs \cup {G} /\ new.steps = q
  BY <1>3
<1>5. PlanIsDisjoint(new)
  <2>1. \A H, K \in gs \cup {G} : H # K => H \cap K = {}
    BY <1>1, <1>2
  <2>2. \A H \in gs \cup {G} : \A n \in DOMAIN q : H \cap q[n].cards = {}
    BY <1>1, <1>2
  <2>. QED
    BY <1>2, <1>4, <2>1, <2>2 DEF PlanIsDisjoint
<1>6. \A H \in gs \cup {G} : IsMeld(H) /\ H \subseteq C
  BY <1>1
<1>7. \A n \in DOMAIN q : q[n].cards \subseteq C
  BY <1>1
<1>8. \A c \in C : (\E H \in gs \cup {G} : c \in H) \/ (\E n \in DOMAIN q : c \in q[n].cards)
  BY <1>1
<1>9. new = [groups |-> new.groups, steps |-> new.steps]
  BY <1>3, <1>4
<1>. QED
  BY <1>1, <1>4, <1>5, <1>6, <1>7, <1>8, <1>9 DEF Playable

LEMMA PlayableWithStep ==
  ASSUME NEW C \in SUBSET Cards, NEW melds \in Seq(OnTable), NEW i \in DOMAIN melds,
         NEW G \in SUBSET C, CanLayOff(melds[i], G), NEW sub,
         Playable(C \ G, Applied(melds, [meld |-> i, cards |-> G]), sub)
  PROVE  Playable(C, melds, [sub EXCEPT !.steps = <<[meld |-> i, cards |-> G]>> \o @])
<1>. DEFINE s == [meld |-> i, cards |-> G]
            T == Applied(melds, s)
            gs == sub.groups
            q == sub.steps
            p == <<s>> \o q
            new == [sub EXCEPT !.steps = <<s>> \o @]
<1>0. DOMAIN T = DOMAIN melds /\ s \in LayOff /\ s.cards = G /\ s.meld = i
  <2>1. G \in SUBSET Cards /\ i \in Nat
    OBVIOUS
  <2>. QED
    BY <2>1, AppliedIs DEF LayOff
<1>. HIDE DEF T, s
<1>1. /\ sub = [groups |-> gs, steps |-> q] /\ q \in Seq(LayOff)
      /\ \A H \in gs : IsMeld(H) /\ H \subseteq C \ G
      /\ \A n \in DOMAIN q :
           /\ q[n].cards \subseteq C \ G /\ q[n].meld \in DOMAIN T
           /\ CanLayOff(TableAfter(T, q)[n - 1][q[n].meld], q[n].cards)
      /\ \A c \in C \ G : (\E H \in gs : c \in H) \/ (\E n \in DOMAIN q : c \in q[n].cards)
  BY DEF Playable, T, s
<1>2. /\ \A H, K \in gs : H # K => H \cap K = {}
      /\ \A m, n \in DOMAIN q : m # n => q[m].cards \cap q[n].cards = {}
      /\ \A H \in gs : \A n \in DOMAIN q : H \cap q[n].cards = {}
  BY DEF Playable, PlanIsDisjoint
<1>3. new = [groups |-> gs, steps |-> p]
  <2>1. sub = [groups |-> gs, steps |-> q]
    BY <1>1
  <2>2. new = [sub EXCEPT !.steps = p]
    OBVIOUS
  <2>. HIDE DEF gs, q, p, new
  <2>. QED
    BY <2>1, <2>2
<1>. HIDE DEF gs, q, p, new
<1>4. new.groups = gs /\ new.steps = p /\ new = [groups |-> new.groups, steps |-> new.steps]
  BY <1>3
<1>5. /\ p \in Seq(LayOff) /\ Len(p) = Len(q) + 1 /\ Len(q) \in Nat /\ p[1] = s
      /\ \A n \in 1..Len(q) : p[n + 1] = q[n]
  BY <1>0, <1>1, ConsIs DEF p
<1>6. /\ DOMAIN p = 1..(Len(q) + 1) /\ DOMAIN q = 1..Len(q)
      /\ \A n \in DOMAIN p : n = 1 \/ (n - 1 \in DOMAIN q /\ p[n] = q[n - 1])
  <2>1. DOMAIN p = 1..(Len(q) + 1) /\ DOMAIN q = 1..Len(q)
    BY <1>1, <1>5
  <2>2. ASSUME NEW n \in DOMAIN p, n # 1 PROVE n - 1 \in DOMAIN q /\ p[n] = q[n - 1]
    <3>1. n - 1 \in 1..Len(q) /\ (n - 1) + 1 = n
      BY <1>5, <2>1, <2>2
    <3>. QED
      BY <1>5, <2>1, <3>1
  <2>. QED
    BY <2>1, <2>2
<1>7. ASSUME NEW n \in DOMAIN p
      PROVE  /\ p[n].cards \subseteq C /\ p[n].meld \in DOMAIN melds
             /\ CanLayOff(TableAfter(melds, p)[n - 1][p[n].meld], p[n].cards)
  <2>1. CASE n = 1
    <3>1. TableAfter(melds, p)[0] = melds /\ p[n] = s /\ n - 1 = 0
      BY <1>5, <2>1, TableAfterIs
    <3>. QED
      BY <1>0, <3>1
  <2>2. CASE n # 1
    <3>1. n - 1 \in DOMAIN q /\ p[n] = q[n - 1]
      BY <1>6, <2>2
    <3>2. n - 2 \in 0..Len(q) /\ (n - 2) + 1 = n - 1 /\ (n - 1) - 1 = n - 2
      BY <1>5, <1>6, <3>1
    <3>3. TableAfter(melds, p)[(n - 2) + 1] = TableAfter(T, q)[n - 2]
      BY <1>0, <1>1, <3>2, TableAfterCons DEF p, T
    <3>4. /\ q[n - 1].cards \subseteq C \ G /\ q[n - 1].meld \in DOMAIN T
          /\ CanLayOff(TableAfter(T, q)[(n - 1) - 1][q[n - 1].meld], q[n - 1].cards)
      BY <1>1, <3>1
    <3>5. TableAfter(melds, p)[n - 1] = TableAfter(T, q)[(n - 1) - 1]
      BY <3>2, <3>3
    <3>. QED
      BY <1>0, <3>1, <3>4, <3>5
  <2>. QED
    BY <2>1, <2>2
<1>8. PlanIsDisjoint(new)
  <2>1. ASSUME NEW m \in DOMAIN p, NEW n \in DOMAIN p, m # n
        PROVE  p[m].cards \cap p[n].cards = {}
    <3>1. CASE m = 1
      <4>1. n - 1 \in DOMAIN q /\ p[n] = q[n - 1]
        BY <1>6, <2>1, <3>1
      <4>2. q[n - 1].cards \subseteq C \ G /\ p[m].cards = G
        BY <1>0, <1>1, <1>5, <3>1, <4>1
      <4>. QED
        BY <4>1, <4>2
    <3>2. CASE n = 1
      <4>1. m - 1 \in DOMAIN q /\ p[m] = q[m - 1]
        BY <1>6, <2>1, <3>2
      <4>2. q[m - 1].cards \subseteq C \ G /\ p[n].cards = G
        BY <1>0, <1>1, <1>5, <3>2, <4>1
      <4>. QED
        BY <4>1, <4>2
    <3>3. CASE m # 1 /\ n # 1
      <4>1. m - 1 \in DOMAIN q /\ p[m] = q[m - 1] /\ n - 1 \in DOMAIN q /\ p[n] = q[n - 1]
        BY <1>6, <3>3
      <4>2. m - 1 # n - 1
        BY <1>5, <1>6, <2>1
      <4>. QED
        BY <1>2, <4>1, <4>2
    <3>. QED
      BY <3>1, <3>2, <3>3
  <2>2. ASSUME NEW H \in gs, NEW n \in DOMAIN p PROVE H \cap p[n].cards = {}
    <3>1. CASE n = 1
      BY <1>0, <1>1, <1>5, <3>1
    <3>2. CASE n # 1
      BY <1>2, <1>6, <3>2
    <3>. QED
      BY <3>1, <3>2
  <2>. QED
    BY <1>2, <1>4, <2>1, <2>2 DEF PlanIsDisjoint
<1>9. ASSUME NEW c \in C
      PROVE  (\E H \in gs : c \in H) \/ (\E n \in DOMAIN p : c \in p[n].cards)
  <2>1. CASE c \in G
    <3>1. 1 \in DOMAIN p /\ p[1].cards = G
      BY <1>0, <1>5, <1>6
    <3>. QED
      BY <2>1, <3>1
  <2>2. CASE \E H \in gs : c \in H
    BY <2>2
  <2>3. CASE \E n \in DOMAIN q : c \in q[n].cards
    <3>1. PICK n \in DOMAIN q : c \in q[n].cards
      BY <2>3
    <3>2. n + 1 \in DOMAIN p /\ p[n + 1] = q[n]
      BY <1>5, <1>6
    <3>. QED
      BY <3>1, <3>2
  <2>. QED
    BY <1>1, <2>1, <2>2, <2>3
<1>10. \A H \in gs : IsMeld(H) /\ H \subseteq C
  BY <1>1
<1>11. Playable(C, melds, new)
  BY <1>4, <1>5, <1>7, <1>8, <1>9, <1>10 DEF Playable
<1>. QED
  BY <1>11 DEF new, s

LEMMA SplitsArePlayable ==
  ASSUME NEW h \in Seq(Cards), NEW left \in SUBSET ToSet(h), NEW melds \in Seq(OnTable),
         NEW sub \in PartitionForKnock(h)[left][melds]
  PROVE  Playable(left, melds, sub)
<1>. DEFINE f == PartitionForKnock(h)
            T == {C \in SUBSET ToSet(h) :
                    \E m \in Seq(OnTable) : \E x \in f[C][m] : ~ Playable(C, m, x)}
<1>1. SUFFICES ASSUME T # {} PROVE FALSE
  <2>1. left \notin T
    BY <1>1
  <2>. QED
    BY <2>1
<1>2. PICK C \in T : \A D \in T : D \subseteq C => D = C
  <2>1. T \subseteq SUBSET ToSet(h)
    OBVIOUS
  <2>2. ToSet(h) \in SUBSET ToSet(h)
    OBVIOUS
  <2>3. IsFiniteSet(ToSet(h))
    BY <2>2, HandFinite
  <2>. HIDE DEF T
  <2>. QED
    BY <1>1, <2>1, <2>3, Smallest
<1>3. PICK m \in Seq(OnTable) : \E x \in f[C][m] : ~ Playable(C, m, x)
  OBVIOUS
<1>4. PICK x \in f[C][m] : ~ Playable(C, m, x)
  BY <1>3
<1>5. C \in SUBSET ToSet(h) /\ C \in SUBSET Cards
  BY HandFinite
<1>6. f[C][m] = Placed(h, f, C, m)
  BY <1>5, SearchIs
<1>7. C # {}
  <2>. HIDE DEF f, T
  <2>1. CASE C = {}
    <3>1. Placed(h, f, C, m) = {[groups |-> {}, steps |-> <<>>]}
      BY <2>1, PlacedNothing
    <3>2. x = [groups |-> {}, steps |-> <<>>]
      BY <1>4, <1>6, <3>1
    <3>3. Playable(C, m, [groups |-> {}, steps |-> <<>>])
      BY <2>1, PlayableNothing
    <3>. QED
      BY <1>4, <3>2, <3>3
  <2>. QED
    BY <2>1
<1>. DEFINE pin == FirstOf(h, C)
<1>8. pin \in C
  BY <1>5, <1>7, FirstIsLeft
<1>9. ASSUME NEW G \in SUBSET C, pin \in G, NEW n \in Seq(OnTable), NEW y \in f[C \ G][n]
      PROVE  Playable(C \ G, n, y)
  <2>1. C \ G \in SUBSET ToSet(h) /\ C \ G \subseteq C /\ C \ G # C
    BY <1>5, <1>8, <1>9
  <2>2. C \ G \notin T
    BY <1>2, <2>1
  <2>. QED
    BY <2>1, <2>2, <1>9
<1>. HIDE DEF T, f, pin
<1>10. \/ \E G \in NewMelds(pin, C \ {pin}) : x \in WithMeld(G, f[C \ G][m])
       \/ \E s \in LayOffSteps(pin, C \ {pin}, m) : x \in WithStep(s, f[C \ s.cards][Applied(m, s)])
  <2>1. x \in Placed(h, f, C, m)
    BY <1>4, <1>6
  <2>. QED
    BY <1>7, <2>1, PlacedHas DEF pin
<1>11. ~ \E G \in NewMelds(pin, C \ {pin}) : x \in WithMeld(G, f[C \ G][m])
  <2>. SUFFICES ASSUME NEW G \in NewMelds(pin, C \ {pin}), x \in WithMeld(G, f[C \ G][m])
                PROVE  FALSE
    OBVIOUS
  <2>1. PICK y \in f[C \ G][m] : x = [y EXCEPT !.groups = @ \cup {G}]
    BY DEF WithMeld
  <2>2. pin \in G /\ G \in SUBSET C /\ IsMeld(G)
    BY <1>8, ChoicesAre
  <2>3. Playable(C \ G, m, y)
    BY <1>9, <2>1, <2>2
  <2>4. Playable(C, m, [y EXCEPT !.groups = @ \cup {G}])
    BY <2>2, <2>3, PlayableWithMeld
  <2>. QED
    BY <1>4, <2>1, <2>4
<1>12. ~ \E s \in LayOffSteps(pin, C \ {pin}, m) : x \in WithStep(s, f[C \ s.cards][Applied(m, s)])
  <2>. SUFFICES ASSUME NEW s \in LayOffSteps(pin, C \ {pin}, m),
                       x \in WithStep(s, f[C \ s.cards][Applied(m, s)])
                PROVE  FALSE
    OBVIOUS
  <2>1. PICK y \in f[C \ s.cards][Applied(m, s)] : x = [y EXCEPT !.steps = <<s>> \o @]
    BY DEF WithStep
  <2>2. PICK i, G : s = [meld |-> i, cards |-> G]
    BY <1>8, ChoicesAre
  <2>3. /\ i \in DOMAIN m /\ pin \in G /\ G \in SUBSET C /\ G \in SUBSET Cards
        /\ CanLayOff(m[i], G) /\ s.cards = G
    BY <1>5, <1>8, <2>2, ChoicesAre
  <2>4. Applied(m, s) \in Seq(OnTable)
    BY <2>2, <2>3, AppliedIs
  <2>5. Playable(C \ G, Applied(m, s), y)
    <3>1. y \in f[C \ G][Applied(m, s)]
      BY <2>1, <2>3
    <3>. QED
      BY <1>9, <2>3, <2>4, <3>1
  <2>6. Playable(C, m, [y EXCEPT !.steps = <<[meld |-> i, cards |-> G]>> \o @])
    BY <1>5, <2>2, <2>3, <2>5, PlayableWithStep
  <2>. QED
    BY <1>4, <2>1, <2>2, <2>6
<1>. QED
  BY <1>10, <1>11, <1>12

-----------------------------------------------------------------------------
(* Plans by the rules.                                                     *)

IsPlan(C, melds, P, lay) ==
  lay \in LayoffChoices(C, melds) /\ P \in Partitions(C \ LaidCards(lay))

LEMMA PlanIs ==
  ASSUME NEW C, NEW melds, NEW P, NEW lay
  PROVE  IsPlan(C, melds, P, lay)
           <=> /\ lay \in [DOMAIN melds -> SUBSET C]
               /\ \A i \in DOMAIN melds : lay[i] = {} \/ CanLayOff(melds[i], lay[i])
               /\ \A i, j \in DOMAIN melds : i # j => lay[i] \cap lay[j] = {}
               /\ \A G \in P : G \subseteq C \ LaidCards(lay) /\ IsMeld(G)
               /\ \A c \in C \ LaidCards(lay) : \E G \in P : c \in G
               /\ \A G, H \in P : G # H => G \cap H = {}
BY ChoiceIs, PartitionIs DEF IsPlan

LEMMA PlanOfNothing ==
  ASSUME NEW melds, NEW P, NEW lay
  PROVE  IsPlan({}, melds, P, lay) <=> P = {} /\ lay = [i \in DOMAIN melds |-> {}]
<1>. DEFINE none == [i \in DOMAIN melds |-> {}]
<1>1. IsPlan({}, melds, {}, none)
  <2>1. none \in [DOMAIN melds -> SUBSET {}] /\ \A i \in DOMAIN melds : none[i] = {}
    OBVIOUS
  <2>. HIDE DEF none
  <2>. QED
    BY <2>1, PlanIs
<1>2. ASSUME IsPlan({}, melds, P, lay) PROVE P = {} /\ lay = none
  <2>1. /\ lay \in [DOMAIN melds -> SUBSET {}]
        /\ \A G \in P : G \subseteq {} \ LaidCards(lay) /\ IsMeld(G)
    BY <1>2, PlanIs
  <2>2. ~ IsMeld({})
    BY RanksTyped, FS_EmptySet DEF IsMeld, IsSet, IsRun
  <2>3. \A G \in P : G = {}
    BY <2>1
  <2>4. P = {}
    BY <2>1, <2>2, <2>3
  <2>5. lay = none
    BY <2>1
  <2>. QED
    BY <2>4, <2>5
<1>. QED
  BY <1>1, <1>2

(* Another meld, beside a plan for the other cards.                        *)
LEMMA PlanWithMeld ==
  ASSUME NEW C, NEW melds, NEW P, NEW lay, NEW G \in SUBSET C, IsMeld(G),
         IsPlan(C \ G, melds, P, lay)
  PROVE  IsPlan(C, melds, P \cup {G}, lay)
<1>1. /\ lay \in [DOMAIN melds -> SUBSET (C \ G)]
      /\ \A i \in DOMAIN melds : lay[i] = {} \/ CanLayOff(melds[i], lay[i])
      /\ \A i, j \in DOMAIN melds : i # j => lay[i] \cap lay[j] = {}
      /\ \A H \in P : H \subseteq (C \ G) \ LaidCards(lay) /\ IsMeld(H)
      /\ \A c \in (C \ G) \ LaidCards(lay) : \E H \in P : c \in H
      /\ \A H, K \in P : H # K => H \cap K = {}
  BY PlanIs
<1>2. lay \in [DOMAIN melds -> SUBSET C]
  BY <1>1
<1>3. \A c \in LaidCards(lay) : c \notin G
  BY <1>1, LaidIs
<1>4. /\ \A H \in P \cup {G} : H \subseteq C \ LaidCards(lay) /\ IsMeld(H)
      /\ \A c \in C \ LaidCards(lay) : \E H \in P \cup {G} : c \in H
      /\ \A H, K \in P \cup {G} : H # K => H \cap K = {}
  BY <1>1, <1>3
<1>. QED
  BY <1>1, <1>2, <1>4, PlanIs

(* Another layoff, beside a plan for the other cards on the table it       *)
(* leaves: the two onto one meld become one.                               *)
LEMMA PlanWithStep ==
  ASSUME NEW C \in SUBSET Cards, NEW melds \in Seq(OnTable), NEW i \in DOMAIN melds,
         NEW G \in SUBSET C, CanLayOff(melds[i], G), NEW P, NEW lay,
         IsPlan(C \ G, Applied(melds, [meld |-> i, cards |-> G]), P, lay)
  PROVE  IsPlan(C, melds, P, [lay EXCEPT ![i] = @ \cup G])
<1>. DEFINE T == Applied(melds, [meld |-> i, cards |-> G])
            more == [lay EXCEPT ![i] = @ \cup G]
<1>1. /\ DOMAIN T = DOMAIN melds /\ T[i] = LaidOff(melds[i], G)
      /\ \A j \in DOMAIN melds : j # i => T[j] = melds[j]
      /\ melds[i] \in OnTable /\ G \in SUBSET Cards /\ G # {}
  BY AppliedIs DEF CanLayOff
<1>. HIDE DEF T
<1>2. /\ lay \in [DOMAIN melds -> SUBSET (C \ G)]
      /\ \A j \in DOMAIN melds : lay[j] = {} \/ CanLayOff(T[j], lay[j])
      /\ \A j, k \in DOMAIN melds : j # k => lay[j] \cap lay[k] = {}
      /\ \A H \in P : H \subseteq (C \ G) \ LaidCards(lay) /\ IsMeld(H)
      /\ \A c \in (C \ G) \ LaidCards(lay) : \E H \in P : c \in H
      /\ \A H, K \in P : H # K => H \cap K = {}
  BY <1>1, PlanIs DEF T
<1>3. /\ more \in [DOMAIN melds -> SUBSET C] /\ more[i] = lay[i] \cup G
      /\ \A j \in DOMAIN melds : j # i => more[j] = lay[j]
  BY <1>2
<1>. HIDE DEF more
<1>4. CanLayOff(melds[i], more[i])
  <2>1. CASE lay[i] = {}
    <3>1. more[i] = G
      BY <1>3, <2>1
    <3>. QED
      BY <3>1
  <2>2. CASE lay[i] # {}
    <3>1. CanLayOff(LaidOff(melds[i], G), lay[i]) /\ lay[i] \in SUBSET Cards
      BY <1>1, <1>2, <2>2
    <3>2. CanLayOff(melds[i], G \cup lay[i])
      BY <1>1, <2>2, <3>1, LayOffTwice
    <3>3. more[i] = G \cup lay[i]
      BY <1>3
    <3>. QED
      BY <3>2, <3>3
  <2>. QED
    BY <2>1, <2>2
<1>5. \A j \in DOMAIN melds : more[j] = {} \/ CanLayOff(melds[j], more[j])
  BY <1>1, <1>2, <1>3, <1>4
<1>6. \A j, k \in DOMAIN melds : j # k => more[j] \cap more[k] = {}
  BY <1>2, <1>3
<1>7. C \ LaidCards(more) = (C \ G) \ LaidCards(lay)
  <2>1. ASSUME NEW c PROVE c \in LaidCards(more) <=> c \in LaidCards(lay) \/ c \in G
    BY <1>2, <1>3, LaidIs
  <2>. QED
    BY <2>1
<1>8. IsPlan(C, melds, P, more)
  BY <1>2, <1>3, <1>5, <1>6, <1>7, PlanIs
<1>. QED
  BY <1>8 DEF more

(* A plan puts each card somewhere, and is a plan without that.            *)
LEMMA PlanHasPlace ==
  ASSUME NEW C \in SUBSET Cards, NEW melds \in Seq(OnTable), NEW P, NEW lay,
         IsPlan(C, melds, P, lay), NEW pin \in C
  PROVE  \/ \E G \in P : /\ pin \in G /\ G \in SUBSET C /\ IsMeld(G)
                         /\ IsPlan(C \ G, melds, P \ {G}, lay)
         \/ \E i \in DOMAIN melds :
              /\ pin \in lay[i] /\ lay[i] \in SUBSET C /\ CanLayOff(melds[i], lay[i])
              /\ IsPlan(C \ lay[i], Applied(melds, [meld |-> i, cards |-> lay[i]]), P,
                        [lay EXCEPT ![i] = {}])
<1>1. /\ lay \in [DOMAIN melds -> SUBSET C]
      /\ \A j \in DOMAIN melds : lay[j] = {} \/ CanLayOff(melds[j], lay[j])
      /\ \A j, k \in DOMAIN melds : j # k => lay[j] \cap lay[k] = {}
      /\ \A G \in P : G \subseteq C \ LaidCards(lay) /\ IsMeld(G)
      /\ \A c \in C \ LaidCards(lay) : \E G \in P : c \in G
      /\ \A G, H \in P : G # H => G \cap H = {}
  BY PlanIs
<1>2. CASE pin \notin LaidCards(lay)
  <2>1. PICK G \in P : pin \in G
    BY <1>1, <1>2
  <2>2. lay \in [DOMAIN melds -> SUBSET (C \ G)]
    <3>1. ASSUME NEW i \in DOMAIN melds PROVE lay[i] \in SUBSET (C \ G)
      <4>1. \A c \in lay[i] : c \in LaidCards(lay)
        BY <1>1, LaidIs
      <4>. QED
        BY <1>1, <4>1
    <3>. QED
      BY <1>1, <3>1
  <2>3. /\ \A H \in P \ {G} : H \subseteq (C \ G) \ LaidCards(lay) /\ IsMeld(H)
        /\ \A c \in (C \ G) \ LaidCards(lay) : \E H \in P \ {G} : c \in H
    BY <1>1
  <2>4. IsPlan(C \ G, melds, P \ {G}, lay)
    BY <1>1, <2>2, <2>3, PlanIs
  <2>. QED
    BY <1>1, <2>1, <2>4
<1>3. CASE pin \in LaidCards(lay)
  <2>1. PICK i \in DOMAIN melds : pin \in lay[i]
    BY <1>1, <1>3, LaidIs
  <2>. DEFINE G == lay[i]
              T == Applied(melds, [meld |-> i, cards |-> G])
              less == [lay EXCEPT ![i] = {}]
  <2>2. G \in SUBSET C /\ G \in SUBSET Cards /\ CanLayOff(melds[i], G)
    BY <1>1, <2>1
  <2>3. DOMAIN T = DOMAIN melds /\ \A j \in DOMAIN melds : j # i => T[j] = melds[j]
    BY <2>2, AppliedIs
  <2>4. /\ DOMAIN less = DOMAIN melds /\ less[i] = {}
        /\ \A j \in DOMAIN melds : j # i => less[j] = lay[j]
        /\ less = [j \in DOMAIN melds |-> less[j]]
    BY <1>1
  <2>. HIDE DEF less, T
  <2>5. /\ less \in [DOMAIN melds -> SUBSET (C \ G)]
        /\ \A j \in DOMAIN melds : less[j] = {} \/ CanLayOff(T[j], less[j])
        /\ \A j, k \in DOMAIN melds : j # k => less[j] \cap less[k] = {}
    <3>1. ASSUME NEW j \in DOMAIN melds PROVE less[j] \in SUBSET (C \ G)
      BY <1>1, <2>4
    <3>2. less \in [DOMAIN melds -> SUBSET (C \ G)]
      BY <2>4, <3>1
    <3>3. \A j \in DOMAIN melds : less[j] = {} \/ CanLayOff(T[j], less[j])
      BY <1>1, <2>3, <2>4
    <3>4. \A j, k \in DOMAIN melds : j # k => less[j] \cap less[k] = {}
      BY <1>1, <2>4
    <3>. QED
      BY <3>2, <3>3, <3>4
  <2>6. (C \ G) \ LaidCards(less) = C \ LaidCards(lay)
    <3>1. ASSUME NEW c PROVE c \in LaidCards(lay) <=> c \in LaidCards(less) \/ c \in G
      BY <1>1, <2>4, LaidIs
    <3>. QED
      BY <3>1
  <2>7. IsPlan(C \ G, T, P, less)
    <3>. HIDE DEF G
    <3>. QED
      BY <1>1, <2>3, <2>5, <2>6, PlanIs
  <2>. QED
    BY <2>1, <2>2, <2>7 DEF T, less
<1>. QED
  BY <1>2, <1>3

-----------------------------------------------------------------------------
(* The steps of a plan, and what they lay onto each meld together.         *)

LEMMA LayOfIs ==
  ASSUME NEW melds, NEW steps
  PROVE  /\ LayOf(melds, steps) = [j \in DOMAIN melds |-> LayOf(melds, steps)[j]]
         /\ DOMAIN LayOf(melds, steps) = DOMAIN melds
         /\ \A j \in DOMAIN melds : \A c :
              c \in LayOf(melds, steps)[j]
                <=> \E n \in DOMAIN steps : steps[n].meld = j /\ c \in steps[n].cards
<1>. DEFINE onto(j) == {steps[n].cards : n \in {m \in DOMAIN steps : steps[m].meld = j}}
<1>1. LayOf(melds, steps) = [j \in DOMAIN melds |-> UNION onto(j)]
  BY DEF LayOf
<1>2. \A j, c : c \in UNION onto(j)
                  <=> \E n \in DOMAIN steps : steps[n].meld = j /\ c \in steps[n].cards
  OBVIOUS
<1>. HIDE DEF onto
<1>. QED
  BY <1>1, <1>2

LEMMA LayOfNothing ==
  ASSUME NEW melds
  PROVE  LayOf(melds, <<>>) = [j \in DOMAIN melds |-> {}]
<1>1. \A j \in DOMAIN melds : LayOf(melds, <<>>)[j] = {}
  BY LayOfIs
<1>. QED
  BY <1>1, LayOfIs

LayWithStep(lay, s) == [lay EXCEPT ![s.meld] = @ \cup s.cards]

LEMMA LayOfCons ==
  ASSUME NEW melds, NEW T, DOMAIN T = DOMAIN melds,
         NEW s \in LayOff, s.meld \in DOMAIN melds, NEW q \in Seq(LayOff)
  PROVE  LayOf(melds, <<s>> \o q) = LayWithStep(LayOf(T, q), s)
<1>. DEFINE p == <<s>> \o q
            lay == LayOf(T, q)
            new == LayWithStep(lay, s)
<1>1. /\ p \in Seq(LayOff) /\ Len(p) = Len(q) + 1 /\ Len(q) \in Nat /\ p[1] = s
      /\ \A n \in 1..Len(q) : p[n + 1] = q[n]
  BY ConsIs
<1>. HIDE DEF p
<1>2. DOMAIN p = 1..(Len(q) + 1) /\ DOMAIN q = 1..Len(q)
  BY <1>1
<1>3. ASSUME NEW j, NEW c
      PROVE  (\E n \in DOMAIN p : p[n].meld = j /\ c \in p[n].cards)
               <=> \/ s.meld = j /\ c \in s.cards
                   \/ \E n \in DOMAIN q : q[n].meld = j /\ c \in q[n].cards
  <2>1. ASSUME NEW n \in DOMAIN p, p[n].meld = j, c \in p[n].cards
        PROVE  \/ s.meld = j /\ c \in s.cards
               \/ \E k \in DOMAIN q : q[k].meld = j /\ c \in q[k].cards
    <3>1. CASE n = 1
      BY <1>1, <2>1, <3>1
    <3>2. CASE n # 1
      <4>1. n - 1 \in 1..Len(q) /\ (n - 1) + 1 = n
        BY <1>1, <1>2, <3>2
      <4>2. p[n] = q[n - 1] /\ n - 1 \in DOMAIN q
        BY <1>1, <1>2, <4>1
      <4>. QED
        BY <2>1, <4>2
    <3>. QED
      BY <3>1, <3>2
  <2>2. ASSUME NEW k \in DOMAIN q, q[k].meld = j, c \in q[k].cards
        PROVE  \E n \in DOMAIN p : p[n].meld = j /\ c \in p[n].cards
    <3>1. k + 1 \in DOMAIN p /\ p[k + 1] = q[k]
      BY <1>1, <1>2
    <3>. QED
      BY <2>2, <3>1
  <2>3. ASSUME s.meld = j, c \in s.cards
        PROVE  \E n \in DOMAIN p : p[n].meld = j /\ c \in p[n].cards
    <3>1. 1 \in DOMAIN p /\ p[1] = s
      BY <1>1, <1>2
    <3>. QED
      BY <2>3, <3>1
  <2>. QED
    BY <2>1, <2>2, <2>3
<1>4. DOMAIN lay = DOMAIN melds /\ lay = [j \in DOMAIN melds |-> lay[j]]
  BY LayOfIs
<1>5. /\ DOMAIN new = DOMAIN melds /\ new = [j \in DOMAIN melds |-> new[j]]
      /\ new[s.meld] = lay[s.meld] \cup s.cards
      /\ \A j \in DOMAIN melds : j # s.meld => new[j] = lay[j]
  <2>. HIDE DEF lay
  <2>. QED
    BY <1>4 DEF LayWithStep
<1>6. ASSUME NEW j \in DOMAIN melds PROVE LayOf(melds, p)[j] = new[j]
  <2>1. ASSUME NEW c PROVE c \in LayOf(melds, p)[j] <=> c \in new[j]
    <3>1. c \in LayOf(melds, p)[j] <=> \E n \in DOMAIN p : p[n].meld = j /\ c \in p[n].cards
      BY LayOfIs
    <3>2. c \in lay[j] <=> \E n \in DOMAIN q : q[n].meld = j /\ c \in q[n].cards
      BY LayOfIs
    <3>3. c \in new[j] <=> c \in lay[j] \/ (s.meld = j /\ c \in s.cards)
      <4>. HIDE DEF lay, new
      <4>. QED
        BY <1>5
    <3>. HIDE DEF lay, new
    <3>. QED
      BY <1>3, <3>1, <3>2, <3>3
  <2>. QED
    BY <2>1
<1>7. LayOf(melds, p) = [j \in DOMAIN melds |-> LayOf(melds, p)[j]]
  BY LayOfIs
<1>8. LayOf(melds, p) = new
  <2>. HIDE DEF lay, new
  <2>. QED
    BY <1>5, <1>6, <1>7
<1>. QED
  BY <1>8 DEF p

LEMMA LaidOffTwice ==
  ASSUME NEW m \in OnTable, NEW G \in SUBSET Cards, NEW H \in SUBSET Cards
  PROVE  LaidOff(LaidOff(m, G), H) = LaidOff(m, G \cup H)
<1>1. (m.cards \cup G) \cup H = m.cards \cup (G \cup H)
  OBVIOUS
<1>. DEFINE n == LaidOff(m, G)
<1>2. n \in OnTable /\ n.cards = m.cards \cup G /\ n.kind = m.kind /\ n.owner = m.owner
  <2>1. n.owner = m.owner
    BY DEF LaidOff, OnTable
  <2>. QED
    BY <2>1, LaidOffIs
<1>. HIDE DEF n
<1>3. LaidOff(n, H) = LaidOff(m, G \cup H)
  BY <1>1, <1>2 DEF LaidOff, OnTable
<1>. QED
  BY <1>3 DEF n

(* Laying off once and then the rest is laying off everything at once.     *)
LEMMA GrownAfterStep ==
  ASSUME NEW melds \in Seq(OnTable), NEW i \in DOMAIN melds, NEW G \in SUBSET Cards, G # {},
         NEW lay \in [DOMAIN melds -> SUBSET Cards]
  PROVE  GrownTable(Applied(melds, [meld |-> i, cards |-> G]), lay)
           = GrownTable(melds, LayWithStep(lay, [meld |-> i, cards |-> G]))
<1>. DEFINE T == Applied(melds, [meld |-> i, cards |-> G])
            more == LayWithStep(lay, [meld |-> i, cards |-> G])
<1>1. /\ DOMAIN T = DOMAIN melds /\ T[i] = LaidOff(melds[i], G)
      /\ \A j \in DOMAIN melds : j # i => T[j] = melds[j]
      /\ melds[i] \in OnTable
  BY AppliedIs
<1>2. more[i] = lay[i] \cup G /\ \A j \in DOMAIN melds : j # i => more[j] = lay[j]
  BY DEF LayWithStep
<1>. HIDE DEF T, more
<1>3. ASSUME NEW j \in DOMAIN melds
      PROVE  (IF lay[j] = {} THEN T[j] ELSE LaidOff(T[j], lay[j]))
               = (IF more[j] = {} THEN melds[j] ELSE LaidOff(melds[j], more[j]))
  <2>1. CASE j # i
    BY <1>1, <1>2, <2>1
  <2>2. CASE j = i /\ lay[j] = {}
    <3>1. more[j] = G
      BY <1>2, <2>2
    <3>. QED
      BY <1>1, <2>2, <3>1
  <2>3. CASE j = i /\ lay[j] # {}
    <3>1. more[j] = G \cup lay[j] /\ more[j] # {}
      BY <1>2, <2>3
    <3>2. LaidOff(LaidOff(melds[i], G), lay[j]) = LaidOff(melds[i], G \cup lay[j])
      BY <1>1, LaidOffTwice
    <3>. QED
      BY <1>1, <2>3, <3>1, <3>2
  <2>. QED
    BY <2>1, <2>2, <2>3
<1>4. GrownTable(T, lay) = GrownTable(melds, more)
  BY <1>1, <1>3 DEF GrownTable
<1>. QED
  BY <1>4 DEF T, more

-----------------------------------------------------------------------------
(* What the search returns is a plan of the rules.                         *)

Amounts(C, melds, sub) ==
  /\ IsPlan(C, melds, sub.groups, LayOf(melds, sub.steps))
  /\ TableAfter(melds, sub.steps)[Len(sub.steps)] = GrownTable(melds, LayOf(melds, sub.steps))

LEMMA AmountsToNothing ==
  ASSUME NEW melds \in Seq(OnTable)
  PROVE  Amounts({}, melds, [groups |-> {}, steps |-> <<>>])
<1>. DEFINE none == [j \in DOMAIN melds |-> {}]
<1>1. LayOf(melds, <<>>) = none
  BY LayOfNothing
<1>2. IsPlan({}, melds, {}, none)
  BY PlanOfNothing
<1>3. GrownTable(melds, none) = melds
  BY DEF GrownTable
<1>4. TableAfter(melds, <<>>)[0] = melds /\ Len(<<>>) = 0
  BY TableAfterIs
<1>. HIDE DEF none
<1>. QED
  BY <1>1, <1>2, <1>3, <1>4 DEF Amounts

LEMMA AmountsWithStep ==
  ASSUME NEW C \in SUBSET Cards, NEW melds \in Seq(OnTable), NEW i \in DOMAIN melds,
         NEW G \in SUBSET C, CanLayOff(melds[i], G), NEW gs, NEW q \in Seq(LayOff),
         Amounts(C \ G, Applied(melds, [meld |-> i, cards |-> G]), [groups |-> gs, steps |-> q])
  PROVE  Amounts(C, melds, [groups |-> gs, steps |-> <<[meld |-> i, cards |-> G]>> \o q])
<1>. DEFINE s == [meld |-> i, cards |-> G]
            T == Applied(melds, s)
            p == <<s>> \o q
            lay == LayOf(T, q)
            more == LayWithStep(lay, s)
<1>1. /\ DOMAIN T = DOMAIN melds /\ s \in LayOff /\ s.meld = i /\ s.cards = G
      /\ G \in SUBSET Cards /\ G # {}
  <2>1. G \in SUBSET Cards /\ i \in Nat /\ G # {}
    BY DEF CanLayOff
  <2>. QED
    BY <2>1, AppliedIs DEF LayOff
<1>2. IsPlan(C \ G, T, gs, lay) /\ TableAfter(T, q)[Len(q)] = GrownTable(T, lay)
  BY DEF Amounts
<1>3. IsPlan(C, melds, gs, more)
  <2>. HIDE DEF lay
  <2>1. IsPlan(C, melds, gs, [lay EXCEPT ![i] = @ \cup G])
    BY <1>2, PlanWithStep
  <2>. QED
    BY <2>1 DEF LayWithStep
<1>4. lay \in [DOMAIN melds -> SUBSET Cards]
  <2>. HIDE DEF lay, T
  <2>1. lay \in [DOMAIN melds -> SUBSET (C \ G)]
    BY <1>1, <1>2, PlanIs
  <2>. QED
    BY <2>1
<1>5. GrownTable(T, lay) = GrownTable(melds, more)
  <2>. HIDE DEF lay
  <2>. QED
    BY <1>1, <1>4, GrownAfterStep
<1>6. LayOf(melds, p) = more
  <2>. HIDE DEF s, T
  <2>. QED
    BY <1>1, LayOfCons
<1>7. TableAfter(melds, p)[Len(q) + 1] = TableAfter(T, q)[Len(q)] /\ Len(p) = Len(q) + 1
  <2>1. Len(q) \in 0..Len(q)
    OBVIOUS
  <2>. HIDE DEF s
  <2>. QED
    BY <1>1, <2>1, TableAfterCons, ConsIs
<1>. HIDE DEF lay, more, T, p
<1>8. Amounts(C, melds, [groups |-> gs, steps |-> p])
  BY <1>2, <1>3, <1>5, <1>6, <1>7 DEF Amounts
<1>. QED
  BY <1>8 DEF p, s

LEMMA SplitsAmountToPlans ==
  ASSUME NEW h \in Seq(Cards), NEW left \in SUBSET ToSet(h), NEW melds \in Seq(OnTable),
         NEW sub \in PartitionForKnock(h)[left][melds]
  PROVE  Amounts(left, melds, sub)
<1>. DEFINE f == PartitionForKnock(h)
            T == {C \in SUBSET ToSet(h) :
                    \E m \in Seq(OnTable) : \E x \in f[C][m] : ~ Amounts(C, m, x)}
<1>1. SUFFICES ASSUME T # {} PROVE FALSE
  <2>1. left \notin T
    BY <1>1
  <2>. QED
    BY <2>1
<1>2. PICK C \in T : \A D \in T : D \subseteq C => D = C
  <2>1. T \subseteq SUBSET ToSet(h)
    OBVIOUS
  <2>2. ToSet(h) \in SUBSET ToSet(h)
    OBVIOUS
  <2>3. IsFiniteSet(ToSet(h))
    BY <2>2, HandFinite
  <2>. HIDE DEF T
  <2>. QED
    BY <1>1, <2>1, <2>3, Smallest
<1>3. PICK m \in Seq(OnTable) : \E x \in f[C][m] : ~ Amounts(C, m, x)
  OBVIOUS
<1>4. PICK x \in f[C][m] : ~ Amounts(C, m, x)
  BY <1>3
<1>5. C \in SUBSET ToSet(h) /\ C \in SUBSET Cards
  BY HandFinite
<1>6. f[C][m] = Placed(h, f, C, m)
  BY <1>5, SearchIs
<1>7. C # {}
  <2>. HIDE DEF f, T
  <2>1. CASE C = {}
    <3>1. Placed(h, f, C, m) = {[groups |-> {}, steps |-> <<>>]}
      BY <2>1, PlacedNothing
    <3>2. x = [groups |-> {}, steps |-> <<>>]
      BY <1>4, <1>6, <3>1
    <3>3. Amounts(C, m, [groups |-> {}, steps |-> <<>>])
      BY <2>1, AmountsToNothing
    <3>. QED
      BY <1>4, <3>2, <3>3
  <2>. QED
    BY <2>1
<1>. DEFINE pin == FirstOf(h, C)
<1>8. pin \in C
  BY <1>5, <1>7, FirstIsLeft
<1>9. ASSUME NEW G \in SUBSET C, pin \in G, NEW n \in Seq(OnTable), NEW y \in f[C \ G][n]
      PROVE  /\ Amounts(C \ G, n, y)
             /\ y = [groups |-> y.groups, steps |-> y.steps] /\ y.steps \in Seq(LayOff)
  <2>1. C \ G \in SUBSET ToSet(h) /\ C \ G \subseteq C /\ C \ G # C
    BY <1>5, <1>8, <1>9
  <2>2. C \ G \notin T
    BY <1>2, <2>1
  <2>3. Playable(C \ G, n, y)
    BY <2>1, SplitsArePlayable
  <2>. QED
    BY <2>1, <2>2, <2>3 DEF Playable
<1>. HIDE DEF T, f, pin
<1>10. \/ \E G \in NewMelds(pin, C \ {pin}) : x \in WithMeld(G, f[C \ G][m])
       \/ \E s \in LayOffSteps(pin, C \ {pin}, m) : x \in WithStep(s, f[C \ s.cards][Applied(m, s)])
  <2>1. x \in Placed(h, f, C, m)
    BY <1>4, <1>6
  <2>. QED
    BY <1>7, <2>1, PlacedHas DEF pin
<1>11. ~ \E G \in NewMelds(pin, C \ {pin}) : x \in WithMeld(G, f[C \ G][m])
  <2>. SUFFICES ASSUME NEW G \in NewMelds(pin, C \ {pin}), x \in WithMeld(G, f[C \ G][m])
                PROVE  FALSE
    OBVIOUS
  <2>1. PICK y \in f[C \ G][m] : x = [y EXCEPT !.groups = @ \cup {G}]
    BY DEF WithMeld
  <2>2. pin \in G /\ G \in SUBSET C /\ IsMeld(G)
    BY <1>8, ChoicesAre
  <2>3. Amounts(C \ G, m, y) /\ y = [groups |-> y.groups, steps |-> y.steps]
    BY <1>9, <2>1, <2>2
  <2>4. x.groups = y.groups \cup {G} /\ x.steps = y.steps
    BY <2>1, <2>3
  <2>5. IsPlan(C, m, y.groups \cup {G}, LayOf(m, y.steps))
    BY <2>2, <2>3, PlanWithMeld DEF Amounts
  <2>6. Amounts(C, m, x)
    BY <2>3, <2>4, <2>5 DEF Amounts
  <2>. QED
    BY <1>4, <2>6
<1>12. ~ \E s \in LayOffSteps(pin, C \ {pin}, m) : x \in WithStep(s, f[C \ s.cards][Applied(m, s)])
  <2>. SUFFICES ASSUME NEW s \in LayOffSteps(pin, C \ {pin}, m),
                       x \in WithStep(s, f[C \ s.cards][Applied(m, s)])
                PROVE  FALSE
    OBVIOUS
  <2>1. PICK y \in f[C \ s.cards][Applied(m, s)] : x = [y EXCEPT !.steps = <<s>> \o @]
    BY DEF WithStep
  <2>2. PICK i, G : s = [meld |-> i, cards |-> G]
    BY <1>8, ChoicesAre
  <2>3. /\ i \in DOMAIN m /\ pin \in G /\ G \in SUBSET C /\ G \in SUBSET Cards
        /\ CanLayOff(m[i], G) /\ s.cards = G
    BY <1>5, <1>8, <2>2, ChoicesAre
  <2>4. Applied(m, s) \in Seq(OnTable)
    BY <2>2, <2>3, AppliedIs
  <2>5. /\ Amounts(C \ G, Applied(m, s), y)
        /\ y = [groups |-> y.groups, steps |-> y.steps] /\ y.steps \in Seq(LayOff)
    <3>1. y \in f[C \ G][Applied(m, s)]
      BY <2>1, <2>3
    <3>. QED
      BY <1>9, <2>3, <2>4, <3>1
  <2>6. x = [groups |-> y.groups, steps |-> <<s>> \o y.steps]
    <3>1. x = [y EXCEPT !.steps = <<s>> \o y.steps]
      BY <2>1
    <3>. QED
      BY <2>5, <3>1
  <2>7. Amounts(C, m, [groups |-> y.groups, steps |-> <<[meld |-> i, cards |-> G]>> \o y.steps])
    BY <1>5, <2>2, <2>3, <2>5, AmountsWithStep
  <2>. QED
    BY <1>4, <2>2, <2>6, <2>7
<1>. QED
  BY <1>10, <1>11, <1>12

-----------------------------------------------------------------------------
(* The search returns every plan of the rules.                             *)

Found(splits, melds, P, lay) ==
  \E x \in splits : /\ x.groups = P /\ LayOf(melds, x.steps) = lay
                    /\ x = [groups |-> x.groups, steps |-> x.steps]
                    /\ x.steps \in Seq(LayOff)

LEMMA PlansAreFound ==
  ASSUME NEW h \in Seq(Cards), NEW left \in SUBSET ToSet(h), NEW melds \in Seq(OnTable),
         NEW P, NEW lay, IsPlan(left, melds, P, lay)
  PROVE  Found(PartitionForKnock(h)[left][melds], melds, P, lay)
<1>. DEFINE f == PartitionForKnock(h)
            T == {C \in SUBSET ToSet(h) :
                    \E m \in Seq(OnTable) : \E Q, l : IsPlan(C, m, Q, l) /\ ~ Found(f[C][m], m, Q, l)}
<1>1. SUFFICES ASSUME T # {} PROVE FALSE
  <2>1. left \notin T
    BY <1>1
  <2>. QED
    BY <2>1
<1>2. PICK C \in T : \A D \in T : D \subseteq C => D = C
  <2>1. T \subseteq SUBSET ToSet(h)
    OBVIOUS
  <2>2. ToSet(h) \in SUBSET ToSet(h)
    OBVIOUS
  <2>3. IsFiniteSet(ToSet(h))
    BY <2>2, HandFinite
  <2>. HIDE DEF T
  <2>. QED
    BY <1>1, <2>1, <2>3, Smallest
<1>3. PICK m \in Seq(OnTable) : \E Q, l : IsPlan(C, m, Q, l) /\ ~ Found(f[C][m], m, Q, l)
  OBVIOUS
<1>4. PICK Q, l : IsPlan(C, m, Q, l) /\ ~ Found(f[C][m], m, Q, l)
  BY <1>3
<1>5. C \in SUBSET ToSet(h) /\ C \in SUBSET Cards
  BY HandFinite
<1>6. f[C][m] = Placed(h, f, C, m)
  BY <1>5, SearchIs
<1>7. C # {}
  <2>. HIDE DEF f, T
  <2>1. CASE C = {}
    <3>1. Placed(h, f, C, m) = {[groups |-> {}, steps |-> <<>>]}
      BY <2>1, PlacedNothing
    <3>2. Q = {} /\ l = [j \in DOMAIN m |-> {}]
      BY <1>4, <2>1, PlanOfNothing
    <3>3. LayOf(m, <<>>) = l
      BY <3>2, LayOfNothing
    <3>. QED
      BY <1>4, <1>6, <3>1, <3>2, <3>3 DEF Found
  <2>. QED
    BY <2>1
<1>. DEFINE pin == FirstOf(h, C)
<1>8. pin \in C
  BY <1>5, <1>7, FirstIsLeft
<1>9. ASSUME NEW G \in SUBSET C, pin \in G, NEW n \in Seq(OnTable), NEW R, NEW k,
             IsPlan(C \ G, n, R, k)
      PROVE  Found(f[C \ G][n], n, R, k)
  <2>1. C \ G \in SUBSET ToSet(h) /\ C \ G \subseteq C /\ C \ G # C
    BY <1>5, <1>8, <1>9
  <2>2. C \ G \notin T
    BY <1>2, <2>1
  <2>. QED
    BY <1>9, <2>1, <2>2
<1>. HIDE DEF T, f, pin
<1>10. ASSUME NEW x,
              \/ \E G \in NewMelds(pin, C \ {pin}) : x \in WithMeld(G, f[C \ G][m])
              \/ \E s \in LayOffSteps(pin, C \ {pin}, m) :
                   x \in WithStep(s, f[C \ s.cards][Applied(m, s)])
       PROVE  x \in f[C][m]
  <2>1. x \in Placed(h, f, C, m)
    BY <1>7, <1>10, PlacedHas DEF pin
  <2>. QED
    BY <1>6, <2>1
<1>11. CASE \E G \in Q : /\ pin \in G /\ G \in SUBSET C /\ IsMeld(G)
                         /\ IsPlan(C \ G, m, Q \ {G}, l)
  <2>1. PICK G \in Q : /\ pin \in G /\ G \in SUBSET C /\ IsMeld(G)
                       /\ IsPlan(C \ G, m, Q \ {G}, l)
    BY <1>11
  <2>2. PICK y \in f[C \ G][m] : /\ y.groups = Q \ {G} /\ LayOf(m, y.steps) = l
                                 /\ y = [groups |-> y.groups, steps |-> y.steps]
                                 /\ y.steps \in Seq(LayOff)
    <3>1. Found(f[C \ G][m], m, Q \ {G}, l)
      BY <1>9, <2>1
    <3>. QED
      BY <3>1 DEF Found
  <2>3. PICK x : x = [y EXCEPT !.groups = @ \cup {G}]
    OBVIOUS
  <2>4. x \in WithMeld(G, f[C \ G][m])
    BY <2>2, <2>3 DEF WithMeld
  <2>5. G \in NewMelds(pin, C \ {pin})
    BY <1>8, <2>1, ChoicesAre
  <2>6. x \in f[C][m]
    BY <1>10, <2>4, <2>5
  <2>7. x = [groups |-> Q, steps |-> y.steps]
    <3>1. x = [groups |-> y.groups \cup {G}, steps |-> y.steps]
      BY <2>2, <2>3
    <3>2. y.groups \cup {G} = Q
      BY <2>1, <2>2
    <3>. QED
      BY <3>1, <3>2
  <2>. QED
    BY <1>4, <2>2, <2>6, <2>7 DEF Found
<1>12. CASE \E i \in DOMAIN m :
              /\ pin \in l[i] /\ l[i] \in SUBSET C /\ CanLayOff(m[i], l[i])
              /\ IsPlan(C \ l[i], Applied(m, [meld |-> i, cards |-> l[i]]), Q, [l EXCEPT ![i] = {}])
  <2>1. PICK i \in DOMAIN m :
          /\ pin \in l[i] /\ l[i] \in SUBSET C /\ CanLayOff(m[i], l[i])
          /\ IsPlan(C \ l[i], Applied(m, [meld |-> i, cards |-> l[i]]), Q, [l EXCEPT ![i] = {}])
    BY <1>12
  <2>. DEFINE G == l[i]
              s == [meld |-> i, cards |-> G]
              less == [l EXCEPT ![i] = {}]
  <2>2. /\ pin \in G /\ G \in SUBSET C /\ G \in SUBSET Cards /\ CanLayOff(m[i], G)
        /\ IsPlan(C \ G, Applied(m, s), Q, less)
    BY <1>5, <2>1
  <2>3. /\ s \in LayOffSteps(pin, C \ {pin}, m) /\ s \in LayOff
        /\ s.cards = G /\ s.meld = i
    <3>. HIDE DEF G
    <3>1. i \in Nat
      OBVIOUS
    <3>. QED
      BY <1>8, <2>2, <3>1, ChoicesAre DEF LayOff
  <2>4. Applied(m, s) \in Seq(OnTable) /\ DOMAIN Applied(m, s) = DOMAIN m
    <3>. HIDE DEF G
    <3>. QED
      BY <2>2, AppliedIs
  <2>5. DOMAIN l = DOMAIN m /\ l = [j \in DOMAIN m |-> l[j]]
    <3>1. l \in [DOMAIN m -> SUBSET C]
      BY <1>4, PlanIs
    <3>. QED
      BY <3>1
  <2>6. LayWithStep(less, s) = l
    BY <2>5 DEF LayWithStep
  <2>. HIDE DEF G, s, less
  <2>7. PICK y \in f[C \ G][Applied(m, s)] :
          /\ y.groups = Q /\ LayOf(Applied(m, s), y.steps) = less
          /\ y = [groups |-> y.groups, steps |-> y.steps] /\ y.steps \in Seq(LayOff)
    <3>1. Found(f[C \ G][Applied(m, s)], Applied(m, s), Q, less)
      BY <1>9, <2>2, <2>4
    <3>. QED
      BY <3>1 DEF Found
  <2>8. PICK x : x = [y EXCEPT !.steps = <<s>> \o @]
    OBVIOUS
  <2>9. x \in WithStep(s, f[C \ s.cards][Applied(m, s)])
    BY <2>3, <2>7, <2>8 DEF WithStep
  <2>10. x \in f[C][m]
    BY <1>10, <2>3, <2>9
  <2>11. x = [groups |-> Q, steps |-> <<s>> \o y.steps]
    <3>1. x = [y EXCEPT !.steps = <<s>> \o y.steps]
      BY <2>8
    <3>. QED
      BY <2>7, <3>1
  <2>12. LayOf(m, <<s>> \o y.steps) = l
    <3>1. s.meld \in DOMAIN m
      BY <2>3
    <3>2. LayOf(m, <<s>> \o y.steps) = LayWithStep(LayOf(Applied(m, s), y.steps), s)
      BY <2>3, <2>4, <2>7, <3>1, LayOfCons
    <3>. QED
      BY <2>6, <2>7, <3>2
  <2>13. <<s>> \o y.steps \in Seq(LayOff)
    BY <2>3, <2>7, ConsIs
  <2>. QED
    BY <1>4, <2>10, <2>11, <2>12, <2>13 DEF Found
<1>. QED
  BY <1>4, <1>5, <1>8, <1>11, <1>12, PlanHasPlace

-----------------------------------------------------------------------------
(* The solver.                                                             *)

KnocksWith(H, melds, x, k) ==
  \E P, lay : /\ IsPlan(H \ {k}, melds, P, lay)
              /\ x = [card |-> k, groups |-> P, lay |-> lay]

LEMMA KnockPlanIs ==
  ASSUME NEW H, NEW melds, NEW x
  PROVE  x \in KnockPlans(H, melds)
           <=> ~ (Cardinality(H) < 2) /\ \E k \in H : KnocksWith(H, melds, x, k)
<1>. DEFINE With(k, lay) == {[card |-> k, groups |-> P, lay |-> lay] :
                               P \in Partitions((H \ {k}) \ LaidCards(lay))}
            Of(k) == UNION {With(k, lay) : lay \in LayoffChoices(H \ {k}, melds)}
<1>1. KnockPlans(H, melds) = IF Cardinality(H) < 2 THEN {} ELSE UNION {Of(k) : k \in H}
  BY DEF KnockPlans
<1>2. ASSUME NEW k PROVE x \in Of(k) <=> KnocksWith(H, melds, x, k)
  <2>1. \A lay : x \in With(k, lay)
                   <=> \E P \in Partitions((H \ {k}) \ LaidCards(lay)) :
                         x = [card |-> k, groups |-> P, lay |-> lay]
    OBVIOUS
  <2>. HIDE DEF With
  <2>2. x \in Of(k) <=> \E lay \in LayoffChoices(H \ {k}, melds) : x \in With(k, lay)
    OBVIOUS
  <2>. HIDE DEF Of
  <2>. QED
    BY <2>1, <2>2 DEF IsPlan, KnocksWith
<1>. HIDE DEF Of
<1>3. x \in (UNION {Of(k) : k \in H}) <=> \E k \in H : x \in Of(k)
  OBVIOUS
<1>. QED
  BY <1>1, <1>2, <1>3

LEMMA HandCounts ==
  ASSUME NEW h \in Seq(Cards), \A i, j \in DOMAIN h : i # j => h[i] # h[j]
  PROVE  Cardinality(ToSet(h)) = Len(h)
<1>. DEFINE H == ToSet(h)
<1>1. h \in Bijection(1..Len(h), H)
  BY DEF Bijection, Injection, Surjection, IsInjective, ToSet
<1>2. Cardinality(1..Len(h)) = Len(h) /\ IsFiniteSet(1..Len(h))
  <2>1. Len(h) \in Nat /\ 1 \in Int
    OBVIOUS
  <2>. HIDE DEF H
  <2>. QED
    BY <2>1, FS_Interval
<1>. QED
  BY <1>1, <1>2, FS_Bijection DEF ExistsBijection

PlannedBy(h, melds, plan, k) ==
  \E sub \in PartitionForKnock(h)[ToSet(h) \ {k}][melds] :
    plan = [card |-> k, groups |-> sub.groups, steps |-> sub.steps]

LEMMA SolverPlanIs ==
  ASSUME NEW h \in Seq(Cards), NEW melds, NEW plan
  PROVE  plan \in SolveAutoKnock(h, melds)
           <=> ~ (Len(h) < 2) /\ \E k \in ToSet(h) : PlannedBy(h, melds, plan, k)
<1>1. SolveAutoKnock(h, melds)
        = IF Len(h) < 2 THEN {} ELSE UNION {PlansFor(h, k, melds) : k \in ToSet(h)}
  BY DEF SolveAutoKnock
<1>2. ASSUME NEW k PROVE plan \in PlansFor(h, k, melds) <=> PlannedBy(h, melds, plan, k)
  BY DEF PlansFor, PlannedBy
<1>3. plan \in (UNION {PlansFor(h, k, melds) : k \in ToSet(h)})
        <=> \E k \in ToSet(h) : plan \in PlansFor(h, k, melds)
  OBVIOUS
<1>. QED
  BY <1>1, <1>2, <1>3

(* For a hand and a table of any size, in whatever order the hand is held, *)
(* the plans the search can return are, with the layoffs onto each meld    *)
(* taken together, those the rules allow: no more, and the pinned card     *)
(* loses none (autoknock.go:29-110).                                       *)
THEOREM SolverFindsPlans ==
  ASSUME NEW h \in Seq(Cards), NEW melds \in Seq(OnTable),
         \A i, j \in DOMAIN h : i # j => h[i] # h[j]
  PROVE  {Gathered(melds, plan) : plan \in SolveAutoKnock(h, melds)}
           = KnockPlans(ToSet(h), melds)
<1>. DEFINE H == ToSet(h)
            S == SolveAutoKnock(h, melds)
<1>1. Cardinality(H) = Len(h)
  BY HandCounts
<1>2. ASSUME NEW plan
      PROVE  plan \in S <=> ~ (Len(h) < 2) /\ \E k \in H : PlannedBy(h, melds, plan, k)
  BY SolverPlanIs
<1>3. \A k : H \ {k} \in SUBSET ToSet(h) /\ H = ToSet(h)
  OBVIOUS
<1>. HIDE DEF H, S
<1>4. ASSUME NEW plan \in S PROVE Gathered(melds, plan) \in KnockPlans(H, melds)
  <2>1. ~ (Len(h) < 2) /\ \E k \in H : PlannedBy(h, melds, plan, k)
    BY <1>2, <1>4
  <2>2. PICK k \in H : PlannedBy(h, melds, plan, k)
    BY <2>1
  <2>3. PICK sub \in PartitionForKnock(h)[H \ {k}][melds] :
               plan = [card |-> k, groups |-> sub.groups, steps |-> sub.steps]
    BY <1>3, <2>2 DEF PlannedBy
  <2>4. IsPlan(H \ {k}, melds, sub.groups, LayOf(melds, sub.steps))
    BY <1>3, SplitsAmountToPlans DEF Amounts
  <2>5. Gathered(melds, plan)
          = [card |-> k, groups |-> sub.groups, lay |-> LayOf(melds, sub.steps)]
    BY <2>3 DEF Gathered
  <2>6. KnocksWith(H, melds, Gathered(melds, plan), k)
    BY <2>4, <2>5 DEF KnocksWith
  <2>. QED
    BY <1>1, <2>1, <2>6, KnockPlanIs
<1>5. ASSUME NEW x \in KnockPlans(H, melds) PROVE \E plan \in S : x = Gathered(melds, plan)
  <2>1. ~ (Cardinality(H) < 2) /\ \E k \in H : KnocksWith(H, melds, x, k)
    BY KnockPlanIs
  <2>2. PICK k \in H : KnocksWith(H, melds, x, k)
    BY <2>1
  <2>3. PICK P, lay : /\ IsPlan(H \ {k}, melds, P, lay)
                      /\ x = [card |-> k, groups |-> P, lay |-> lay]
    BY <2>2 DEF KnocksWith
  <2>4. Found(PartitionForKnock(h)[H \ {k}][melds], melds, P, lay)
    BY <1>3, <2>3, PlansAreFound
  <2>5. PICK sub \in PartitionForKnock(h)[H \ {k}][melds] :
               sub.groups = P /\ LayOf(melds, sub.steps) = lay
    BY <2>4 DEF Found
  <2>6. PICK plan : plan = [card |-> k, groups |-> sub.groups, steps |-> sub.steps]
    OBVIOUS
  <2>7. PlannedBy(h, melds, plan, k)
    BY <1>3, <2>5, <2>6 DEF PlannedBy
  <2>8. plan \in S
    BY <1>1, <1>2, <2>1, <2>2, <2>7
  <2>9. x = Gathered(melds, plan)
    BY <2>3, <2>5, <2>6 DEF Gathered
  <2>. QED
    BY <2>8, <2>9
<1>6. {Gathered(melds, plan) : plan \in S} = KnockPlans(H, melds)
  BY <1>4, <1>5
<1>. QED
  BY <1>6 DEF S, H

(* One layoff after the other leaves the table that all at once do.        *)
THEOREM StepsLeaveTheSameTable ==
  ASSUME NEW h \in Seq(Cards), NEW melds \in Seq(OnTable),
         NEW plan \in SolveAutoKnock(h, melds)
  PROVE  TableAfter(melds, plan.steps)[Len(plan.steps)]
           = GrownTable(melds, Gathered(melds, plan).lay)
<1>1. PICK k \in ToSet(h) : PlannedBy(h, melds, plan, k)
  BY SolverPlanIs
<1>2. PICK sub \in PartitionForKnock(h)[ToSet(h) \ {k}][melds] :
             plan = [card |-> k, groups |-> sub.groups, steps |-> sub.steps]
  BY <1>1 DEF PlannedBy
<1>3. ToSet(h) \ {k} \in SUBSET ToSet(h)
  OBVIOUS
<1>4. Amounts(ToSet(h) \ {k}, melds, sub)
  BY <1>3, SplitsAmountToPlans
<1>5. plan.steps = sub.steps /\ Gathered(melds, plan).lay = LayOf(melds, plan.steps)
  BY <1>2 DEF Gathered
<1>. QED
  BY <1>4, <1>5 DEF Amounts

(* Every layoff of a plan is legal when its turn comes, on the table the   *)
(* ones before it leave, and the plan places each card but the knock card  *)
(* exactly once, for a hand and a table of any size: applyAutoKnock plays  *)
(* it without an error half way (engine.go:353-403).                       *)
CanBePlayed(h, melds, plan) ==
  /\ plan.card \in ToSet(h)
  /\ \A G \in plan.groups : IsMeld(G)
  /\ \A n \in DOMAIN plan.steps :
       LET before == TableAfter(melds, plan.steps)[n - 1]
           step == plan.steps[n] IN
       step.meld \in DOMAIN melds /\ CanLayOff(before[step.meld], step.cards)
  /\ PlanCards(plan) = ToSet(h) \ {plan.card}
  /\ PlanIsDisjoint(plan)

THEOREM SolverPlansCanBePlayed ==
  ASSUME NEW h \in Seq(Cards), NEW melds \in Seq(OnTable),
         NEW plan \in SolveAutoKnock(h, melds)
  PROVE  CanBePlayed(h, melds, plan)
<1>1. PICK k \in ToSet(h) : plan \in PlansFor(h, k, melds)
  <2>1. plan \in UNION {PlansFor(h, k, melds) : k \in ToSet(h)}
    BY DEF SolveAutoKnock
  <2>. QED
    BY <2>1
<1>. DEFINE C == ToSet(h) \ {k}
<1>2. C \in SUBSET ToSet(h)
  OBVIOUS
<1>. HIDE DEF C
<1>3. PICK sub \in PartitionForKnock(h)[C][melds] :
        plan = [card |-> k, groups |-> sub.groups, steps |-> sub.steps]
  BY <1>1 DEF PlansFor, C
<1>4. Playable(C, melds, sub)
  BY <1>2, SplitsArePlayable
<1>5. plan.card = k /\ plan.groups = sub.groups /\ plan.steps = sub.steps
  BY <1>3
<1>6. /\ \A G \in plan.groups : IsMeld(G) /\ G \subseteq C
      /\ \A n \in DOMAIN plan.steps :
           /\ plan.steps[n].cards \subseteq C
           /\ plan.steps[n].meld \in DOMAIN melds
           /\ CanLayOff(TableAfter(melds, plan.steps)[n - 1][plan.steps[n].meld],
                        plan.steps[n].cards)
      /\ \A c \in C : \/ \E G \in plan.groups : c \in G
                      \/ \E n \in DOMAIN plan.steps : c \in plan.steps[n].cards
      /\ PlanIsDisjoint(plan)
  BY <1>4, <1>5 DEF Playable, PlanIsDisjoint
<1>7. PlanCards(plan) = C
  <2>1. ASSUME NEW c PROVE c \in PlanCards(plan) <=> c \in C
    <3>. DEFINE laid == {plan.steps[n].cards : n \in DOMAIN plan.steps}
    <3>1. c \in PlanCards(plan) <=> (\E G \in plan.groups : c \in G) \/ (\E G \in laid : c \in G)
      BY DEF PlanCards
    <3>2. (\E G \in laid : c \in G) <=> \E n \in DOMAIN plan.steps : c \in plan.steps[n].cards
      OBVIOUS
    <3>. QED
      BY <1>6, <3>1, <3>2
  <2>. QED
    BY <2>1
<1>. QED
  BY <1>5, <1>6, <1>7 DEF CanBePlayed, C

-----------------------------------------------------------------------------
(* The hands and tables the solver and the advisors are asked about.       *)

SearchInv ==
  /\ FairTable
  /\ table \in Seq(OnTable)
  /\ \A i, j \in DOMAIN hand : i # j => hand[i] # hand[j]
  /\ answer \in {NotAsked, <<SolveAutoKnock(hand, table)>>}

LEMMA HeldIsDistinct ==
  ASSUME Held
  PROVE  table \in Seq(OnTable) /\ \A i, j \in DOMAIN hand : i # j => hand[i] # hand[j]
<1>1. PICK H \in SUBSET Cards : /\ Cardinality(H) \in 1..MaxHand
                                /\ hand \in SetToSeqs(H)
                                /\ table \in Tables(Cards \ H)
  BY DEF Held
<1>2. \A i, j \in DOMAIN hand : i # j => hand[i] # hand[j]
  BY <1>1 DEF SetToSeqs, IsInjective
<1>3. ASSUME NEW G \in NewMeldsIn(Cards \ H), NEW o \in Nat PROVE MeldOf(G, o) \in OnTable
  <2>1. G \in SUBSET Cards /\ KindOf(G) \in {"set", "run"} /\ AceActsHigh(G) \in BOOLEAN
    BY DEF NewMeldsIn, KindOf, AceActsHigh
  <2>. QED
    BY <2>1 DEF MeldOf, OnTable
<1>4. table \in Seq(OnTable)
  <2>1. CASE table = <<>>
    BY <2>1
  <2>2. CASE \E G \in NewMeldsIn(Cards \ H) : table = <<MeldOf(G, 0)>>
    BY <1>3, <2>2
  <2>3. CASE \E G, F \in NewMeldsIn(Cards \ H) : table = <<MeldOf(G, 0), MeldOf(F, 1)>>
    BY <1>3, <2>3
  <2>. QED
    BY <1>1, <2>1, <2>2, <2>3 DEF Tables
<1>. QED
  BY <1>2, <1>4

LEMMA SearchInvHolds == SearchSpec => []SearchInv
<1>1. SearchInit => SearchInv
  BY HeldIsFair, HeldIsDistinct DEF SearchInit, SearchInv
<1>2. SearchInv /\ [SearchNext]_searchVars => SearchInv'
  <2>. SUFFICES ASSUME SearchInv, [SearchNext]_searchVars PROVE SearchInv'
    OBVIOUS
  <2>1. hand' = hand /\ table' = table
    BY DEF SearchNext, Ask, searchVars
  <2>2. answer' \in {NotAsked, <<SolveAutoKnock(hand, table)>>}
    BY DEF SearchInv, SearchNext, Ask, searchVars
  <2>. QED
    BY <2>1, <2>2 DEF SearchInv, FairTable
<1>. QED
  BY <1>1, <1>2, PTL DEF SearchSpec

(* What the solver gives and what the rules call a plan are the same, and  *)
(* carrying it out step by step (engine.go:353-403) comes to what          *)
(* DummyEngine does in one.                                                *)
THEOREM StepsAmountToPlans == SearchSpec => []StepsAmountToThePlan
<1>1. SearchInv => StepsAmountToThePlan
  <2>. SUFFICES ASSUME SearchInv, answer # NotAsked
                PROVE  /\ {Gathered(table, plan) : plan \in answer[1]} = KnockPlans(ToSet(hand), table)
                       /\ \A plan \in answer[1] :
                            TableAfter(table, plan.steps)[Len(plan.steps)]
                              = GrownTable(table, Gathered(table, plan).lay)
    BY DEF StepsAmountToThePlan
  <2>1. answer[1] = SolveAutoKnock(hand, table)
    BY DEF SearchInv
  <2>2. hand \in Seq(Cards) /\ table \in Seq(OnTable)
    BY DEF SearchInv, FairTable
  <2>3. {Gathered(table, plan) : plan \in SolveAutoKnock(hand, table)} = KnockPlans(ToSet(hand), table)
    BY <2>2, SolverFindsPlans DEF SearchInv
  <2>4. \A plan \in SolveAutoKnock(hand, table) :
          TableAfter(table, plan.steps)[Len(plan.steps)]
            = GrownTable(table, Gathered(table, plan).lay)
    BY <2>2, StepsLeaveTheSameTable
  <2>. QED
    BY <2>1, <2>3, <2>4
<1>. QED
  BY <1>1, SearchInvHolds, PTL

(* The solver says a hand can go out exactly when it can                   *)
(* (autoknock.go:29-51), in whatever order the hand is held.               *)
THEOREM SearchMissesNoPlan == SearchSpec => []SearchIsComplete
<1>1. StepsAmountToThePlan => SearchIsComplete
  <2>. SUFFICES ASSUME StepsAmountToThePlan, answer # NotAsked
                PROVE  answer[1] # {} <=> CanAutoKnock(ToSet(hand), table)
    BY DEF SearchIsComplete
  <2>1. {Gathered(table, plan) : plan \in answer[1]} = KnockPlans(ToSet(hand), table)
    BY DEF StepsAmountToThePlan
  <2>2. {Gathered(table, plan) : plan \in answer[1]} # {} <=> answer[1] # {}
    OBVIOUS
  <2>. QED
    BY <2>1, <2>2 DEF CanAutoKnock
<1>. QED
  BY <1>1, StepsAmountToPlans, PTL

(* A plan that is returned can be carried out in order: no layoff fails    *)
(* after others were made (engine.go:353-403 has no rollback), and no card *)
(* is placed twice or left over.                                           *)
THEOREM ReturnedPlansArePlayable == SearchSpec => []PlansArePlayable
<1>1. SearchInv => PlansArePlayable
  <2>. SUFFICES ASSUME SearchInv, answer # NotAsked, NEW plan \in answer[1]
                PROVE  CanBePlayed(hand, table, plan)
    BY DEF PlansArePlayable, CanBePlayed
  <2>1. answer[1] = SolveAutoKnock(hand, table)
    BY DEF SearchInv
  <2>. QED
    BY <2>1, SolverPlansCanBePlayed DEF SearchInv, FairTable
<1>. QED
  BY <1>1, SearchInvHolds, PTL

(* Whoever is asked about such a hand, the hint misses nothing that could  *)
(* be laid (suggest.go:39-130): the hands and tables of the specification  *)
(* meet the hypothesis of AdviceIsComplete.                                *)
THEOREM AdviceAlwaysHolds == SearchSpec => []AdviceMissesNothing
<1>1. SearchInv => AdviceMissesNothing
  BY AdviceIsComplete DEF SearchInv
<1>. QED
  BY <1>1, SearchInvHolds, PTL
==================================================================================
