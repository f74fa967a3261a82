--------------------------- MODULE DummyEngineProofs ---------------------------
(***************************************************************************)
(* Proofs about DummyEngine, for every deck, number of players, hand size  *)
(* and minimum meld length.                                                *)
(***************************************************************************)
EXTENDS DummyEngine, SequenceTheorems, FiniteSetTheorems, TLAPS

(* What building and growing a meld gives back.                            *)
LEMMA MeldOfType ==
  ASSUME NEW C \in SUBSET Cards, NEW p \in Players
  PROVE  /\ MeldOf(C, p) \in Meld
         /\ MeldOf(C, p).cards = C
         /\ MeldOf(C, p).owner = p
<1>1. KindOf(C) \in {"set", "run"}
  BY DEF KindOf
<1>2. AceActsHigh(C) \in BOOLEAN
  BY DEF AceActsHigh, IsRun, RunAceHigh
<1>. QED
  BY <1>1, <1>2 DEF MeldOf, Meld

LEMMA LaidOffType ==
  ASSUME NEW m \in Meld, NEW C \in SUBSET Cards
  PROVE  /\ LaidOff(m, C) \in Meld
         /\ LaidOff(m, C).cards = m.cards \cup C
         /\ LaidOff(m, C).owner = m.owner
<1>1. AceActsHigh(m.cards \cup C) \in BOOLEAN
  BY DEF AceActsHigh, IsRun, RunAceHigh
<1>. QED
  BY <1>1 DEF LaidOff, Meld

LEMMA NextSeatType == ASSUME turn \in Players PROVE NextSeat \in Players
BY EngineAssumption, SMT DEF NextSeat, Players

-----------------------------------------------------------------------------
(* Type correctness, action by action.                                     *)

LEMMA InitTypeOK == Init => TypeOK
<1> SUFFICES ASSUME NEW hands \in [Players -> SUBSET Cards], NEW head \in Cards,
                    Deal(hands, head)
             PROVE  TypeOK
  BY DEF Init
<1>1. 0 \in Players
  BY EngineAssumption DEF Players
<1>. QED
  BY <1>1 DEF Deal, TypeOK, NoOne

LEMMA DrawDeckTypeOK ==
  ASSUME TypeOK, NEW p \in Players, DrawDeck(p) PROVE TypeOK'
BY DEF TypeOK, DrawDeck, EndRound, tableVars

LEMMA AboveTargetType ==
  ASSUME TypeOK, NEW t PROVE AboveTarget(t) \in SUBSET Cards
BY DEF TypeOK, AboveTarget

LEMMA ChargeDumperType ==
  ASSUME TypeOK, NEW p \in Players, NEW t, ChargeDumper(p, t)
  PROVE  dumpPenalties' \in [Players -> Nat]
BY DEF TypeOK, ChargeDumper

LEMMA TruncatePileType ==
  ASSUME TypeOK, NEW t \in DOMAIN discardPile, TruncatePile(t)
  PROVE  /\ discardPile' \in Seq(Cards)
         /\ discardedBy' \in Seq(Players \cup {NoOne})
<1>1. t \in Nat /\ t >= 1 /\ t <= Len(discardPile)
  BY DEF TypeOK
<1>2. \A S : \A s \in Seq(S) : t \in DOMAIN s => SubSeq(s, 1, t - 1) \in Seq(S)
  BY <1>1, SubSeqProperties
<1>. QED
  BY <1>1, <1>2 DEF TypeOK, TruncatePile

LEMMA AbsorbHeadType ==
  ASSUME TypeOK, NEW C, NEW q \in Players \cup {NoOne}, AbsorbHead(C, q)
  PROVE  headOwner' \in Players \cup {NoOne}
BY DEF TypeOK, AbsorbHead

LEMMA ExposeMeldType ==
  ASSUME TypeOK, NEW p \in Players, NEW C \in SUBSET Cards, ExposeMeld(p, C)
  PROVE  /\ melds' \in Seq(Meld)
         /\ headOwner' \in Players \cup {NoOne}
         /\ produced' \in [Players -> BOOLEAN]
<1>1. MeldOf(C, p) \in Meld
  BY MeldOfType
<1>. QED
  BY <1>1, AbsorbHeadType DEF TypeOK, ExposeMeld

LEMMA GrowMeldType ==
  ASSUME TypeOK, NEW i \in DOMAIN melds, NEW C \in SUBSET Cards, GrowMeld(i, C)
  PROVE  /\ melds' \in Seq(Meld)
         /\ headOwner' \in Players \cup {NoOne}
<1>1. melds \in Seq(Meld) /\ melds[i] \in Meld
  BY DEF TypeOK
<1>2. LaidOff(melds[i], C) \in Meld
  BY <1>1, LaidOffType
<1>3. melds' = [melds EXCEPT ![i] = LaidOff(melds[i], C)]
  BY DEF GrowMeld
<1>4. melds' \in Seq(Meld)
  BY <1>1, <1>2, <1>3
<1>5. melds[i].owner \in Players
  BY <1>1 DEF Meld
<1>. QED
  BY <1>4, <1>5, AbsorbHeadType DEF GrowMeld

LEMMA PickUpLayOffTypeOK ==
  ASSUME TypeOK, NEW p \in Players, NEW t \in DOMAIN discardPile,
         NEW i \in DOMAIN melds, PickUpLayOff(p, t, i)
  PROVE  TypeOK'
<1>1. discardPile[t] \in Cards
  BY DEF TypeOK
<1>2. melds' \in Seq(Meld) /\ headOwner' \in Players \cup {NoOne}
  BY <1>1, GrowMeldType DEF PickUpLayOff
<1>3. dumpPenalties' \in [Players -> Nat]
  BY ChargeDumperType DEF PickUpLayOff
<1>4. discardPile' \in Seq(Cards) /\ discardedBy' \in Seq(Players \cup {NoOne})
  BY TruncatePileType DEF PickUpLayOff
<1>5. hand' \in [Players -> SUBSET Cards]
  BY AboveTargetType DEF PickUpLayOff, TypeOK
<1>. QED
  BY <1>2, <1>3, <1>4, <1>5 DEF PickUpLayOff, TypeOK, endVars

LEMMA PickUpMeldTypeOK ==
  ASSUME TypeOK, NEW p \in Players, NEW t \in DOMAIN discardPile,
         NEW S \in SUBSET Cards, PickUpMeld(p, t, S)
  PROVE  TypeOK'
<1>1. S \cup {discardPile[t]} \in SUBSET Cards
  BY DEF TypeOK
<1>2. /\ melds' \in Seq(Meld)
      /\ headOwner' \in Players \cup {NoOne}
      /\ produced' \in [Players -> BOOLEAN]
  BY <1>1, ExposeMeldType DEF PickUpMeld
<1>3. dumpPenalties' \in [Players -> Nat]
  BY ChargeDumperType DEF PickUpMeld
<1>4. discardPile' \in Seq(Cards) /\ discardedBy' \in Seq(Players \cup {NoOne})
  BY TruncatePileType DEF PickUpMeld
<1>5. hand' \in [Players -> SUBSET Cards]
  BY AboveTargetType DEF PickUpMeld, TypeOK
<1>. QED
  BY <1>2, <1>3, <1>4, <1>5 DEF PickUpMeld, TypeOK, endVars

LEMMA LayMeldTypeOK ==
  ASSUME TypeOK, NEW p \in Players, NEW C, LayMeld(p, C) PROVE TypeOK'
<1>1. C \in SUBSET Cards
  BY DEF LayMeld, TypeOK
<1>2. /\ melds' \in Seq(Meld)
      /\ headOwner' \in Players \cup {NoOne}
      /\ produced' \in [Players -> BOOLEAN]
  BY <1>1, ExposeMeldType DEF LayMeld
<1>3. hand' \in [Players -> SUBSET Cards]
  BY DEF LayMeld, TypeOK
<1>. QED
  BY <1>2, <1>3 DEF LayMeld, TypeOK, endVars

LEMMA LayOffTypeOK ==
  ASSUME TypeOK, NEW p \in Players, NEW C, NEW i \in DOMAIN melds, LayOff(p, C, i)
  PROVE  TypeOK'
<1>1. C \in SUBSET Cards
  BY DEF LayOff, TypeOK
<1>2. melds' \in Seq(Meld) /\ headOwner' \in Players \cup {NoOne}
  BY <1>1, GrowMeldType DEF LayOff
<1>3. hand' \in [Players -> SUBSET Cards]
  BY DEF LayOff, TypeOK
<1>. QED
  BY <1>2, <1>3 DEF LayOff, TypeOK, endVars

LEMMA SuitBoardType == ASSUME NEW ms, NEW p, NEW c PROVE SuitBoard(ms, p, c) \in BOOLEAN
BY DEF SuitBoard

LEMMA KnockTypeOK ==
  ASSUME TypeOK, NEW p \in Players, NEW c, NEW dark \in BOOLEAN, Knock(p, c, dark)
  PROVE  TypeOK'
BY SuitBoardType DEF Knock, TypeOK, EndRound, tableVars

LEMMA DiscardTypeOK ==
  ASSUME TypeOK, NEW p \in Players, NEW c, Discard(p, c) PROVE TypeOK'
<1>1. c \in Cards
  BY DEF Discard, TypeOK
<1>2. dumpPenalties' \in [Players -> Nat]
  BY DEF Discard, TypeOK
<1>3. discardPile' \in Seq(Cards) /\ discardedBy' \in Seq(Players \cup {NoOne})
  BY <1>1, AppendProperties DEF Discard, TypeOK
<1>4. turn' \in Players /\ producedAtTurnStart' \in [Players -> BOOLEAN]
  BY NextSeatType DEF Discard, OpenTurn, TypeOK
<1>. QED
  BY <1>2, <1>3, <1>4 DEF Discard, OpenTurn, TypeOK, endVars

-----------------------------------------------------------------------------
(* A plan of the solver, and the table once it is laid down.               *)

LEMMA PlanParts ==
  ASSUME NEW h \in SUBSET Cards, NEW ms \in Seq(Meld), NEW plan \in KnockPlans(h, ms)
  PROVE  /\ plan.card \in h
         /\ plan.lay \in [DOMAIN ms -> SUBSET (h \ {plan.card})]
         /\ \A i, j \in DOMAIN ms : i # j => plan.lay[i] \cap plan.lay[j] = {}
         /\ plan.groups \subseteq SUBSET (h \ {plan.card})
         /\ UNION plan.groups = (h \ {plan.card}) \ LaidCards(plan.lay)
         /\ \A G, H \in plan.groups : G # H => G \cap H = {}
<1>a. PICK k \in h :
        plan \in UNION { {[card |-> k, groups |-> P, lay |-> lay] :
                             P \in Partitions((h \ {k}) \ LaidCards(lay))} :
                          lay \in LayoffChoices(h \ {k}, ms)}
  BY DEF KnockPlans
<1>b. PICK lay \in LayoffChoices(h \ {k}, ms) :
        plan \in {[card |-> k, groups |-> P, lay |-> lay] :
                     P \in Partitions((h \ {k}) \ LaidCards(lay))}
  BY <1>a
<1>1. PICK P \in Partitions((h \ {k}) \ LaidCards(lay)) :
             plan = [card |-> k, groups |-> P, lay |-> lay]
  BY <1>b
<1>2. /\ lay \in [DOMAIN ms -> SUBSET (h \ {k})]
      /\ \A i, j \in DOMAIN ms : i # j => lay[i] \cap lay[j] = {}
  BY DEF LayoffChoices
<1>3. /\ P \subseteq SUBSET ((h \ {k}) \ LaidCards(lay))
      /\ UNION P = (h \ {k}) \ LaidCards(lay)
      /\ \A G, H \in P : G # H => G \cap H = {}
  BY DEF Partitions, NewMeldsIn
<1>4. P \subseteq SUBSET (h \ {k})
  BY <1>3
<1>. QED
  BY <1>1, <1>2, <1>3, <1>4

LEMMA CardsFinite == IsFiniteSet(Cards)
<1> DEFINE f == [x \in Suits \X Ranks |-> [suit |-> x[1], rank |-> x[2]]]
<1>1. IsFiniteSet(Ranks)
  BY RulesAssumption, FS_Interval DEF Ranks, Ace
<1>2. IsFiniteSet(Suits \X Ranks)
  BY <1>1, RulesAssumption, FS_Product
<1>3. f \in Surjection(Suits \X Ranks, Cards)
  <2>1. f \in [Suits \X Ranks -> Cards]
    BY DEF Cards
  <2>2. ASSUME NEW c \in Cards PROVE \E x \in Suits \X Ranks : f[x] = c
    <3>1. <<c.suit, c.rank>> \in Suits \X Ranks
      BY DEF Cards
    <3>2. f[<<c.suit, c.rank>>] = c
      BY <3>1 DEF Cards
    <3>. QED
      BY <3>1, <3>2
  <2>. QED
    BY <2>1, <2>2 DEF Surjection
<1>. QED
  BY <1>2, <1>3, FS_Surjection

LEMMA OrderOfGroups ==
  ASSUME NEW P \in SUBSET SUBSET Cards, NEW order \in Orders(P)
  PROVE  \E n \in Nat :
           /\ order \in [1..n -> P] /\ Len(order) = n
           /\ \A i, j \in 1..n : i # j => order[i] # order[j]
           /\ \A G \in P : \E i \in 1..n : order[i] = G
<1>1. Cardinality(P) \in Nat
  <2>1. IsFiniteSet(SUBSET Cards)
    BY CardsFinite, FS_SUBSET
  <2>2. IsFiniteSet(P)
    BY <2>1, FS_Subset
  <2>. QED
    BY <2>2, FS_CardinalityType
<1>. DEFINE n == Cardinality(P)
<1>2. order \in [1..n -> P] /\ \A G \in P : \E i \in 1..n : order[i] = G
  BY DEF Orders, Bijection, Surjection
<1>3. \A i, j \in 1..n : i # j => order[i] # order[j]
  BY <1>2 DEF Orders, Bijection, Injection, IsInjective
<1>4. Len(order) = n
  BY <1>1, <1>2, LenProperties
<1>. HIDE DEF n
<1>. QED
  BY <1>1, <1>2, <1>3, <1>4 DEF n

(* ms is the table with the plan's layoffs added and its groups appended.  *)
PlanOnTable(ms, plan, order, p) ==
  \E n \in Nat :
    /\ Len(order) = n
    /\ ms \in Seq(Meld) /\ Len(ms) = Len(melds) + n
    /\ \A i \in 1..Len(melds) : /\ ms[i].cards = melds[i].cards \cup plan.lay[i]
                                /\ ms[i].owner = melds[i].owner
    /\ \A i \in 1..n : /\ ms[Len(melds) + i].cards = order[i]
                      /\ ms[Len(melds) + i].owner = p

LEMMA LaidDownMelds ==
  ASSUME TypeOK, NEW p \in Players, NEW plan \in KnockPlans(hand[p], melds),
         NEW order \in Orders(plan.groups), NEW ms, ms = LaidDown(plan, order, p)
  PROVE  PlanOnTable(ms, plan, order, p)
<1>0. hand[p] \in SUBSET Cards /\ melds \in Seq(Meld) /\ DOMAIN melds = 1..Len(melds)
      /\ Len(melds) \in Nat
  BY DEF TypeOK
<1>1. /\ plan.lay \in [DOMAIN melds -> SUBSET Cards]
      /\ plan.groups \in SUBSET SUBSET Cards
  <2>1. /\ plan.lay \in [DOMAIN melds -> SUBSET (hand[p] \ {plan.card})]
        /\ plan.groups \subseteq SUBSET (hand[p] \ {plan.card})
    BY <1>0, PlanParts, Zenon
  <2>2. hand[p] \ {plan.card} \subseteq Cards
    BY <1>0
  <2>. QED
    BY <2>1, <2>2
<1>2. PICK n \in Nat : order \in [1..n -> plan.groups] /\ Len(order) = n
  BY <1>1, OrderOfGroups
<1>3. ms = [i \in 1..(Len(melds) + n) |->
              IF i \in DOMAIN melds
              THEN IF plan.lay[i] = {} THEN melds[i] ELSE LaidOff(melds[i], plan.lay[i])
              ELSE MeldOf(order[i - Len(melds)], p)]
  BY <1>2 DEF LaidDown
<1>4. ASSUME NEW i \in 1..Len(melds)
      PROVE  /\ ms[i] \in Meld /\ ms[i].cards = melds[i].cards \cup plan.lay[i]
             /\ ms[i].owner = melds[i].owner
  <2>1. i \in 1..(Len(melds) + n) /\ i \in DOMAIN melds /\ melds[i] \in Meld
    BY <1>0, <1>2
  <2>2. plan.lay[i] \in SUBSET Cards
    BY <1>1, <2>1
  <2>3. ms[i] = IF plan.lay[i] = {} THEN melds[i] ELSE LaidOff(melds[i], plan.lay[i])
    BY <1>3, <2>1
  <2>. QED
    BY <2>1, <2>2, <2>3, LaidOffType
<1>5. ASSUME NEW i \in 1..n
      PROVE  /\ ms[Len(melds) + i] \in Meld
             /\ ms[Len(melds) + i].cards = order[i] /\ ms[Len(melds) + i].owner = p
  <2>1. Len(melds) + i \in 1..(Len(melds) + n) /\ Len(melds) + i \notin DOMAIN melds
    BY <1>0, <1>2
  <2>2. order[i] \in SUBSET Cards
    BY <1>1, <1>2
  <2>3. ms[Len(melds) + i] = MeldOf(order[i], p)
    BY <1>0, <1>3, <2>1
  <2>. QED
    BY <2>2, <2>3, MeldOfType
<1>6. \A k \in 1..(Len(melds) + n) : ms[k] \in Meld
  <2> SUFFICES ASSUME NEW k \in 1..(Len(melds) + n) PROVE ms[k] \in Meld
    OBVIOUS
  <2>1. CASE k <= Len(melds)
    BY <1>0, <1>4, <2>1
  <2>2. CASE k > Len(melds)
    <3>1. k - Len(melds) \in 1..n /\ Len(melds) + (k - Len(melds)) = k
      BY <1>0, <1>2, <2>2
    <3>. QED
      BY <1>5, <3>1
  <2>. QED
    BY <1>0, <1>2, <2>1, <2>2
<1>7. ms \in [1..(Len(melds) + n) -> Meld]
  BY <1>3, <1>6
<1>8. ms \in Seq(Meld) /\ Len(ms) = Len(melds) + n
  BY <1>0, <1>7, LenProperties, IsASeq
<1>. QED
  BY <1>2, <1>4, <1>5, <1>8 DEF PlanOnTable

LEMMA AutoKnockTypeOK ==
  ASSUME TypeOK, NEW p \in Players, AutoKnock(p) PROVE TypeOK'
<1>a. PICK plan \in KnockPlans(hand[p], melds) : \E order \in Orders(plan.groups) :
        /\ melds' = LaidDown(plan, order, p)
        /\ headOwner' = HeadOwnerAfter(melds')
        /\ produced' = [produced EXCEPT ![p] = @ \/ plan.groups # {}]
        /\ hand' = [hand EXCEPT ![p] = {}]
        /\ knockSuit' = SuitBoard(melds', p, plan.card)
  BY DEF AutoKnock
<1>1. PICK order \in Orders(plan.groups) :
        /\ melds' = LaidDown(plan, order, p)
        /\ headOwner' = HeadOwnerAfter(melds')
        /\ produced' = [produced EXCEPT ![p] = @ \/ plan.groups # {}]
        /\ hand' = [hand EXCEPT ![p] = {}]
        /\ knockSuit' = SuitBoard(melds', p, plan.card)
  BY <1>a
<1>2. melds' \in Seq(Meld)
  <2>1. PlanOnTable(melds', plan, order, p)
    BY <1>1, LaidDownMelds
  <2>. QED
    BY <2>1 DEF PlanOnTable
<1>3. headOwner' \in Players \cup {NoOne}
  <2>1. \A i \in DOMAIN melds' : melds'[i].owner \in Players
    <3>1. \A i \in DOMAIN melds' : melds'[i] \in Meld
      BY <1>2
    <3>. QED
      BY <3>1 DEF Meld
  <2>. QED
    BY <1>1, <2>1 DEF HeadOwnerAfter, TypeOK
<1>4. produced' \in [Players -> BOOLEAN] /\ hand' \in [Players -> SUBSET Cards]
  BY <1>1 DEF TypeOK
<1>5. knockSuit' \in BOOLEAN
  BY <1>1, SuitBoardType
<1>. QED
  BY <1>2, <1>3, <1>4, <1>5 DEF AutoKnock, TypeOK, EndRound

LEMMA NextTypeOK == TypeOK /\ [Next]_vars => TypeOK'
<1> SUFFICES ASSUME TypeOK, [Next]_vars PROVE TypeOK'
  OBVIOUS
<1>1. ASSUME NEW p \in Players, Move(p) PROVE TypeOK'
  <2>1. CASE DrawDeck(p)
    BY <2>1, DrawDeckTypeOK
  <2>2. CASE PickUp(p)
    <3>1. PICK t \in DOMAIN discardPile :
            \/ \E i \in DOMAIN melds : PickUpLayOff(p, t, i)
            \/ \E S \in SUBSET (hand[p] \cup AboveTarget(t)) : PickUpMeld(p, t, S)
      BY <2>2 DEF PickUp
    <3>2. hand[p] \cup AboveTarget(t) \subseteq Cards
      BY AboveTargetType DEF TypeOK
    <3>. QED
      BY <3>1, <3>2, PickUpLayOffTypeOK, PickUpMeldTypeOK
  <2>3. CASE \E C \in SUBSET hand[p] : LayMeld(p, C)
    BY <2>3, LayMeldTypeOK
  <2>4. CASE \E C \in SUBSET hand[p], i \in DOMAIN melds : LayOff(p, C, i)
    BY <2>4, LayOffTypeOK
  <2>5. CASE \E c \in hand[p], dark \in BOOLEAN : Knock(p, c, dark)
    BY <2>5, KnockTypeOK
  <2>6. CASE AutoKnock(p)
    BY <2>6, AutoKnockTypeOK
  <2>7. CASE \E c \in hand[p] : Discard(p, c)
    BY <2>7, DiscardTypeOK
  <2>. QED
    BY <1>1, <2>1, <2>2, <2>3, <2>4, <2>5, <2>6, <2>7 DEF Move
<1>2. CASE UNCHANGED vars
  BY <1>2 DEF TypeOK, vars
<1>. QED
  BY <1>1, <1>2 DEF Next

(* Every variable keeps its type, for every deck and number of players.    *)
THEOREM TypeCorrectness == Spec => []TypeOK
BY InitTypeOK, NextTypeOK, PTL DEF Spec

-----------------------------------------------------------------------------
(* Card conservation. Each action moves cards between the hand of the      *)
(* player on turn, the draw pile, the discard pile and the table; the      *)
(* lemmas below say which cards each helper moves.                         *)

PileInjective == \A i, j \in DOMAIN discardPile : i # j => discardPile[i] # discardPile[j]
MeldsDisjoint == \A i, j \in DOMAIN melds : i # j => melds[i].cards \cap melds[j].cards = {}

LEMMA TruncatedPileCards ==
  ASSUME TypeOK, PileInjective, NEW t \in DOMAIN discardPile, TruncatePile(t)
  PROVE  /\ PileCards = PileCards' \cup {discardPile[t]} \cup AboveTarget(t)
         /\ discardPile[t] \notin PileCards' \cup AboveTarget(t)
         /\ PileCards' \cap AboveTarget(t) = {}
         /\ PileInjective'
<1>. DEFINE n == Len(discardPile)
<1>1. n \in Nat /\ DOMAIN discardPile = 1..n /\ t \in 1..n
  BY DEF TypeOK
<1>2. discardPile' = SubSeq(discardPile, 1, t - 1)
  BY DEF TruncatePile
<1>3. \A i \in 1..(t - 1) : discardPile[i] \in Cards
  BY <1>1 DEF TypeOK
<1>4. /\ discardPile' \in Seq(Cards)
      /\ Len(discardPile') = t - 1
      /\ \A i \in 1..(t - 1) : discardPile'[i] = discardPile[i]
  BY <1>1, <1>2, <1>3, SubSeqProperties
<1>5. DOMAIN discardPile' = 1..(t - 1)
  BY <1>1, <1>4
<1>6. PileCards' = {discardPile[i] : i \in 1..(t - 1)}
  BY <1>4, <1>5 DEF PileCards
<1>7. AboveTarget(t) = {discardPile[i] : i \in (t + 1)..n}
  <2>1. {j \in DOMAIN discardPile : j > t} = (t + 1)..n
    BY <1>1
  <2>. QED
    BY <2>1 DEF AboveTarget
<1>8. PileCards = {discardPile[i] : i \in 1..n}
  BY <1>1 DEF PileCards
<1>9. 1..n = 1..(t - 1) \cup {t} \cup (t + 1)..n
  BY <1>1
<1>10. \A i, j \in 1..n : i # j => discardPile[i] # discardPile[j]
  BY <1>1 DEF PileInjective
<1>11. PileCards = PileCards' \cup {discardPile[t]} \cup AboveTarget(t)
  BY <1>6, <1>7, <1>8, <1>9
<1>12. discardPile[t] \notin PileCards' \cup AboveTarget(t)
  BY <1>1, <1>6, <1>7, <1>10
<1>13. PileCards' \cap AboveTarget(t) = {}
  BY <1>1, <1>6, <1>7, <1>10
<1>14. PileInjective'
  BY <1>1, <1>4, <1>5, <1>10 DEF PileInjective
<1>. QED
  BY <1>11, <1>12, <1>13, <1>14

LEMMA ExposedMeldCards ==
  ASSUME TypeOK, MeldsDisjoint, NEW p \in Players, NEW C \in SUBSET Cards,
         C \cap TableCards = {}, melds' = Append(melds, MeldOf(C, p))
  PROVE  TableCards' = TableCards \cup C /\ MeldsDisjoint'
<1>. DEFINE n == Len(melds)
<1>1. melds \in Seq(Meld) /\ n \in Nat /\ DOMAIN melds = 1..n
  BY DEF TypeOK
<1>2. MeldOf(C, p) \in Meld /\ MeldOf(C, p).cards = C
  BY MeldOfType
<1>3. /\ melds' \in Seq(Meld) /\ Len(melds') = n + 1
      /\ \A i \in 1..n : melds'[i] = melds[i]
      /\ melds'[n + 1] = MeldOf(C, p)
  BY <1>1, <1>2, AppendProperties
<1>4. DOMAIN melds' = 1..(n + 1)
  BY <1>1, <1>3
<1>5. \A i \in 1..n : melds'[i].cards = melds[i].cards /\ melds[i].cards \cap C = {}
  BY <1>1, <1>3 DEF TableCards
<1>6. 1..(n + 1) = 1..n \cup {n + 1}
  BY <1>1
<1>7. TableCards' = TableCards \cup C
  BY <1>1, <1>2, <1>3, <1>4, <1>5, <1>6 DEF TableCards
<1>8. MeldsDisjoint'
  BY <1>1, <1>2, <1>3, <1>4, <1>5, <1>6 DEF MeldsDisjoint
<1>. QED
  BY <1>7, <1>8

LEMMA GrownMeldCards ==
  ASSUME TypeOK, MeldsDisjoint, NEW i \in DOMAIN melds, NEW C \in SUBSET Cards,
         C \cap TableCards = {}, GrowMeld(i, C)
  PROVE  TableCards' = TableCards \cup C /\ MeldsDisjoint'
<1>1. melds \in Seq(Meld) /\ melds[i] \in Meld
  BY DEF TypeOK
<1>2. melds' = [melds EXCEPT ![i] = LaidOff(melds[i], C)]
  BY DEF GrowMeld
<1>3. LaidOff(melds[i], C).cards = melds[i].cards \cup C
  BY <1>1, LaidOffType
<1>4. /\ DOMAIN melds' = DOMAIN melds
      /\ melds'[i].cards = melds[i].cards \cup C
      /\ \A j \in DOMAIN melds : j # i => melds'[j].cards = melds[j].cards
  BY <1>1, <1>2, <1>3
<1>5. \A j \in DOMAIN melds : melds[j].cards \cap C = {}
  BY DEF TableCards
<1>6. TableCards' = TableCards \cup C
  BY <1>4 DEF TableCards
<1>7. MeldsDisjoint'
  BY <1>4, <1>5 DEF MeldsDisjoint
<1>. QED
  BY <1>6, <1>7

LEMMA LaidDownCards ==
  ASSUME TypeOK, MeldsDisjoint, NEW p \in Players, hand[p] \cap TableCards = {},
         NEW plan \in KnockPlans(hand[p], melds), NEW order \in Orders(plan.groups),
         melds' = LaidDown(plan, order, p)
  PROVE  TableCards' = TableCards \cup (hand[p] \ {plan.card}) /\ MeldsDisjoint'
<1>0. hand[p] \in SUBSET Cards /\ melds \in Seq(Meld)
  BY DEF TypeOK
<1>p. /\ plan.lay \in [DOMAIN melds -> SUBSET (hand[p] \ {plan.card})]
      /\ \A i, j \in DOMAIN melds : i # j => plan.lay[i] \cap plan.lay[j] = {}
      /\ plan.groups \subseteq SUBSET (hand[p] \ {plan.card})
      /\ UNION plan.groups = (hand[p] \ {plan.card}) \ LaidCards(plan.lay)
      /\ \A G, H \in plan.groups : G # H => G \cap H = {}
  BY <1>0, PlanParts
<1>. DEFINE n == Len(melds)
            rest == hand[p] \ {plan.card}
<1>1. /\ melds \in Seq(Meld) /\ n \in Nat /\ DOMAIN melds = 1..n
      /\ hand[p] \in SUBSET Cards
  BY DEF TypeOK
<1>2. /\ plan.lay \in [1..n -> SUBSET rest]
      /\ \A i, j \in 1..n : i # j => plan.lay[i] \cap plan.lay[j] = {}
      /\ plan.groups \subseteq SUBSET rest
      /\ UNION plan.groups = rest \ LaidCards(plan.lay)
      /\ \A G, H \in plan.groups : G # H => G \cap H = {}
  BY <1>1, <1>p
<1>3. PICK m \in Nat :
        /\ Len(order) = m
        /\ melds' \in Seq(Meld) /\ Len(melds') = n + m
        /\ \A i \in 1..n : melds'[i].cards = melds[i].cards \cup plan.lay[i]
        /\ \A i \in 1..m : melds'[n + i].cards = order[i]
  <2>. HIDE DEF n
  <2>1. PlanOnTable(melds', plan, order, p)
    BY LaidDownMelds
  <2>. QED
    BY <2>1 DEF n, PlanOnTable
<1>4. /\ order \in [1..m -> plan.groups]
      /\ \A i, j \in 1..m : i # j => order[i] # order[j]
      /\ \A G \in plan.groups : \E i \in 1..m : order[i] = G
  <2>1. plan.groups \in SUBSET SUBSET Cards
    BY <1>1, <1>2
  <2>2. PICK k \in Nat :
           /\ order \in [1..k -> plan.groups] /\ Len(order) = k
           /\ \A i, j \in 1..k : i # j => order[i] # order[j]
           /\ \A G \in plan.groups : \E i \in 1..k : order[i] = G
    BY <2>1, OrderOfGroups, Zenon
  <2>. QED
    BY <1>3, <2>2
<1>5. DOMAIN melds' = 1..(n + m)
  BY <1>3
<1>6. LaidCards(plan.lay) = UNION {plan.lay[i] : i \in 1..n}
  BY <1>2 DEF LaidCards
<1>7. \A i \in 1..n : melds[i].cards \cap rest = {}
  BY <1>1 DEF TableCards
<1>8. \A k \in 1..(n + m) : k \in 1..n \/ \E i \in 1..m : k = n + i
  <2> SUFFICES ASSUME NEW k \in 1..(n + m), k \notin 1..n PROVE \E i \in 1..m : k = n + i
    OBVIOUS
  <2>1. k - n \in 1..m /\ k = n + (k - n)
    BY <1>1, <1>3
  <2>. QED
    BY <2>1
<1>9. \A i \in 1..m : n + i \in 1..(n + m) /\ n + i \notin 1..n
  BY <1>1, <1>3
<1>10. 1..n \subseteq 1..(n + m)
  BY <1>1, <1>3
<1>11. TableCards' = (UNION {melds[i].cards : i \in 1..n}) \cup LaidCards(plan.lay)
                       \cup (UNION plan.groups)
  <2>1. TableCards' = UNION {melds'[k].cards : k \in 1..(n + m)}
    BY <1>5 DEF TableCards
  <2>2. ASSUME NEW c, c \in TableCards'
        PROVE  c \in (UNION {melds[i].cards : i \in 1..n}) \cup LaidCards(plan.lay)
                       \cup (UNION plan.groups)
    <3>1. PICK k \in 1..(n + m) : c \in melds'[k].cards
      BY <2>1, <2>2
    <3>2. CASE k \in 1..n
      BY <1>3, <1>6, <3>1, <3>2
    <3>3. CASE \E i \in 1..m : k = n + i
      <4>1. PICK i \in 1..m : k = n + i
        BY <3>3
      <4>2. order[i] \in plan.groups /\ melds'[n + i].cards = order[i]
        BY <1>3, <1>4
      <4>. QED
        BY <3>1, <4>1, <4>2
    <3>. QED
      BY <1>8, <3>2, <3>3
  <2>3. ASSUME NEW i \in 1..n PROVE melds[i].cards \cup plan.lay[i] \subseteq TableCards'
    BY <1>3, <1>10, <2>1
  <2>4. ASSUME NEW G \in plan.groups PROVE G \subseteq TableCards'
    <3>1. PICK i \in 1..m : order[i] = G
      BY <1>4
    <3>2. melds'[n + i].cards = G /\ n + i \in 1..(n + m)
      BY <1>3, <1>9, <3>1
    <3>. QED
      BY <2>1, <3>2
  <2>. QED
    BY <1>6, <2>2, <2>3, <2>4
<1>12. TableCards' = TableCards \cup rest
  <2>1. TableCards = UNION {melds[i].cards : i \in 1..n}
    BY <1>1 DEF TableCards
  <2>2. LaidCards(plan.lay) \subseteq rest
    BY <1>2, <1>6
  <2>. QED
    BY <1>2, <1>11, <2>1, <2>2
<1>13. MeldsDisjoint'
  <2> SUFFICES ASSUME NEW j \in 1..(n + m), NEW k \in 1..(n + m), j # k
               PROVE  melds'[j].cards \cap melds'[k].cards = {}
    BY <1>5 DEF MeldsDisjoint
  <2>1. \A i \in 1..n : plan.lay[i] \subseteq rest
    BY <1>2
  <2>2. CASE j \in 1..n /\ k \in 1..n
    <3>1. melds[j].cards \cap melds[k].cards = {}
      BY <1>1, <2>2 DEF MeldsDisjoint
    <3>. QED
      BY <1>2, <1>3, <1>7, <2>1, <2>2, <3>1
  <2>3. ASSUME NEW a \in 1..n, NEW b \in 1..m
        PROVE  melds'[a].cards \cap melds'[n + b].cards = {}
    <3>1. order[b] \in plan.groups /\ melds'[n + b].cards = order[b]
      BY <1>3, <1>4
    <3>2. order[b] \cap plan.lay[a] = {} /\ order[b] \subseteq rest
      BY <1>2, <1>6, <3>1
    <3>. QED
      BY <1>3, <1>7, <3>1, <3>2
  <2>4. ASSUME NEW a \in 1..m, NEW b \in 1..m, a # b
        PROVE  melds'[n + a].cards \cap melds'[n + b].cards = {}
    BY <1>2, <1>3, <1>4, <2>4
  <2>. QED
    BY <1>8, <2>2, <2>3, <2>4
<1>. QED
  BY <1>12, <1>13

LEMMA DiscardedPileCards ==
  ASSUME TypeOK, PileInjective, NEW c \in Cards, c \notin PileCards,
         discardPile' = Append(discardPile, c)
  PROVE  PileCards' = PileCards \cup {c} /\ PileInjective'
<1>. DEFINE n == Len(discardPile)
<1>1. discardPile \in Seq(Cards) /\ n \in Nat /\ DOMAIN discardPile = 1..n
  BY DEF TypeOK
<1>2. /\ discardPile' \in Seq(Cards) /\ Len(discardPile') = n + 1
      /\ \A i \in 1..n : discardPile'[i] = discardPile[i]
      /\ discardPile'[n + 1] = c
  BY <1>1, AppendProperties
<1>3. DOMAIN discardPile' = 1..n \cup {n + 1}
  BY <1>1, <1>2
<1>4. \A i \in 1..n : discardPile[i] # c
  BY <1>1 DEF PileCards
<1>5. PileCards' = PileCards \cup {c}
  BY <1>1, <1>2, <1>3 DEF PileCards
<1>6. PileInjective'
  BY <1>1, <1>2, <1>3, <1>4 DEF PileInjective
<1>. QED
  BY <1>5, <1>6

(* Cards that stay among the mover's hand, the draw pile, the discard pile *)
(* and the table, each in one of them, are conserved.                      *)
LEMMA Redistributed ==
  ASSUME TypeOK, CardConservation, knocker = NoOne, knocker' = NoOne,
         NEW p \in Players, NEW H,
         hand' = [hand EXCEPT ![p] = H],
         H \cup drawPile' \cup PileCards' \cup TableCards'
           = hand[p] \cup drawPile \cup PileCards \cup TableCards,
         H \cap (drawPile' \cup PileCards' \cup TableCards') = {},
         drawPile' \cap (PileCards' \cup TableCards') = {},
         PileCards' \cap TableCards' = {},
         PileInjective', MeldsDisjoint'
  PROVE  CardConservation'
<1>1. hand \in [Players -> SUBSET Cards]
  BY DEF TypeOK
<1>2. hand'[p] = H /\ \A q \in Players : q # p => hand'[q] = hand[q]
  BY <1>1
<1>3. \A q \in Players : q # p =>
        hand[q] \cap (hand[p] \cup drawPile \cup PileCards \cup TableCards) = {}
  BY DEF CardConservation, NoDuplicates
<1>4. \A q, r \in Players : q # r => hand'[q] \cap hand'[r] = {}
  <2> SUFFICES ASSUME NEW q \in Players, NEW r \in Players, q # r
               PROVE  hand'[q] \cap hand'[r] = {}
    OBVIOUS
  <2>1. CASE q = p
    BY <1>2, <1>3, <2>1
  <2>2. CASE r = p
    BY <1>2, <1>3, <2>2
  <2>3. CASE q # p /\ r # p
    BY <1>2, <2>3 DEF CardConservation, NoDuplicates
  <2>. QED
    BY <2>1, <2>2, <2>3
<1>5. \A q \in Players : hand'[q] \cap (drawPile' \cup PileCards' \cup TableCards') = {}
  <2> SUFFICES ASSUME NEW q \in Players
               PROVE  hand'[q] \cap (drawPile' \cup PileCards' \cup TableCards') = {}
    OBVIOUS
  <2>1. CASE q = p
    BY <1>2, <2>1
  <2>2. CASE q # p
    BY <1>2, <1>3, <2>2
  <2>. QED
    BY <2>1, <2>2
<1>6. NoDuplicates'
  BY <1>4, <1>5 DEF NoDuplicates, PileInjective, MeldsDisjoint
<1>7. UNION {hand[q] : q \in Players} = hand[p] \cup (UNION {hand[q] : q \in Players \ {p}})
  OBVIOUS
<1>8. UNION {hand'[q] : q \in Players} = H \cup (UNION {hand[q] : q \in Players \ {p}})
  BY <1>2
<1>9. CardsInPlay' = CardsInPlay
  BY <1>7, <1>8 DEF CardsInPlay
<1>10. NothingLost'
  BY <1>9 DEF CardConservation, NothingLost
<1>. QED
  BY <1>6, <1>10 DEF CardConservation

(* What conservation says of one player's hand and the shared piles.       *)
LEMMA ZonesDisjoint ==
  ASSUME CardConservation, NEW p \in Players
  PROVE  /\ hand[p] \cap (drawPile \cup PileCards \cup TableCards) = {}
         /\ drawPile \cap (PileCards \cup TableCards) = {}
         /\ PileCards \cap TableCards = {}
         /\ PileInjective /\ MeldsDisjoint
BY DEF CardConservation, NoDuplicates, PileInjective, MeldsDisjoint

(* The sequences that an action leaves alone keep their cards.             *)
LEMMA SamePile ==
  ASSUME UNCHANGED discardPile, PileInjective PROVE PileCards' = PileCards /\ PileInjective'
BY DEF PileCards, PileInjective

LEMMA SameTable ==
  ASSUME UNCHANGED melds, MeldsDisjoint PROVE TableCards' = TableCards /\ MeldsDisjoint'
BY DEF TableCards, MeldsDisjoint

LEMMA NothingMoved ==
  ASSUME CardConservation, UNCHANGED <<hand, drawPile, discardPile, melds, knocker>>
  PROVE  CardConservation'
<1>1. PileCards' = PileCards /\ TableCards' = TableCards
  BY DEF PileCards, TableCards
<1>2. NoDuplicates'
  BY <1>1 DEF CardConservation, NoDuplicates
<1>3. CardsInPlay' = CardsInPlay
  BY <1>1 DEF CardsInPlay
<1>. QED
  BY <1>2, <1>3 DEF CardConservation, NothingLost

NoKnockYet == ~RoundOver => knocker = NoOne

(* The inductive invariant: the one card a knock takes out is missing only *)
(* once the round is over, when no action is left.                         *)
ConservationInv == TypeOK /\ CardConservation /\ NoKnockYet

LEMMA DrawDeckConserves ==
  ASSUME ConservationInv, NEW p \in Players, DrawDeck(p) PROVE CardConservation' /\ NoKnockYet'
<1>1. knocker = NoOne /\ knocker' = NoOne
  BY DEF ConservationInv, NoKnockYet, RoundOver, DrawDeck
<1>2. UNCHANGED <<discardPile, melds>>
  BY DEF DrawDeck, tableVars
<1>z. TypeOK /\ CardConservation
  BY DEF ConservationInv
<1>3. PileCards' = PileCards /\ PileInjective' /\ TableCards' = TableCards /\ MeldsDisjoint'
  BY <1>z, <1>2, ZonesDisjoint, SamePile, SameTable
<1>4. ASSUME hand' = hand, drawPile' = drawPile PROVE CardConservation'
  BY <1>z, <1>1, <1>2, <1>4, NothingMoved
<1>5. ASSUME \E c \in drawPile : /\ drawPile' = drawPile \ {c}
                                 /\ hand' = [hand EXCEPT ![p] = @ \cup {c}]
      PROVE  CardConservation'
  <2>1. PICK c \in drawPile : /\ drawPile' = drawPile \ {c}
                              /\ hand' = [hand EXCEPT ![p] = hand[p] \cup {c}]
    BY <1>5
  <2>2. (hand[p] \cup {c}) \cup drawPile' \cup PileCards' \cup TableCards'
           = hand[p] \cup drawPile \cup PileCards \cup TableCards
    BY <1>3, <2>1
  <2>3. /\ (hand[p] \cup {c}) \cap (drawPile' \cup PileCards' \cup TableCards') = {}
        /\ drawPile' \cap (PileCards' \cup TableCards') = {}
        /\ PileCards' \cap TableCards' = {}
    BY <1>z, <1>3, <2>1, ZonesDisjoint
  <2>. QED
    BY <1>z, <1>1, <1>3, <2>1, <2>2, <2>3, Redistributed
<1>6. CardConservation'
  BY <1>4, <1>5 DEF DrawDeck
<1>. QED
  BY <1>1, <1>6 DEF NoKnockYet

LEMMA PickUpLayOffConserves ==
  ASSUME ConservationInv, NEW p \in Players, NEW t \in DOMAIN discardPile,
         NEW i \in DOMAIN melds, PickUpLayOff(p, t, i)
  PROVE  CardConservation' /\ NoKnockYet'
<1>1. knocker = NoOne /\ knocker' = NoOne
  BY DEF ConservationInv, NoKnockYet, RoundOver, PickUpLayOff, endVars
<1>z. TypeOK /\ CardConservation
  BY DEF ConservationInv
<1>. DEFINE c == discardPile[t]
<1>2. /\ hand' = [hand EXCEPT ![p] = hand[p] \cup AboveTarget(t)]
      /\ TruncatePile(t) /\ GrowMeld(i, {c}) /\ drawPile' = drawPile
  BY DEF PickUpLayOff
<1>3. c \in Cards /\ c \in PileCards
  BY <1>z DEF TypeOK, PileCards
<1>4. /\ PileCards = PileCards' \cup {c} \cup AboveTarget(t)
      /\ c \notin PileCards' \cup AboveTarget(t)
      /\ PileCards' \cap AboveTarget(t) = {}
      /\ PileInjective'
  BY <1>z, <1>2, ZonesDisjoint, TruncatedPileCards
<1>. HIDE DEF c
<1>5. TableCards' = TableCards \cup {c} /\ MeldsDisjoint'
  <2>1. {c} \cap TableCards = {} /\ {c} \in SUBSET Cards
    BY <1>z, <1>3, ZonesDisjoint
  <2>. QED
    BY <1>z, <1>2, <2>1, ZonesDisjoint, GrownMeldCards
<1>6. (hand[p] \cup AboveTarget(t)) \cup drawPile' \cup PileCards' \cup TableCards'
         = hand[p] \cup drawPile \cup PileCards \cup TableCards
  BY <1>2, <1>4, <1>5
<1>7. /\ (hand[p] \cup AboveTarget(t)) \cap (drawPile' \cup PileCards' \cup TableCards') = {}
      /\ drawPile' \cap (PileCards' \cup TableCards') = {}
      /\ PileCards' \cap TableCards' = {}
  BY <1>z, <1>2, <1>4, <1>5, ZonesDisjoint
<1>8. CardConservation'
  BY <1>z, <1>1, <1>2, <1>4, <1>5, <1>6, <1>7, Redistributed
<1>. QED
  BY <1>1, <1>8 DEF NoKnockYet

LEMMA PickUpMeldConserves ==
  ASSUME ConservationInv, NEW p \in Players, NEW t \in DOMAIN discardPile,
         NEW S \in SUBSET (hand[p] \cup AboveTarget(t)), PickUpMeld(p, t, S)
  PROVE  CardConservation' /\ NoKnockYet'
<1>1. knocker = NoOne /\ knocker' = NoOne
  BY DEF ConservationInv, NoKnockYet, RoundOver, PickUpMeld, endVars
<1>z. TypeOK /\ CardConservation
  BY DEF ConservationInv
<1>. DEFINE c == discardPile[t]
            C == S \cup {c}
<1>2. /\ hand' = [hand EXCEPT ![p] = (hand[p] \cup AboveTarget(t)) \ S]
      /\ TruncatePile(t) /\ melds' = Append(melds, MeldOf(C, p)) /\ drawPile' = drawPile
  BY DEF PickUpMeld, ExposeMeld
<1>3. c \in Cards /\ c \in PileCards /\ S \in SUBSET Cards
  BY <1>z, AboveTargetType DEF TypeOK, PileCards
<1>4. /\ PileCards = PileCards' \cup {c} \cup AboveTarget(t)
      /\ c \notin PileCards' \cup AboveTarget(t)
      /\ PileCards' \cap AboveTarget(t) = {}
      /\ PileInjective'
  BY <1>z, <1>2, ZonesDisjoint, TruncatedPileCards
<1>. HIDE DEF c
<1>5. C \cap TableCards = {} /\ C \in SUBSET Cards
  BY <1>z, <1>3, <1>4, ZonesDisjoint
<1>6. TableCards' = TableCards \cup C /\ MeldsDisjoint'
  BY <1>z, <1>2, <1>5, ZonesDisjoint, ExposedMeldCards
<1>. DEFINE H == (hand[p] \cup AboveTarget(t)) \ S
<1>7. H \cup drawPile' \cup PileCards' \cup TableCards'
         = hand[p] \cup drawPile \cup PileCards \cup TableCards
  BY <1>2, <1>4, <1>6
<1>8. /\ H \cap (drawPile' \cup PileCards' \cup TableCards') = {}
      /\ drawPile' \cap (PileCards' \cup TableCards') = {}
      /\ PileCards' \cap TableCards' = {}
  BY <1>z, <1>2, <1>3, <1>4, <1>6, ZonesDisjoint
<1>. HIDE DEF C
<1>9. CardConservation'
  BY <1>z, <1>1, <1>2, <1>4, <1>6, <1>7, <1>8, Redistributed
<1>. QED
  BY <1>1, <1>9 DEF NoKnockYet

LEMMA LayMeldConserves ==
  ASSUME ConservationInv, NEW p \in Players, NEW C, LayMeld(p, C)
  PROVE  CardConservation' /\ NoKnockYet'
<1>1. knocker = NoOne /\ knocker' = NoOne
  BY DEF ConservationInv, NoKnockYet, RoundOver, LayMeld, endVars
<1>z. TypeOK /\ CardConservation
  BY DEF ConservationInv
<1>2. /\ hand' = [hand EXCEPT ![p] = hand[p] \ C] /\ C \subseteq hand[p]
      /\ melds' = Append(melds, MeldOf(C, p)) /\ UNCHANGED <<drawPile, discardPile>>
  BY DEF LayMeld, ExposeMeld
<1>3. PileCards' = PileCards /\ PileInjective'
  BY <1>z, <1>2, ZonesDisjoint, SamePile
<1>4. C \cap TableCards = {} /\ C \in SUBSET Cards
  BY <1>z, <1>2, ZonesDisjoint DEF TypeOK
<1>5. TableCards' = TableCards \cup C /\ MeldsDisjoint'
  BY <1>z, <1>2, <1>4, ZonesDisjoint, ExposedMeldCards
<1>6. /\ (hand[p] \ C) \cup drawPile' \cup PileCards' \cup TableCards'
           = hand[p] \cup drawPile \cup PileCards \cup TableCards
      /\ (hand[p] \ C) \cap (drawPile' \cup PileCards' \cup TableCards') = {}
      /\ drawPile' \cap (PileCards' \cup TableCards') = {}
      /\ PileCards' \cap TableCards' = {}
  BY <1>z, <1>2, <1>3, <1>5, ZonesDisjoint
<1>7. CardConservation'
  BY <1>z, <1>1, <1>2, <1>3, <1>5, <1>6, Redistributed
<1>. QED
  BY <1>1, <1>7 DEF NoKnockYet

LEMMA LayOffConserves ==
  ASSUME ConservationInv, NEW p \in Players, NEW C, NEW i \in DOMAIN melds, LayOff(p, C, i)
  PROVE  CardConservation' /\ NoKnockYet'
<1>1. knocker = NoOne /\ knocker' = NoOne
  BY DEF ConservationInv, NoKnockYet, RoundOver, LayOff, endVars
<1>z. TypeOK /\ CardConservation
  BY DEF ConservationInv
<1>2. /\ hand' = [hand EXCEPT ![p] = hand[p] \ C] /\ C \subseteq hand[p]
      /\ GrowMeld(i, C) /\ UNCHANGED <<drawPile, discardPile>>
  BY DEF LayOff
<1>3. PileCards' = PileCards /\ PileInjective'
  BY <1>z, <1>2, ZonesDisjoint, SamePile
<1>4. C \cap TableCards = {} /\ C \in SUBSET Cards
  BY <1>z, <1>2, ZonesDisjoint DEF TypeOK
<1>5. TableCards' = TableCards \cup C /\ MeldsDisjoint'
  BY <1>z, <1>2, <1>4, ZonesDisjoint, GrownMeldCards
<1>6. /\ (hand[p] \ C) \cup drawPile' \cup PileCards' \cup TableCards'
           = hand[p] \cup drawPile \cup PileCards \cup TableCards
      /\ (hand[p] \ C) \cap (drawPile' \cup PileCards' \cup TableCards') = {}
      /\ drawPile' \cap (PileCards' \cup TableCards') = {}
      /\ PileCards' \cap TableCards' = {}
  BY <1>z, <1>2, <1>3, <1>5, ZonesDisjoint
<1>7. CardConservation'
  BY <1>z, <1>1, <1>2, <1>3, <1>5, <1>6, Redistributed
<1>. QED
  BY <1>1, <1>7 DEF NoKnockYet

LEMMA DiscardConserves ==
  ASSUME ConservationInv, NEW p \in Players, NEW c, Discard(p, c)
  PROVE  CardConservation' /\ NoKnockYet'
<1>1. knocker = NoOne /\ knocker' = NoOne
  BY DEF ConservationInv, NoKnockYet, RoundOver, Discard, endVars
<1>z. TypeOK /\ CardConservation
  BY DEF ConservationInv
<1>2. /\ hand' = [hand EXCEPT ![p] = hand[p] \ {c}] /\ c \in hand[p]
      /\ discardPile' = Append(discardPile, c) /\ UNCHANGED <<drawPile, melds>>
  BY DEF Discard
<1>3. c \in Cards /\ c \notin PileCards
  BY <1>z, <1>2, ZonesDisjoint DEF TypeOK
<1>4. PileCards' = PileCards \cup {c} /\ PileInjective'
  BY <1>z, <1>2, <1>3, ZonesDisjoint, DiscardedPileCards
<1>5. TableCards' = TableCards /\ MeldsDisjoint'
  BY <1>z, <1>2, ZonesDisjoint, SameTable
<1>6. /\ (hand[p] \ {c}) \cup drawPile' \cup PileCards' \cup TableCards'
           = hand[p] \cup drawPile \cup PileCards \cup TableCards
      /\ (hand[p] \ {c}) \cap (drawPile' \cup PileCards' \cup TableCards') = {}
      /\ drawPile' \cap (PileCards' \cup TableCards') = {}
      /\ PileCards' \cap TableCards' = {}
  BY <1>z, <1>2, <1>4, <1>5, ZonesDisjoint
<1>7. CardConservation'
  BY <1>z, <1>1, <1>2, <1>4, <1>5, <1>6, Redistributed
<1>. QED
  BY <1>1, <1>7 DEF NoKnockYet

(* A knock empties the knocker's hand onto the table, all but one card,    *)
(* which leaves the round.                                                 *)
LEMMA KnockedOut ==
  ASSUME TypeOK, CardConservation, knocker = NoOne, knocker' \in Players,
         NEW p \in Players, NEW c \in hand[p],
         hand' = [hand EXCEPT ![p] = {}],
         UNCHANGED <<drawPile, discardPile>>,
         TableCards' = TableCards \cup (hand[p] \ {c}), MeldsDisjoint'
  PROVE  CardConservation'
<1>1. hand \in [Players -> SUBSET Cards] /\ c \in Cards
  BY DEF TypeOK
<1>2. hand'[p] = {} /\ \A q \in Players : q # p => hand'[q] = hand[q]
  BY <1>1
<1>3. PileCards' = PileCards /\ PileInjective'
  BY ZonesDisjoint, SamePile
<1>4. \A q \in Players : q # p =>
        hand[q] \cap (hand[p] \cup drawPile \cup PileCards \cup TableCards) = {}
  BY DEF CardConservation, NoDuplicates
<1>5. \A q, r \in Players : q # r => hand'[q] \cap hand'[r] = {}
  BY <1>2 DEF CardConservation, NoDuplicates
<1>6. \A q \in Players : hand'[q] \cap (drawPile' \cup PileCards' \cup TableCards') = {}
  BY <1>2, <1>3, <1>4
<1>7. drawPile' \cap (PileCards' \cup TableCards') = {} /\ PileCards' \cap TableCards' = {}
  BY <1>3, ZonesDisjoint
<1>8. NoDuplicates'
  BY <1>3, <1>5, <1>6, <1>7 DEF NoDuplicates, PileInjective, MeldsDisjoint
<1>9. CardsInPlay = Cards
  BY DEF CardConservation, NothingLost
<1>10. UNION {hand[q] : q \in Players} = hand[p] \cup (UNION {hand[q] : q \in Players \ {p}})
  OBVIOUS
<1>11. UNION {hand'[q] : q \in Players} = UNION {hand[q] : q \in Players \ {p}}
  BY <1>2
<1>12. c \notin drawPile \cup PileCards \cup TableCards \cup (UNION {hand[q] : q \in Players \ {p}})
  BY <1>4, ZonesDisjoint
<1>13. CardsInPlay' = Cards \ {c}
  BY <1>3, <1>9, <1>10, <1>11, <1>12 DEF CardsInPlay
<1>14. knocker' # NoOne
  BY DEF Players, NoOne
<1>. QED
  BY <1>1, <1>8, <1>13, <1>14 DEF CardConservation, NothingLost

LEMMA KnockConserves ==
  ASSUME ConservationInv, NEW p \in Players, NEW c, NEW dark, Knock(p, c, dark)
  PROVE  CardConservation' /\ NoKnockYet'
<1>1. knocker = NoOne /\ knocker' = p
  BY DEF ConservationInv, NoKnockYet, RoundOver, Knock
<1>z. TypeOK /\ CardConservation
  BY DEF ConservationInv
<1>2. /\ hand' = [hand EXCEPT ![p] = {}] /\ hand[p] = {c} /\ phase' = "round_over"
      /\ UNCHANGED <<drawPile, discardPile, melds>>
  BY DEF Knock, EndRound, tableVars
<1>3. TableCards' = TableCards \cup (hand[p] \ {c}) /\ MeldsDisjoint'
  BY <1>z, <1>2, ZonesDisjoint, SameTable
<1>4. CardConservation'
  BY <1>z, <1>1, <1>2, <1>3, KnockedOut
<1>. QED
  BY <1>2, <1>4 DEF NoKnockYet, RoundOver

LEMMA AutoKnockConserves ==
  ASSUME ConservationInv, NEW p \in Players, AutoKnock(p) PROVE CardConservation' /\ NoKnockYet'
<1>1. knocker = NoOne /\ knocker' = p
  BY DEF ConservationInv, NoKnockYet, RoundOver, AutoKnock
<1>z. TypeOK /\ CardConservation
  BY DEF ConservationInv
<1>2. PICK plan \in KnockPlans(hand[p], melds) : \E order \in Orders(plan.groups) :
        melds' = LaidDown(plan, order, p) /\ hand' = [hand EXCEPT ![p] = {}]
  BY DEF AutoKnock
<1>3. PICK order \in Orders(plan.groups) :
        melds' = LaidDown(plan, order, p) /\ hand' = [hand EXCEPT ![p] = {}]
  BY <1>2
<1>4. UNCHANGED <<drawPile, discardPile>> /\ phase' = "round_over"
  BY DEF AutoKnock, EndRound
<1>5. TableCards' = TableCards \cup (hand[p] \ {plan.card}) /\ MeldsDisjoint'
  <2>1. hand[p] \cap TableCards = {} /\ MeldsDisjoint
    BY <1>z, ZonesDisjoint
  <2>. QED
    BY <1>z, <1>3, <2>1, LaidDownCards
<1>6. plan.card \in hand[p]
  BY <1>z, PlanParts DEF TypeOK
<1>7. CardConservation'
  BY <1>z, <1>1, <1>3, <1>4, <1>5, <1>6, KnockedOut
<1>. QED
  BY <1>4, <1>7 DEF NoKnockYet, RoundOver

LEMMA InitConserves == Init => CardConservation /\ NoKnockYet
<1> SUFFICES ASSUME NEW hands \in [Players -> SUBSET Cards], NEW head \in Cards,
                    Deal(hands, head)
             PROVE  CardConservation /\ NoKnockYet
  BY DEF Init
<1>1. TableCards = {} /\ DOMAIN melds = {}
  BY DEF Deal, TableCards
<1>2. PileCards = {head} /\ DOMAIN discardPile = {1}
  <2>1. discardPile = <<head>>
    BY DEF Deal
  <2>2. DOMAIN discardPile = {1} /\ discardPile[1] = head
    BY <2>1
  <2>. QED
    BY <2>2 DEF PileCards
<1>3. /\ hand = hands /\ knocker = NoOne
      /\ drawPile = (Cards \ {head}) \ (UNION {hands[p] : p \in Players})
      /\ \A p, q \in Players : p # q => hands[p] \cap hands[q] = {}
      /\ \A p \in Players : head \notin hands[p]
  BY DEF Deal
<1>4. NoDuplicates
  BY <1>1, <1>2, <1>3 DEF NoDuplicates
<1>5. UNION {hand[p] : p \in Players} \subseteq Cards
  BY <1>3
<1>6. CardsInPlay = Cards
  BY <1>1, <1>2, <1>3, <1>5 DEF CardsInPlay
<1>. QED
  BY <1>3, <1>4, <1>6 DEF CardConservation, NothingLost, NoKnockYet

LEMMA NextConserves == ConservationInv /\ [Next]_vars => ConservationInv'
<1> SUFFICES ASSUME ConservationInv, [Next]_vars PROVE ConservationInv'
  OBVIOUS
<1>1. TypeOK'
  BY NextTypeOK DEF ConservationInv
<1>2. ASSUME NEW p \in Players, Move(p) PROVE CardConservation' /\ NoKnockYet'
  <2>1. CASE DrawDeck(p)
    BY <2>1, DrawDeckConserves
  <2>2. CASE PickUp(p)
    <3>1. PICK t \in DOMAIN discardPile :
            \/ \E i \in DOMAIN melds : PickUpLayOff(p, t, i)
            \/ \E S \in SUBSET (hand[p] \cup AboveTarget(t)) : PickUpMeld(p, t, S)
      BY <2>2 DEF PickUp
    <3>. QED
      BY <3>1, PickUpLayOffConserves, PickUpMeldConserves
  <2>3. CASE \E C \in SUBSET hand[p] : LayMeld(p, C)
    BY <2>3, LayMeldConserves
  <2>4. CASE \E C \in SUBSET hand[p], i \in DOMAIN melds : LayOff(p, C, i)
    BY <2>4, LayOffConserves
  <2>5. CASE \E c \in hand[p], dark \in BOOLEAN : Knock(p, c, dark)
    BY <2>5, KnockConserves
  <2>6. CASE AutoKnock(p)
    BY <2>6, AutoKnockConserves
  <2>7. CASE \E c \in hand[p] : Discard(p, c)
    BY <2>7, DiscardConserves
  <2>. QED
    BY <1>2, <2>1, <2>2, <2>3, <2>4, <2>5, <2>6, <2>7 DEF Move
<1>3. CASE UNCHANGED vars
  BY <1>1, <1>3, NothingMoved DEF ConservationInv, NoKnockYet, RoundOver, vars
<1>. QED
  BY <1>1, <1>2, <1>3 DEF Next, ConservationInv

(* In every round, whatever the deck, the number of players and the sizes  *)
(* of hands and melds, no card is in two places and none is lost but the   *)
(* knock card.                                                             *)
THEOREM Conservation == Spec => []CardConservation
<1>1. Init => ConservationInv
  BY InitTypeOK, InitConserves DEF ConservationInv
<1>2. ConservationInv => CardConservation
  BY DEF ConservationInv
<1>. QED
  BY <1>1, <1>2, NextConserves, PTL DEF Spec
===============================================================================
