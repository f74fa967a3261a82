---------------------------- MODULE DummyRoundProofs ----------------------------
(***************************************************************************)
(* Proofs about a round: the melds on the table, the head card, the views; *)
(* over the history of the round (who discarded what, who owned melds when *)
(* the turn began), dark knocks and penalties; that the engine implements  *)
(* what it promises, the card table (CardTable) and the turn flow the room *)
(* relies on (TurnFlow); and the points of all players together. For every *)
(* deck, number of players, hand size and minimum meld length.             *)
(***************************************************************************)
EXTENDS DummyEngineProofs, MCDummyEngine, SumProofs

-----------------------------------------------------------------------------
(* The melds stay melds.                                                   *)

ValidMeld(m) ==
  /\ IsMeld(m.cards)
  /\ m.kind = KindOf(m.cards)
  /\ m.aceHigh = AceActsHigh(m.cards)

LEMMA NewMeldValid ==
  ASSUME NEW C, NEW p, IsMeld(C) PROVE ValidMeld(MeldOf(C, p))
BY DEF ValidMeld, MeldOf

LEMMA LaidOffValid ==
  ASSUME NEW m \in Meld, NEW C, CanLayOff(m, C) PROVE ValidMeld(LaidOff(m, C))
<1>1. /\ LaidOff(m, C).cards = m.cards \cup C
      /\ LaidOff(m, C).kind = m.kind
      /\ LaidOff(m, C).aceHigh = AceActsHigh(m.cards \cup C)
  BY DEF LaidOff, Meld
<1>. QED
  BY <1>1 DEF ValidMeld, CanLayOff

(* One more meld, and one meld that grew, among valid ones.                *)
LEMMA ExposedMeldValid ==
  ASSUME TypeOK, MeldsValid, NEW C \in SUBSET Cards, NEW p \in Players, IsMeld(C),
         melds' = Append(melds, MeldOf(C, p))
  PROVE  MeldsValid'
<1>1. melds \in Seq(Meld) /\ MeldOf(C, p) \in Meld
  BY MeldOfType DEF TypeOK
<1>2. \A i \in DOMAIN melds' :
        \/ melds'[i] = MeldOf(C, p)
        \/ i \in DOMAIN melds /\ melds'[i] = melds[i]
  BY <1>1, AppendProperties
<1>3. ValidMeld(MeldOf(C, p))
  BY NewMeldValid
<1>4. \A i \in DOMAIN melds : ValidMeld(melds[i])
  BY DEF MeldsValid, ValidMeld
<1>5. \A i \in DOMAIN melds' : ValidMeld(melds'[i])
  BY <1>2, <1>3, <1>4
<1>. QED
  BY <1>5 DEF MeldsValid, ValidMeld

LEMMA GrownMeldValid ==
  ASSUME TypeOK, MeldsValid, NEW i \in DOMAIN melds, NEW C, CanLayOff(melds[i], C),
         melds' = [melds EXCEPT ![i] = LaidOff(melds[i], C)]
  PROVE  MeldsValid'
<1>1. melds \in Seq(Meld) /\ melds[i] \in Meld
  BY DEF TypeOK
<1>2. ValidMeld(LaidOff(melds[i], C))
  BY <1>1, LaidOffValid
<1>3. \A k \in DOMAIN melds' :
        \/ melds'[k] = LaidOff(melds[i], C)
        \/ k \in DOMAIN melds /\ melds'[k] = melds[k]
  BY <1>1
<1>4. \A k \in DOMAIN melds : ValidMeld(melds[k])
  BY DEF MeldsValid, ValidMeld
<1>5. \A k \in DOMAIN melds' : ValidMeld(melds'[k])
  BY <1>2, <1>3, <1>4
<1>. QED
  BY <1>5 DEF MeldsValid, ValidMeld

(* What a plan lays down is melds, and layoffs that fit.                   *)
LEMMA PlanFits ==
  ASSUME NEW h, NEW ms, NEW plan \in KnockPlans(h, ms)
  PROVE  /\ \A G \in plan.groups : IsMeld(G)
         /\ \A i \in DOMAIN ms : plan.lay[i] = {} \/ CanLayOff(ms[i], plan.lay[i])
<1>1. PICK k \in h :
        plan \in UNION { {[card |-> k, groups |-> P, lay |-> lay] :
                             P \in Partitions((h \ {k}) \ LaidCards(lay))} :
                          lay \in LayoffChoices(h \ {k}, ms)}
  BY DEF KnockPlans
<1>2. PICK lay \in LayoffChoices(h \ {k}, ms) :
        plan \in {[card |-> k, groups |-> P, lay |-> lay] :
                     P \in Partitions((h \ {k}) \ LaidCards(lay))}
  BY <1>1
<1>3. PICK P \in Partitions((h \ {k}) \ LaidCards(lay)) :
             plan = [card |-> k, groups |-> P, lay |-> lay]
  BY <1>2
<1>4. \A i \in DOMAIN ms : lay[i] = {} \/ CanLayOff(ms[i], lay[i])
  BY DEF LayoffChoices
<1>5. \A G \in P : IsMeld(G)
  BY DEF Partitions, NewMeldsIn
<1>. QED
  BY <1>3, <1>4, <1>5

LEMMA LaidDownValid ==
  ASSUME TypeOK, MeldsValid, NEW p \in Players, NEW plan \in KnockPlans(hand[p], melds),
         NEW order \in Orders(plan.groups), melds' = LaidDown(plan, order, p)
  PROVE  MeldsValid'
<1>1. melds \in Seq(Meld) /\ DOMAIN melds = 1..Len(melds) /\ Len(melds) \in Nat
      /\ hand[p] \in SUBSET Cards
  BY DEF TypeOK
<1>2. plan.groups \in SUBSET SUBSET Cards
  <2>1. plan.groups \subseteq SUBSET (hand[p] \ {plan.card})
    BY <1>1, PlanParts, Zenon
  <2>2. hand[p] \ {plan.card} \subseteq Cards
    BY <1>1
  <2>. QED
    BY <2>1, <2>2
<1>3. PICK n \in Nat : order \in [1..n -> plan.groups] /\ Len(order) = n
  BY <1>2, OrderOfGroups
<1>4. melds' = [i \in 1..(Len(melds) + n) |->
                  IF i \in DOMAIN melds
                  THEN IF plan.lay[i] = {} THEN melds[i] ELSE LaidOff(melds[i], plan.lay[i])
                  ELSE MeldOf(order[i - Len(melds)], p)]
  BY <1>3 DEF LaidDown
<1>5. /\ \A G \in plan.groups : IsMeld(G)
      /\ \A i \in DOMAIN melds : plan.lay[i] = {} \/ CanLayOff(melds[i], plan.lay[i])
  BY PlanFits, Zenon
<1>6. ASSUME NEW i \in DOMAIN melds' PROVE ValidMeld(melds'[i])
  <2>1. i \in 1..(Len(melds) + n)
    BY <1>4
  <2>2. CASE i \in DOMAIN melds /\ plan.lay[i] = {}
    BY <1>4, <2>1, <2>2 DEF MeldsValid, ValidMeld
  <2>3. CASE i \in DOMAIN melds /\ plan.lay[i] # {}
    <3>1. melds[i] \in Meld /\ CanLayOff(melds[i], plan.lay[i])
      BY <1>1, <1>5, <2>3
    <3>. QED
      BY <1>4, <2>1, <2>3, <3>1, LaidOffValid
  <2>4. CASE i \notin DOMAIN melds
    <3>1. i - Len(melds) \in 1..n
      BY <1>1, <2>1, <2>4
    <3>2. IsMeld(order[i - Len(melds)])
      BY <1>3, <1>5, <3>1
    <3>. QED
      BY <1>4, <2>1, <2>4, <3>2, NewMeldValid
  <2>. QED
    BY <2>2, <2>3, <2>4
<1>. QED
  BY <1>6 DEF MeldsValid, ValidMeld

LEMMA NextMeldsValid == TypeOK /\ MeldsValid /\ [Next]_vars => MeldsValid'
<1> SUFFICES ASSUME TypeOK, MeldsValid, [Next]_vars PROVE MeldsValid'
  OBVIOUS
<1>1. ASSUME UNCHANGED melds PROVE MeldsValid'
  BY <1>1 DEF MeldsValid
<1>2. ASSUME NEW p \in Players, Move(p) PROVE MeldsValid'
  <2>1. CASE DrawDeck(p)
    BY <1>1, <2>1 DEF DrawDeck, tableVars
  <2>2. CASE PickUp(p)
    <3>1. PICK t \in DOMAIN discardPile :
            \/ \E i \in DOMAIN melds : PickUpLayOff(p, t, i)
            \/ \E S \in SUBSET (hand[p] \cup AboveTarget(t)) : PickUpMeld(p, t, S)
      BY <2>2 DEF PickUp
    <3>2. ASSUME NEW i \in DOMAIN melds, PickUpLayOff(p, t, i) PROVE MeldsValid'
      BY <3>2, GrownMeldValid DEF PickUpLayOff, GrowMeld
    <3>3. ASSUME NEW S \in SUBSET (hand[p] \cup AboveTarget(t)), PickUpMeld(p, t, S)
          PROVE  MeldsValid'
      <4>1. S \cup {discardPile[t]} \in SUBSET Cards
        BY AboveTargetType DEF TypeOK
      <4>. QED
        BY <3>3, <4>1, ExposedMeldValid DEF PickUpMeld, ExposeMeld
    <3>. QED
      BY <3>1, <3>2, <3>3
  <2>3. ASSUME NEW C \in SUBSET hand[p], LayMeld(p, C) PROVE MeldsValid'
    <3>1. C \in SUBSET Cards
      BY DEF TypeOK
    <3>. QED
      BY <2>3, <3>1, ExposedMeldValid DEF LayMeld, ExposeMeld
  <2>4. ASSUME NEW C \in SUBSET hand[p], NEW i \in DOMAIN melds, LayOff(p, C, i)
        PROVE  MeldsValid'
    BY <2>4, GrownMeldValid DEF LayOff, GrowMeld
  <2>5. CASE \E c \in hand[p], dark \in BOOLEAN : Knock(p, c, dark)
    BY <1>1, <2>5 DEF Knock, tableVars
  <2>6. CASE AutoKnock(p)
    <3>1. PICK plan \in KnockPlans(hand[p], melds) :
            \E order \in Orders(plan.groups) : melds' = LaidDown(plan, order, p)
      BY <2>6 DEF AutoKnock
    <3>. QED
      BY <3>1, LaidDownValid
  <2>7. CASE \E c \in hand[p] : Discard(p, c)
    BY <1>1, <2>7 DEF Discard
  <2>. QED
    BY <1>2, <2>1, <2>2, <2>3, <2>4, <2>5, <2>6, <2>7 DEF Move
<1>3. CASE UNCHANGED vars
  BY <1>1, <1>3 DEF vars
<1>. QED
  BY <1>2, <1>3 DEF Next

(* Every meld on the table is a set or a run of the kind and with the Ace  *)
(* it says, whatever is laid off onto it (NewMeld, canLayOff,              *)
(* applyAutoKnock).                                                        *)
THEOREM MeldsStayValid == Spec => []MeldsValid
<1>1. Init => MeldsValid
  BY DEF Init, Deal, MeldsValid
<1>2. TypeOK /\ MeldsValid /\ [Next]_vars => MeldsValid'
  BY NextMeldsValid
<1>. QED
  BY <1>1, <1>2, TypeCorrectness, PTL DEF Spec

-----------------------------------------------------------------------------
(* The head card and its bonus.                                            *)

LEMMA NoOneIsNoPlayer == NoOne \notin Players
BY EngineAssumption DEF NoOne, Players

(* Melds keep their owners, and their cards, whatever is put on the table. *)
TableGrows(ms, more) ==
  \A i \in DOMAIN ms : /\ i \in DOMAIN more
                       /\ ms[i].cards \subseteq more[i].cards
                       /\ more[i].owner = ms[i].owner

LEMMA HeadStays ==
  ASSUME HeadBonusOwner, headOwner # NoOne, TableGrows(melds, melds'),
         UNCHANGED headCard, headOwner' = headOwner
  PROVE  HeadBonusOwner'
<1>1. PICK i \in DOMAIN melds : headCard \in melds[i].cards /\ melds[i].owner = headOwner
  BY DEF HeadBonusOwner
<1>2. i \in DOMAIN melds' /\ headCard' \in melds'[i].cards /\ melds'[i].owner = headOwner'
  BY <1>1 DEF TableGrows
<1>. QED
  BY <1>2 DEF HeadBonusOwner

LEMMA HeadExposed ==
  ASSUME TypeOK, HeadBonusOwner, NEW p \in Players, NEW C \in SUBSET Cards,
         melds' = Append(melds, MeldOf(C, p)), AbsorbHead(C, p), UNCHANGED headCard
  PROVE  HeadBonusOwner'
<1>. DEFINE n == Len(melds)
<1>1. /\ melds \in Seq(Meld) /\ n \in Nat /\ DOMAIN melds = 1..n
      /\ MeldOf(C, p) \in Meld /\ MeldOf(C, p).cards = C /\ MeldOf(C, p).owner = p
  BY MeldOfType DEF TypeOK
<1>2. /\ DOMAIN melds' = 1..(n + 1)
      /\ \A i \in 1..n : melds'[i] = melds[i]
      /\ melds'[n + 1] = MeldOf(C, p)
  BY <1>1, AppendProperties
<1>. HIDE DEF n
<1>3. CASE headOwner # NoOne
  <2>1. TableGrows(melds, melds')
    BY <1>1, <1>2 DEF TableGrows
  <2>. QED
    BY <1>3, <2>1, HeadStays DEF AbsorbHead
<1>4. CASE headOwner = NoOne /\ headCard \in C
  <2>1. headOwner' = p /\ p # NoOne
    BY <1>4, NoOneIsNoPlayer DEF AbsorbHead
  <2>2. n + 1 \in DOMAIN melds' /\ headCard' \in melds'[n + 1].cards
        /\ melds'[n + 1].owner = p
    BY <1>1, <1>2, <1>4
  <2>. QED
    BY <2>1, <2>2 DEF HeadBonusOwner
<1>5. CASE headOwner = NoOne /\ headCard \notin C
  <2>1. headOwner' = NoOne
    BY <1>5 DEF AbsorbHead
  <2>2. \A i \in 1..n : headCard \notin melds[i].cards
    BY <1>1, <1>5 DEF HeadBonusOwner, TableCards
  <2>3. \A i \in 1..(n + 1) : i \in 1..n \/ i = n + 1
    BY <1>1
  <2>4. \A i \in DOMAIN melds' : headCard' \notin melds'[i].cards
    BY <1>1, <1>2, <1>5, <2>2, <2>3
  <2>. QED
    BY <2>1, <2>4 DEF HeadBonusOwner, TableCards
<1>. QED
  BY <1>3, <1>4, <1>5

LEMMA HeadGrown ==
  ASSUME TypeOK, HeadBonusOwner, NEW i \in DOMAIN melds, NEW C \in SUBSET Cards,
         GrowMeld(i, C), UNCHANGED headCard
  PROVE  HeadBonusOwner'
<1>0. melds \in Seq(Meld) /\ melds[i] \in Meld
  BY DEF TypeOK
<1>1. melds[i].owner \in Players
  BY <1>0 DEF Meld
<1>2. LaidOff(melds[i], C).cards = melds[i].cards \cup C
      /\ LaidOff(melds[i], C).owner = melds[i].owner
  BY <1>0, LaidOffType
<1>3. /\ DOMAIN melds' = DOMAIN melds
      /\ melds'[i] = LaidOff(melds[i], C)
      /\ \A k \in DOMAIN melds : k # i => melds'[k] = melds[k]
  BY <1>0 DEF GrowMeld
<1>4. AbsorbHead(C, melds[i].owner)
  BY DEF GrowMeld
<1>5. CASE headOwner # NoOne
  <2>1. TableGrows(melds, melds')
    BY <1>2, <1>3 DEF TableGrows
  <2>. QED
    BY <1>4, <1>5, <2>1, HeadStays DEF AbsorbHead
<1>6. CASE headOwner = NoOne /\ headCard \in C
  <2>1. headOwner' = melds[i].owner /\ melds[i].owner # NoOne
    BY <1>1, <1>4, <1>6, NoOneIsNoPlayer DEF AbsorbHead
  <2>2. i \in DOMAIN melds' /\ headCard' \in melds'[i].cards
        /\ melds'[i].owner = melds[i].owner
    BY <1>2, <1>3, <1>6
  <2>. QED
    BY <2>1, <2>2 DEF HeadBonusOwner
<1>7. CASE headOwner = NoOne /\ headCard \notin C
  <2>1. headOwner' = NoOne
    BY <1>4, <1>7 DEF AbsorbHead
  <2>2. \A k \in DOMAIN melds : headCard \notin melds[k].cards
    BY <1>7 DEF HeadBonusOwner, TableCards
  <2>3. \A k \in DOMAIN melds' : headCard' \notin melds'[k].cards
    BY <1>2, <1>3, <1>7, <2>2
  <2>. QED
    BY <2>1, <2>3 DEF HeadBonusOwner, TableCards
<1>. QED
  BY <1>5, <1>6, <1>7

LEMMA HeadLaidDown ==
  ASSUME TypeOK, HeadBonusOwner, NEW p \in Players,
         NEW plan \in KnockPlans(hand[p], melds), NEW order \in Orders(plan.groups),
         melds' = LaidDown(plan, order, p), headOwner' = HeadOwnerAfter(melds'),
         UNCHANGED headCard
  PROVE  HeadBonusOwner'
<1>1. PlanOnTable(melds', plan, order, p)
  BY LaidDownMelds
<1>2. /\ melds \in Seq(Meld) /\ DOMAIN melds = 1..Len(melds)
      /\ melds' \in Seq(Meld) /\ DOMAIN melds' = 1..Len(melds')
  BY <1>1 DEF TypeOK, PlanOnTable
<1>3. CASE headOwner # NoOne
  <2>1. TableGrows(melds, melds')
    BY <1>1, <1>2 DEF PlanOnTable, TableGrows
  <2>2. headOwner' = headOwner
    BY <1>3 DEF HeadOwnerAfter
  <2>. QED
    BY <1>3, <2>1, <2>2, HeadStays
<1>4. CASE headOwner = NoOne /\ \E i \in DOMAIN melds' : headCard \in melds'[i].cards
  <2>. DEFINE k == CHOOSE i \in DOMAIN melds' : headCard \in melds'[i].cards
  <2>1. k \in DOMAIN melds' /\ headCard \in melds'[k].cards
    BY <1>4
  <2>2. headOwner' = melds'[k].owner
    BY <1>4 DEF HeadOwnerAfter
  <2>. HIDE DEF k
  <2>3. melds'[k].owner \in Players
    <3>1. melds'[k] \in Meld
      BY <1>2, <2>1
    <3>. QED
      BY <3>1 DEF Meld
  <2>. QED
    BY <2>1, <2>2, <2>3, NoOneIsNoPlayer DEF HeadBonusOwner
<1>5. CASE headOwner = NoOne /\ ~\E i \in DOMAIN melds' : headCard \in melds'[i].cards
  <2>1. headOwner' = NoOne
    BY <1>5 DEF HeadOwnerAfter
  <2>. QED
    BY <1>5, <2>1 DEF HeadBonusOwner, TableCards
<1>. QED
  BY <1>3, <1>4, <1>5

LEMMA NextHeadBonusOwner == TypeOK /\ HeadBonusOwner /\ [Next]_vars => HeadBonusOwner'
<1> SUFFICES ASSUME TypeOK, HeadBonusOwner, [Next]_vars PROVE HeadBonusOwner'
  OBVIOUS
<1>1. ASSUME UNCHANGED <<melds, headCard, headOwner>> PROVE HeadBonusOwner'
  BY <1>1 DEF HeadBonusOwner, TableCards
<1>2. ASSUME NEW p \in Players, Move(p) PROVE HeadBonusOwner'
  <2>1. CASE DrawDeck(p)
    BY <1>1, <2>1 DEF DrawDeck, tableVars
  <2>2. CASE PickUp(p)
    <3>1. PICK t \in DOMAIN discardPile :
            \/ \E i \in DOMAIN melds : PickUpLayOff(p, t, i)
            \/ \E S \in SUBSET (hand[p] \cup AboveTarget(t)) : PickUpMeld(p, t, S)
      BY <2>2 DEF PickUp
    <3>2. discardPile[t] \in Cards
      BY DEF TypeOK
    <3>3. ASSUME NEW i \in DOMAIN melds, PickUpLayOff(p, t, i) PROVE HeadBonusOwner'
      BY <3>2, <3>3, HeadGrown DEF PickUpLayOff
    <3>4. ASSUME NEW S \in SUBSET (hand[p] \cup AboveTarget(t)), PickUpMeld(p, t, S)
          PROVE  HeadBonusOwner'
      <4>1. S \cup {discardPile[t]} \in SUBSET Cards
        BY <3>2, AboveTargetType DEF TypeOK
      <4>. QED
        BY <3>4, <4>1, HeadExposed DEF PickUpMeld, ExposeMeld
    <3>. QED
      BY <3>1, <3>3, <3>4
  <2>3. ASSUME NEW C \in SUBSET hand[p], LayMeld(p, C) PROVE HeadBonusOwner'
    <3>1. C \in SUBSET Cards
      BY DEF TypeOK
    <3>. QED
      BY <2>3, <3>1, HeadExposed DEF LayMeld, ExposeMeld
  <2>4. ASSUME NEW C \in SUBSET hand[p], NEW i \in DOMAIN melds, LayOff(p, C, i)
        PROVE  HeadBonusOwner'
    <3>1. C \in SUBSET Cards
      BY DEF TypeOK
    <3>. QED
      BY <2>4, <3>1, HeadGrown DEF LayOff
  <2>5. CASE \E c \in hand[p], dark \in BOOLEAN : Knock(p, c, dark)
    BY <1>1, <2>5 DEF Knock, tableVars
  <2>6. CASE AutoKnock(p)
    <3>1. PICK plan \in KnockPlans(hand[p], melds) :
            \E order \in Orders(plan.groups) :
              /\ melds' = LaidDown(plan, order, p)
              /\ headOwner' = HeadOwnerAfter(melds')
      BY <2>6 DEF AutoKnock
    <3>. QED
      BY <2>6, <3>1, HeadLaidDown DEF AutoKnock
  <2>7. CASE \E c \in hand[p] : Discard(p, c)
    BY <1>1, <2>7 DEF Discard
  <2>. QED
    BY <1>2, <2>1, <2>2, <2>3, <2>4, <2>5, <2>6, <2>7 DEF Move
<1>3. CASE UNCHANGED vars
  BY <1>1, <1>3 DEF vars
<1>. QED
  BY <1>2, <1>3 DEF Next

(* The head bonus belongs to the player in whose meld the head card lies,  *)
(* and to nobody while it lies in none (absorbHead, applyAutoKnock).       *)
THEOREM HeadBonusFollowsCard == Spec => []HeadBonusOwner
<1>1. Init => HeadBonusOwner
  BY DEF Init, Deal, HeadBonusOwner, TableCards
<1>2. TypeOK /\ HeadBonusOwner /\ [Next]_vars => HeadBonusOwner'
  BY NextHeadBonusOwner
<1>. QED
  BY <1>1, <1>2, TypeCorrectness, PTL DEF Spec

-----------------------------------------------------------------------------
(* The views.                                                              *)

LEMMA SwapKeepsCount ==
  ASSUME NEW C, IsFiniteSet(C), NEW c, NEW d
  PROVE  Cardinality(Swapped(C, c, d)) = Cardinality(C)
<1>. DEFINE swap(x) == IF x = c THEN d ELSE IF x = d THEN c ELSE x
            f == [x \in C |-> swap(x)]
            T == {swap(x) : x \in C}
<1>1. f \in [C -> T] /\ \A t \in T : \E x \in C : f[x] = t
  OBVIOUS
<1>2. \A x, y \in C : f[x] = f[y] => x = y
  OBVIOUS
<1>3. f \in Bijection(C, T)
  BY <1>1, <1>2 DEF Bijection, Injection, Surjection, IsInjective
<1>4. ExistsBijection(C, T)
  BY <1>3 DEF ExistsBijection
<1>5. Cardinality(T) = Cardinality(C)
  BY <1>4, FS_Bijection
<1>. QED
  BY <1>5 DEF Swapped

LEMMA SwapElsewhere ==
  ASSUME NEW C, NEW c, NEW d, c \notin C, d \notin C PROVE Swapped(C, c, d) = C
BY DEF Swapped

LEMMA HiddenIsNotHeld ==
  ASSUME NoDuplicates, NEW viewer \in Players
  PROVE  HiddenFrom(viewer) \cap hand[viewer] = {}
BY DEF NoDuplicates, HiddenFrom

LEMMA DisjointHandsHide == TypeOK /\ NoDuplicates => ViewsHideHands
<1> SUFFICES ASSUME TypeOK, NoDuplicates, NEW viewer \in Viewers,
                    NEW c \in HiddenFrom(viewer), NEW d \in HiddenFrom(viewer)
             PROVE  ViewFor(viewer, hand, drawPile) =
                      ViewFor(viewer, [p \in Players |-> Swapped(hand[p], c, d)],
                              Swapped(drawPile, c, d))
  BY DEF ViewsHideHands
<1>. DEFINE others == [p \in Players |-> Swapped(hand[p], c, d)]
<1>1. IsFiniteSet(drawPile) /\ \A p \in Players : IsFiniteSet(hand[p])
  <2>1. drawPile \in SUBSET Cards /\ \A p \in Players : hand[p] \in SUBSET Cards
    BY DEF TypeOK
  <2>. QED
    BY <2>1, CardsFinite, FS_Subset
<1>2. Cardinality(Swapped(drawPile, c, d)) = Cardinality(drawPile)
  BY <1>1, SwapKeepsCount
<1>3. [p \in Players |-> Cardinality(others[p])] = [p \in Players |-> Cardinality(hand[p])]
  BY <1>1, SwapKeepsCount
<1>4. viewer \in Players => others[viewer] = hand[viewer]
  BY HiddenIsNotHeld, SwapElsewhere
<1>5. KnockLamp(viewer, others) = KnockLamp(viewer, hand)
  <2>1. CASE viewer \in Players
    BY <1>4, <2>1 DEF KnockLamp
  <2>2. CASE viewer \notin Players
    <3>1. viewer # turn
      BY <2>2 DEF TypeOK
    <3>. QED
      BY <3>1 DEF KnockLamp
  <2>. QED
    BY <2>1, <2>2
<1>. HIDE DEF others
<1>6. ViewFor(viewer, hand, drawPile) = ViewFor(viewer, others, Swapped(drawPile, c, d))
  BY <1>2, <1>3, <1>4, <1>5 DEF ViewFor
<1>. QED
  BY <1>6 DEF others

(* No view, the knock lamp of the viewer's included, depends on where the  *)
(* cards lie that the viewer does not see (viewFor): because no card is in *)
(* two places, exchanging two of them leaves the viewer's own hand alone.  *)
THEOREM ViewsNeverLeak == Spec => []ViewsHideHands
<1>1. TypeOK /\ CardConservation => ViewsHideHands
  BY DisjointHandsHide DEF CardConservation
<1>. QED
  BY <1>1, TypeCorrectness, Conservation, PTL

-----------------------------------------------------------------------------
(* The specification with its history variables.                           *)

LEMMA MCSpecIsSpec == MCSpec => Spec
<1>1. MCInit => Init
  BY DEF MCInit
<1>2. [MCNext]_<<vars, discarder, ownersAtTurnStart>> => [Next]_vars
  BY DEF MCNext
<1>. QED
  BY <1>1, <1>2, PTL DEF MCSpec, Spec

LEMMA MCTypeCorrect == MCSpec => []TypeOK
BY MCSpecIsSpec, TypeCorrectness, PTL

-----------------------------------------------------------------------------
(* Dark knocks.                                                            *)

(* Owning a meld and having produced are the same.                         *)
ProducersOwn == \A p \in Players : produced[p] <=> p \in MeldOwners

(* The snapshot of the player on turn tells who owned a meld.              *)
SnapshotTells == producedAtTurnStart[turn] <=> turn \in ownersAtTurnStart

(* Only the player on turn, without a meld by the snapshot, knocked dark.  *)
DarkBySnapshot ==
  knockDark => RoundOver /\ knocker = turn /\ ~producedAtTurnStart[turn]

BlindInv == TypeOK /\ ProducersOwn /\ SnapshotTells /\ DarkBySnapshot

LEMMA ExposedOwners ==
  ASSUME TypeOK, ProducersOwn, NEW p \in Players, NEW C \in SUBSET Cards, ExposeMeld(p, C)
  PROVE  ProducersOwn'
<1>. DEFINE n == Len(melds)
<1>1. /\ melds \in Seq(Meld) /\ n \in Nat /\ DOMAIN melds = 1..n
      /\ MeldOf(C, p) \in Meld /\ MeldOf(C, p).owner = p
  BY MeldOfType DEF TypeOK
<1>2. /\ DOMAIN melds' = 1..(n + 1)
      /\ \A i \in 1..n : melds'[i] = melds[i]
      /\ melds'[n + 1] = MeldOf(C, p)
  BY <1>1, AppendProperties DEF ExposeMeld
<1>. HIDE DEF n
<1>3. 1..(n + 1) = 1..n \cup {n + 1}
  BY <1>1
<1>4. MeldOwners' = MeldOwners \cup {p}
  BY <1>1, <1>2, <1>3 DEF MeldOwners
<1>5. produced' = [produced EXCEPT ![p] = TRUE] /\ produced \in [Players -> BOOLEAN]
  BY DEF ExposeMeld, TypeOK
<1>. QED
  BY <1>4, <1>5 DEF ProducersOwn

LEMMA GrownOwners ==
  ASSUME TypeOK, ProducersOwn, NEW i \in DOMAIN melds, NEW C \in SUBSET Cards,
         GrowMeld(i, C), UNCHANGED produced
  PROVE  ProducersOwn'
<1>1. melds \in Seq(Meld) /\ melds[i] \in Meld
  BY DEF TypeOK
<1>2. LaidOff(melds[i], C).owner = melds[i].owner
  BY <1>1, LaidOffType
<1>3. /\ DOMAIN melds' = DOMAIN melds
      /\ \A k \in DOMAIN melds : melds'[k].owner = melds[k].owner
  BY <1>1, <1>2 DEF GrowMeld
<1>4. MeldOwners' = MeldOwners
  BY <1>3 DEF MeldOwners
<1>. QED
  BY <1>4 DEF ProducersOwn

LEMMA LaidDownOwners ==
  ASSUME TypeOK, ProducersOwn, NEW p \in Players,
         NEW plan \in KnockPlans(hand[p], melds), NEW order \in Orders(plan.groups),
         melds' = LaidDown(plan, order, p),
         produced' = [produced EXCEPT ![p] = @ \/ plan.groups # {}]
  PROVE  ProducersOwn'
<1>1. hand[p] \in SUBSET Cards /\ melds \in Seq(Meld) /\ DOMAIN melds = 1..Len(melds)
      /\ Len(melds) \in Nat /\ produced \in [Players -> BOOLEAN]
  BY DEF TypeOK
<1>2. plan.groups \in SUBSET SUBSET Cards
  <2>1. plan.groups \subseteq SUBSET (hand[p] \ {plan.card})
    BY <1>1, PlanParts, Zenon
  <2>2. hand[p] \ {plan.card} \subseteq Cards
    BY <1>1
  <2>. QED
    BY <2>1, <2>2
<1>3. PICK n \in Nat : /\ Len(order) = n /\ order \in [1..n -> plan.groups]
                       /\ \A G \in plan.groups : \E i \in 1..n : order[i] = G
  BY <1>2, OrderOfGroups
<1>4. n > 0 <=> plan.groups # {}
  BY <1>3
<1>5. PlanOnTable(melds', plan, order, p)
  BY LaidDownMelds
<1>6. /\ DOMAIN melds' = 1..(Len(melds) + n)
      /\ \A i \in 1..Len(melds) : melds'[i].owner = melds[i].owner
      /\ \A i \in 1..n : melds'[Len(melds) + i].owner = p
  <2>1. /\ melds' \in Seq(Meld) /\ Len(melds') = Len(melds) + n
        /\ \A i \in 1..Len(melds) : melds'[i].owner = melds[i].owner
        /\ \A i \in 1..n : melds'[Len(melds) + i].owner = p
    BY <1>3, <1>5 DEF PlanOnTable
  <2>2. DOMAIN melds' = 1..Len(melds')
    BY <2>1
  <2>. QED
    BY <2>1, <2>2
<1>7. \A k \in 1..(Len(melds) + n) :
        k \in 1..Len(melds) \/ (k - Len(melds) \in 1..n /\ k = Len(melds) + (k - Len(melds)))
  BY <1>1
<1>8. 1..Len(melds) \subseteq DOMAIN melds' /\ (n > 0 => Len(melds) + 1 \in DOMAIN melds')
  BY <1>1, <1>6
<1>9. MeldOwners' = MeldOwners \cup (IF n > 0 THEN {p} ELSE {})
  <2>1. \A k \in DOMAIN melds' : melds'[k].owner \in MeldOwners \cup (IF n > 0 THEN {p} ELSE {})
    <3> SUFFICES ASSUME NEW k \in DOMAIN melds'
                 PROVE  melds'[k].owner \in MeldOwners \cup (IF n > 0 THEN {p} ELSE {})
      OBVIOUS
    <3>1. CASE k \in 1..Len(melds)
      BY <1>1, <1>6, <3>1 DEF MeldOwners
    <3>2. CASE k \notin 1..Len(melds)
      <4>1. k - Len(melds) \in 1..n /\ k = Len(melds) + (k - Len(melds))
        BY <1>6, <1>7, <3>2
      <4>2. melds'[k].owner = p
        BY <1>6, <4>1
      <4>3. n > 0
        BY <4>1
      <4>. QED
        BY <4>2, <4>3
    <3>. QED
      BY <3>1, <3>2
  <2>2. MeldOwners \subseteq MeldOwners'
    BY <1>1, <1>6, <1>8 DEF MeldOwners
  <2>3. n > 0 => p \in MeldOwners'
    <3>1. n > 0 => 1 \in 1..n
      OBVIOUS
    <3>. QED
      BY <1>6, <1>8, <3>1 DEF MeldOwners
  <2>. QED
    BY <2>1, <2>2, <2>3 DEF MeldOwners
<1>10. \A q \in Players : produced'[q] <=> (produced[q] \/ (q = p /\ n > 0))
  BY <1>1, <1>4
<1>. QED
  BY <1>9, <1>10 DEF ProducersOwn

LEMMA MoveKeepsProducersOwn ==
  ASSUME TypeOK, ProducersOwn, NEW p \in Players, Move(p) PROVE ProducersOwn'
<1>1. ASSUME UNCHANGED <<melds, produced>> PROVE ProducersOwn'
  BY <1>1 DEF ProducersOwn, MeldOwners
<1>2. CASE DrawDeck(p)
  BY <1>1, <1>2 DEF DrawDeck, tableVars
<1>3. CASE PickUp(p)
  <2>1. PICK t \in DOMAIN discardPile :
          \/ \E i \in DOMAIN melds : PickUpLayOff(p, t, i)
          \/ \E S \in SUBSET (hand[p] \cup AboveTarget(t)) : PickUpMeld(p, t, S)
    BY <1>3 DEF PickUp
  <2>2. discardPile[t] \in Cards
    BY DEF TypeOK
  <2>3. ASSUME NEW i \in DOMAIN melds, PickUpLayOff(p, t, i) PROVE ProducersOwn'
    BY <2>2, <2>3, GrownOwners DEF PickUpLayOff
  <2>4. ASSUME NEW S \in SUBSET (hand[p] \cup AboveTarget(t)), PickUpMeld(p, t, S)
        PROVE  ProducersOwn'
    <3>1. S \cup {discardPile[t]} \in SUBSET Cards
      BY <2>2, AboveTargetType DEF TypeOK
    <3>. QED
      BY <2>4, <3>1, ExposedOwners DEF PickUpMeld
  <2>. QED
    BY <2>1, <2>3, <2>4
<1>4. ASSUME NEW C \in SUBSET hand[p], LayMeld(p, C) PROVE ProducersOwn'
  <2>1. C \in SUBSET Cards
    BY DEF TypeOK
  <2>. QED
    BY <1>4, <2>1, ExposedOwners DEF LayMeld
<1>5. ASSUME NEW C \in SUBSET hand[p], NEW i \in DOMAIN melds, LayOff(p, C, i)
      PROVE  ProducersOwn'
  <2>1. C \in SUBSET Cards
    BY DEF TypeOK
  <2>. QED
    BY <1>5, <2>1, GrownOwners DEF LayOff
<1>6. CASE \E c \in hand[p], dark \in BOOLEAN : Knock(p, c, dark)
  BY <1>1, <1>6 DEF Knock, tableVars
<1>7. CASE AutoKnock(p)
  <2>1. PICK plan \in KnockPlans(hand[p], melds) :
          \E order \in Orders(plan.groups) :
            /\ melds' = LaidDown(plan, order, p)
            /\ produced' = [produced EXCEPT ![p] = @ \/ plan.groups # {}]
    BY <1>7 DEF AutoKnock
  <2>. QED
    BY <2>1, LaidDownOwners
<1>8. CASE \E c \in hand[p] : Discard(p, c)
  BY <1>1, <1>8 DEF Discard
<1>. QED
  BY <1>2, <1>3, <1>4, <1>5, <1>6, <1>7, <1>8 DEF Move

LEMMA NextSeatMovesOn == ASSUME TypeOK PROVE NextSeat \in Players /\ NextSeat # turn
<1>1. turn \in 0..(NumPlayers - 1) /\ NumPlayers \in Nat /\ NumPlayers > 1
  BY EngineAssumption DEF Players, TypeOK
<1>2. CASE turn = NumPlayers - 1
  <2>1. (turn + 1) % NumPlayers = 0
    BY <1>1, <1>2
  <2>. QED
    BY <1>1, <1>2, <2>1 DEF NextSeat, Players
<1>3. CASE turn < NumPlayers - 1
  <2>1. (turn + 1) % NumPlayers = turn + 1
    BY <1>1, <1>3
  <2>. QED
    BY <1>1, <1>3, <2>1 DEF NextSeat, Players
<1>. QED
  BY <1>1, <1>2, <1>3

LEMMA MoveKeepsSnapshot ==
  ASSUME BlindInv, NEW p \in Players, Move(p), MCNext, ProducersOwn'
  PROVE  SnapshotTells'
<1>. USE DEF BlindInv
<1>1. ASSUME UNCHANGED <<turn, producedAtTurnStart>> PROVE SnapshotTells'
  BY <1>1 DEF SnapshotTells, MCNext
<1>2. ASSUME NEW c \in hand[p], Discard(p, c) PROVE SnapshotTells'
  <2>1. turn' = NextSeat /\ NextSeat \in Players /\ NextSeat # turn
    BY <1>2, NextSeatMovesOn DEF Discard, OpenTurn
  <2>2. producedAtTurnStart'[turn'] = produced[turn'] /\ UNCHANGED produced
    BY <1>2, <2>1 DEF Discard, OpenTurn, TypeOK
  <2>3. ownersAtTurnStart' = MeldOwners'
    BY <2>1 DEF MCNext
  <2>4. produced'[turn'] <=> turn' \in MeldOwners'
    BY <2>1 DEF ProducersOwn
  <2>. QED
    BY <2>2, <2>3, <2>4 DEF SnapshotTells
<1>3. CASE DrawDeck(p)
  BY <1>1, <1>3 DEF DrawDeck
<1>4. CASE PickUp(p)
  BY <1>1, <1>4 DEF PickUp, PickUpLayOff, PickUpMeld
<1>5. CASE \E C \in SUBSET hand[p] : LayMeld(p, C)
  BY <1>1, <1>5 DEF LayMeld
<1>6. CASE \E C \in SUBSET hand[p], i \in DOMAIN melds : LayOff(p, C, i)
  BY <1>1, <1>6 DEF LayOff
<1>7. CASE \E c \in hand[p], dark \in BOOLEAN : Knock(p, c, dark)
  BY <1>1, <1>7 DEF Knock
<1>8. CASE AutoKnock(p)
  BY <1>1, <1>8 DEF AutoKnock
<1>. QED
  BY <1>2, <1>3, <1>4, <1>5, <1>6, <1>7, <1>8 DEF Move

LEMMA MoveKeepsDark ==
  ASSUME BlindInv, NEW p \in Players, Move(p) PROVE DarkBySnapshot'
<1>. USE DEF BlindInv
<1>1. ASSUME UNCHANGED knockDark, ~RoundOver PROVE DarkBySnapshot'
  BY <1>1 DEF DarkBySnapshot
<1>2. phase \in {"draw", "meld"} => ~RoundOver
  BY DEF RoundOver
<1>3. CASE DrawDeck(p)
  BY <1>1, <1>2, <1>3 DEF DrawDeck
<1>4. CASE PickUp(p)
  BY <1>1, <1>2, <1>4 DEF PickUp, PickUpLayOff, PickUpMeld, endVars
<1>5. CASE \E C \in SUBSET hand[p] : LayMeld(p, C)
  BY <1>1, <1>2, <1>5 DEF LayMeld, endVars
<1>6. CASE \E C \in SUBSET hand[p], i \in DOMAIN melds : LayOff(p, C, i)
  BY <1>1, <1>2, <1>6 DEF LayOff, endVars
<1>7. ASSUME NEW c \in hand[p], NEW dark \in BOOLEAN, Knock(p, c, dark)
      PROVE  DarkBySnapshot'
  BY <1>7 DEF Knock, EndRound, DarkBySnapshot, RoundOver
<1>8. CASE AutoKnock(p)
  BY <1>1, <1>2, <1>8 DEF AutoKnock
<1>9. CASE \E c \in hand[p] : Discard(p, c)
  BY <1>1, <1>2, <1>9 DEF Discard, endVars
<1>. QED
  BY <1>3, <1>4, <1>5, <1>6, <1>7, <1>8, <1>9 DEF Move

LEMMA NextBlindInv ==
  BlindInv /\ [MCNext]_<<vars, discarder, ownersAtTurnStart>> => BlindInv'
<1> SUFFICES ASSUME BlindInv, [MCNext]_<<vars, discarder, ownersAtTurnStart>>
             PROVE  BlindInv'
  OBVIOUS
<1>1. TypeOK'
  BY NextTypeOK DEF BlindInv, MCNext
<1>2. ASSUME NEW p \in Players, Move(p), MCNext
      PROVE  ProducersOwn' /\ SnapshotTells' /\ DarkBySnapshot'
  BY <1>2, MoveKeepsProducersOwn, MoveKeepsSnapshot, MoveKeepsDark DEF BlindInv
<1>3. CASE UNCHANGED <<vars, discarder, ownersAtTurnStart>>
  BY <1>3 DEF BlindInv, vars, ProducersOwn, MeldOwners, SnapshotTells, DarkBySnapshot,
              RoundOver, TypeOK
<1>. QED
  BY <1>1, <1>2, <1>3 DEF BlindInv, MCNext, Next

(* A dark knock is paid double only to a player who owned no meld when the *)
(* turn began (applyKnock and the snapshot of applyDiscard).               *)
THEOREM DarkKnockPaysTheBlind == MCSpec => []DarkKnockIsBlind
<1>1. MCInit => BlindInv
  <2>1. MCInit => TypeOK
    BY InitTypeOK DEF MCInit
  <2>2. MCInit => ProducersOwn /\ SnapshotTells /\ DarkBySnapshot
    <3>1. 0 \in Players
      BY EngineAssumption DEF Players
    <3>. QED
      BY <3>1 DEF MCInit, Init, Deal, ProducersOwn, MeldOwners, SnapshotTells, DarkBySnapshot
  <2>. QED
    BY <2>1, <2>2 DEF BlindInv
<1>2. BlindInv /\ [MCNext]_<<vars, discarder, ownersAtTurnStart>> => BlindInv'
  BY NextBlindInv
<1>3. BlindInv => DarkKnockIsBlind
  BY DEF BlindInv, DarkBySnapshot, SnapshotTells, DarkKnockIsBlind
<1>. QED
  BY <1>1, <1>2, <1>3, PTL DEF MCSpec

-----------------------------------------------------------------------------
(* Penalties.                                                              *)

(* discardedBy, the slice next to the pile, says of every card in the pile *)
(* who discarded it.                                                       *)
SlicesParallel ==
  /\ discarder \in [Cards -> Players \cup {NoOne}]
  /\ Len(discardedBy) = Len(discardPile)
  /\ \A i \in DOMAIN discardPile : discardedBy[i] = discarder[discardPile[i]]

PenaltyInv == ConservationInv /\ SlicesParallel

DiscarderStep ==
  discarder' =
    [c \in Cards |-> CASE c \in PileCards' \ PileCards -> turn
                       [] c \in PileCards' \cap PileCards -> discarder[c]
                       [] OTHER -> NoOne]

LEMMA PileTypes ==
  ASSUME TypeOK, SlicesParallel
  PROVE  /\ discardPile \in Seq(Cards) /\ discardedBy \in Seq(Players \cup {NoOne})
         /\ Len(discardPile) \in Nat
         /\ DOMAIN discardPile = 1..Len(discardPile)
         /\ DOMAIN discardedBy = 1..Len(discardPile)
         /\ \A i \in 1..Len(discardPile) : discardPile[i] \in PileCards
<1>1. discardPile \in Seq(Cards) /\ discardedBy \in Seq(Players \cup {NoOne})
  BY DEF TypeOK
<1>2. Len(discardPile) \in Nat /\ DOMAIN discardPile = 1..Len(discardPile)
  BY <1>1
<1>3. DOMAIN discardedBy = 1..Len(discardPile)
  BY <1>1 DEF SlicesParallel
<1>4. \A i \in 1..Len(discardPile) : discardPile[i] \in PileCards
  BY <1>2 DEF PileCards
<1>. QED
  BY <1>1, <1>2, <1>3, <1>4

LEMMA DiscarderKept ==
  ASSUME TypeOK, SlicesParallel, DiscarderStep
  PROVE  /\ discarder' \in [Cards -> Players \cup {NoOne}]
         /\ \A c \in Cards : c \in PileCards /\ c \in PileCards' => discarder'[c] = discarder[c]
         /\ \A c \in Cards : c \in PileCards' \ PileCards => discarder'[c] = turn
BY DEF TypeOK, SlicesParallel, DiscarderStep

(* An action that leaves the pile alone.                                   *)
LEMMA PileAlone ==
  ASSUME TypeOK, SlicesParallel, DiscarderStep,
         UNCHANGED <<discardPile, discardedBy, dumpPenalties>>
  PROVE  /\ SlicesParallel'
         /\ \A q \in Players : ~PenaltyOwed(q) /\ dumpPenalties'[q] = dumpPenalties[q] + 0
<1>1. PileCards' = PileCards
  BY DEF PileCards
<1>2. SlicesParallel'
  BY <1>1, PileTypes, DiscarderKept DEF SlicesParallel
<1>3. Len(discardPile) \in Nat /\ dumpPenalties \in [Players -> Nat]
  BY DEF TypeOK
<1>4. \A q \in Players : ~PenaltyOwed(q)
  BY <1>3 DEF PenaltyOwed
<1>. QED
  BY <1>2, <1>3, <1>4

(* Picking up the card at position t charges whoever discarded it.         *)
LEMMA PickUpCharges ==
  ASSUME TypeOK, SlicesParallel, DiscarderStep, NEW p \in Players, turn = p,
         NEW t \in DOMAIN discardPile, ChargeDumper(p, t), TruncatePile(t)
  PROVE  /\ SlicesParallel'
         /\ \A q \in Players :
              dumpPenalties'[q] = dumpPenalties[q] + (IF PenaltyOwed(q) THEN 1 ELSE 0)
<1>. DEFINE n == Len(discardPile)
<1>1. /\ n \in Nat /\ t \in 1..n /\ DOMAIN discardPile = 1..n /\ DOMAIN discardedBy = 1..n
      /\ discardPile \in Seq(Cards) /\ discardedBy \in Seq(Players \cup {NoOne})
      /\ Len(discardedBy) = n
  BY PileTypes DEF SlicesParallel
<1>2. discardPile' = SubSeq(discardPile, 1, t - 1) /\ discardedBy' = SubSeq(discardedBy, 1, t - 1)
  BY <1>1 DEF TruncatePile
<1>3. /\ Len(discardPile') = t - 1 /\ DOMAIN discardPile' = 1..(t - 1)
      /\ Len(discardedBy') = t - 1
      /\ \A i \in 1..(t - 1) : /\ discardPile'[i] = discardPile[i]
                               /\ discardedBy'[i] = discardedBy[i]
  BY <1>1, <1>2
<1>4. \A i \in 1..(t - 1) : discardPile[i] \in PileCards /\ discardPile[i] \in PileCards'
                            /\ discardPile[i] \in Cards
  BY <1>1, <1>3 DEF PileCards
<1>5. SlicesParallel'
  <2>1. \A i \in 1..(t - 1) : discardedBy'[i] = discarder'[discardPile'[i]]
    BY <1>1, <1>3, <1>4, DiscarderKept DEF SlicesParallel
  <2>. QED
    BY <1>3, <2>1, DiscarderKept DEF SlicesParallel
<1>6. discardedBy[t] = discarder[discardPile[t]]
  BY <1>1 DEF SlicesParallel
<1>7. Len(discardPile') < n /\ ~(Len(discardPile') > n) /\ Len(discardPile') + 1 = t
  BY <1>1, <1>3
<1>8. \A q \in Players : PenaltyOwed(q) <=> (q # p /\ discardedBy[t] = q)
  BY <1>6, <1>7 DEF PenaltyOwed
<1>9. dumpPenalties \in [Players -> Nat]
  BY DEF TypeOK
<1>10. ASSUME NEW q \in Players
       PROVE  dumpPenalties'[q] = dumpPenalties[q] + (IF PenaltyOwed(q) THEN 1 ELSE 0)
  <2>1. q # NoOne
    BY NoOneIsNoPlayer
  <2>2. CASE discardedBy[t] = q /\ q # p
    BY <1>1, <1>8, <1>9, <2>1, <2>2 DEF ChargeDumper
  <2>3. CASE ~(discardedBy[t] = q /\ q # p)
    <3>1. dumpPenalties'[q] = dumpPenalties[q]
      BY <1>1, <1>9, <2>3 DEF ChargeDumper
    <3>. QED
      BY <1>8, <1>9, <2>3, <3>1
  <2>. QED
    BY <2>2, <2>3
<1>. QED
  BY <1>5, <1>10

LEMMA DiscardCharges ==
  ASSUME TypeOK, SlicesParallel, NoDuplicates, DiscarderStep, NEW p \in Players,
         NEW c \in hand[p], Discard(p, c)
  PROVE  /\ SlicesParallel'
         /\ \A q \in Players :
              dumpPenalties'[q] = dumpPenalties[q] + (IF PenaltyOwed(q) THEN 1 ELSE 0)
<1>. DEFINE n == Len(discardPile)
<1>1. /\ n \in Nat /\ DOMAIN discardPile = 1..n /\ DOMAIN discardedBy = 1..n
      /\ discardPile \in Seq(Cards) /\ discardedBy \in Seq(Players \cup {NoOne})
      /\ Len(discardedBy) = n
  BY PileTypes DEF SlicesParallel
<1>2. c \in Cards /\ c \notin PileCards /\ turn = p
  BY DEF TypeOK, NoDuplicates, Discard
<1>3. discardPile' = Append(discardPile, c) /\ discardedBy' = Append(discardedBy, p)
  BY DEF Discard
<1>4. /\ Len(discardPile') = n + 1 /\ Len(discardedBy') = n + 1
      /\ DOMAIN discardPile' = 1..(n + 1)
      /\ \A i \in 1..n : discardPile'[i] = discardPile[i] /\ discardedBy'[i] = discardedBy[i]
      /\ discardPile'[n + 1] = c /\ discardedBy'[n + 1] = p
  BY <1>1, <1>2, <1>3, AppendProperties
<1>5. \A i \in 1..n : discardPile[i] \in PileCards /\ discardPile[i] \in PileCards'
                      /\ discardPile[i] \in Cards
  BY <1>1, <1>4 DEF PileCards
<1>6. c \in PileCards'
  BY <1>1, <1>4 DEF PileCards
<1>7. SlicesParallel'
  <2>1. \A i \in 1..n : discardedBy'[i] = discarder'[discardPile'[i]]
    BY <1>1, <1>4, <1>5, DiscarderKept DEF SlicesParallel
  <2>2. discardedBy'[n + 1] = discarder'[discardPile'[n + 1]]
    BY <1>2, <1>4, <1>6, DiscarderKept
  <2>3. 1..(n + 1) = 1..n \cup {n + 1}
    BY <1>1
  <2>. QED
    BY <1>4, <2>1, <2>2, <2>3, DiscarderKept DEF SlicesParallel
<1>8. Len(discardPile') > n /\ ~(Len(discardPile') < n)
  BY <1>1, <1>4
<1>9. \A q \in Players : PenaltyOwed(q) <=> (q = p /\ LayableOnAny(melds, c))
  BY <1>2, <1>4, <1>8 DEF PenaltyOwed
<1>10. dumpPenalties \in [Players -> Nat]
       /\ dumpPenalties' = IF LayableOnAny(melds, c)
                           THEN [dumpPenalties EXCEPT ![p] = @ + 1]
                           ELSE dumpPenalties
  BY DEF TypeOK, Discard
<1>11. ASSUME NEW q \in Players
       PROVE  dumpPenalties'[q] = dumpPenalties[q] + (IF PenaltyOwed(q) THEN 1 ELSE 0)
  <2>1. CASE q = p /\ LayableOnAny(melds, c)
    BY <1>9, <1>10, <2>1
  <2>2. CASE ~(q = p /\ LayableOnAny(melds, c))
    <3>1. dumpPenalties'[q] = dumpPenalties[q]
      BY <1>10, <2>2
    <3>. QED
      BY <1>9, <1>10, <2>2, <3>1
  <2>. QED
    BY <2>1, <2>2
<1>. QED
  BY <1>7, <1>11

PenaltyStep ==
  \A q \in Players :
    dumpPenalties'[q] = dumpPenalties[q] + (IF PenaltyOwed(q) THEN 1 ELSE 0)

LEMMA MoveCharges ==
  ASSUME TypeOK, NoDuplicates, SlicesParallel, DiscarderStep, NEW p \in Players, Move(p)
  PROVE  SlicesParallel' /\ PenaltyStep
<1>1. ASSUME UNCHANGED <<discardPile, discardedBy, dumpPenalties>>
      PROVE  SlicesParallel' /\ PenaltyStep
  BY <1>1, PileAlone DEF PenaltyStep
<1>2. CASE DrawDeck(p)
  BY <1>1, <1>2 DEF DrawDeck, tableVars
<1>3. CASE PickUp(p)
  <2>1. PICK t \in DOMAIN discardPile : turn = p /\ ChargeDumper(p, t) /\ TruncatePile(t)
    BY <1>3 DEF PickUp, PickUpLayOff, PickUpMeld
  <2>. QED
    BY <2>1, PickUpCharges DEF PenaltyStep
<1>4. CASE \E C \in SUBSET hand[p] : LayMeld(p, C)
  BY <1>1, <1>4 DEF LayMeld
<1>5. CASE \E C \in SUBSET hand[p], i \in DOMAIN melds : LayOff(p, C, i)
  BY <1>1, <1>5 DEF LayOff
<1>6. CASE \E c \in hand[p], dark \in BOOLEAN : Knock(p, c, dark)
  BY <1>1, <1>6 DEF Knock, tableVars
<1>7. CASE AutoKnock(p)
  BY <1>1, <1>7 DEF AutoKnock
<1>8. CASE \E c \in hand[p] : Discard(p, c)
  BY <1>8, DiscardCharges DEF PenaltyStep
<1>. QED
  BY <1>2, <1>3, <1>4, <1>5, <1>6, <1>7, <1>8 DEF Move

(* A penalty is charged when and only when one is owed, to the player      *)
(* whose card it was (applyDraw, applyDiscard, DiscardedBy).               *)
THEOREM PenaltiesHitTheDiscarder == MCSpec => PenaltyAttribution
<1>. DEFINE v == <<vars, discarder, ownersAtTurnStart>>
<1>1. MCInit => PenaltyInv
  <2>1. MCInit => ConservationInv
    BY InitTypeOK, InitConserves DEF MCInit, ConservationInv
  <2>2. MCInit => SlicesParallel
    <3> SUFFICES ASSUME MCInit PROVE SlicesParallel
      OBVIOUS
    <3>1. discardPile = <<headCard>> /\ discardedBy = <<NoOne>> /\ headCard \in Cards
      BY DEF MCInit, Init, Deal
    <3>2. discarder = [c \in Cards |-> NoOne]
      BY DEF MCInit
    <3>. QED
      BY <3>1, <3>2 DEF SlicesParallel
  <2>. QED
    BY <2>1, <2>2 DEF PenaltyInv
<1>2. PenaltyInv /\ [MCNext]_v => PenaltyInv' /\ [PenaltyStep]_vars
  <2> SUFFICES ASSUME PenaltyInv, [MCNext]_v PROVE PenaltyInv' /\ [PenaltyStep]_vars
    OBVIOUS
  <2>1. ConservationInv'
    BY NextConserves DEF PenaltyInv, MCNext
  <2>2. CASE UNCHANGED v
    <3>1. UNCHANGED <<vars, discarder>>
      BY <2>2
    <3>2. SlicesParallel'
      BY <3>1 DEF PenaltyInv, SlicesParallel, vars
    <3>. QED
      BY <2>1, <3>1, <3>2 DEF PenaltyInv
  <2>3. CASE MCNext
    <3>1. PICK p \in Players : Move(p)
      BY <2>3 DEF MCNext, Next
    <3>2. TypeOK /\ NoDuplicates /\ SlicesParallel /\ DiscarderStep
      BY <2>3 DEF PenaltyInv, ConservationInv, CardConservation, MCNext, DiscarderStep
    <3>. QED
      BY <2>1, <3>1, <3>2, MoveCharges DEF PenaltyInv
  <2>. QED
    BY <2>2, <2>3
<1>3. MCSpec => [][PenaltyStep]_vars
  BY <1>1, <1>2, PTL DEF MCSpec
<1>. QED
  BY <1>3 DEF PenaltyAttribution, PenaltyStep


-----------------------------------------------------------------------------
(* The card table.                                                         *)

LEMMA InitOfTable == Init => Table!Init
<1> SUFFICES ASSUME Init PROVE Table!Init
  OBVIOUS
<1>1. TypeOK /\ CardConservation /\ NoKnockYet
  BY InitTypeOK, InitConserves
<1>2. turn \in Players /\ phase = "draw" /\ melds = <<>>
  BY <1>1 DEF Init, Deal, TypeOK
<1>3. TableCards = {}
  BY <1>2 DEF TableCards
<1>4. CardsInPlay = Cards
  BY <1>1, <1>2 DEF NoKnockYet, RoundOver, CardConservation, NothingLost
<1>5. drawPile \cup PileCards \cup UNION {hand[p] : p \in Players} = Cards
  BY <1>3, <1>4 DEF CardsInPlay
<1>6. drawPile \in SUBSET Cards /\ PileCards \in SUBSET Cards
      /\ hand \in [Players -> SUBSET Cards]
  BY <1>1, <1>5 DEF TypeOK
<1>. QED
  BY <1>2, <1>3, <1>5, <1>6 DEF Table!Init, Table!Players, Players

LEMMA DrawOfTable ==
  ASSUME NEW p \in Players, DrawDeck(p) PROVE Table!DrawOne \/ Table!RunOut
<1>1. turn = p /\ phase = "draw" /\ UNCHANGED <<turn, melds, discardPile>>
  BY DEF DrawDeck, tableVars
<1>2. PileCards' = PileCards /\ TableCards' = TableCards
  BY <1>1 DEF PileCards, TableCards
<1>3. CASE drawPile = {} /\ EndRound("deck_exhaust") /\ UNCHANGED <<hand, drawPile>>
  BY <1>1, <1>2, <1>3 DEF EndRound, Table!RunOut
<1>4. CASE \E c \in drawPile : /\ drawPile' = drawPile \ {c}
                               /\ hand' = [hand EXCEPT ![p] = @ \cup {c}]
                               /\ phase' = "meld"
  BY <1>1, <1>2, <1>4 DEF Table!DrawOne
<1>. QED
  BY <1>3, <1>4 DEF DrawDeck

(* C \ hand came from the pile, H is what the mover holds afterwards.      *)
LEMMA TakeOfTable ==
  ASSUME NEW p \in Players, turn = p, phase = "draw", phase' = "meld",
         UNCHANGED <<drawPile, turn>>, NEW c \in PileCards, NEW C, c \in C,
         c \notin PileCards', PileCards' \subseteq PileCards,
         TableCards' = TableCards \cup C, C \cap TableCards = {},
         C \subseteq (PileCards \ PileCards') \cup hand[p],
         hand' = [hand EXCEPT ![p] = (hand[p] \cup (PileCards \ PileCards')) \ C]
  PROVE  Table!TakeFromPile
<1>1. TableCards' \ TableCards = C
  OBVIOUS
<1>2. hand' = [hand EXCEPT ![turn] =
                 (@ \cup (PileCards \ PileCards')) \ (TableCards' \ TableCards)]
  BY <1>1
<1>. QED
  BY <1>2 DEF Table!TakeFromPile

LEMMA PickUpLayOffOfTable ==
  ASSUME TypeOK, CardConservation, NEW p \in Players, NEW t \in DOMAIN discardPile,
         NEW i \in DOMAIN melds, PickUpLayOff(p, t, i)
  PROVE  Table!TakeFromPile
<1>. DEFINE c == discardPile[t]
            up == AboveTarget(t)
<1>1. /\ turn = p /\ phase = "draw" /\ phase' = "meld" /\ UNCHANGED <<drawPile, turn>>
      /\ hand' = [hand EXCEPT ![p] = hand[p] \cup up]
      /\ TruncatePile(t) /\ GrowMeld(i, {c})
  BY DEF PickUpLayOff
<1>2. c \in Cards /\ c \in PileCards
  BY DEF TypeOK, PileCards
<1>3. /\ PileCards = PileCards' \cup {c} \cup up
      /\ c \notin PileCards' \cup up
      /\ PileCards' \cap up = {}
  BY <1>1, ZonesDisjoint, TruncatedPileCards
<1>. HIDE DEF c, up
<1>4. {c} \cap TableCards = {} /\ {c} \in SUBSET Cards
  BY <1>2, ZonesDisjoint
<1>5. TableCards' = TableCards \cup {c}
  BY <1>1, <1>4, ZonesDisjoint, GrownMeldCards
<1>6. c \notin hand[p] /\ c \notin up
  BY <1>2, <1>3, ZonesDisjoint
<1>7. (hand[p] \cup (PileCards \ PileCards')) \ {c} = hand[p] \cup up
  BY <1>3, <1>6
<1>8. {c} \subseteq (PileCards \ PileCards') \cup hand[p] /\ PileCards' \subseteq PileCards
  BY <1>3
<1>. QED
  BY <1>1, <1>2, <1>3, <1>4, <1>5, <1>7, <1>8, TakeOfTable

LEMMA PickUpMeldOfTable ==
  ASSUME TypeOK, CardConservation, NEW p \in Players, NEW t \in DOMAIN discardPile,
         NEW S \in SUBSET (hand[p] \cup AboveTarget(t)), PickUpMeld(p, t, S)
  PROVE  Table!TakeFromPile
<1>. DEFINE c == discardPile[t]
            up == AboveTarget(t)
            C == S \cup {c}
<1>1. /\ turn = p /\ phase = "draw" /\ phase' = "meld" /\ UNCHANGED <<drawPile, turn>>
      /\ hand' = [hand EXCEPT ![p] = (hand[p] \cup up) \ S]
      /\ TruncatePile(t) /\ melds' = Append(melds, MeldOf(C, p))
  BY DEF PickUpMeld, ExposeMeld
<1>2. c \in Cards /\ c \in PileCards /\ S \in SUBSET Cards
  BY AboveTargetType DEF TypeOK, PileCards
<1>3. /\ PileCards = PileCards' \cup {c} \cup up
      /\ c \notin PileCards' \cup up
      /\ PileCards' \cap up = {}
  BY <1>1, ZonesDisjoint, TruncatedPileCards
<1>. HIDE DEF c
<1>4. C \cap TableCards = {} /\ C \in SUBSET Cards
  BY <1>2, <1>3, ZonesDisjoint
<1>5. TableCards' = TableCards \cup C
  BY <1>1, <1>4, ZonesDisjoint, ExposedMeldCards
<1>6. c \notin hand[p] /\ c \notin up
  BY <1>2, <1>3, ZonesDisjoint
<1>7. (hand[p] \cup (PileCards \ PileCards')) \ C = (hand[p] \cup up) \ S
  BY <1>3, <1>6
<1>8. C \subseteq (PileCards \ PileCards') \cup hand[p] /\ PileCards' \subseteq PileCards
      /\ c \in C
  BY <1>3
<1>. HIDE DEF C, up
<1>. QED
  BY <1>1, <1>2, <1>3, <1>4, <1>5, <1>7, <1>8, TakeOfTable

LEMMA LayOfTable ==
  ASSUME NEW p \in Players, turn = p, phase = "meld", NEW C, C \subseteq hand[p],
         UNCHANGED <<drawPile, discardPile, turn, phase>>,
         hand' = [hand EXCEPT ![p] = hand[p] \ C],
         TableCards' = TableCards \cup C, C \cap TableCards = {}
  PROVE  Table!LayOnTable
<1>1. PileCards' = PileCards
  BY DEF PileCards
<1>2. TableCards' \ TableCards = C
  OBVIOUS
<1>3. hand' = [hand EXCEPT ![turn] = @ \ (TableCards' \ TableCards)]
  BY <1>2
<1>. QED
  BY <1>1, <1>2, <1>3 DEF Table!LayOnTable

LEMMA LayMeldOfTable ==
  ASSUME TypeOK, CardConservation, NEW p \in Players, NEW C, LayMeld(p, C)
  PROVE  Table!LayOnTable
<1>1. /\ turn = p /\ phase = "meld" /\ C \subseteq hand[p]
      /\ hand' = [hand EXCEPT ![p] = hand[p] \ C]
      /\ melds' = Append(melds, MeldOf(C, p))
      /\ UNCHANGED <<drawPile, discardPile, turn, phase>>
  BY DEF LayMeld, ExposeMeld
<1>2. C \cap TableCards = {} /\ C \in SUBSET Cards
  BY <1>1, ZonesDisjoint DEF TypeOK
<1>3. TableCards' = TableCards \cup C
  BY <1>1, <1>2, ZonesDisjoint, ExposedMeldCards
<1>. QED
  BY <1>1, <1>2, <1>3, LayOfTable

LEMMA LayOffOfTable ==
  ASSUME TypeOK, CardConservation, NEW p \in Players, NEW C, NEW i \in DOMAIN melds,
         LayOff(p, C, i)
  PROVE  Table!LayOnTable
<1>1. /\ turn = p /\ phase = "meld" /\ C \subseteq hand[p]
      /\ hand' = [hand EXCEPT ![p] = hand[p] \ C] /\ GrowMeld(i, C)
      /\ UNCHANGED <<drawPile, discardPile, turn, phase>>
  BY DEF LayOff
<1>2. C \cap TableCards = {} /\ C \in SUBSET Cards
  BY <1>1, ZonesDisjoint DEF TypeOK
<1>3. TableCards' = TableCards \cup C
  BY <1>1, <1>2, ZonesDisjoint, GrownMeldCards
<1>. QED
  BY <1>1, <1>2, <1>3, LayOfTable

LEMMA KnockOfTable ==
  ASSUME NEW p \in Players, NEW c, NEW dark, Knock(p, c, dark) PROVE Table!GoOut
<1>1. /\ turn = p /\ phase = "meld" /\ phase' = "round_over" /\ hand[turn] = {c}
      /\ hand' = [hand EXCEPT ![turn] = {}]
      /\ UNCHANGED <<drawPile, discardPile, melds, turn>>
  BY DEF Knock, EndRound, tableVars
<1>2. PileCards' = PileCards /\ TableCards' = TableCards
  BY <1>1 DEF PileCards, TableCards
<1>3. TableCards' = TableCards \cup (hand[turn] \ {c}) /\ c \in hand[turn]
  BY <1>1, <1>2
<1>. QED
  BY <1>1, <1>2, <1>3 DEF Table!GoOut

LEMMA AutoKnockOfTable ==
  ASSUME TypeOK, CardConservation, NEW p \in Players, AutoKnock(p) PROVE Table!GoOut
<1>1. /\ turn = p /\ phase = "meld" /\ phase' = "round_over"
      /\ hand' = [hand EXCEPT ![turn] = {}]
      /\ UNCHANGED <<drawPile, discardPile, turn>>
  BY DEF AutoKnock, EndRound
<1>2. PICK plan \in KnockPlans(hand[p], melds) :
             \E order \in Orders(plan.groups) : melds' = LaidDown(plan, order, p)
  BY DEF AutoKnock
<1>3. plan.card \in hand[p]
  BY PlanParts DEF TypeOK
<1>4. TableCards' = TableCards \cup (hand[p] \ {plan.card})
  <2>1. hand[p] \cap TableCards = {} /\ MeldsDisjoint
    BY ZonesDisjoint
  <2>. QED
    BY <1>2, <2>1, LaidDownCards
<1>5. PileCards' = PileCards
  BY <1>1 DEF PileCards
<1>6. \E c \in hand[turn] : TableCards' = TableCards \cup (hand[turn] \ {c})
  BY <1>1, <1>3, <1>4
<1>. QED
  BY <1>1, <1>5, <1>6 DEF Table!GoOut

LEMMA DiscardOfTable ==
  ASSUME TypeOK, CardConservation, NEW p \in Players, NEW c, Discard(p, c)
  PROVE  Table!DropOne
<1>1. /\ turn = p /\ phase = "meld" /\ phase' = "draw" /\ c \in hand[p]
      /\ hand' = [hand EXCEPT ![p] = hand[p] \ {c}]
      /\ discardPile' = Append(discardPile, c)
      /\ turn' = (turn + 1) % NumPlayers /\ UNCHANGED <<drawPile, melds>>
  BY DEF Discard, OpenTurn, NextSeat
<1>2. c \in Cards /\ c \notin PileCards
  BY <1>1, ZonesDisjoint DEF TypeOK
<1>3. PileCards' = PileCards \cup {c}
  BY <1>1, <1>2, ZonesDisjoint, DiscardedPileCards
<1>4. TableCards' = TableCards
  BY <1>1 DEF TableCards
<1>. QED
  BY <1>1, <1>3, <1>4 DEF Table!DropOne

LEMMA StepOfTable == ConservationInv /\ [Next]_vars => [Table!Next]_(Table!vars)
<1> SUFFICES ASSUME ConservationInv, [Next]_vars PROVE [Table!Next]_(Table!vars)
  OBVIOUS
<1>1. TypeOK /\ CardConservation
  BY DEF ConservationInv
<1>2. ASSUME UNCHANGED vars PROVE UNCHANGED Table!vars
  BY <1>2 DEF vars, Table!vars, PileCards, TableCards
<1>3. ASSUME NEW p \in Players, Move(p) PROVE Table!Next
  <2>1. CASE DrawDeck(p)
    BY <2>1, DrawOfTable DEF Table!Next
  <2>2. CASE PickUp(p)
    BY <1>1, <2>2, PickUpLayOffOfTable, PickUpMeldOfTable DEF PickUp, Table!Next
  <2>3. CASE \E C \in SUBSET hand[p] : LayMeld(p, C)
    BY <1>1, <2>3, LayMeldOfTable DEF Table!Next
  <2>4. CASE \E C \in SUBSET hand[p], i \in DOMAIN melds : LayOff(p, C, i)
    BY <1>1, <2>4, LayOffOfTable DEF Table!Next
  <2>5. CASE \E c \in hand[p], dark \in BOOLEAN : Knock(p, c, dark)
    BY <2>5, KnockOfTable DEF Table!Next
  <2>6. CASE AutoKnock(p)
    BY <1>1, <2>6, AutoKnockOfTable DEF Table!Next
  <2>7. CASE \E c \in hand[p] : Discard(p, c)
    BY <1>1, <2>7, DiscardOfTable DEF Table!Next
  <2>. QED
    BY <1>3, <2>1, <2>2, <2>3, <2>4, <2>5, <2>6, <2>7 DEF Move
<1>. QED
  BY <1>2, <1>3 DEF Next

(* Whatever is melded and however a hand is gone out with, a round moves   *)
(* cards only as CardTable allows: one taking of cards a turn, by the      *)
(* player on turn alone, and nothing taken back from the table.            *)
THEOREM MovesCards == MCSpec => MovesCardsAsPromised
<1>1. Init => ConservationInv
  BY InitTypeOK, InitConserves DEF ConservationInv
<1>2. Spec => Table!Spec
  BY <1>1, InitOfTable, StepOfTable, NextConserves, PTL DEF Spec, Table!Spec
<1>. QED
  BY <1>2, MCSpecIsSpec DEF MovesCardsAsPromised

-----------------------------------------------------------------------------
(* The turn flow: how many cards each hand, the deck and the pile hold.    *)

Sizes == [q \in Players |-> Cardinality(hand[q])]

LEMMA CardsCount ==
  ASSUME NEW C \in SUBSET Cards
  PROVE  /\ IsFiniteSet(C) /\ Cardinality(C) \in Nat
         /\ Cardinality(C) <= Cardinality(Cards)
         /\ Cardinality(C) = 0 <=> C = {}
<1>1. IsFiniteSet(C) /\ Cardinality(C) <= Cardinality(Cards)
  BY CardsFinite, FS_Subset
<1>. QED
  BY <1>1, FS_CardinalityType, FS_EmptySet

LEMMA MinusSubset ==
  ASSUME NEW C \in SUBSET Cards, NEW D \in SUBSET C
  PROVE  Cardinality(C \ D) = Cardinality(C) - Cardinality(D)
<1>1. C \cap D = D /\ IsFiniteSet(C)
  BY CardsCount
<1>. QED
  BY <1>1, FS_Difference

LEMMA PlusDisjoint ==
  ASSUME NEW C \in SUBSET Cards, NEW D \in SUBSET Cards, C \cap D = {}
  PROVE  Cardinality(C \cup D) = Cardinality(C) + Cardinality(D)
<1>1. IsFiniteSet(C) /\ IsFiniteSet(D) /\ Cardinality(C) \in Nat /\ Cardinality(D) \in Nat
  BY CardsCount
<1>. QED
  BY <1>1, FS_Union, FS_EmptySet

LEMMA MinusOne ==
  ASSUME NEW C \in SUBSET Cards, NEW c \in C
  PROVE  Cardinality(C \ {c}) = Cardinality(C) - 1 /\ Cardinality(C) > 0
<1>1. IsFiniteSet(C) /\ Cardinality(C) \in Nat /\ Cardinality(C) # 0
  BY CardsCount
<1>2. Cardinality(C \ {c}) = IF c \in C THEN Cardinality(C) - 1 ELSE Cardinality(C)
  BY <1>1, FS_RemoveElement, Zenon
<1>. QED
  BY <1>1, <1>2

LEMMA PlusOne ==
  ASSUME NEW C \in SUBSET Cards, NEW c \in Cards, c \notin C
  PROVE  Cardinality(C \cup {c}) = Cardinality(C) + 1
BY CardsCount, FS_AddElement

LEMMA SizesStep ==
  ASSUME TypeOK, NEW p \in Players, NEW H, hand' = [hand EXCEPT ![p] = H]
  PROVE  Sizes' = [Sizes EXCEPT ![p] = Cardinality(H)]
BY DEF TypeOK, Sizes

LEMMA SizesType == TypeOK => /\ Sizes \in [Players -> Nat]
                            /\ \A q \in Players : Sizes[q] = Cardinality(hand[q])
BY CardsCount DEF TypeOK, Sizes

(* The hands of the deal hold HandSize cards each, NumPlayers * HandSize   *)
(* in all.                                                                 *)
LEMMA DealtCards ==
  ASSUME NEW hands \in [Players -> SUBSET Cards],
         \A q \in Players : Cardinality(hands[q]) = HandSize,
         \A q, r \in Players : q # r => hands[q] \cap hands[r] = {}
  PROVE  Cardinality(UNION {hands[q] : q \in Players}) = NumPlayers * HandSize
<1>. DEFINE all == UNION {hands[q] : q \in Players}
            pairs == Players \X (1..HandSize)
<1>1. \A q \in Players : Bijection(1..HandSize, hands[q]) # {}
  <2> SUFFICES ASSUME NEW q \in Players PROVE Bijection(1..HandSize, hands[q]) # {}
    OBVIOUS
  <2>1. IsFiniteSet(hands[q]) /\ Cardinality(hands[q]) = HandSize
    BY CardsCount
  <2>. QED
    BY <2>1, FS_CardinalityType DEF ExistsBijection
<1>. DEFINE nth == [q \in Players |-> CHOOSE b \in Bijection(1..HandSize, hands[q]) : TRUE]
<1>2. \A q \in Players : nth[q] \in Bijection(1..HandSize, hands[q])
  BY <1>1
<1>. HIDE DEF nth
<1>3. \A q \in Players :
        /\ nth[q] \in [1..HandSize -> hands[q]]
        /\ \A i, j \in 1..HandSize : nth[q][i] = nth[q][j] => i = j
        /\ \A c \in hands[q] : \E i \in 1..HandSize : nth[q][i] = c
  <2> SUFFICES ASSUME NEW q \in Players
               PROVE  /\ nth[q] \in [1..HandSize -> hands[q]]
                      /\ \A i, j \in 1..HandSize : nth[q][i] = nth[q][j] => i = j
                      /\ \A c \in hands[q] : \E i \in 1..HandSize : nth[q][i] = c
    OBVIOUS
  <2>1. nth[q] \in Injection(1..HandSize, hands[q]) /\ nth[q] \in Surjection(1..HandSize, hands[q])
    BY <1>2 DEF Bijection
  <2>2. nth[q] \in [1..HandSize -> hands[q]] /\ IsInjective(nth[q])
    BY <2>1 DEF Injection
  <2>3. \A c \in hands[q] : \E i \in 1..HandSize : nth[q][i] = c
    BY <2>1 DEF Surjection
  <2>. QED
    BY <2>2, <2>3 DEF IsInjective
<1>. DEFINE f == [x \in pairs |-> nth[x[1]][x[2]]]
<1>4. f \in [pairs -> all]
  <2> SUFFICES ASSUME NEW q \in Players, NEW i \in 1..HandSize PROVE nth[q][i] \in all
    OBVIOUS
  <2>1. nth[q] \in [1..HandSize -> hands[q]]
    BY <1>3
  <2>2. nth[q][i] \in hands[q]
    BY <2>1
  <2>. QED
    BY <2>2
<1>5. \A x, y \in pairs : f[x] = f[y] => x = y
  <2> SUFFICES ASSUME NEW q \in Players, NEW i \in 1..HandSize,
                      NEW r \in Players, NEW j \in 1..HandSize, nth[q][i] = nth[r][j]
               PROVE  q = r /\ i = j
    OBVIOUS
  <2>1. nth[q][i] \in hands[q] /\ nth[r][j] \in hands[r]
    BY <1>3
  <2>2. q = r
    BY <2>1
  <2>. QED
    BY <1>3, <2>2
<1>6. \A c \in all : \E x \in pairs : f[x] = c
  <2> SUFFICES ASSUME NEW q \in Players, NEW c \in hands[q] PROVE \E x \in pairs : f[x] = c
    OBVIOUS
  <2>1. PICK i \in 1..HandSize : nth[q][i] = c
    BY <1>3
  <2>2. <<q, i>> \in pairs /\ f[<<q, i>>] = c
    BY <2>1
  <2>. QED
    BY <2>2
<1>. HIDE DEF all, f
<1>7. ExistsBijection(pairs, all)
  <2>1. f \in Injection(pairs, all)
    BY <1>4, <1>5 DEF Injection, IsInjective
  <2>2. f \in Surjection(pairs, all)
    BY <1>4, <1>6 DEF Surjection
  <2>. QED
    BY <2>1, <2>2 DEF ExistsBijection, Bijection
<1>8. IsFiniteSet(Players) /\ Cardinality(Players) = NumPlayers
  <2>1. NumPlayers \in Int /\ NumPlayers - 1 \in Int /\ NumPlayers > 1
    BY EngineAssumption
  <2>2. IsFiniteSet(0..(NumPlayers - 1)) /\ Cardinality(0..(NumPlayers - 1)) = NumPlayers
    BY <2>1, FS_Interval
  <2>. QED
    BY <2>2 DEF Players
<1>9. IsFiniteSet(1..HandSize) /\ Cardinality(1..HandSize) = HandSize
  BY EngineAssumption, FS_Interval
<1>10. IsFiniteSet(pairs) /\ Cardinality(pairs) = NumPlayers * HandSize
  <2>1. IsFiniteSet(pairs) /\ Cardinality(pairs) = Cardinality(Players) * Cardinality(1..HandSize)
    BY <1>8, <1>9, FS_Product
  <2>. QED
    BY <1>8, <1>9, <2>1
<1>. HIDE DEF pairs
<1>11. Cardinality(all) = NumPlayers * HandSize
  BY <1>7, <1>10, FS_Bijection
<1>. QED
  BY <1>11 DEF all

LEMMA InitOfFlow == Init => Flow!Init
<1> SUFFICES ASSUME NEW hands \in [Players -> SUBSET Cards], NEW head \in Cards,
                    Deal(hands, head)
             PROVE  Flow!Init
  BY DEF Init
<1>. DEFINE all == UNION {hands[q] : q \in Players}
<1>1. /\ hand = hands /\ drawPile = (Cards \ {head}) \ all /\ head \notin all
      /\ \A q \in Players : Cardinality(hands[q]) = HandSize
      /\ \A q, r \in Players : q # r => hands[q] \cap hands[r] = {}
  BY DEF Deal
<1>2. all \in SUBSET Cards
  OBVIOUS
<1>3. Cardinality(all) = NumPlayers * HandSize
  BY <1>1, DealtCards
<1>. HIDE DEF all
<1>4. Cardinality(drawPile) = Cardinality(Cards) - NumPlayers * HandSize - 1
  <2>1. Cards \ {head} \in SUBSET Cards /\ all \in SUBSET (Cards \ {head})
    BY <1>1, <1>2
  <2>2. Cardinality(drawPile) = Cardinality(Cards \ {head}) - Cardinality(all)
    BY <1>1, <2>1, MinusSubset
  <2>3. Cardinality(Cards \ {head}) = Cardinality(Cards) - 1
    BY MinusOne
  <2>4. Cardinality(Cards) \in Nat /\ Cardinality(all) \in Nat
    BY <1>2, CardsCount
  <2>. QED
    BY <1>3, <2>2, <2>3, <2>4
<1>5. [q \in Players |-> Cardinality(hand[q])] = [q \in Players |-> HandSize]
  BY <1>1
<1>6. turn = 0 /\ phase = "draw" /\ firstMove = TRUE /\ melds = <<>> /\ Len(discardPile) = 1
  BY DEF Deal
<1>. QED
  BY <1>4, <1>5, <1>6 DEF Flow!Init, Flow!AllHoldAHand, Flow!Stock, Flow!Players, Players

LEMMA DrawOfFlow ==
  ASSUME TypeOK, CardConservation, NEW p \in Players, DrawDeck(p) PROVE Flow!Draw(p)
<1>1. /\ turn = p /\ phase = "draw" /\ firstMove' = FALSE
      /\ UNCHANGED <<turn, melds, discardPile>>
  BY DEF DrawDeck, tableVars
<1>2. drawPile \in SUBSET Cards /\ hand[p] \in SUBSET Cards
  BY DEF TypeOK
<1>3. CASE drawPile = {} /\ EndRound("deck_exhaust") /\ UNCHANGED <<hand, drawPile>>
  <2>1. Cardinality(drawPile) = 0
    BY <1>3, FS_EmptySet
  <2>. QED
    BY <1>1, <1>3, <2>1 DEF EndRound, Flow!Draw
<1>4. CASE \E c \in drawPile : /\ drawPile' = drawPile \ {c}
                               /\ hand' = [hand EXCEPT ![p] = @ \cup {c}]
                               /\ phase' = "meld"
  <2>1. PICK c \in drawPile : /\ drawPile' = drawPile \ {c}
                              /\ hand' = [hand EXCEPT ![p] = hand[p] \cup {c}]
                              /\ phase' = "meld"
    BY <1>4
  <2>2. Cardinality(drawPile') = Cardinality(drawPile) - 1 /\ Cardinality(drawPile) > 0
    BY <1>2, <2>1, MinusOne
  <2>3. c \in Cards /\ c \notin hand[p]
    BY <1>2, <2>1, ZonesDisjoint
  <2>4. Cardinality(hand[p] \cup {c}) = Cardinality(hand[p]) + 1
    BY <1>2, <2>3, PlusOne
  <2>5. Sizes' = [Sizes EXCEPT ![p] = @ + 1]
    BY <2>1, <2>4, SizesStep, SizesType
  <2>. QED
    BY <1>1, <2>1, <2>2, <2>5 DEF Flow!Draw, Sizes
<1>. QED
  BY <1>3, <1>4 DEF DrawDeck

(* The cards above position t of the pile, counted.                        *)
LEMMA AboveTargetCount ==
  ASSUME TypeOK, PileInjective, NEW t \in DOMAIN discardPile
  PROVE  Cardinality(AboveTarget(t)) = Len(discardPile) - t
<1>. DEFINE n == Len(discardPile)
            above == (t + 1)..n
            f == [i \in above |-> discardPile[i]]
<1>1. n \in Nat /\ DOMAIN discardPile = 1..n /\ t \in 1..n
  BY DEF TypeOK
<1>2. above = {j \in DOMAIN discardPile : j > t}
  BY <1>1
<1>3. AboveTarget(t) = {discardPile[i] : i \in above}
  BY <1>2 DEF AboveTarget
<1>4. IsFiniteSet(above) /\ Cardinality(above) = n - t
  <2>1. t + 1 \in Int /\ n \in Int
    BY <1>1
  <2>2. IsFiniteSet(above) /\ Cardinality(above) = IF t + 1 > n THEN 0 ELSE n - (t + 1) + 1
    BY <2>1, FS_Interval
  <2>. QED
    BY <1>1, <2>2
<1>5. \A i \in above : i \in DOMAIN discardPile
  BY <1>2
<1>. HIDE DEF above
<1>6. f \in Surjection(above, AboveTarget(t))
  BY <1>3 DEF Surjection
<1>7. f \in Injection(above, AboveTarget(t))
  BY <1>3, <1>5 DEF Injection, IsInjective, PileInjective
<1>8. ExistsBijection(above, AboveTarget(t))
  BY <1>6, <1>7 DEF ExistsBijection, Bijection
<1>. QED
  BY <1>4, <1>8, FS_Bijection

(* A pick-up at position t that leaves the mover |hand| + |above| - used.  *)
LEMMA PickUpCounts ==
  ASSUME TypeOK, CardConservation, NEW p \in Players, turn = p, phase = "draw", ~firstMove,
         NEW t \in DOMAIN discardPile, TruncatePile(t),
         NEW U \in SUBSET (hand[p] \cup AboveTarget(t)),
         hand' = [hand EXCEPT ![p] = (hand[p] \cup AboveTarget(t)) \ U],
         IF U = {} THEN melds # <<>> ELSE Cardinality(U) >= MinMeldLen - 1,
         melds' # <<>>, phase' = "meld", UNCHANGED <<turn, firstMove, drawPile>>
  PROVE  Flow!Play(p)
<1>. DEFINE n == Len(discardPile)
            up == AboveTarget(t)
            k == Cardinality(U)
<1>1. n \in Nat /\ DOMAIN discardPile = 1..n /\ t \in 1..n /\ hand[p] \in SUBSET Cards
      /\ up \in SUBSET Cards /\ discardPile \in Seq(Cards)
  BY AboveTargetType DEF TypeOK
<1>2. Cardinality(up) = n - t
  BY AboveTargetCount, ZonesDisjoint
<1>3. up \subseteq PileCards
  BY DEF AboveTarget, PileCards
<1>4. Cardinality(hand[p] \cup up) = Cardinality(hand[p]) + (n - t)
  BY <1>1, <1>2, <1>3, PlusDisjoint, ZonesDisjoint
<1>5. Cardinality((hand[p] \cup up) \ U) = Cardinality(hand[p]) + (n - t) - k
  <2>1. hand[p] \cup up \in SUBSET Cards /\ U \in SUBSET (hand[p] \cup up)
    BY <1>1
  <2>2. Cardinality((hand[p] \cup up) \ U) = Cardinality(hand[p] \cup up) - k
    BY <2>1, MinusSubset
  <2>3. k \in Nat /\ Cardinality(hand[p]) \in Nat /\ n - t \in Int
    BY <1>1, <2>1, CardsCount
  <2>. QED
    BY <1>4, <2>2, <2>3
<1>6. /\ k \in Nat /\ k <= Cardinality(Cards) /\ k <= Cardinality(hand[p]) + (n - t)
      /\ k = 0 <=> U = {}
  <2>1. U \in SUBSET Cards /\ hand[p] \cup up \in SUBSET Cards
    BY <1>1
  <2>2. IsFiniteSet(hand[p] \cup up)
    BY <2>1, CardsCount
  <2>3. k <= Cardinality(hand[p] \cup up)
    BY <2>2, FS_Subset
  <2>. QED
    BY <1>4, <2>1, <2>3, CardsCount
<1>7. Len(discardPile') = t - 1
  <2>1. discardPile' = SubSeq(discardPile, 1, t - 1)
    BY DEF TruncatePile
  <2>. QED
    BY <1>1, <2>1
<1>. HIDE DEF n, up, k
<1>8. Sizes' = [Sizes EXCEPT ![p] = Cardinality(hand[p]) + (n - t) - k]
  BY <1>5, SizesStep DEF up
<1>9. Sizes[p] = Cardinality(hand[p])
  BY SizesType
<1>10. IF k = 0 THEN melds # <<>> ELSE k >= MinMeldLen - 1
  BY <1>6 DEF k
<1>11. k \in 0..Cardinality(Cards) /\ k <= Sizes[p] + (n - t)
  BY <1>6, <1>9, CardsCount
<1>12. Flow!PickUp(p, t, k)
  <2>1. Sizes' = [Sizes EXCEPT ![p] = Sizes[p] + (Len(discardPile) - t) - k]
    BY <1>8, <1>9 DEF n
  <2>2. k <= Sizes[p] + (Len(discardPile) - t)
    BY <1>11 DEF n
  <2>3. (melds' # <<>>) = TRUE /\ UNCHANGED Cardinality(drawPile)
    OBVIOUS
  <2>4. Sizes[p] + (Len(discardPile) - t) - k = (Sizes[p] + (Len(discardPile) - t)) - k
    BY <1>1, <1>6, <1>9, CardsCount DEF n
  <2>. QED
    BY <1>7, <1>10, <2>1, <2>2, <2>3, <2>4 DEF Flow!PickUp, Sizes
<1>. QED
  BY <1>1, <1>11, <1>12 DEF Flow!Play, n

LEMMA AppendNonEmpty ==
  ASSUME TypeOK, NEW C \in SUBSET Cards, NEW p \in Players, melds' = Append(melds, MeldOf(C, p))
  PROVE  melds' # <<>>
<1>1. melds \in Seq(Meld) /\ MeldOf(C, p) \in Meld
  BY MeldOfType DEF TypeOK
<1>2. Len(melds') = Len(melds) + 1 /\ Len(melds) \in Nat
  BY <1>1, AppendProperties
<1>. QED
  BY <1>2

LEMMA GrownNonEmpty ==
  ASSUME TypeOK, NEW i \in DOMAIN melds, NEW C, GrowMeld(i, C)
  PROVE  melds # <<>> /\ melds' # <<>>
<1>1. DOMAIN melds # {} /\ DOMAIN melds' = DOMAIN melds
  BY DEF GrowMeld
<1>. QED
  BY <1>1

LEMMA MeldSize ==
  ASSUME NEW C, IsMeld(C) PROVE Cardinality(C) >= MinMeldLen
BY DEF IsMeld, IsSet, IsRun

LEMMA PickUpOfFlow ==
  ASSUME TypeOK, CardConservation, NEW p \in Players, PickUp(p) PROVE Flow!Play(p)
<1>1. PICK t \in DOMAIN discardPile :
        \/ \E i \in DOMAIN melds : PickUpLayOff(p, t, i)
        \/ \E S \in SUBSET (hand[p] \cup AboveTarget(t)) : PickUpMeld(p, t, S)
  BY DEF PickUp
<1>2. ASSUME NEW i \in DOMAIN melds, PickUpLayOff(p, t, i) PROVE Flow!Play(p)
  <2>1. /\ turn = p /\ phase = "draw" /\ ~firstMove /\ TruncatePile(t)
        /\ hand' = [hand EXCEPT ![p] = hand[p] \cup AboveTarget(t)]
        /\ GrowMeld(i, {discardPile[t]})
        /\ phase' = "meld" /\ UNCHANGED <<turn, firstMove, drawPile>>
    BY <1>2 DEF PickUpLayOff
  <2>2. melds # <<>> /\ melds' # <<>>
    BY <2>1, GrownNonEmpty
  <2>3. hand[p] \cup AboveTarget(t) = (hand[p] \cup AboveTarget(t)) \ {}
        /\ {} \in SUBSET (hand[p] \cup AboveTarget(t))
    OBVIOUS
  <2>. QED
    BY <2>1, <2>2, <2>3, PickUpCounts
<1>3. ASSUME NEW S \in SUBSET (hand[p] \cup AboveTarget(t)), PickUpMeld(p, t, S)
      PROVE  Flow!Play(p)
  <2>1. /\ turn = p /\ phase = "draw" /\ ~firstMove /\ TruncatePile(t)
        /\ hand' = [hand EXCEPT ![p] = (hand[p] \cup AboveTarget(t)) \ S]
        /\ melds' = Append(melds, MeldOf(S \cup {discardPile[t]}, p))
        /\ phase' = "meld" /\ UNCHANGED <<turn, firstMove, drawPile>>
        /\ Cardinality(S) >= MinMeldLen - 1
    BY <1>3 DEF PickUpMeld, ExposeMeld
  <2>2. S \cup {discardPile[t]} \in SUBSET Cards
    BY AboveTargetType DEF TypeOK
  <2>3. melds' # <<>>
    BY <2>1, <2>2, AppendNonEmpty
  <2>4. S # {}
    <3> SUFFICES ASSUME S = {} PROVE FALSE
      OBVIOUS
    <3>1. Cardinality(S) = 0
      BY FS_EmptySet
    <3>. QED
      BY <2>1, <3>1, RulesAssumption
  <2>. QED
    BY <2>1, <2>3, <2>4, PickUpCounts
<1>. QED
  BY <1>1, <1>2, <1>3

(* The cards C go from the hand to the table, as a meld or onto one.       *)
LEMMA PutDownCounts ==
  ASSUME TypeOK, NEW p \in Players, turn = p, phase = "meld",
         NEW C \in SUBSET hand[p], hand' = [hand EXCEPT ![p] = hand[p] \ C],
         C # {}, melds # <<>> \/ Cardinality(C) >= MinMeldLen, melds' # <<>>,
         UNCHANGED <<turn, phase, firstMove, drawPile, discardPile>>
  PROVE  Flow!Play(p)
<1>. DEFINE k == Cardinality(C)
<1>1. hand[p] \in SUBSET Cards /\ C \in SUBSET Cards
  BY DEF TypeOK
<1>2. k \in Nat /\ k > 0 /\ k <= Cardinality(hand[p]) /\ Cardinality(hand[p]) \in Nat
  <2>1. IsFiniteSet(hand[p])
    BY <1>1, CardsCount
  <2>2. k <= Cardinality(hand[p])
    BY <2>1, FS_Subset
  <2>. QED
    BY <1>1, <2>2, CardsCount
<1>3. Cardinality(hand[p] \ C) = Cardinality(hand[p]) - k
  BY <1>1, MinusSubset
<1>. HIDE DEF k
<1>4. Sizes' = [Sizes EXCEPT ![p] = @ - k] /\ Sizes[p] = Cardinality(hand[p])
  BY <1>3, SizesStep, SizesType
<1>5. k \in 1..Sizes[p] /\ k > 0 /\ k <= Sizes[p]
  BY <1>2, <1>4
<1>6. melds # <<>> \/ k >= MinMeldLen
  BY DEF k
<1>7. (melds' # <<>>) = TRUE
  OBVIOUS
<1>8. Flow!PutDown(p, k)
  BY <1>4, <1>5, <1>6, <1>7 DEF Flow!PutDown, Sizes
<1>. QED
  BY <1>5, <1>8 DEF Flow!Play, Sizes

LEMMA LayMeldOfFlow ==
  ASSUME TypeOK, NEW p \in Players, NEW C, LayMeld(p, C) PROVE Flow!Play(p)
<1>1. /\ turn = p /\ phase = "meld" /\ C \in SUBSET hand[p] /\ IsMeld(C)
      /\ hand' = [hand EXCEPT ![p] = hand[p] \ C]
      /\ melds' = Append(melds, MeldOf(C, p))
      /\ UNCHANGED <<turn, phase, firstMove, drawPile, discardPile>>
  BY DEF LayMeld, ExposeMeld
<1>2. C \in SUBSET Cards
  BY <1>1 DEF TypeOK
<1>3. Cardinality(C) >= MinMeldLen
  BY <1>1, MeldSize
<1>4. C # {}
  <2> SUFFICES ASSUME C = {} PROVE FALSE
    OBVIOUS
  <2>1. Cardinality(C) = 0
    BY FS_EmptySet
  <2>. QED
    BY <1>3, <2>1, RulesAssumption
<1>5. melds' # <<>>
  BY <1>1, <1>2, AppendNonEmpty
<1>. QED
  BY <1>1, <1>3, <1>4, <1>5, PutDownCounts

LEMMA LayOffOfFlow ==
  ASSUME TypeOK, NEW p \in Players, NEW C, NEW i \in DOMAIN melds, LayOff(p, C, i)
  PROVE  Flow!Play(p)
<1>1. /\ turn = p /\ phase = "meld" /\ C \in SUBSET hand[p] /\ C # {}
      /\ hand' = [hand EXCEPT ![p] = hand[p] \ C] /\ GrowMeld(i, C)
      /\ UNCHANGED <<turn, phase, firstMove, drawPile, discardPile>>
  BY DEF LayOff, CanLayOff
<1>2. melds # <<>> /\ melds' # <<>>
  BY <1>1, GrownNonEmpty
<1>. QED
  BY <1>1, <1>2, PutDownCounts

LEMMA KnockOfFlow ==
  ASSUME TypeOK, NEW p \in Players, NEW c, NEW dark, Knock(p, c, dark) PROVE Flow!GoOut(p)
<1>1. /\ turn = p /\ phase = "meld" /\ phase' = "round_over" /\ hand[p] = {c}
      /\ hand' = [hand EXCEPT ![p] = {}]
      /\ UNCHANGED <<turn, firstMove, drawPile, discardPile, melds>>
  BY DEF Knock, EndRound, tableVars
<1>2. Sizes[p] = 1
  BY <1>1, SizesType, FS_Singleton
<1>3. Sizes' = [Sizes EXCEPT ![p] = 0]
  BY <1>1, SizesStep, FS_EmptySet
<1>4. (melds' # <<>>) = ((melds # <<>>) \/ Sizes[p] > 1)
  BY <1>1, <1>2
<1>. QED
  BY <1>1, <1>2, <1>3, <1>4 DEF Flow!GoOut, Flow!PlanPossible, Sizes

(* A plan needs a second card, and a table meld or a whole new meld.       *)
LEMMA PlanNeeds ==
  ASSUME TypeOK, NEW p \in Players, NEW plan \in KnockPlans(hand[p], melds)
  PROVE  /\ Cardinality(hand[p]) > 1
         /\ melds # <<>> \/ Cardinality(hand[p]) > MinMeldLen
<1>. DEFINE rest == hand[p] \ {plan.card}
<1>1. hand[p] \in SUBSET Cards /\ melds \in Seq(Meld)
  BY DEF TypeOK
<1>2. /\ plan.card \in hand[p]
      /\ plan.lay \in [DOMAIN melds -> SUBSET rest]
      /\ plan.groups \subseteq SUBSET rest
      /\ UNION plan.groups = rest \ LaidCards(plan.lay)
  BY <1>1, PlanParts, Zenon
<1>3. Cardinality(hand[p]) \in Nat /\ Cardinality(hand[p]) > 1
  <2>1. ~(Cardinality(hand[p]) < 2)
    BY DEF KnockPlans
  <2>. QED
    BY <1>1, <2>1, CardsCount
<1>4. Cardinality(rest) = Cardinality(hand[p]) - 1
  BY <1>1, <1>2, MinusOne
<1>5. rest \in SUBSET Cards
  BY <1>1
<1>6. ASSUME melds = <<>> PROVE Cardinality(hand[p]) > MinMeldLen
  <2>1. LaidCards(plan.lay) = {}
    BY <1>2, <1>6 DEF LaidCards
  <2>2. rest # {}
    <3> SUFFICES ASSUME rest = {} PROVE FALSE
      OBVIOUS
    <3>1. Cardinality(rest) = 0
      BY FS_EmptySet
    <3>. QED
      BY <1>3, <1>4, <3>1
  <2>3. PICK G \in plan.groups : TRUE
    BY <1>2, <2>1, <2>2
  <2>4. G \in SUBSET rest /\ IsMeld(G)
    BY <1>2, PlanFits
  <2>5. Cardinality(G) >= MinMeldLen
    BY <2>4, MeldSize
  <2>6. Cardinality(G) <= Cardinality(rest) /\ Cardinality(G) \in Nat
    <3>1. IsFiniteSet(rest)
      BY <1>5, CardsCount
    <3>2. Cardinality(G) <= Cardinality(rest)
      BY <2>4, <3>1, FS_Subset
    <3>. QED
      BY <1>5, <2>4, <3>2, CardsCount
  <2>. QED
    BY <1>3, <1>4, <2>5, <2>6, RulesAssumption
<1>. QED
  BY <1>3, <1>6

LEMMA AutoKnockOfFlow ==
  ASSUME TypeOK, CardConservation, NEW p \in Players, AutoKnock(p) PROVE Flow!GoOut(p)
<1>1. /\ turn = p /\ phase = "meld" /\ phase' = "round_over"
      /\ hand' = [hand EXCEPT ![p] = {}]
      /\ UNCHANGED <<turn, firstMove, drawPile, discardPile>>
  BY DEF AutoKnock, EndRound
<1>2. PICK plan \in KnockPlans(hand[p], melds) :
             \E order \in Orders(plan.groups) : melds' = LaidDown(plan, order, p)
  BY DEF AutoKnock
<1>3. /\ Cardinality(hand[p]) > 1
      /\ melds # <<>> \/ Cardinality(hand[p]) > MinMeldLen
  BY PlanNeeds
<1>4. hand[p] \in SUBSET Cards /\ Cardinality(hand[p]) \in Nat
  BY CardsCount DEF TypeOK
<1>5. TableCards' = TableCards \cup (hand[p] \ {plan.card})
  <2>1. hand[p] \cap TableCards = {} /\ MeldsDisjoint
    BY ZonesDisjoint
  <2>. QED
    BY <1>2, <2>1, LaidDownCards
<1>6. hand[p] \ {plan.card} # {}
  <2> SUFFICES ASSUME hand[p] \ {plan.card} = {} PROVE FALSE
    OBVIOUS
  <2>1. plan.card \in hand[p]
    BY <1>4, PlanParts DEF TypeOK
  <2>2. Cardinality(hand[p] \ {plan.card}) = Cardinality(hand[p]) - 1
    BY <1>4, <2>1, MinusOne
  <2>3. Cardinality(hand[p] \ {plan.card}) = 0
    BY FS_EmptySet
  <2>. QED
    BY <1>3, <1>4, <2>2, <2>3
<1>7. melds' # <<>>
  <2>1. melds' = <<>> => TableCards' = {}
    BY DEF TableCards
  <2>. QED
    BY <1>5, <1>6, <2>1
<1>8. Sizes' = [Sizes EXCEPT ![p] = 0] /\ Sizes[p] = Cardinality(hand[p])
  BY <1>1, SizesStep, SizesType, FS_EmptySet
<1>9. (melds' # <<>>) = ((melds # <<>>) \/ Sizes[p] > 1)
  BY <1>3, <1>7, <1>8
<1>10. Sizes[p] > 0 /\ (Sizes[p] = 1 \/ melds # <<>> \/ Sizes[p] > MinMeldLen)
  BY <1>3, <1>4, <1>8
<1>. QED
  BY <1>1, <1>8, <1>9, <1>10 DEF Flow!GoOut, Flow!PlanPossible, Sizes

LEMMA DiscardOfFlow ==
  ASSUME TypeOK, NEW p \in Players, NEW c, Discard(p, c) PROVE Flow!Discard(p)
<1>1. /\ turn = p /\ phase = "meld" /\ phase' = "draw" /\ c \in hand[p]
      /\ hand' = [hand EXCEPT ![p] = hand[p] \ {c}]
      /\ discardPile' = Append(discardPile, c)
      /\ turn' = (turn + 1) % NumPlayers /\ UNCHANGED <<firstMove, drawPile, melds>>
  BY DEF Discard, OpenTurn, NextSeat
<1>2. hand[p] \in SUBSET Cards /\ discardPile \in Seq(Cards) /\ c \in Cards
  BY <1>1 DEF TypeOK
<1>3. Len(discardPile') = Len(discardPile) + 1
  BY <1>1, <1>2, AppendProperties
<1>4. Cardinality(hand[p] \ {c}) = Cardinality(hand[p]) - 1 /\ Cardinality(hand[p]) > 0
  BY <1>1, <1>2, MinusOne
<1>5. Sizes' = [Sizes EXCEPT ![p] = @ - 1] /\ Sizes[p] > 0
  BY <1>1, <1>4, SizesStep, SizesType
<1>. QED
  BY <1>1, <1>3, <1>5 DEF Flow!Discard, Sizes

LEMMA StepOfFlow ==
  ConservationInv /\ [Next]_vars => [\E p \in Flow!Players : Flow!Play(p)]_(Flow!flowVars)
<1> SUFFICES ASSUME ConservationInv, [Next]_vars
             PROVE  [\E p \in Flow!Players : Flow!Play(p)]_(Flow!flowVars)
  OBVIOUS
<1>1. TypeOK /\ CardConservation
  BY DEF ConservationInv
<1>2. ASSUME UNCHANGED vars PROVE UNCHANGED Flow!flowVars
  BY <1>2 DEF vars, Flow!flowVars
<1>3. ASSUME NEW p \in Players, Move(p) PROVE Flow!Play(p)
  <2>1. CASE DrawDeck(p)
    BY <1>1, <2>1, DrawOfFlow DEF Flow!Play
  <2>2. CASE PickUp(p)
    BY <1>1, <2>2, PickUpOfFlow
  <2>3. CASE \E C \in SUBSET hand[p] : LayMeld(p, C)
    BY <1>1, <2>3, LayMeldOfFlow
  <2>4. CASE \E C \in SUBSET hand[p], i \in DOMAIN melds : LayOff(p, C, i)
    BY <1>1, <2>4, LayOffOfFlow
  <2>5. CASE \E c \in hand[p], dark \in BOOLEAN : Knock(p, c, dark)
    BY <1>1, <2>5, KnockOfFlow DEF Flow!Play
  <2>6. CASE AutoKnock(p)
    BY <1>1, <2>6, AutoKnockOfFlow DEF Flow!Play
  <2>7. CASE \E c \in hand[p] : Discard(p, c)
    BY <1>1, <2>7, DiscardOfFlow DEF Flow!Play
  <2>. QED
    BY <1>3, <2>1, <2>2, <2>3, <2>4, <2>5, <2>6, <2>7 DEF Move
<1>4. Flow!Players = Players
  BY DEF Flow!Players, Players
<1>. QED
  BY <1>2, <1>3, <1>4 DEF Next

(* Every step of the engine is a step of the turn flow the room relies on  *)
(* (ShotClock runs TurnFlow in the engine's place): the counts of cards it *)
(* leaves in hands, deck and pile, whose turn it is, and when a player may *)
(* go out.                                                                 *)
THEOREM CountsCards == MCSpec => CountsAsPromised
<1>1. Init => ConservationInv
  BY InitTypeOK, InitConserves DEF ConservationInv
<1>2. Spec => Flow!FlowSpec
  BY <1>1, InitOfFlow, StepOfFlow, NextConserves, PTL DEF Spec, Flow!FlowSpec
<1>. QED
  BY <1>2, MCSpecIsSpec DEF CountsAsPromised

-----------------------------------------------------------------------------
(* Points.                                                                 *)

PointsOf(high) == [c \in Cards |-> Points(c, high)]
CountsHigh(m) == m.kind = "run" /\ m.aceHigh

LEMMA PointsAre ==
  ASSUME NEW c \in Cards
  PROVE  /\ \A high : Points(c, high) \in Nat
         /\ Points(c, FALSE) <= Points(c, TRUE)
         /\ c.rank # Ace => \A high, low : Points(c, high) = Points(c, low)
<1>1. c.rank \in Nat
  BY RulesAssumption DEF Cards, Ranks, Ace
<1>. QED
  BY <1>1 DEF Points

LEMMA PointsInt == \A high : \A c \in Cards : PointsOf(high)[c] \in Int
<1>1. ASSUME NEW high, NEW c \in Cards PROVE PointsOf(high)[c] \in Int
  <2>1. PointsOf(high)[c] = Points(c, high)
    BY DEF PointsOf
  <2>2. Points(c, high) \in Nat
    BY PointsAre
  <2>. QED
    BY <2>1, <2>2
<1>. QED
  BY <1>1

LEMMA MeldPointsIs ==
  ASSUME NEW m, m.cards \subseteq Cards
  PROVE  MeldPoints(m) = Sum(PointsOf(CountsHigh(m)), m.cards)
<1>. DEFINE h == PointsOf(CountsHigh(m))
            v(c) == Points(c, m.kind = "run" /\ m.aceHigh)
            S == m.cards
            adds(it) == it = [s \in SUBSET S |-> IF s = {} THEN 0 ELSE v(Pick(s)) + it[s \ {Pick(s)}]]
<1>1. \A s \in SUBSET S : s # {} => v(Pick(s)) = h[Pick(s)]
  BY PickIs DEF PointsOf, CountsHigh
<1>2. MeldPoints(m) = (CHOOSE it : adds(it))[S]
  BY DEF MeldPoints, MapThenSumSet, MapThenFoldSet, Pick
<1>. HIDE DEF v, h, S
<1>3. \A it : adds(it) <=> Adds(h, S, it)
  BY <1>1 DEF Adds
<1>. HIDE DEF adds
<1>4. (CHOOSE it : adds(it)) = (CHOOSE it : Adds(h, S, it))
  BY <1>3
<1>. QED
  BY <1>2, <1>4, SumIs DEF h, S

(* What the melds ms bring their owner p, and what a hand C costs.         *)
MeldsBy(ms, p) == {i \in DOMAIN ms : ms[i].owner = p}
MeldsWorth(ms, p) == MapThenSumSet(LAMBDA i : MeldPoints(ms[i]), MeldsBy(ms, p))
MeldValues(ms) == [i \in DOMAIN ms |-> MeldPoints(ms[i])]
HandWorth(C) == MapThenSumSet(LAMBDA c : Points(c, FALSE), C)

LEMMA MeldsWorthIs ==
  ASSUME NEW ms, NEW p
  PROVE  MeldsWorth(ms, p) = Sum(MeldValues(ms), MeldsBy(ms, p))
<1>. DEFINE h == MeldValues(ms)
            v(i) == MeldPoints(ms[i])
            S == MeldsBy(ms, p)
            adds(it) == it = [s \in SUBSET S |-> IF s = {} THEN 0 ELSE v(Pick(s)) + it[s \ {Pick(s)}]]
<1>1. \A s \in SUBSET S : s # {} => v(Pick(s)) = h[Pick(s)]
  BY PickIs DEF MeldValues, MeldsBy
<1>2. MeldsWorth(ms, p) = (CHOOSE it : adds(it))[S]
  BY DEF MeldsWorth, MapThenSumSet, MapThenFoldSet, Pick
<1>. HIDE DEF v, h, S
<1>3. \A it : adds(it) <=> Adds(h, S, it)
  BY <1>1 DEF Adds
<1>. HIDE DEF adds
<1>4. (CHOOSE it : adds(it)) = (CHOOSE it : Adds(h, S, it))
  BY <1>3
<1>. QED
  BY <1>2, <1>4, SumIs DEF h, S

LEMMA HandWorthIs ==
  ASSUME NEW C, C \subseteq Cards
  PROVE  HandWorth(C) = Sum(PointsOf(FALSE), C)
<1>. DEFINE h == PointsOf(FALSE)
            v(c) == Points(c, FALSE)
            adds(it) == it = [s \in SUBSET C |-> IF s = {} THEN 0 ELSE v(Pick(s)) + it[s \ {Pick(s)}]]
<1>1. \A s \in SUBSET C : s # {} => v(Pick(s)) = h[Pick(s)]
  BY PickIs DEF PointsOf
<1>2. HandWorth(C) = (CHOOSE it : adds(it))[C]
  BY DEF HandWorth, MapThenSumSet, MapThenFoldSet, Pick
<1>. HIDE DEF v, h
<1>3. \A it : adds(it) <=> Adds(h, C, it)
  BY <1>1 DEF Adds
<1>. HIDE DEF adds
<1>4. (CHOOSE it : adds(it)) = (CHOOSE it : Adds(h, C, it))
  BY <1>3
<1>. QED
  BY <1>2, <1>4, SumIs DEF h

MeldOfCard(c) == melds[CHOOSE i \in DOMAIN melds : c \in melds[i].cards]
CardValues == [c \in TableCards |-> Worth(c, MeldOfCard(c))]

LEMMA TableWorthIs == TableWorth = Sum(CardValues, TableCards)
<1>. DEFINE h == CardValues
            v(c) == Worth(c, melds[CHOOSE i \in DOMAIN melds : c \in melds[i].cards])
            S == TableCards
            adds(it) == it = [s \in SUBSET S |-> IF s = {} THEN 0 ELSE v(Pick(s)) + it[s \ {Pick(s)}]]
<1>1. \A s \in SUBSET S : s # {} => v(Pick(s)) = h[Pick(s)]
  BY PickIs DEF CardValues, MeldOfCard
<1>2. TableWorth = (CHOOSE it : adds(it))[S]
  BY DEF TableWorth, MapThenSumSet, MapThenFoldSet, Pick
<1>. HIDE DEF v, h, S
<1>3. \A it : adds(it) <=> Adds(h, S, it)
  BY <1>1 DEF Adds
<1>. HIDE DEF adds
<1>4. (CHOOSE it : adds(it)) = (CHOOSE it : Adds(h, S, it))
  BY <1>3
<1>. QED
  BY <1>2, <1>4, SumIs DEF h, S

LEMMA HandsWorthIs == HandsWorth = HandWorth(UNION {hand[p] : p \in Players})
BY DEF HandsWorth, HandWorth

Totals == [p \in Players |-> Total(p)]

LEMMA TotalsAre ==
  MapThenSumSet(LAMBDA p : RoundResult.rows[p].total, Players) = Sum(Totals, Players)
<1>. DEFINE h == Totals
            v(p) == RoundResult.rows[p].total
            S == Players
            adds(it) == it = [s \in SUBSET S |-> IF s = {} THEN 0 ELSE v(Pick(s)) + it[s \ {Pick(s)}]]
<1>1. \A s \in SUBSET S : s # {} => v(Pick(s)) = h[Pick(s)]
  <2>1. \A p \in Players : v(p) = h[p]
    BY DEF RoundResult, Totals
  <2>. QED
    BY <2>1, PickIs
<1>2. MapThenSumSet(LAMBDA p : RoundResult.rows[p].total, Players) = (CHOOSE it : adds(it))[S]
  BY DEF MapThenSumSet, MapThenFoldSet, Pick
<1>. HIDE DEF v, h, S
<1>3. \A it : adds(it) <=> Adds(h, S, it)
  BY <1>1 DEF Adds
<1>. HIDE DEF adds
<1>4. (CHOOSE it : adds(it)) = (CHOOSE it : Adds(h, S, it))
  BY <1>3
<1>. QED
  BY <1>2, <1>4, SumIs DEF h, S

(* The total of player p, and the one after a step.                        *)
TotalOf(ms, ho, kn, kd, ks, h, dp, p) ==
  MeldsWorth(ms, p)
    + (IF ho = p THEN HeadCardBonus ELSE 0)
    + (IF kn = p
       THEN KnockBonus * (IF kd THEN DarkKnockMult ELSE 1) * (IF ks THEN SameSuitKnockMult ELSE 1)
       ELSE 0)
    + (IF kn = p THEN KnockCardBonus ELSE 0)
    + (-HandWorth(h[p]))
    + (-(DumpPenalty * dp[p]))

LEMMA TotalIs ==
  ASSUME NEW p
  PROVE  /\ Total(p) = TotalOf(melds, headOwner, knocker, knockDark, knockSuit, hand,
                               dumpPenalties, p)
         /\ Total(p)' = TotalOf(melds', headOwner', knocker', knockDark', knockSuit', hand',
                                dumpPenalties', p)
<1>1. /\ ScoreRound(p).meldPoints = MeldsWorth(melds, p)
      /\ (ScoreRound(p).meldPoints)' = MeldsWorth(melds', p)
  BY DEF ScoreRound, MeldsWorth, MeldsBy, MeldsOf, MapThenSumSet, MapThenFoldSet
<1>2. /\ ScoreRound(p).handPenalty = -HandWorth(hand[p])
      /\ (ScoreRound(p).handPenalty)' = -HandWorth(hand'[p])
  BY DEF ScoreRound, HandWorth, MapThenSumSet, MapThenFoldSet
<1>3. /\ ScoreRound(p).headBonus = IF headOwner = p THEN HeadCardBonus ELSE 0
      /\ (ScoreRound(p).headBonus)' = IF headOwner' = p THEN HeadCardBonus ELSE 0
      /\ ScoreRound(p).knockCardBonus = IF knocker = p THEN KnockCardBonus ELSE 0
      /\ (ScoreRound(p).knockCardBonus)' = IF knocker' = p THEN KnockCardBonus ELSE 0
      /\ ScoreRound(p).dumpPenalty = -(DumpPenalty * dumpPenalties[p])
      /\ (ScoreRound(p).dumpPenalty)' = -(DumpPenalty * dumpPenalties'[p])
  BY DEF ScoreRound
<1>4. /\ ScoreRound(p).knockBonus =
           IF knocker = p
           THEN KnockBonus * (IF knockDark THEN DarkKnockMult ELSE 1)
                           * (IF knockSuit THEN SameSuitKnockMult ELSE 1)
           ELSE 0
      /\ (ScoreRound(p).knockBonus)' =
           IF knocker' = p
           THEN KnockBonus * (IF knockDark' THEN DarkKnockMult ELSE 1)
                           * (IF knockSuit' THEN SameSuitKnockMult ELSE 1)
           ELSE 0
  BY DEF ScoreRound, KnockPaid
<1>. QED
  BY <1>1, <1>2, <1>3, <1>4 DEF Total, TotalOf

(* The Ace of a run counts high unless the run has the 2 as well.          *)
LEMMA AceOfRun ==
  ASSUME NEW C \in SUBSET Cards, IsRun(C), NEW c \in C, c.rank = Ace
  PROVE  AceActsHigh(C) <=> \A d \in C : d.rank # Ace + 1
<1>. DEFINE V == RanksOf(C)
<1>1. /\ V \subseteq 1..King /\ 1 \in V /\ King \in Nat /\ King > 1 /\ Ace = 1
      /\ \A v : v \in V <=> \E d \in C : v = d.rank
  BY RulesAssumption DEF RanksOf, Cards, Ranks, Ace
<1>2. PICK other \in V : other # 1
  BY <1>1 DEF IsRun, SameRank
<1>3. (\A d \in C : d.rank # Ace + 1) <=> 2 \notin V
  BY <1>1
<1>4. RunAceLow(C) <=> Consecutive(V)
  BY DEF RunAceLow
<1>5. RunAceHigh(C) <=> ~RunAceLow(C) /\ Consecutive(AceAboveKing(V))
  BY <1>1 DEF RunAceHigh
<1>. HIDE DEF V
<1>6. CASE RunAceLow(C)
  <2>1. PICK lo \in V, hi \in V : V = lo..hi
    BY <1>4, <1>6 DEF Consecutive
  <2>2. lo \in 1..King /\ hi \in 1..King /\ other \in 1..King
    BY <1>1, <1>2, <2>1
  <2>3. lo <= 1 /\ other <= hi
    BY <1>1, <1>2, <2>1, <2>2
  <2>4. 2 \in V
    BY <1>2, <2>1, <2>2, <2>3
  <2>. QED
    BY <1>3, <1>5, <1>6, <2>4 DEF AceActsHigh
<1>7. CASE ~RunAceLow(C)
  <2>1. RunAceHigh(C)
    BY <1>7 DEF IsRun
  <2>2. ASSUME 2 \in V PROVE FALSE
    <3>. DEFINE A == AceAboveKing(V)
    <3>1. \A x : x \in A <=> \E v \in V : x = IF v = 1 THEN King + 1 ELSE v
      BY <1>1 DEF AceAboveKing
    <3>2. PICK lo \in A, hi \in A : A = lo..hi
      BY <1>5, <2>1 DEF Consecutive
    <3>. HIDE DEF A
    <3>3. King + 1 \in A
      BY <1>1, <3>1
    <3>4. 2 \in A
      BY <2>2, <3>1
    <3>5. lo \in Int /\ hi \in Int
      BY <1>1, <3>1, <3>2
    <3>6. lo <= 2 /\ King + 1 <= hi
      BY <3>2, <3>3, <3>4, <3>5
    <3>7. ASSUME NEW r \in 2..King PROVE r \in V
      <4>1. r \in A
        BY <1>1, <3>2, <3>5, <3>6
      <4>2. r # King + 1
        BY <1>1
      <4>. QED
        BY <3>1, <4>1, <4>2
    <3>8. V = 1..King /\ King \in V
      <4>1. King \in 2..King /\ \A r \in 1..King : r = 1 \/ r \in 2..King
        BY <1>1
      <4>. QED
        BY <1>1, <3>7, <4>1
    <3>9. Consecutive(V)
      BY <1>1, <3>8 DEF Consecutive
    <3>. QED
      BY <1>4, <1>7, <3>9
  <2>. QED
    BY <1>3, <2>1, <2>2 DEF AceActsHigh
<1>. QED
  BY <1>6, <1>7

LEMMA WorthIs ==
  ASSUME NEW m \in Meld, ValidMeld(m), NEW c \in m.cards
  PROVE  Worth(c, m) = Points(c, CountsHigh(m))
<1>1. m.cards \in SUBSET Cards /\ c \in Cards /\ m.aceHigh \in BOOLEAN
  BY DEF Meld
<1>2. CASE c.rank # Ace
  BY <1>1, <1>2, PointsAre DEF Worth
<1>3. CASE m.kind # "run"
  BY <1>3 DEF Worth, CountsHigh
<1>4. CASE c.rank = Ace /\ m.kind = "run"
  <2>1. IsRun(m.cards) /\ m.aceHigh = AceActsHigh(m.cards)
    BY <1>4 DEF ValidMeld, IsMeld, KindOf
  <2>2. m.aceHigh <=> \A d \in m.cards : d.rank # Ace + 1
    BY <1>1, <1>4, <2>1, AceOfRun
  <2>3. CASE m.aceHigh
    BY <1>4, <2>2, <2>3 DEF Worth, CountsHigh
  <2>4. CASE ~m.aceHigh
    <3>1. Worth(c, m) = Points(c, FALSE)
      BY <1>4, <2>2, <2>4 DEF Worth
    <3>2. CountsHigh(m) = FALSE
      BY <2>4 DEF CountsHigh
    <3>. QED
      BY <3>1, <3>2
  <2>. QED
    BY <2>3, <2>4
<1>. QED
  BY <1>2, <1>3, <1>4

LEMMA TablesFinite ==
  ASSUME TypeOK
  PROVE  /\ melds \in Seq(Meld) /\ DOMAIN melds = 1..Len(melds) /\ IsFiniteSet(DOMAIN melds)
         /\ IsFiniteSet(Players)
         /\ \A i \in DOMAIN melds : /\ melds[i] \in Meld /\ melds[i].owner \in Players
                                    /\ melds[i].cards \subseteq Cards
                                    /\ IsFiniteSet(melds[i].cards)
         /\ \A p \in Players : hand[p] \subseteq Cards /\ IsFiniteSet(hand[p])
<1>1. melds \in Seq(Meld) /\ DOMAIN melds = 1..Len(melds) /\ Len(melds) \in Nat
  BY DEF TypeOK
<1>2. IsFiniteSet(DOMAIN melds) /\ IsFiniteSet(Players)
  BY <1>1, FS_Interval, EngineAssumption DEF Players
<1>3. \A i \in DOMAIN melds :
        melds[i] \in Meld /\ melds[i].cards \subseteq Cards /\ melds[i].owner \in Players
  <2>1. \A i \in DOMAIN melds : melds[i] \in Meld
    BY <1>1
  <2>. QED
    BY <2>1 DEF Meld
<1>4. \A p \in Players : hand[p] \subseteq Cards
  BY DEF TypeOK
<1>5. \A C : C \subseteq Cards => IsFiniteSet(C)
  BY CardsFinite, FS_Subset
<1>. QED
  BY <1>1, <1>2, <1>3, <1>4, <1>5

LEMMA PointsTypes ==
  /\ \A C : C \subseteq Cards => \A high : \A c \in C : PointsOf(high)[c] \in Nat
  /\ \A C : C \subseteq Cards => HandWorth(C) \in Nat
  /\ \A m : m.cards \subseteq Cards => MeldPoints(m) \in Nat
<1>1. \A C : C \subseteq Cards => \A high : \A c \in C : PointsOf(high)[c] \in Nat
  BY PointsAre DEF PointsOf
<1>2. \A C : C \subseteq Cards => IsFiniteSet(C)
  BY CardsFinite, FS_Subset
<1>3. \A C, high : C \subseteq Cards => Sum(PointsOf(high), C) \in Nat
  BY <1>1, <1>2, SumNatural
<1>. QED
  BY <1>1, <1>3, HandWorthIs, MeldPointsIs

(* All the melds together, by owner and card by card.                      *)
LEMMA TableBalance ==
  ASSUME TypeOK, NoDuplicates, MeldsValid
  PROVE  TableWorth = Sum([p \in Players |-> MeldsWorth(melds, p)], Players)
<1>. DEFINE D == DOMAIN melds
            f == [i \in D |-> melds[i].cards]
            by == [p \in Players |-> MeldsBy(melds, p)]
            k == [p \in Players |-> MeldsWorth(melds, p)]
            v == MeldValues(melds)
<1>1. /\ melds \in Seq(Meld) /\ IsFiniteSet(D) /\ IsFiniteSet(Players)
      /\ \A i \in D : melds[i].cards \subseteq Cards /\ IsFiniteSet(melds[i].cards)
      /\ \A i \in D : melds[i] \in Meld /\ ValidMeld(melds[i]) /\ melds[i].owner \in Players
  <2>1. \A i \in D : ValidMeld(melds[i])
    BY DEF MeldsValid, ValidMeld
  <2>. QED
    BY <2>1, TablesFinite
<1>2. PartsOf(f, D) = TableCards
  BY DEF TableCards, PartsOf
<1>3. \A i, j \in D : i # j => f[i] \cap f[j] = {}
  BY DEF NoDuplicates
<1>4. ASSUME NEW i \in D, NEW c \in f[i]
      PROVE  c \in TableCards /\ CardValues[c] = PointsOf(CountsHigh(melds[i]))[c] /\ c \in Cards
  <2>1. c \in TableCards /\ c \in Cards
    BY <1>1 DEF TableCards
  <2>2. MeldOfCard(c) = melds[i]
    <3>1. (CHOOSE j \in D : c \in melds[j].cards) = i
      BY <1>3
    <3>. QED
      BY <3>1 DEF MeldOfCard
  <2>3. Worth(c, melds[i]) = Points(c, CountsHigh(melds[i]))
    BY <1>1, WorthIs
  <2>. QED
    BY <2>1, <2>2, <2>3 DEF CardValues, PointsOf
<1>5. \A i \in D : v[i] = Sum(CardValues, f[i])
  <2>1. ASSUME NEW i \in D PROVE v[i] = Sum(CardValues, f[i])
    <3>1. MeldPoints(melds[i]) = Sum(PointsOf(CountsHigh(melds[i])), melds[i].cards)
      BY <1>1, MeldPointsIs
    <3>2. Sum(CardValues, melds[i].cards) = Sum(PointsOf(CountsHigh(melds[i])), melds[i].cards)
      BY <1>1, <1>4, SumSame
    <3>. QED
      BY <3>1, <3>2 DEF MeldValues
  <2>. QED
    BY <2>1
<1>6. \A i \in D : \A c \in f[i] : CardValues[c] \in Int
  <2>1. ASSUME NEW i \in D, NEW c \in f[i] PROVE CardValues[c] \in Int
    <3>1. CardValues[c] = PointsOf(CountsHigh(melds[i]))[c] /\ c \in Cards
      BY <1>4
    <3>. QED
      BY <3>1, PointsInt
  <2>. QED
    BY <2>1
<1>7. TableWorth = Sum(v, D)
  <2>1. \A i \in D : IsFiniteSet(f[i])
    BY <1>1
  <2>. HIDE DEF f, v, D
  <2>2. Sum(v, D) = Sum(CardValues, PartsOf(f, D))
    BY <1>1, <1>3, <1>5, <1>6, <2>1, SumOfSums
  <2>. QED
    BY <1>2, <2>2, TableWorthIs
<1>8. PartsOf(by, Players) = D
  <2>1. \A i : i \in D <=> \E p \in Players : i \in by[p]
    BY <1>1 DEF MeldsBy
  <2>. QED
    BY <2>1 DEF PartsOf
<1>9. /\ \A p \in Players : IsFiniteSet(by[p]) /\ k[p] = Sum(v, by[p])
      /\ \A p, q \in Players : p # q => by[p] \cap by[q] = {}
      /\ \A p \in Players : \A i \in by[p] : v[i] \in Int
  <2>1. \A p \in Players : by[p] \subseteq D
    BY DEF MeldsBy
  <2>2. \A i \in D : v[i] \in Int
    BY <1>1, PointsTypes DEF MeldValues
  <2>. QED
    BY <1>1, <2>1, <2>2, FS_Subset, MeldsWorthIs DEF MeldsBy
<1>10. Sum(k, Players) = Sum(v, D)
  <2>. HIDE DEF by, k, v, D
  <2>. QED
    BY <1>1, <1>8, <1>9, SumOfSums
<1>. QED
  BY <1>7, <1>10

LEMMA HandsBalance ==
  ASSUME TypeOK, NoDuplicates
  PROVE  HandsWorth = Sum([p \in Players |-> HandWorth(hand[p])], Players)
<1>. DEFINE k == [p \in Players |-> HandWorth(hand[p])]
            h == PointsOf(FALSE)
<1>1. /\ IsFiniteSet(Players)
      /\ \A p \in Players : hand[p] \subseteq Cards /\ IsFiniteSet(hand[p])
  BY TablesFinite
<1>2. \A p \in Players : k[p] = Sum(h, hand[p])
  BY <1>1, HandWorthIs
<1>3. \A p \in Players : \A c \in hand[p] : h[c] \in Int
  <2>1. ASSUME NEW p \in Players, NEW c \in hand[p] PROVE h[c] \in Int
    <3>1. c \in Cards
      BY <1>1
    <3>. QED
      BY <3>1, PointsInt
  <2>. QED
    BY <2>1
<1>4. \A p, q \in Players : p # q => hand[p] \cap hand[q] = {}
  BY DEF NoDuplicates
<1>. HIDE DEF k, h
<1>5. Sum(k, Players) = Sum(h, PartsOf(hand, Players))
  BY <1>1, <1>2, <1>3, <1>4, SumOfSums
<1>6. UNION {hand[p] : p \in Players} \subseteq Cards
  BY <1>1
<1>. QED
  BY <1>5, <1>6, HandsWorthIs, HandWorthIs DEF h, k, PartsOf

(* There is a knocker when the round ended with a knock, and only then.    *)
KnockerKnocked == knocker # NoOne <=> endReason = "knock"

LEMMA NextKnockerKnocked ==
  TypeOK /\ NoKnockYet /\ KnockerKnocked /\ [Next]_vars => KnockerKnocked'
<1> SUFFICES ASSUME TypeOK, NoKnockYet, KnockerKnocked, [Next]_vars PROVE KnockerKnocked'
  OBVIOUS
<1>1. ASSUME UNCHANGED <<endReason, knocker>> PROVE KnockerKnocked'
  BY <1>1 DEF KnockerKnocked
<1>2. ASSUME NEW p \in Players, Move(p) PROVE KnockerKnocked'
  <2>1. CASE DrawDeck(p)
    BY <1>1, <2>1 DEF DrawDeck, EndRound, NoKnockYet, RoundOver, KnockerKnocked
  <2>2. CASE PickUp(p)
    BY <1>1, <2>2 DEF PickUp, PickUpLayOff, PickUpMeld, endVars
  <2>3. CASE \E C \in SUBSET hand[p] : LayMeld(p, C)
    BY <1>1, <2>3 DEF LayMeld, endVars
  <2>4. CASE \E C \in SUBSET hand[p], i \in DOMAIN melds : LayOff(p, C, i)
    BY <1>1, <2>4 DEF LayOff, endVars
  <2>5. CASE \E c \in hand[p], dark \in BOOLEAN : Knock(p, c, dark)
    BY <2>5, NoOneIsNoPlayer DEF Knock, EndRound, KnockerKnocked
  <2>6. CASE AutoKnock(p)
    BY <2>6, NoOneIsNoPlayer DEF AutoKnock, EndRound, KnockerKnocked
  <2>7. CASE \E c \in hand[p] : Discard(p, c)
    BY <1>1, <2>7 DEF Discard, endVars
  <2>. QED
    BY <1>2, <2>1, <2>2, <2>3, <2>4, <2>5, <2>6, <2>7 DEF Move
<1>3. CASE UNCHANGED vars
  BY <1>1, <1>3 DEF vars
<1>. QED
  BY <1>2, <1>3 DEF Next

LEMMA ScoresTyped ==
  /\ KnockBonus \in Nat /\ KnockCardBonus \in Nat /\ HeadCardBonus \in Nat
  /\ DarkKnockMult \in Nat /\ SameSuitKnockMult \in Nat /\ DumpPenalty \in Nat
  /\ \A d, s : KnockBonus * (IF d THEN DarkKnockMult ELSE 1)
                          * (IF s THEN SameSuitKnockMult ELSE 1) \in Nat
  /\ KnockPaid \in Nat
<1>1. /\ KnockBonus \in Nat /\ KnockCardBonus \in Nat /\ HeadCardBonus \in Nat
      /\ DarkKnockMult \in Nat /\ SameSuitKnockMult \in Nat /\ DumpPenalty \in Nat
  BY ScoringAssumption
<1>2. \A x, y, z \in Nat : x * y * z \in Nat
  OBVIOUS
<1>3. \A d, s : KnockBonus * (IF d THEN DarkKnockMult ELSE 1)
                           * (IF s THEN SameSuitKnockMult ELSE 1) \in Nat
  <2>1. \A d : (IF d THEN DarkKnockMult ELSE 1) \in Nat
    BY <1>1
  <2>2. \A s : (IF s THEN SameSuitKnockMult ELSE 1) \in Nat
    BY <1>1
  <2>. QED
    BY <1>1, <1>2, <2>1, <2>2
<1>. QED
  BY <1>1, <1>3 DEF KnockPaid

(* The totals part by part.                                                *)
LEMMA TotalsSum ==
  ASSUME TypeOK
  PROVE  Sum(Totals, Players) =
           ((((Sum([p \in Players |-> MeldsWorth(melds, p)], Players)
             + (IF headOwner # NoOne THEN HeadCardBonus ELSE 0))
             + (IF knocker # NoOne THEN KnockPaid ELSE 0))
             + (IF knocker # NoOne THEN KnockCardBonus ELSE 0))
             - Sum([p \in Players |-> HandWorth(hand[p])], Players))
             - (DumpPenalty * Sum(dumpPenalties, Players))
<1>. DEFINE m == [p \in Players |-> MeldsWorth(melds, p)]
            hb == [p \in Players |-> IF headOwner = p THEN HeadCardBonus ELSE 0]
            kb == [p \in Players |-> IF knocker = p THEN KnockPaid ELSE 0]
            cb == [p \in Players |-> IF knocker = p THEN KnockCardBonus ELSE 0]
            w == [p \in Players |-> HandWorth(hand[p])]
            d == [p \in Players |-> DumpPenalty * dumpPenalties[p]]
            s1 == [p \in Players |-> m[p] + hb[p]]
            s2 == [p \in Players |-> s1[p] + kb[p]]
            s3 == [p \in Players |-> s2[p] + cb[p]]
            s4 == [p \in Players |-> s3[p] - w[p]]
            s5 == [p \in Players |-> s4[p] - d[p]]
<1>1. /\ IsFiniteSet(Players) /\ headOwner \in Players \cup {NoOne}
      /\ knocker \in Players \cup {NoOne} /\ NoOne \notin Players
      /\ dumpPenalties \in [Players -> Nat]
  BY TablesFinite, NoOneIsNoPlayer DEF TypeOK
<1>2. \A p \in Players : m[p] \in Int
  <2>1. ASSUME NEW p \in Players PROVE MeldsWorth(melds, p) \in Int
    <3>1. MeldsBy(melds, p) \subseteq DOMAIN melds
      BY DEF MeldsBy
    <3>2. IsFiniteSet(MeldsBy(melds, p))
      BY <3>1, TablesFinite, FS_Subset
    <3>3. \A i \in MeldsBy(melds, p) : MeldValues(melds)[i] \in Int
      BY <3>1, TablesFinite, PointsTypes DEF MeldValues
    <3>. QED
      BY <3>2, <3>3, MeldsWorthIs, SumType
  <2>. QED
    BY <2>1
<1>3. \A p \in Players : hb[p] \in Int /\ kb[p] \in Int /\ cb[p] \in Int
  BY ScoresTyped
<1>4. \A p \in Players : w[p] \in Int
  BY TablesFinite, PointsTypes
<1>5. \A p \in Players : d[p] \in Int
  BY <1>1, ScoresTyped
<1>6. \A p \in Players : Totals[p] = s5[p]
  <2>1. ASSUME NEW p \in Players PROVE Totals[p] = s5[p]
    <3>1. Totals[p] = MeldsWorth(melds, p)
                        + (IF headOwner = p THEN HeadCardBonus ELSE 0)
                        + (IF knocker = p THEN KnockPaid ELSE 0)
                        + (IF knocker = p THEN KnockCardBonus ELSE 0)
                        + (-HandWorth(hand[p]))
                        + (-(DumpPenalty * dumpPenalties[p]))
      BY TotalIs DEF Totals, TotalOf, KnockPaid
    <3>2. s5[p] = ((((m[p] + hb[p]) + kb[p]) + cb[p]) - w[p]) - d[p]
      OBVIOUS
    <3>3. Totals[p] = m[p] + hb[p] + kb[p] + cb[p] + (-w[p]) + (-d[p])
      BY <3>1
    <3>. HIDE DEF m, hb, kb, cb, w, d, s5
    <3>. QED
      BY <1>2, <1>3, <1>4, <1>5, <3>2, <3>3
  <2>. QED
    BY <2>1
<1>7. Sum(Totals, Players) = Sum(s5, Players)
  <2>. HIDE DEF s5
  <2>. QED
    BY <1>1, <1>6, SumSame
<1>8. Sum(hb, Players) = IF headOwner # NoOne THEN HeadCardBonus ELSE 0
  BY <1>1, ScoresTyped, BonusSum
<1>9. Sum(kb, Players) = IF knocker # NoOne THEN KnockPaid ELSE 0
  BY <1>1, ScoresTyped, BonusSum
<1>10. Sum(cb, Players) = IF knocker # NoOne THEN KnockCardBonus ELSE 0
  BY <1>1, ScoresTyped, BonusSum
<1>11. Sum(d, Players) = DumpPenalty * Sum(dumpPenalties, Players)
  <2>1. \A x \in Players : dumpPenalties[x] \in Int /\ d[x] = DumpPenalty * dumpPenalties[x]
    BY <1>1
  <2>2. DumpPenalty \in Int
    BY ScoresTyped
  <2>. HIDE DEF d
  <2>. QED
    BY <1>1, <2>1, <2>2, SumTimes
<1>12. /\ \A p \in Players : s1[p] = m[p] + hb[p] /\ s2[p] = s1[p] + kb[p]
                             /\ s3[p] = s2[p] + cb[p] /\ s4[p] = s3[p] - w[p]
                             /\ s5[p] = s4[p] - d[p]
  OBVIOUS
<1>. HIDE DEF m, hb, kb, cb, w, d, s1, s2, s3, s4, s5
<1>13. \A p \in Players : s1[p] \in Int /\ s2[p] \in Int /\ s3[p] \in Int /\ s4[p] \in Int
  BY <1>2, <1>3, <1>4, <1>5, <1>12
<1>14. Sum(s1, Players) = Sum(m, Players) + Sum(hb, Players)
  BY <1>1, <1>2, <1>3, <1>12, SumPlus
<1>15. Sum(s2, Players) = Sum(s1, Players) + Sum(kb, Players)
  BY <1>1, <1>3, <1>12, <1>13, SumPlus
<1>16. Sum(s3, Players) = Sum(s2, Players) + Sum(cb, Players)
  BY <1>1, <1>3, <1>12, <1>13, SumPlus
<1>17. Sum(s4, Players) = Sum(s3, Players) - Sum(w, Players)
  BY <1>1, <1>4, <1>12, <1>13, SumDifference
<1>18. Sum(s5, Players) = Sum(s4, Players) - Sum(d, Players)
  BY <1>1, <1>5, <1>12, <1>13, SumDifference
<1>19. Sum(Totals, Players)
        = ((((Sum(m, Players) + Sum(hb, Players)) + Sum(kb, Players)) + Sum(cb, Players))
            - Sum(w, Players)) - Sum(d, Players)
  BY <1>7, <1>14, <1>15, <1>16, <1>17, <1>18
<1>. QED
  BY <1>8, <1>9, <1>10, <1>11, <1>19 DEF m, w

LEMMA WorthTyped == ASSUME NEW c \in Cards, NEW m PROVE Worth(c, m) \in Int
<1>1. c.rank \in Nat
  BY RulesAssumption DEF Cards, Ranks, Ace
<1>. QED
  BY <1>1 DEF Worth, Points

LEMMA RoundBalances ==
  ASSUME TypeOK, NoDuplicates, MeldsValid, HeadBonusOwner, KnockerKnocked
  PROVE  PointsBalance
<1>. DEFINE tw == TableWorth
            hw == HandsWorth
            ds == Sum(dumpPenalties, Players)
            rows == MapThenSumSet(LAMBDA p : RoundResult.rows[p].total, Players)
            head == IF headOwner # NoOne THEN HeadCardBonus ELSE 0
            knock == IF knocker # NoOne THEN KnockPaid ELSE 0
            card == IF knocker # NoOne THEN KnockCardBonus ELSE 0
<1>1. rows = ((((tw + head) + knock) + card) - hw) - (DumpPenalty * ds)
  BY TotalsAre, TotalsSum, TableBalance, HandsBalance
<1>2. headCard \in TableCards <=> headOwner # NoOne
  <2>1. \A i \in DOMAIN melds : melds[i].cards \subseteq TableCards
    BY DEF TableCards
  <2>. QED
    BY <2>1 DEF HeadBonusOwner
<1>3. ds = MapThenSumSet(LAMBDA p : dumpPenalties[p], Players)
  BY DEF Sum
<1>4. /\ head = (IF headCard \in TableCards THEN HeadCardBonus ELSE 0)
      /\ knock + card = (IF endReason = "knock" THEN KnockPaid + KnockCardBonus ELSE 0)
  BY <1>2 DEF KnockerKnocked
<1>5. head \in Int /\ knock \in Int /\ card \in Int
  BY ScoresTyped
<1>6. tw \in Int /\ hw \in Int /\ DumpPenalty * ds \in Int
  <2>1. UNION {hand[p] : p \in Players} \subseteq Cards
    BY TablesFinite
  <2>2. hw \in Int
    BY <2>1, HandsWorthIs, PointsTypes
  <2>3. IsFiniteSet(Players) /\ \A p \in Players : dumpPenalties[p] \in Int
    BY TablesFinite DEF TypeOK
  <2>4. ds \in Int
    BY <2>3, SumType
  <2>5. DumpPenalty * ds \in Int
    BY <2>4, ScoresTyped
  <2>6. tw \in Int
    <3>1. TableCards \subseteq Cards /\ IsFiniteSet(TableCards)
      <4>1. TableCards \subseteq Cards
        BY TablesFinite DEF TableCards
      <4>. QED
        BY <4>1, CardsFinite, FS_Subset
    <3>2. ASSUME NEW c \in TableCards PROVE CardValues[c] \in Int
      <4>1. c \in Cards
        BY <3>1
      <4>. QED
        BY <4>1, WorthTyped DEF CardValues
    <3>. QED
      BY <3>1, <3>2, TableWorthIs, SumType
  <2>. QED
    BY <2>2, <2>5, <2>6
<1>. DEFINE a == IF headCard \in TableCards THEN HeadCardBonus ELSE 0
            b == IF endReason = "knock" THEN KnockPaid + KnockCardBonus ELSE 0
            e == DumpPenalty * ds
<1>7. rows = tw - hw + a + b - e
  <2>1. head = a /\ knock + card = b
    BY <1>4
  <2>2. rows = ((((tw + head) + knock) + card) - hw) - e
    BY <1>1
  <2>3. e \in Int
    BY <1>6
  <2>. HIDE DEF rows, tw, hw, head, knock, card, a, b, e
  <2>. QED
    BY <1>5, <1>6, <2>1, <2>2, <2>3
<1>. HIDE DEF tw, hw
<1>. QED
  BY <1>3, <1>7 DEF PointsBalance, tw, hw

(* Whatever happened in a round, the totals its players are sent add up to *)
(* the points that lie on the table and in the hands, with the bonuses     *)
(* and the penalties: ScoreRound, called for every seat, counts every card *)
(* exactly once and every bonus at most once (scoring.go).                 *)
THEOREM PointsAddUp == MCSpec => []PointsBalance
<1>1. Init => KnockerKnocked
  BY DEF Init, Deal, KnockerKnocked
<1>2. Init => ConservationInv
  BY InitTypeOK, InitConserves DEF ConservationInv
<1>3. ConservationInv /\ KnockerKnocked /\ [Next]_vars => KnockerKnocked'
  BY NextKnockerKnocked DEF ConservationInv
<1>4. Spec => [](ConservationInv /\ KnockerKnocked)
  BY <1>1, <1>2, <1>3, NextConserves, PTL DEF Spec
<1>5. ConservationInv /\ KnockerKnocked /\ MeldsValid /\ HeadBonusOwner => PointsBalance
  BY RoundBalances DEF ConservationInv, CardConservation
<1>. QED
  BY <1>4, <1>5, MCSpecIsSpec, MeldsStayValid, HeadBonusFollowsCard, PTL

-----------------------------------------------------------------------------
(* Nobody loses points to another player.                                  *)

(* What a move of player p does to the melds: those there are keep their   *)
(* kind, their owner and their cards; new ones are p's.                    *)
MeldsKept(ms, more, p) ==
  /\ \A i \in DOMAIN ms :
       /\ i \in DOMAIN more /\ ms[i].cards \subseteq more[i].cards
       /\ more[i].owner = ms[i].owner /\ more[i].kind = ms[i].kind
  /\ \A i \in DOMAIN more : i \in DOMAIN ms \/ more[i].owner = p

LEMMA ExposedKept ==
  ASSUME TypeOK, NEW p \in Players, NEW C \in SUBSET Cards, ExposeMeld(p, C)
  PROVE  MeldsKept(melds, melds', p)
<1>. DEFINE n == Len(melds)
<1>1. /\ melds \in Seq(Meld) /\ n \in Nat /\ DOMAIN melds = 1..n
      /\ MeldOf(C, p) \in Meld /\ MeldOf(C, p).owner = p
  BY MeldOfType DEF TypeOK
<1>2. /\ DOMAIN melds' = 1..(n + 1)
      /\ \A i \in 1..n : melds'[i] = melds[i]
      /\ melds'[n + 1] = MeldOf(C, p)
  BY <1>1, AppendProperties DEF ExposeMeld
<1>. HIDE DEF n
<1>3. 1..(n + 1) = 1..n \cup {n + 1}
  BY <1>1
<1>. QED
  BY <1>1, <1>2, <1>3 DEF MeldsKept

LEMMA GrownKept ==
  ASSUME TypeOK, NEW p, NEW i \in DOMAIN melds, NEW C \in SUBSET Cards, GrowMeld(i, C)
  PROVE  MeldsKept(melds, melds', p)
<1>1. melds \in Seq(Meld) /\ melds[i] \in Meld
  BY DEF TypeOK
<1>2. /\ LaidOff(melds[i], C).cards = melds[i].cards \cup C
      /\ LaidOff(melds[i], C).owner = melds[i].owner
      /\ LaidOff(melds[i], C).kind = melds[i].kind
  BY <1>1, LaidOffType DEF LaidOff, Meld
<1>3. /\ DOMAIN melds' = DOMAIN melds
      /\ melds'[i] = LaidOff(melds[i], C)
      /\ \A k \in DOMAIN melds : k # i => melds'[k] = melds[k]
  BY <1>1 DEF GrowMeld
<1>. QED
  BY <1>2, <1>3 DEF MeldsKept

LEMMA LaidDownKept ==
  ASSUME TypeOK, NEW p \in Players, NEW plan \in KnockPlans(hand[p], melds),
         NEW order \in Orders(plan.groups), melds' = LaidDown(plan, order, p)
  PROVE  MeldsKept(melds, melds', p)
<1>1. PlanOnTable(melds', plan, order, p)
  BY LaidDownMelds
<1>2. PICK n \in Nat :
        /\ Len(order) = n
        /\ melds' \in Seq(Meld) /\ Len(melds') = Len(melds) + n
        /\ \A i \in 1..Len(melds) : /\ melds'[i].cards = melds[i].cards \cup plan.lay[i]
                                    /\ melds'[i].owner = melds[i].owner
        /\ \A i \in 1..n : melds'[Len(melds) + i].owner = p
  BY <1>1 DEF PlanOnTable
<1>3. /\ melds \in Seq(Meld) /\ DOMAIN melds = 1..Len(melds) /\ Len(melds) \in Nat
      /\ DOMAIN melds' = 1..(Len(melds) + n)
  BY <1>2 DEF TypeOK
<1>4. ASSUME NEW i \in DOMAIN melds
      PROVE  /\ i \in DOMAIN melds' /\ melds[i].cards \subseteq melds'[i].cards
             /\ melds'[i].owner = melds[i].owner
  BY <1>2, <1>3
<1>5. ASSUME NEW i \in DOMAIN melds PROVE melds'[i].kind = melds[i].kind
  <2>1. i \in 1..(Len(melds) + Len(order))
    BY <1>2, <1>3
  <2>2. melds'[i] = IF plan.lay[i] = {} THEN melds[i] ELSE LaidOff(melds[i], plan.lay[i])
    BY <2>1 DEF LaidDown
  <2>3. melds[i] \in Meld
    BY <1>3
  <2>. QED
    BY <2>2, <2>3 DEF LaidOff, Meld
<1>6. ASSUME NEW i \in DOMAIN melds', i \notin DOMAIN melds PROVE melds'[i].owner = p
  <2>1. i - Len(melds) \in 1..n /\ Len(melds) + (i - Len(melds)) = i
    BY <1>3, <1>6
  <2>. QED
    BY <1>2, <2>1
<1>. QED
  BY <1>4, <1>5, <1>6 DEF MeldsKept

(* What a move leaves to the players who are not on turn.                  *)
OthersKeep ==
  /\ knocker = NoOne
  /\ MeldsKept(melds, melds', turn)
  /\ headOwner # NoOne => headOwner' = headOwner
  /\ \A q \in Players \ {turn} : hand'[q] = hand[q]

LEMMA MoveKeeps ==
  ASSUME TypeOK, NoKnockYet, NEW p \in Players, Move(p) PROVE OthersKeep
<1>1. knocker = NoOne /\ turn = p
  BY DEF Move, DrawDeck, PickUp, PickUpLayOff, PickUpMeld, LayMeld, LayOff, Knock,
         AutoKnock, Discard, NoKnockYet, RoundOver
<1>2. hand \in [Players -> SUBSET Cards] /\ turn \in Players
  BY DEF TypeOK
<1>3. \A q \in Players \ {turn} : hand'[q] = hand[q]
  BY <1>1, <1>2 DEF Move, DrawDeck, PickUp, PickUpLayOff, PickUpMeld, LayMeld, LayOff,
                    Knock, AutoKnock, Discard
<1>4. ASSUME UNCHANGED <<melds, headOwner>> PROVE OthersKeep
  BY <1>1, <1>3, <1>4 DEF OthersKeep, MeldsKept
<1>5. ASSUME NEW C, NEW q, AbsorbHead(C, q) PROVE headOwner # NoOne => headOwner' = headOwner
  BY <1>5 DEF AbsorbHead
<1>6. ASSUME NEW C \in SUBSET Cards, ExposeMeld(p, C) PROVE OthersKeep
  BY <1>1, <1>3, <1>5, <1>6, ExposedKept DEF OthersKeep, ExposeMeld
<1>7. ASSUME NEW i \in DOMAIN melds, NEW C \in SUBSET Cards, GrowMeld(i, C) PROVE OthersKeep
  BY <1>1, <1>3, <1>5, <1>7, GrownKept DEF OthersKeep, GrowMeld
<1>8. CASE DrawDeck(p)
  BY <1>4, <1>8 DEF DrawDeck, tableVars
<1>9. CASE PickUp(p)
  <2>1. PICK t \in DOMAIN discardPile :
          \/ \E i \in DOMAIN melds : PickUpLayOff(p, t, i)
          \/ \E S \in SUBSET (hand[p] \cup AboveTarget(t)) : PickUpMeld(p, t, S)
    BY <1>9 DEF PickUp
  <2>2. discardPile[t] \in Cards
    BY DEF TypeOK
  <2>3. ASSUME NEW i \in DOMAIN melds, PickUpLayOff(p, t, i) PROVE OthersKeep
    BY <1>7, <2>2, <2>3 DEF PickUpLayOff
  <2>4. ASSUME NEW S \in SUBSET (hand[p] \cup AboveTarget(t)), PickUpMeld(p, t, S)
        PROVE  OthersKeep
    <3>1. S \cup {discardPile[t]} \in SUBSET Cards
      BY <2>2, AboveTargetType DEF TypeOK
    <3>. QED
      BY <1>6, <2>4, <3>1 DEF PickUpMeld
  <2>. QED
    BY <2>1, <2>3, <2>4
<1>10. ASSUME NEW C \in SUBSET hand[p], LayMeld(p, C) PROVE OthersKeep
  <2>1. C \in SUBSET Cards
    BY <1>2
  <2>. QED
    BY <1>6, <1>10, <2>1 DEF LayMeld
<1>11. ASSUME NEW C \in SUBSET hand[p], NEW i \in DOMAIN melds, LayOff(p, C, i)
       PROVE  OthersKeep
  <2>1. C \in SUBSET Cards
    BY <1>2
  <2>. QED
    BY <1>7, <1>11, <2>1 DEF LayOff
<1>12. CASE \E c \in hand[p], dark \in BOOLEAN : Knock(p, c, dark)
  BY <1>4, <1>12 DEF Knock, tableVars
<1>13. CASE AutoKnock(p)
  <2>1. PICK plan \in KnockPlans(hand[p], melds) :
          \E order \in Orders(plan.groups) :
            /\ melds' = LaidDown(plan, order, p)
            /\ headOwner' = HeadOwnerAfter(melds')
    BY <1>13 DEF AutoKnock
  <2>2. MeldsKept(melds, melds', p)
    BY <2>1, LaidDownKept
  <2>3. headOwner # NoOne => headOwner' = headOwner
    BY <2>1 DEF HeadOwnerAfter
  <2>. QED
    BY <1>1, <1>3, <2>2, <2>3 DEF OthersKeep
<1>14. CASE \E c \in hand[p] : Discard(p, c)
  BY <1>4, <1>14 DEF Discard
<1>. QED
  BY <1>8, <1>9, <1>10, <1>11, <1>12, <1>13, <1>14 DEF Move

(* A meld that grows is worth no less, unless its Ace stops counting high. *)
LEMMA GrownIsWorthMore ==
  ASSUME NEW m \in Meld, NEW g \in Meld, m.cards \subseteq g.cards, m.kind = g.kind,
         m.aceHigh => g.aceHigh
  PROVE  MeldPoints(m) <= MeldPoints(g)
<1>. DEFINE h == PointsOf(CountsHigh(m))
            k == PointsOf(CountsHigh(g))
<1>1. /\ m.cards \subseteq Cards /\ g.cards \subseteq Cards
      /\ IsFiniteSet(m.cards) /\ IsFiniteSet(g.cards \ m.cards)
  <2>1. m.cards \subseteq Cards /\ g.cards \subseteq Cards
    BY DEF Meld
  <2>. QED
    BY <2>1, CardsFinite, FS_Subset
<1>2. MeldPoints(m) = Sum(h, m.cards) /\ MeldPoints(g) = Sum(k, g.cards)
  BY <1>1, MeldPointsIs
<1>3. /\ \A c \in Cards : h[c] \in Int
      /\ \A c \in Cards : k[c] \in Int
  BY PointsInt
<1>4. \A c \in Cards : h[c] <= k[c]
  <2>1. ASSUME NEW c \in Cards PROVE h[c] <= k[c]
    <3>1. PointsOf(FALSE)[c] <= PointsOf(TRUE)[c]
      BY PointsAre DEF PointsOf
    <3>2. CASE CountsHigh(m) /\ CountsHigh(g)
      <4>1. CountsHigh(m) = CountsHigh(g)
        BY <3>2 DEF CountsHigh
      <4>. QED
        BY <1>3, <4>1
    <3>3. CASE ~CountsHigh(m) /\ CountsHigh(g)
      <4>1. CountsHigh(m) = FALSE /\ CountsHigh(g) = TRUE
        BY <3>3 DEF CountsHigh
      <4>. QED
        BY <3>1, <4>1
    <3>4. CASE ~CountsHigh(m) /\ ~CountsHigh(g)
      <4>1. CountsHigh(m) = CountsHigh(g)
        BY <3>4 DEF CountsHigh
      <4>. QED
        BY <1>3, <4>1
    <3>5. CountsHigh(m) => CountsHigh(g)
      BY DEF CountsHigh
    <3>. QED
      BY <3>2, <3>3, <3>4, <3>5
  <2>. QED
    BY <2>1
<1>5. \A c \in g.cards \ m.cards : k[c] \in Nat
  BY <1>1, PointsTypes
<1>. HIDE DEF h, k
<1>6. Sum(h, m.cards) <= Sum(k, m.cards)
  BY <1>1, <1>3, <1>4, SumLess
<1>7. Sum(k, g.cards) = Sum(k, m.cards) + Sum(k, g.cards \ m.cards)
  <2>1. g.cards = m.cards \cup (g.cards \ m.cards) /\ m.cards \cap (g.cards \ m.cards) = {}
    OBVIOUS
  <2>2. \A c \in m.cards \cup (g.cards \ m.cards) : k[c] \in Int
    BY <1>1, <1>3
  <2>. QED
    BY <1>1, <2>1, <2>2, SumUnion
<1>8. Sum(k, g.cards \ m.cards) \in Nat
  BY <1>1, <1>5, SumNatural
<1>9. Sum(h, m.cards) \in Int /\ Sum(k, m.cards) \in Int
  BY <1>1, <1>3, SumType
<1>. QED
  BY <1>2, <1>6, <1>7, <1>8, <1>9

LEMMA OthersMeldsWorthMore ==
  ASSUME TypeOK, TypeOK', OthersKeep, ~SuitCompleted, NEW q \in Players \ {turn}
  PROVE  /\ MeldsWorth(melds, q) <= MeldsWorth(melds', q)
         /\ MeldsWorth(melds, q) \in Int /\ MeldsWorth(melds', q) \in Int
<1>. DEFINE O == MeldsBy(melds, q)
            h == MeldValues(melds)
            k == MeldValues(melds')
<1>1. /\ \A i \in DOMAIN melds : melds[i] \in Meld
      /\ \A i \in DOMAIN melds' : melds'[i] \in Meld
      /\ IsFiniteSet(DOMAIN melds)
  BY TablesFinite DEF TypeOK
<1>2. MeldsBy(melds', q) = O
  BY DEF MeldsBy, OthersKeep, MeldsKept
<1>3. O \subseteq DOMAIN melds /\ IsFiniteSet(O)
  <2>1. O \subseteq DOMAIN melds
    BY DEF MeldsBy
  <2>. QED
    BY <1>1, <2>1, FS_Subset
<1>4. ASSUME NEW i \in O PROVE h[i] \in Int /\ k[i] \in Int /\ h[i] <= k[i]
  <2>1. i \in DOMAIN melds /\ i \in DOMAIN melds' /\ melds[i] \in Meld /\ melds'[i] \in Meld
    BY <1>1, <1>3 DEF OthersKeep, MeldsKept
  <2>2. melds[i].aceHigh => melds'[i].aceHigh
    BY <2>1 DEF SuitCompleted
  <2>3. melds[i].cards \subseteq melds'[i].cards /\ melds[i].kind = melds'[i].kind
    BY <2>1 DEF OthersKeep, MeldsKept
  <2>4. MeldPoints(melds[i]) <= MeldPoints(melds'[i])
    BY <2>1, <2>2, <2>3, GrownIsWorthMore
  <2>5. melds[i].cards \subseteq Cards /\ melds'[i].cards \subseteq Cards
    BY <2>1 DEF Meld
  <2>6. MeldPoints(melds[i]) \in Nat /\ MeldPoints(melds'[i]) \in Nat
    BY <2>5, PointsTypes
  <2>. QED
    BY <2>1, <2>4, <2>6 DEF MeldValues
<1>5. MeldsWorth(melds, q) = Sum(h, O) /\ MeldsWorth(melds', q) = Sum(k, O)
  BY <1>2, MeldsWorthIs
<1>. HIDE DEF O, h, k
<1>. QED
  BY <1>3, <1>4, <1>5, SumLess, SumType

LEMMA OthersLoseNothing ==
  ASSUME TypeOK, TypeOK', OthersKeep, PenaltyStep, ~SuitCompleted, NEW q \in Players \ {turn}
  PROVE  Total(q)' >= Total(q) - (IF PenaltyOwed(q) THEN DumpPenalty ELSE 0)
<1>. DEFINE m == MeldsWorth(melds, q)
            mm == MeldsWorth(melds', q)
            ho == IF headOwner = q THEN HeadCardBonus ELSE 0
            hoo == IF headOwner' = q THEN HeadCardBonus ELSE 0
            kn == IF knocker' = q
                  THEN KnockBonus * (IF knockDark' THEN DarkKnockMult ELSE 1)
                                  * (IF knockSuit' THEN SameSuitKnockMult ELSE 1)
                  ELSE 0
            kc == IF knocker' = q THEN KnockCardBonus ELSE 0
            w == HandWorth(hand[q])
            dp == DumpPenalty * dumpPenalties[q]
            dpp == DumpPenalty * dumpPenalties'[q]
            owed == IF PenaltyOwed(q) THEN DumpPenalty ELSE 0
            t == Total(q)
            tt == Total(q)'
<1>1. q # NoOne /\ knocker = NoOne /\ hand'[q] = hand[q]
  BY NoOneIsNoPlayer DEF OthersKeep
<1>2. t = m + ho + 0 + 0 + (-w) + (-dp)
  BY <1>1, TotalIs DEF TotalOf
<1>3. tt = mm + hoo + kn + kc + (-w) + (-dpp)
  BY <1>1, TotalIs DEF TotalOf
<1>4. m <= mm /\ m \in Int /\ mm \in Int
  BY OthersMeldsWorthMore
<1>5. ho \in Nat /\ hoo \in Nat /\ ho <= hoo
  BY <1>1, ScoresTyped DEF OthersKeep
<1>6. kn \in Nat /\ kc \in Nat
  BY ScoresTyped
<1>7. w \in Int
  BY PointsTypes, TablesFinite
<1>8. dp \in Int /\ dpp \in Int /\ owed \in Int /\ dpp = dp + owed
  <2>1. dumpPenalties[q] \in Nat /\ DumpPenalty \in Nat
    BY ScoresTyped DEF TypeOK
  <2>2. dumpPenalties'[q] = dumpPenalties[q] + (IF PenaltyOwed(q) THEN 1 ELSE 0)
    BY DEF PenaltyStep
  <2>3. \A x, y \in Nat : y * (x + 1) = (y * x) + y /\ y * x \in Int
    OBVIOUS
  <2>4. CASE PenaltyOwed(q)
    <3>1. dumpPenalties'[q] = dumpPenalties[q] + 1 /\ owed = DumpPenalty
      BY <2>2, <2>4
    <3>2. dpp = dp + DumpPenalty /\ dp \in Int
      BY <2>1, <2>3, <3>1
    <3>. QED
      BY <2>1, <3>1, <3>2
  <2>5. CASE ~PenaltyOwed(q)
    BY <2>1, <2>2, <2>3, <2>5
  <2>. QED
    BY <2>4, <2>5
<1>9. tt >= t - owed
  <2>. HIDE DEF t, tt, m, mm, ho, hoo, kn, kc, w, dp, dpp, owed
  <2>. QED
    BY <1>2, <1>3, <1>4, <1>5, <1>6, <1>7, <1>8
<1>. QED
  BY <1>9

OthersCost ==
  SuitCompleted \/
  \A q \in Players \ {turn} :
    Total(q)' >= Total(q) - (IF PenaltyOwed(q) THEN DumpPenalty ELSE 0)

(* What a player does while it is not your turn costs you no points, but   *)
(* for the penalty on a discard of yours that is picked up: what is laid   *)
(* off onto your melds, the head bonus and the knock only add to what you  *)
(* get (applyLayOff, absorbHead, ScoreRound). The one exception is a run   *)
(* that a layoff completes to a whole suit.                                *)
THEOREM OthersTakeNoPoints == MCSpec => OthersNeverCost
<1>1. TypeOK /\ TypeOK' /\ NoKnockYet /\ [PenaltyStep]_vars
        /\ [MCNext]_<<vars, discarder, ownersAtTurnStart>> => [OthersCost]_vars
  <2> SUFFICES ASSUME TypeOK, TypeOK', NoKnockYet, [PenaltyStep]_vars, MCNext,
                      ~UNCHANGED vars
               PROVE  OthersCost
    BY DEF vars
  <2>1. PICK p \in Players : Move(p)
    BY DEF MCNext, Next
  <2>2. OthersKeep
    BY <2>1, MoveKeeps
  <2>. QED
    BY <2>2, OthersLoseNothing DEF OthersCost
<1>2. MCSpec => [](TypeOK /\ NoKnockYet)
  <2>1. Init => ConservationInv
    BY InitTypeOK, InitConserves DEF ConservationInv
  <2>2. ConservationInv => TypeOK /\ NoKnockYet
    BY DEF ConservationInv
  <2>. QED
    BY <2>1, <2>2, NextConserves, MCSpecIsSpec, PTL DEF Spec
<1>3. PenaltyAttribution <=> [][PenaltyStep]_vars
  BY DEF PenaltyAttribution, PenaltyStep
<1>4. OthersNeverCost <=> [][OthersCost]_vars
  BY DEF OthersNeverCost, OthersCost
<1>. QED
  BY <1>1, <1>2, <1>3, <1>4, PenaltiesHitTheDiscarder, PTL DEF MCSpec
===============================================================================
