------------------------------ MODULE DummyEngine ------------------------------
(***************************************************************************)
(* One round of Thai Dummy as package game plays it (engine.go): the deal, *)
(* the draw phase (from the deck or from the face-up pile), the meld phase *)
(* (meld, lay off, knock, auto-knock, discard) and the end of the round.   *)
(* An action is a call of ApplyAction that succeeds; a call the engine     *)
(* rejects changes no card.                                                *)
(*                                                                         *)
(* A hand is a set of cards. The draw pile is a set too: the shuffle       *)
(* hides its order, so drawing takes any card left in it. A table meld is  *)
(* named by its position: melds are only appended, in the order their ids  *)
(* m1, m2, ... are given out. Penalties count hits of RuleSet.DumpPenalty. *)
(***************************************************************************)
EXTENDS DummyRules, Sequences, Functions

CONSTANTS
  NumPlayers,   (* players seated                       *)
  HandSize      (* RuleSet.HandSize for that many       *)

ASSUME EngineAssumption ==
  /\ NumPlayers \in Nat /\ NumPlayers > 1
  /\ HandSize \in Nat /\ HandSize > 0

Players == 0..(NumPlayers - 1)
NoOne == -1
Meld == [kind: {"set", "run"}, cards: SUBSET Cards, owner: Players, aceHigh: BOOLEAN]

VARIABLES
  turn, phase, firstMove,
  hand,                     (* Players[i].Hand                             *)
  drawPile,
  discardPile, discardedBy, (* parallel sequences, the top is the last     *)
  melds,                    (* every meld on the table                     *)
  headCard, headOwner,
  produced, producedAtTurnStart,
  dumpPenalties,
  endReason, knocker, knockDark, knockSuit

tableVars == <<discardPile, discardedBy, melds, headOwner, dumpPenalties>>
endVars == <<endReason, knocker, knockDark, knockSuit>>
vars == <<turn, phase, firstMove, hand, drawPile, discardPile, discardedBy,
          melds, headCard, headOwner, produced, producedAtTurnStart,
          dumpPenalties, endReason, knocker, knockDark, knockSuit>>

PileCards == {discardPile[i] : i \in DOMAIN discardPile}
TableCards == UNION {melds[i].cards : i \in DOMAIN melds}
RoundOver == phase = "round_over"

-----------------------------------------------------------------------------
(* The deal: HandSize cards each, one face-up head card as the bottom of   *)
(* the discard pile, placed by no player, the rest face down.              *)
Deal(hands, head) ==
  /\ \A p \in Players : hands[p] \subseteq Cards /\ Cardinality(hands[p]) = HandSize
  /\ \A p, q \in Players : p # q => hands[p] \cap hands[q] = {}
  /\ \A p \in Players : head \notin hands[p]
  /\ hand = hands
  /\ headCard = head
  /\ discardPile = <<head>>
  /\ discardedBy = <<NoOne>>
  /\ drawPile = (Cards \ {head}) \ UNION {hands[p] : p \in Players}
  /\ turn = 0
  /\ phase = "draw"
  /\ firstMove = TRUE
  /\ melds = <<>>
  /\ headOwner = NoOne
  /\ produced = [p \in Players |-> FALSE]
  /\ producedAtTurnStart = [p \in Players |-> FALSE]
  /\ dumpPenalties = [p \in Players |-> 0]
  /\ endReason = "none"
  /\ knocker = NoOne
  /\ knockDark = FALSE
  /\ knockSuit = FALSE

Init ==
  \E hands \in [Players -> {C \in SUBSET Cards : Cardinality(C) = HandSize}],
     head \in Cards : Deal(hands, head)

-----------------------------------------------------------------------------
(* Mutants: the head goes to the player who moved; to the meld's position. *)
AbsorbHeadByMover(C, owner) ==
  headOwner' = IF headOwner = NoOne /\ headCard \in C THEN turn ELSE headOwner
AbsorbHeadByPosition(C, owner) ==
  headOwner' = IF headOwner = NoOne /\ headCard \in C
               THEN NumPlayers + Len(melds) ELSE headOwner

(* absorbHead: the owner of the first meld to receive the head card.       *)
AbsorbHead(C, owner) ==
  headOwner' = IF headOwner = NoOne /\ headCard \in C THEN owner ELSE headOwner

(* Mutant: the player who discarded the top of the pile pays.              *)
ChargeTopDumper(p, t) ==
  LET dumper == discardedBy[Len(discardedBy)] IN
  dumpPenalties' = IF dumper \in Players \ {p}
                   THEN [dumpPenalties EXCEPT ![dumper] = @ + 1]
                   ELSE dumpPenalties

(* The penalty of picking up the card at position t of the pile.           *)
ChargeDumper(p, t) ==
  LET dumper == discardedBy[t] IN
  dumpPenalties' =
    IF t \in DOMAIN discardedBy /\ dumper # NoOne /\ dumper # p
    THEN [dumpPenalties EXCEPT ![dumper] = @ + 1]
    ELSE dumpPenalties

TruncatePile(t) ==
  /\ discardPile' = SubSeq(discardPile, 1, t - 1)
  /\ discardedBy' = IF t \in DOMAIN discardedBy
                    THEN SubSeq(discardedBy, 1, t - 1)
                    ELSE discardedBy

(* Mutant: off by one, the target comes along into the hand.               *)
FromTarget(t) == {discardPile[i] : i \in {j \in DOMAIN discardPile : j >= t}}

AboveTarget(t) == {discardPile[i] : i \in {j \in DOMAIN discardPile : j > t}}

(* A new meld on the table: appended, its owner has produced, the head     *)
(* card absorbed.                                                          *)
ExposeMeld(p, C) ==
  /\ melds' = Append(melds, MeldOf(C, p))
  /\ AbsorbHead(C, p)
  /\ produced' = [produced EXCEPT ![p] = TRUE]

(* Cards laid off onto meld i.                                            *)
GrowMeld(i, C) ==
  /\ melds' = [melds EXCEPT ![i] = LaidOff(@, C)]
  /\ AbsorbHead(C, melds[i].owner)

EndRound(reason) ==
  /\ phase' = "round_over"
  /\ endReason' = reason

-----------------------------------------------------------------------------
(* Draw phase.                                                             *)

DrawDeck(p) ==
  /\ phase = "draw" /\ turn = p
  /\ firstMove' = FALSE
  /\ \/ /\ drawPile = {}
        /\ EndRound("deck_exhaust")
        /\ UNCHANGED <<hand, drawPile>>
     \/ \E c \in drawPile :
          /\ drawPile' = drawPile \ {c}
          /\ hand' = [hand EXCEPT ![p] = @ \cup {c}]
          /\ phase' = "meld"
          /\ UNCHANGED endReason
  /\ UNCHANGED <<turn, tableVars, headCard, produced, producedAtTurnStart,
                 knocker, knockDark, knockSuit>>

(* The card at position t goes straight onto table meld i; the cards above *)
(* it go to the hand.                                                      *)
PickUpLayOff(p, t, i) ==
  /\ phase = "draw" /\ turn = p /\ ~firstMove
  /\ t \in DOMAIN discardPile /\ i \in DOMAIN melds
  /\ CanLayOff(melds[i], {discardPile[t]})
  /\ ChargeDumper(p, t)
  /\ TruncatePile(t)
  /\ hand' = [hand EXCEPT ![p] = @ \cup AboveTarget(t)]
  /\ GrowMeld(i, {discardPile[t]})
  /\ phase' = "meld"
  /\ UNCHANGED <<turn, firstMove, drawPile, headCard, produced,
                 producedAtTurnStart, endVars>>

(* The card at position t forms a new meld with the supporting cards S,    *)
(* taken from the hand and from above t; what is above and not used goes   *)
(* to the hand.                                                            *)
PickUpMeld(p, t, S) ==
  /\ phase = "draw" /\ turn = p /\ ~firstMove
  /\ t \in DOMAIN discardPile
  /\ Cardinality(S) >= MinMeldLen - 1
  /\ S \ AboveTarget(t) \subseteq hand[p]
  /\ LET C == S \cup {discardPile[t]} IN
     /\ IsMeld(C)
     /\ ChargeDumper(p, t)
     /\ TruncatePile(t)
     /\ hand' = [hand EXCEPT ![p] = (@ \cup AboveTarget(t)) \ S]
     /\ ExposeMeld(p, C)
  /\ phase' = "meld"
  /\ UNCHANGED <<turn, firstMove, drawPile, headCard, producedAtTurnStart, endVars>>

-----------------------------------------------------------------------------
(* Meld phase.                                                             *)

LayMeld(p, C) ==
  /\ phase = "meld" /\ turn = p
  /\ C \subseteq hand[p] /\ IsMeld(C)
  /\ hand' = [hand EXCEPT ![p] = @ \ C]
  /\ ExposeMeld(p, C)
  /\ UNCHANGED <<turn, phase, firstMove, drawPile, discardPile, discardedBy,
                 headCard, producedAtTurnStart, dumpPenalties, endVars>>

LayOff(p, C, i) ==
  /\ phase = "meld" /\ turn = p
  /\ i \in DOMAIN melds
  /\ C \subseteq hand[p] /\ CanLayOff(melds[i], C)
  /\ hand' = [hand EXCEPT ![p] = @ \ C]
  /\ GrowMeld(i, C)
  /\ UNCHANGED <<turn, phase, firstMove, drawPile, discardPile, discardedBy,
                 headCard, produced, producedAtTurnStart, dumpPenalties, endVars>>

(* knockSuitBoard over the melds ms.                                       *)
SuitBoard(ms, p, c) ==
  LET own == {i \in DOMAIN ms : ms[i].owner = p} IN
  own # {} /\ \A i \in own : \A d \in ms[i].cards : d.suit = c.suit

(* The single card left is the knock card; it leaves the round with the    *)
(* knock. dark is the claim the client sends along.                        *)
Knock(p, c, dark) ==
  /\ phase = "meld" /\ turn = p
  /\ hand[p] = {c}
  /\ hand' = [hand EXCEPT ![p] = {}]
  /\ EndRound("knock")
  /\ knocker' = p
  /\ knockDark' = (dark /\ ~producedAtTurnStart[p])
  /\ knockSuit' = SuitBoard(melds, p, c)
  /\ UNCHANGED <<turn, firstMove, drawPile, tableVars, headCard, produced,
                 producedAtTurnStart>>

(* The melds after a plan is laid down: its layoffs onto the table, then   *)
(* its new melds behind them in any order.                                 *)
LaidDown(plan, order, p) ==
  [i \in 1..(Len(melds) + Len(order)) |->
     IF i \in DOMAIN melds
     THEN IF plan.lay[i] = {} THEN melds[i] ELSE LaidOff(melds[i], plan.lay[i])
     ELSE MeldOf(order[i - Len(melds)], p)]

Orders(P) == Bijection(1..Cardinality(P), P)

(* The head card's owner after a plan: whoever owns the meld it went into. *)
HeadOwnerAfter(ms) ==
  IF headOwner = NoOne /\ \E i \in DOMAIN ms : headCard \in ms[i].cards
  THEN ms[CHOOSE i \in DOMAIN ms : headCard \in ms[i].cards].owner
  ELSE headOwner

AutoKnock(p) ==
  /\ phase = "meld" /\ turn = p
  /\ \E plan \in KnockPlans(hand[p], melds) :
       \E order \in Orders(plan.groups) :
         /\ melds' = LaidDown(plan, order, p)
         /\ headOwner' = HeadOwnerAfter(melds')
         /\ produced' = [produced EXCEPT ![p] = @ \/ plan.groups # {}]
         /\ hand' = [hand EXCEPT ![p] = {}]
         /\ knockSuit' = SuitBoard(melds', p, plan.card)
  /\ EndRound("knock")
  /\ knocker' = p
  /\ UNCHANGED <<turn, firstMove, drawPile, discardPile, discardedBy, headCard,
                 producedAtTurnStart, dumpPenalties, knockDark>>

NextSeat == (turn + 1) % NumPlayers

(* Mutant: the snapshot is never renewed.                                  *)
OpenTurnWithoutSnapshot ==
  turn' = NextSeat /\ phase' = "draw" /\ UNCHANGED producedAtTurnStart

(* The next player's turn, with the snapshot a dark knock is judged by.    *)
OpenTurn ==
  /\ turn' = NextSeat
  /\ phase' = "draw"
  /\ producedAtTurnStart' =
       [producedAtTurnStart EXCEPT ![NextSeat] = produced[NextSeat]]

Discard(p, c) ==
  /\ phase = "meld" /\ turn = p
  /\ c \in hand[p]
  /\ dumpPenalties' = IF LayableOnAny(melds, c)
                      THEN [dumpPenalties EXCEPT ![p] = @ + 1]
                      ELSE dumpPenalties
  /\ hand' = [hand EXCEPT ![p] = @ \ {c}]
  /\ discardPile' = Append(discardPile, c)
  /\ discardedBy' = Append(discardedBy, p)
  /\ OpenTurn
  /\ UNCHANGED <<firstMove, drawPile, melds, headCard, headOwner, produced, endVars>>

-----------------------------------------------------------------------------
PickUp(p) ==
  \E t \in DOMAIN discardPile :
    \/ \E i \in DOMAIN melds : PickUpLayOff(p, t, i)
    \/ \E S \in SUBSET (hand[p] \cup AboveTarget(t)) : PickUpMeld(p, t, S)

Move(p) ==
  \/ DrawDeck(p)
  \/ PickUp(p)
  \/ \E C \in SUBSET hand[p] : LayMeld(p, C)
  \/ \E C \in SUBSET hand[p], i \in DOMAIN melds : LayOff(p, C, i)
  \/ \E c \in hand[p], dark \in BOOLEAN : Knock(p, c, dark)
  \/ AutoKnock(p)
  \/ \E c \in hand[p] : Discard(p, c)

Next == \E p \in Players : Move(p)

Spec == Init /\ [][Next]_vars
-----------------------------------------------------------------------------
(* Correctness.                                                            *)

TypeOK ==
  /\ turn \in Players
  /\ phase \in {"draw", "meld", "round_over"}
  /\ firstMove \in BOOLEAN
  /\ hand \in [Players -> SUBSET Cards]
  /\ drawPile \in SUBSET Cards
  /\ discardPile \in Seq(Cards)
  /\ discardedBy \in Seq(Players \cup {NoOne})
  /\ melds \in Seq(Meld)
  /\ headCard \in Cards
  /\ headOwner \in Players \cup {NoOne}
  /\ produced \in [Players -> BOOLEAN]
  /\ producedAtTurnStart \in [Players -> BOOLEAN]
  /\ dumpPenalties \in [Players -> Nat]
  /\ endReason \in {"none", "knock", "deck_exhaust"}
  /\ knocker \in Players \cup {NoOne}
  /\ knockDark \in BOOLEAN /\ knockSuit \in BOOLEAN

(* No card is ever in two places: hands, draw pile, discard pile and table *)
(* melds are disjoint, and neither the pile nor the table holds one twice. *)
NoDuplicates ==
  /\ \A p, q \in Players : p # q => hand[p] \cap hand[q] = {}
  /\ \A p \in Players : hand[p] \cap (drawPile \cup PileCards \cup TableCards) = {}
  /\ drawPile \cap (PileCards \cup TableCards) = {}
  /\ PileCards \cap TableCards = {}
  /\ \A i, j \in DOMAIN discardPile : i # j => discardPile[i] # discardPile[j]
  /\ \A i, j \in DOMAIN melds : i # j => melds[i].cards \cap melds[j].cards = {}

CardsInPlay ==
  (UNION {hand[p] : p \in Players}) \cup drawPile \cup PileCards \cup TableCards

(* No card is ever lost: all of them are in play until a knock takes the   *)
(* one knock card out.                                                     *)
NothingLost ==
  IF knocker = NoOne
  THEN CardsInPlay = Cards
  ELSE \E c \in Cards : CardsInPlay = Cards \ {c}

CardConservation == NoDuplicates /\ NothingLost

(* Every meld on the table is a set or a run, of the kind and with the Ace *)
(* it says, whatever was laid off onto it and in whatever order.           *)
MeldsValid ==
  \A i \in DOMAIN melds :
    /\ IsMeld(melds[i].cards)
    /\ melds[i].kind = KindOf(melds[i].cards)
    /\ melds[i].aceHigh = AceActsHigh(melds[i].cards)

(* The head bonus goes to the player who owns the meld the head card is    *)
(* in, and to no one while it is in no meld.                               *)
HeadBonusOwner ==
  IF headOwner = NoOne
  THEN headCard \notin TableCards
  ELSE \E i \in DOMAIN melds : headCard \in melds[i].cards /\ melds[i].owner = headOwner
===============================================================================
