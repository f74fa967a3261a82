---------------------------- MODULE MCDummyEngine ----------------------------
(***************************************************************************)
(* Model checking DummyEngine on small decks, with two history variables   *)
(* no step reads: who discarded each card of the pile, and who owned a     *)
(* meld when the current turn began.                                       *)
(***************************************************************************)
EXTENDS TableView, TLC

CONSTANT HeadRanks    (* the ranks of the head cards to start from *)

VARIABLES discarder, ownersAtTurnStart

MeldOwners == {melds[i].owner : i \in DOMAIN melds}

MCInit ==
  /\ Init /\ headCard.rank \in HeadRanks
  /\ discarder = [c \in Cards |-> NoOne]
  /\ ownersAtTurnStart = {}

MCNext ==
  /\ Next
  /\ discarder' =
       [c \in Cards |-> CASE c \in PileCards' \ PileCards -> turn
                          [] c \in PileCards' \cap PileCards -> discarder[c]
                          [] OTHER -> NoOne]
  /\ ownersAtTurnStart' = IF turn' # turn THEN MeldOwners' ELSE ownersAtTurnStart

MCSpec == MCInit /\ [][MCNext]_<<vars, discarder, ownersAtTurnStart>>

(* A penalty is charged exactly when engine.go says one is owed, to the    *)
(* player whose card it was: for discarding a card some table meld could   *)
(* have taken, and for a discard another player picks up and melds. The    *)
(* card picked up is the lowest of those that leave the pile.              *)
PenaltyOwed(q) ==
  \/ /\ Len(discardPile') > Len(discardPile)
     /\ q = turn
     /\ LayableOnAny(melds, discardPile'[Len(discardPile')])
  \/ /\ Len(discardPile') < Len(discardPile)
     /\ q # turn
     /\ discarder[discardPile[Len(discardPile') + 1]] = q
PenaltyAttribution ==
  [][\A q \in Players :
       dumpPenalties'[q] = dumpPenalties[q] + (IF PenaltyOwed(q) THEN 1 ELSE 0)]_vars

(* A dark knock is paid double only to a player who owned no meld when the *)
(* turn of the knock began (engine.go, applyKnock).                        *)
DarkKnockIsBlind == knockDark => knocker \notin ownersAtTurnStart

(* When the round is over, the totals everybody is sent are what lies on   *)
(* the table and in the hands, card by card, the bonuses and the           *)
(* penalties: no card of a meld that was grown and regrown is scored       *)
(* twice, for the wrong Ace or not at all. An Ace in a run counts high     *)
(* unless the run goes on to the 2 (card.go:110-112).                      *)
Worth(c, m) ==
  Points(c, m.kind = "run" /\ \A d \in m.cards : d.rank # Ace + 1)
TableWorth ==
  MapThenSumSet(LAMBDA c : Worth(c, melds[CHOOSE i \in DOMAIN melds : c \in melds[i].cards]),
                TableCards)
HandsWorth ==
  MapThenSumSet(LAMBDA c : Points(c, FALSE), UNION {hand[p] : p \in Players})
PointsBalance ==
  RoundOver =>
    LET result == RoundResult IN
    MapThenSumSet(LAMBDA p : result.rows[p].total, Players)
      = TableWorth - HandsWorth
        + (IF headCard \in TableCards THEN HeadCardBonus ELSE 0)
        + (IF endReason = "knock" THEN KnockPaid + KnockCardBonus ELSE 0)
        - DumpPenalty * MapThenSumSet(LAMBDA p : dumpPenalties[p], Players)

(* What another player does never costs a player points, but for the       *)
(* penalty on a discard of theirs that is picked up. The exception is a    *)
(* run that a layoff completes to a whole suit: its Ace counts low again   *)
(* (meld.go:57-76), to the owner's loss.                                   *)
SuitCompleted ==
  \E i \in DOMAIN melds : melds[i].aceHigh /\ ~(melds'[i].aceHigh)
OthersNeverCost ==
  [][SuitCompleted \/
     \A q \in Players \ {turn} :
       Total(q)' >= Total(q) - (IF PenaltyOwed(q) THEN DumpPenalty ELSE 0)]_vars

(* The engine implements the card table it promises.                       *)
Table == INSTANCE CardTable WITH
  deck <- drawPile, pile <- PileCards, table <- TableCards,
  held <- hand, mover <- turn, stage <- phase
MovesCardsAsPromised == Table!Spec

(* To the room the engine is the turn flow it promises: ShotClock stands   *)
(* on this.                                                                *)
Flow == INSTANCE TurnFlow WITH
  NumCards <- Cardinality(Cards),
  held <- [p \in Players |-> Cardinality(hand[p])],
  deck <- Cardinality(drawPile), pile <- Len(discardPile), tabled <- melds # <<>>
CountsAsPromised == Flow!FlowSpec

SuitSymmetry == Permutations(Suits)
Threes == {[suit |-> s, rank |-> 3] : s \in Suits}
===============================================================================
