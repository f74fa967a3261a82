-------------------------------- MODULE TurnFlow --------------------------------
(***************************************************************************)
(* What a round looks like to the room around it: whose turn it is, its    *)
(* phase, and how many cards there are in each hand, in the draw pile and  *)
(* in the discard pile. DummyEngine implements this specification          *)
(* (MCDummyEngine!CountsAsPromised); ShotClock uses it in the engine's     *)
(* place.                                                                  *)
(***************************************************************************)
EXTENDS Naturals

CONSTANTS NumPlayers, HandSize, NumCards, MinMeldLen

ASSUME FlowAssumption ==
  /\ NumPlayers \in Nat /\ NumPlayers > 1
  /\ HandSize \in Nat /\ HandSize > 0
  /\ NumCards \in Nat /\ NumCards > NumPlayers * HandSize
  /\ MinMeldLen \in Nat /\ MinMeldLen > 1

Players == 0..(NumPlayers - 1)

VARIABLES
  turn, phase, firstMove,
  held,     (* how many cards each player holds *)
  deck, pile,
  tabled    (* there is a meld on the table     *)

flowVars == <<turn, phase, firstMove, held, deck, pile, tabled>>

AllHoldAHand == [p \in Players |-> HandSize]
Stock == NumCards - NumPlayers * HandSize - 1

Init ==
  /\ turn = 0 /\ phase = "draw" /\ firstMove = TRUE
  /\ held = AllHoldAHand /\ deck = Stock /\ pile = 1 /\ tabled = FALSE

(* A fresh deal.                                                           *)
Deal ==
  /\ turn' = 0 /\ phase' = "draw" /\ firstMove' = TRUE
  /\ held' = AllHoldAHand /\ deck' = Stock /\ pile' = 1 /\ tabled' = FALSE

(* Mutant: nobody looks whether the deck has a card left.                  *)
DrawUnchecked(p) ==
  /\ phase = "draw" /\ turn = p
  /\ firstMove' = FALSE
  /\ deck' = deck - 1
  /\ held' = [held EXCEPT ![p] = @ + 1]
  /\ phase' = "meld"
  /\ UNCHANGED <<turn, pile, tabled>>

Draw(p) ==
  /\ phase = "draw" /\ turn = p
  /\ firstMove' = FALSE
  /\ \/ /\ deck = 0
        /\ phase' = "round_over"
        /\ UNCHANGED <<held, deck>>
     \/ /\ deck > 0
        /\ deck' = deck - 1
        /\ held' = [held EXCEPT ![p] = @ + 1]
        /\ phase' = "meld"
  /\ UNCHANGED <<turn, pile, tabled>>

(* The card at position t is laid off (used = 0) or melded with used cards *)
(* of the hand and of those above it.                                      *)
PickUp(p, t, used) ==
  LET withAbove == held[p] + (pile - t) IN
  /\ phase = "draw" /\ turn = p /\ ~firstMove
  /\ used <= withAbove
  /\ IF used = 0 THEN tabled ELSE used >= MinMeldLen - 1
  /\ held' = [held EXCEPT ![p] = withAbove - used]
  /\ pile' = t - 1
  /\ tabled' = TRUE
  /\ phase' = "meld"
  /\ UNCHANGED <<turn, firstMove, deck>>

(* n cards leave the hand for the table, in a meld or laid off.            *)
PutDown(p, n) ==
  /\ phase = "meld" /\ turn = p
  /\ n > 0 /\ n <= held[p]
  /\ tabled \/ n >= MinMeldLen
  /\ held' = [held EXCEPT ![p] = @ - n]
  /\ tabled' = TRUE
  /\ UNCHANGED <<turn, phase, firstMove, deck, pile>>

(* There may be a plan that leaves one card: it melds or lays off the rest. *)
PlanPossible(p) ==
  held[p] > 0 /\ (held[p] = 1 \/ tabled \/ held[p] > MinMeldLen)

(* knock with the last card, or auto_knock by a plan.                      *)
GoOut(p) ==
  /\ phase = "meld" /\ turn = p
  /\ PlanPossible(p)
  /\ held' = [held EXCEPT ![p] = 0]
  /\ tabled' = (tabled \/ held[p] > 1)
  /\ phase' = "round_over"
  /\ UNCHANGED <<turn, firstMove, deck, pile>>

Discard(p) ==
  /\ phase = "meld" /\ turn = p
  /\ held[p] > 0
  /\ held' = [held EXCEPT ![p] = @ - 1]
  /\ pile' = pile + 1
  /\ turn' = (turn + 1) % NumPlayers
  /\ phase' = "draw"
  /\ UNCHANGED <<firstMove, deck, tabled>>

Play(p) ==
  \/ Draw(p)
  \/ \E t \in 1..pile, used \in 0..NumCards : PickUp(p, t, used)
  \/ \E n \in 1..held[p] : PutDown(p, n)
  \/ GoOut(p)
  \/ Discard(p)

FlowSpec == Init /\ [][\E p \in Players : Play(p)]_flowVars
=================================================================================
