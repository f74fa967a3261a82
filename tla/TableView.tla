------------------------------- MODULE TableView -------------------------------
(***************************************************************************)
(* What one viewer of a round is shown (room/view.go): the table as        *)
(* everybody sees it, the viewer's own hand, the other hands as counts.    *)
(* broadcastState sends each seat its view and all spectators the view of  *)
(* nobody, whenever the state changed.                                     *)
(*                                                                         *)
(* The cards a viewer does not see are parameters here, so that a view can *)
(* be compared with the one of a table that differs in them only. Names,   *)
(* coins, avatars and the deadlines are left out.                          *)
(***************************************************************************)
EXTENDS RoundScoring

Spectator == NoOne
Viewers == Players \cup {Spectator}

(* Mutant: the hint is worked out for whoever is on turn.                  *)
KnockLampOfTurn(viewer, hands) ==
  phase = "meld" /\ CanAutoKnock(hands[turn], melds)

(* stateView.CanAutoKnock.                                                 *)
KnockLamp(viewer, hands) ==
  viewer = turn /\ phase = "meld" /\ CanAutoKnock(hands[viewer], melds)

ViewFor(viewer, hands, deck) ==
  [phase |-> phase, turn |-> turn, headCard |-> headCard,
   drawCount |-> Cardinality(deck),
   discardPile |-> discardPile,
   handCount |-> [p \in Players |-> Cardinality(hands[p])],
   melds |-> melds,
   yourSeat |-> viewer,
   yourHand |-> IF viewer \in Players THEN hands[viewer] ELSE {},
   canAutoKnock |-> KnockLamp(viewer, hands)]

(* roundResult: once the round is over everybody sees every hand and what  *)
(* each seat scored.                                                       *)
RoundResult ==
  [reason |-> endReason, knocker |-> knocker,
   rows |-> [p \in Players |->
               [hand |-> hand[p], scores |-> ScoreRound(p), total |-> Total(p),
                melds |-> {i \in DOMAIN melds : melds[i].owner = p}]]]

-----------------------------------------------------------------------------
(* What is hidden from a viewer.                                           *)
HiddenFrom(viewer) ==
  drawPile \cup UNION {hand[p] : p \in Players \ {viewer}}

Swapped(C, c, d) ==
  {IF x = c THEN d ELSE IF x = d THEN c ELSE x : x \in C}

(* No view tells two tables apart that differ only in where the hidden     *)
(* cards lie: not through a hand, and not through the knock lamp either,   *)
(* which is computed from a hand (view.go: the single chokepoint that      *)
(* makes hand leakage structurally impossible).                            *)
ViewsHideHands ==
  \A viewer \in Viewers :
    LET hidden == HiddenFrom(viewer)
        shown == ViewFor(viewer, hand, drawPile) IN
    \A c, d \in hidden :
      c # d =>
        shown = ViewFor(viewer, [p \in Players |-> Swapped(hand[p], c, d)],
                        Swapped(drawPile, c, d))
===============================================================================
