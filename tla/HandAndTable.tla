------------------------------ MODULE HandAndTable ------------------------------
(***************************************************************************)
(* A player's hand, in the order it is held, and the melds on the table:   *)
(* what the going-out solver (game/autoknock.go), the hint engine          *)
(* (game/suggest.go) and the bot (bot/bot.go) are asked about.             *)
(***************************************************************************)
EXTENDS DummyRules, Sequences, SequencesExt

CONSTANT MaxHand     (* bound: cards in the hand                            *)

VARIABLES hand,      (* the hand in the order it is held                   *)
          table      (* the table melds                                    *)

(* Tables of up to two melds.                                              *)
Tables(C) ==
  {<<>>} \cup {<<MeldOf(G, 0)>> : G \in NewMeldsIn(C)}
  \cup {<<MeldOf(p[1], 0), MeldOf(p[2], 1)>> :
          p \in {q \in NewMeldsIn(C) \X NewMeldsIn(C) : q[1] \cap q[2] = {}}}

(* Hands of up to MaxHand cards in any order, beside a table of the rest.  *)
Held ==
  \E H \in SUBSET Cards :
    /\ Cardinality(H) \in 1..MaxHand
    /\ hand \in SetToSeqs(H)
    /\ table \in Tables(Cards \ H)
===============================================================================
