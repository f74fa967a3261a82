------------------------------- MODULE CardTable -------------------------------
(***************************************************************************)
(* What a round of Dummy promises about the cards, whatever the rules of   *)
(* melding: only the player on turn moves cards; a turn takes cards once,  *)
(* from the deck or from the pile, then lays cards on the table and ends   *)
(* by dropping one card; the table and the deck only ever change one way;  *)
(* another player's hand is never touched.                                 *)
(***************************************************************************)
EXTENDS Integers

CONSTANTS Cards, NumPlayers

Players == 0..(NumPlayers - 1)

VARIABLES deck, pile, table, held, mover, stage

vars == <<deck, pile, table, held, mover, stage>>

Init ==
  /\ deck \in SUBSET Cards /\ pile \in SUBSET Cards
  /\ table = {}
  /\ held \in [Players -> SUBSET Cards]
  /\ deck \cup pile \cup UNION {held[p] : p \in Players} = Cards
  /\ mover \in Players
  /\ stage = "draw"

DrawOne ==
  /\ stage = "draw" /\ stage' = "meld"
  /\ \E c \in deck : deck' = deck \ {c} /\ held' = [held EXCEPT ![mover] = @ \cup {c}]
  /\ UNCHANGED <<pile, table, mover>>

(* Some cards of the pile are taken and one of them goes on the table at   *)
(* once, with cards that were taken along or held.                         *)
TakeFromPile ==
  /\ stage = "draw" /\ stage' = "meld"
  /\ \E c \in pile :
       /\ c \notin pile' /\ c \in table'
       /\ pile' \subseteq pile /\ table \subseteq table'
       /\ table' \subseteq table \cup (pile \ pile') \cup held[mover]
       /\ held' = [held EXCEPT ![mover] =
                     (@ \cup (pile \ pile')) \ (table' \ table)]
  /\ UNCHANGED <<deck, mover>>

LayOnTable ==
  /\ stage = "meld"
  /\ table \subseteq table' /\ table' \ table \subseteq held[mover]
  /\ held' = [held EXCEPT ![mover] = @ \ (table' \ table)]
  /\ UNCHANGED <<deck, pile, mover, stage>>

DropOne ==
  /\ stage = "meld" /\ stage' = "draw"
  /\ \E c \in held[mover] : pile' = pile \cup {c} /\ held' = [held EXCEPT ![mover] = @ \ {c}]
  /\ mover' = (mover + 1) % NumPlayers
  /\ UNCHANGED <<deck, table>>

(* Going out: all of the hand but one card goes on the table.              *)
GoOut ==
  /\ stage = "meld" /\ stage' = "round_over"
  /\ \E c \in held[mover] : table' = table \cup (held[mover] \ {c})
  /\ held' = [held EXCEPT ![mover] = {}]
  /\ UNCHANGED <<deck, pile, mover>>

RunOut ==
  /\ stage = "draw" /\ stage' = "round_over" /\ deck = {}
  /\ UNCHANGED <<deck, pile, table, held, mover>>

Next == DrawOne \/ TakeFromPile \/ LayOnTable \/ DropOne \/ GoOut \/ RunOut

Spec == Init /\ [][Next]_vars
===============================================================================
