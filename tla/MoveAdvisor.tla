------------------------------ MODULE MoveAdvisor ------------------------------
(***************************************************************************)
(* The two advisors of a player in the meld phase: the hint engine         *)
(* (game/suggest.go), which also moves for absent players, and the bot     *)
(* (bot/bot.go). Both take the first move they meet in hand order; a hand  *)
(* is held in any order, so each move they can meet is one they may give.  *)
(***************************************************************************)
EXTENDS HandAndTable

Worths(H) == {Points(c, FALSE) : c \in H}
HighestValueCards(H) == {c \in H : \A v \in Worths(H) : Points(c, FALSE) >= v}

-----------------------------------------------------------------------------
(* SuggestMove: knock, else a new meld of the smallest size, else one card *)
(* onto a table meld, else discard the card worth most.                    *)
SmallestMelds(H) == {G \in NewMeldsIn(H) : Cardinality(G) = MinMeldLen}

(* Mutant: only the table meld laid down last is looked at.                *)
LayOffsOntoLast(H, melds) ==
  {x \in (DOMAIN melds) \X H : x[1] = Len(melds) /\ CanLayOff(melds[x[1]], {x[2]})}

LayOffs(H, melds) == {x \in (DOMAIN melds) \X H : CanLayOff(melds[x[1]], {x[2]})}

SuggestMoves(H, melds) ==
  CASE CanAutoKnock(H, melds) -> {[kind |-> "knock", cards |-> {}]}
    [] ~CanAutoKnock(H, melds) /\ SmallestMelds(H) # {} ->
         {[kind |-> "meld", cards |-> G] : G \in SmallestMelds(H)}
    [] ~CanAutoKnock(H, melds) /\ SmallestMelds(H) = {} /\ LayOffs(H, melds) # {} ->
         {[kind |-> "layoff", cards |-> {x[2]}, meld |-> x[1]] :
            x \in LayOffs(H, melds)}
    [] OTHER -> {[kind |-> "discard", cards |-> {c}] : c \in HighestValueCards(H)}

-----------------------------------------------------------------------------
(* Bot.act: knock with the last card, else the largest meld of three to    *)
(* five cards that leaves one, else discard the card with the fewest       *)
(* partners, the highest of these. The bot judges by the default rules.    *)
Probe == INSTANCE DummyRules WITH MinMeldLen <- 3

LargestMeld(H) == IF Cardinality(H) > 6 THEN 5 ELSE Cardinality(H) - 1

BotMelds(H) ==
  LET fits == {G \in Probe!NewMeldsIn(H) : Cardinality(G) \in 3..LargestMeld(H)} IN
  {G \in fits : \A F \in fits : Cardinality(F) <= Cardinality(G)}

Connected(c, H) ==
  2 * Cardinality({d \in H \ {c} : d.rank = c.rank})
  + Cardinality({d \in H : d.suit = c.suit /\ d.rank - c.rank \in {-2, -1, 1, 2}})

DiscardChoices(H) ==
  HighestValueCards({c \in H : \A d \in H : Connected(c, H) <= Connected(d, H)})

BotMoves(H) ==
  CASE Cardinality(H) = 1 -> {[kind |-> "knock", cards |-> H]}
    [] Cardinality(H) > 1 /\ BotMelds(H) # {} ->
         {[kind |-> "meld", cards |-> G] : G \in BotMelds(H)}
    [] OTHER -> {[kind |-> "discard", cards |-> {c}] : c \in DiscardChoices(H)}

-----------------------------------------------------------------------------
(* Advice is complete: told to discard, a player has no meld and no layoff *)
(* of any number of cards, although only melds of the smallest size and    *)
(* single cards were tried; so no card he is told to discard can cost him  *)
(* the penalty for a discard the table could take (suggest.go:123: "the    *)
(* safest single discard when no meld is available").                      *)
AdviceMissesNothing ==
  LET H == ToSet(hand) IN
  \A s \in SuggestMoves(H, table) :
    s.kind = "discard" =>
      \A C \in SUBSET H :
        /\ ~IsMeld(C)
        /\ \A i \in DOMAIN table : ~CanLayOff(table[i], C)

(* The engine takes what the bot plays, in a room of these rules: move    *)
(* legality is "delegated to the real engine (game.NewMeld), so a bot can   *)
(* never make an illegal play" (bot.go:4-6). A refused move brings no      *)
(* frame, and without one the bot does nothing more in its turn.           *)
BotMoveIsLegal ==
  LET H == ToSet(hand) IN
  \A b \in BotMoves(H) :
    CASE b.kind = "knock"   -> b.cards = H
      [] b.kind = "meld"    -> b.cards \subseteq H /\ IsMeld(b.cards)
      [] b.kind = "discard" -> b.cards \subseteq H
================================================================================
