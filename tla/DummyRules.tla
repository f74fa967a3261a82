------------------------------ MODULE DummyRules ------------------------------
(***************************************************************************)
(* The pure part of the Thai Dummy rules engine: what a meld is, when cards *)
(* may be laid off onto one, what a card is worth, and when a hand can go   *)
(* out (package game: card.go, meld.go, layoff.go, autoknock.go,           *)
(* scoring.go).                                                            *)
(*                                                                         *)
(* The deck holds every card once (NewDeck), so a list of cards that the   *)
(* engine accepted from a hand or a pile is a set here: handContains       *)
(* rejects a list that names a card twice.                                 *)
(***************************************************************************)
EXTENDS Integers, FiniteSets

CONSTANTS
  Suits,        (* the suits of the deck (four in the program)              *)
  King,         (* the highest rank (13 in the program)                     *)
  Ten,          (* the first rank scored as a face card (10 in the program) *)
  MinMeldLen,   (* RuleSet.MinMeldLen: 3, or 4 in some rooms                *)
  SpetoCards    (* RuleSet.SpetoCards                                       *)

Ace == 1
Ranks == Ace..King
Cards == [suit: Suits, rank: Ranks]

ASSUME RulesAssumption ==
  /\ IsFiniteSet(Suits) /\ Suits # {}
  /\ King \in Nat /\ King > 1
  /\ Ten \in Nat /\ Ten > 1
  /\ MinMeldLen \in Nat /\ MinMeldLen > 1
  /\ SpetoCards \subseteq Cards

-----------------------------------------------------------------------------
(* Melds.                                                                  *)

RanksOf(C) == {c.rank : c \in C}
SameSuit(C) == \A c, d \in C : c.suit = d.suit
SameRank(C) == \A c, d \in C : c.rank = d.rank

(* A set of rank values with no gap.                                       *)
Consecutive(V) == \E lo, hi \in V : V = lo..hi

(* The same ranks with the Ace moved above the King.                       *)
AceAboveKing(V) == {IF v = Ace THEN King + 1 ELSE v : v \in V}

(* classifyRun tries the Ace low first, so a whole suit counts as Ace low. *)
RunAceLow(C) == Consecutive(RanksOf(C))
RunAceHigh(C) ==
  /\ ~RunAceLow(C)
  /\ Ace \in RanksOf(C)
  /\ Consecutive(AceAboveKing(RanksOf(C)))

IsSet(C) == Cardinality(C) >= MinMeldLen /\ SameRank(C)
IsRun(C) ==
  /\ Cardinality(C) >= MinMeldLen
  /\ ~SameRank(C)
  /\ SameSuit(C)
  /\ RunAceLow(C) \/ RunAceHigh(C)
IsMeld(C) == IsSet(C) \/ IsRun(C)

KindOf(C) == IF IsSet(C) THEN "set" ELSE "run"
AceActsHigh(C) == IsRun(C) /\ RunAceHigh(C)

(* The meld NewMeld builds of cards it accepted.                           *)
MeldOf(C, owner) ==
  [kind |-> KindOf(C), cards |-> C, owner |-> owner, aceHigh |-> AceActsHigh(C)]

(* canLayOff: the cards go onto meld m and it stays a meld of its kind.    *)
CanLayOff(m, C) ==
  /\ C # {}
  /\ IsMeld(m.cards \cup C)
  /\ KindOf(m.cards \cup C) = m.kind

(* Mutant: the layoff keeps the Ace flag of the meld it found.             *)
LaidOffKeepsAce(m, C) == [m EXCEPT !.cards = @ \cup C]

LaidOff(m, C) ==
  [m EXCEPT !.cards = @ \cup C, !.aceHigh = AceActsHigh(m.cards \cup C)]

LayableOnAny(melds, c) == \E i \in DOMAIN melds : CanLayOff(melds[i], {c})

-----------------------------------------------------------------------------
(* Points.                                                                 *)

Points(c, aceHigh) ==
  CASE c \in SpetoCards -> 50
    [] c \notin SpetoCards /\ c.rank = Ace -> IF aceHigh THEN 10 ELSE 1
    [] c \notin SpetoCards /\ c.rank # Ace /\ c.rank >= Ten -> 10
    [] OTHER -> c.rank

-----------------------------------------------------------------------------
(* Going out. A plan keeps one card of the hand to knock with and divides  *)
(* the rest into new melds and cards laid off onto table melds. The code   *)
(* finds one by a search in hand order; a hand is a set here, so any plan  *)
(* may be the one it finds. Several layoff steps onto one meld leave the   *)
(* same meld as one step with all their cards.                             *)

NewMeldsIn(C) == {G \in SUBSET C : IsMeld(G)}

Partitions(C) ==
  {P \in SUBSET NewMeldsIn(C) :
     /\ UNION P = C
     /\ \A G, H \in P : G # H => G \cap H = {}}

LayoffChoices(C, melds) ==
  {lay \in [DOMAIN melds -> SUBSET C] :
     /\ \A i \in DOMAIN melds : lay[i] = {} \/ CanLayOff(melds[i], lay[i])
     /\ \A i, j \in DOMAIN melds : i # j => lay[i] \cap lay[j] = {}}

LaidCards(lay) == UNION {lay[i] : i \in DOMAIN lay}

KnockPlans(hand, melds) ==
  IF Cardinality(hand) < 2
  THEN {}
  ELSE UNION { UNION { {[card |-> k, groups |-> P, lay |-> lay] :
                          P \in Partitions((hand \ {k}) \ LaidCards(lay))} :
                       lay \in LayoffChoices(hand \ {k}, melds)} :
               k \in hand}

CanAutoKnock(hand, melds) == KnockPlans(hand, melds) # {}
===============================================================================
