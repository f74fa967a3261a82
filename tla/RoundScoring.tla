----------------------------- MODULE RoundScoring -----------------------------
(***************************************************************************)
(* What a round brings each player (game/scoring.go), computed from the    *)
(* state DummyEngine leaves. The room asks for it once, when the round is  *)
(* over; here it is defined in every state, as what the player would get   *)
(* if the round ended there.                                               *)
(***************************************************************************)
EXTENDS DummyEngine, FiniteSetsExt

CONSTANTS   (* of RuleSet *)
  KnockBonus, KnockCardBonus, HeadCardBonus,
  DarkKnockMult, SameSuitKnockMult, DumpPenalty

ASSUME ScoringAssumption ==
  {KnockBonus, KnockCardBonus, HeadCardBonus, DarkKnockMult, SameSuitKnockMult,
   DumpPenalty} \subseteq Nat

(* Mutant: an Ace always counts low.                                       *)
MeldPointsAceLow(m) == MapThenSumSet(LAMBDA c : Points(c, FALSE), m.cards)

MeldPoints(m) ==
  MapThenSumSet(LAMBDA c : Points(c, m.kind = "run" /\ m.aceHigh), m.cards)

MeldsOf(p) == {i \in DOMAIN melds : melds[i].owner = p}

KnockPaid ==
  KnockBonus * (IF knockDark THEN DarkKnockMult ELSE 1)
             * (IF knockSuit THEN SameSuitKnockMult ELSE 1)

(* The breakdown ScoreRound returns for player p.                          *)
ScoreRound(p) ==
  [meldPoints     |-> MapThenSumSet(LAMBDA i : MeldPoints(melds[i]), MeldsOf(p)),
   headBonus      |-> IF headOwner = p THEN HeadCardBonus ELSE 0,
   knockBonus     |-> IF knocker = p THEN KnockPaid ELSE 0,
   knockCardBonus |-> IF knocker = p THEN KnockCardBonus ELSE 0,
   handPenalty    |-> -MapThenSumSet(LAMBDA c : Points(c, FALSE), hand[p]),
   dumpPenalty    |-> -(DumpPenalty * dumpPenalties[p])]

Total(p) ==
  LET s == ScoreRound(p) IN
  s.meldPoints + s.headBonus + s.knockBonus + s.knockCardBonus
    + s.handPenalty + s.dumpPenalty
===============================================================================
