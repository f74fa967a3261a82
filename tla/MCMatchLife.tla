------------------------------ MODULE MCMatchLife ------------------------------
(***************************************************************************)
(* Model checking MatchLife: what a match, its scores and its money should *)
(* be, stated over the history of the rounds played.                       *)
(***************************************************************************)
EXTENDS MatchLife, TLC

Symmetry == Permutations(Guests) \cup Permutations(Clocks)

(* No round opens between somebody's attaching and the look at the         *)
(* countdown: the trace needs no unlucky scheduler.                        *)
CalmSpec ==
  Init /\ [][Next /\ (round = "none" /\ round' = "open" => \A g \in Guests : pc[g] # "evaluate")]_vars

(* What goes wrong when a countdown is armed in a match that is over is    *)
(* MCMatchLifeReconnect's. This is the rest of the behaviours: whoever     *)
(* attaches does so in time, or finds the countdown looked at before the   *)
(* last round was scored.                                                  *)
ArmsLate == finished /\ ~countdown /\ countdown'
OnTimeSpec == Init /\ [][Next /\ ~ArmsLate]_vars

RoundsOf(mid) == {i \in DOMAIN played : played[i].mid = mid}
PlayersOf(i) == DOMAIN played[i].points
TotalOf(g, is) ==
  MapThenSumSet(LAMBDA i : IF g \in PlayersOf(i) THEN played[i].points[g] ELSE 0, is)
Total(g, mid) == TotalOf(g, RoundsOf(mid))
MatchIDs == 1..matchID

Steps == {"idle", "evaluate", "arm", "cancel", "start", "create", "score",
          "save", "close", "credit", "losers", "settle", "record"}
TypeOK ==
  /\ seats \in Seq(Guests) /\ Len(seats) <= MaxPlayers
  /\ ready \subseteq Seated /\ online \subseteq Seated /\ latched \subseteq Bots
  /\ round \in {"none", "open", "over"}
  /\ matchID \in Nat /\ roundNo \in Nat
  /\ scores \in [Guests -> Int] /\ wallet \in [Guests -> Int]
  /\ finished \in BOOLEAN /\ countdown \in BOOLEAN
  /\ matches \subseteq Nat /\ recorded \subseteq Nat
  /\ pc \in [Procs -> Steps]

(* The room's running scores are those of the rounds of the match it is    *)
(* in: nothing of an earlier match, nothing missing (handleReady,          *)
(* startRound, finishRound).                                               *)
ScoresAddUp == roundNo > 0 => \A g \in Seated : scores[g] = Total(g, matchID)

(* The rounds of a match are numbered 1, 2, 3, ..., each number once, with *)
(* the countdown and the ready of the last player racing to start them.    *)
RoundsNumbered ==
  \A m \in MatchIDs :
    {played[i].no : i \in RoundsOf(m)} = 1..Cardinality(RoundsOf(m))

(* A match is paid for once, whatever starts the next round (finishRound,  *)
(* SettleMatch, RecordSettlement: "one row per player for a finished       *)
(* match").                                                                *)
SettledOnce ==
  \A i, j \in DOMAIN settled : settled[i].mid = settled[j].mid => i = j

(* The winner who is paid reached the target over the rounds of the match, *)
(* no loser did better, and the match's row names the same winner          *)
(* (finishRound, FinishMatch).                                             *)
WinnerIsBest ==
  \A i \in DOMAIN settled :
    LET s == settled[i] IN
    /\ Total(s.winner, s.mid) >= TargetScore
    /\ \A l \in s.losers : Total(l, s.mid) <= Total(s.winner, s.mid)
    /\ \A r \in closed : r.mid = s.mid => r.winner = s.winner

(* Those who settle a match and are credited with it are those who played  *)
(* its last round: "at match end every loser pays the bet".                *)
PlayedTo(mid) == PlayersOf(CHOOSE i \in RoundsOf(mid) : \A j \in RoundsOf(mid) : j <= i)
OnlyPlayersSettle ==
  /\ \A i \in DOMAIN settled :
       settled[i].losers \cup {settled[i].winner} = PlayedTo(settled[i].mid)
  /\ \A i \in DOMAIN credited : credited[i].guests = PlayedTo(credited[i].mid)

(* Settling moves coins and makes none, and leaves nobody in debt, also    *)
(* when a loser holds less than the bet (SettleMatch).                     *)
MoneyIsSafe ==
  /\ MapThenSumSet(LAMBDA g : wallet[g], Guests) = StartingCoins * Cardinality(Guests)
  /\ \A g \in Guests : wallet[g] >= 0

(* As long as the guests want to play on, another round is played: a bot   *)
(* "auto-readies".                                                         *)
RoundsKeepComing == []<>(round = "open" \/ Len(played) >= MaxRounds)

(* A match somebody won is paid for.                                       *)
EveryMatchIsPaid ==
  \A m \in 1..MaxRounds :
    (\E g \in Guests : Total(g, m) >= TargetScore) ~> \E i \in DOMAIN settled : settled[i].mid = m
================================================================================
