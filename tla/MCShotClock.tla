------------------------------ MODULE MCShotClock ------------------------------
(* Model checking ShotClock.                                               *)
EXTENDS ShotClock, FiniteSets, TLC

MCSpec == RoomInit /\ [][Next]_vars

(* Everybody is there to start a round and does nothing but drop out from  *)
(* then on: the room is left to its clocks.                                *)
LeftAlone ==
  \/ \E p \in Players : Start(p) \/ Detach(p)
  \/ \E a \in Autos : Expire(a) \/ AutoStep(a)
  \/ \E x \in Procs : AfterStep(x)
AwaySpec == RoomInit /\ [][LeftAlone]_vars /\ Fairness

-----------------------------------------------------------------------------
TypeOK ==
  /\ turn \in Players
  /\ phase \in {"none", "draw", "meld", "round_over"}
  /\ held \in [Players -> 0..NumCards]
  /\ deck \in 0..NumCards /\ pile \in 0..NumCards
  /\ clock \in {"off", "full", "bot"}
  /\ online \in [Players -> BOOLEAN] /\ botMode \in [Players -> BOOLEAN]
  /\ \A p \in Players : pc[p] \in {"idle", "arm", "cancel", "finish"}
  /\ \A a \in Autos : pc[a] \in {"idle", "fired", "draw", "recheck", "think", "lay",
                                 "discard", "knock", "arm", "cancel", "finish"}

(* A round that is over is scored by exactly one goroutine, the one whose  *)
(* action ended it, and no round that goes on is (handleGameAction,        *)
(* finishRound).                                                           *)
ScoredByOne ==
  Cardinality({x \in Procs : pc[x] \in {"cancel", "finish"}})
    = IF phase = "round_over" THEN 1 ELSE 0

(* No clock is left running by a round that was scored, whatever handler   *)
(* was still about to arm one (armTurnTimer, finishRound).                 *)
NoClockBetweenRounds == phase = "none" => clock = "off"

(* A room left alone plays every round to its end, turn after turn, by the *)
(* shot clock alone.                                                       *)
RoundPlaysOut == InTurn ~> phase = "none"

AutoSymmetry == Permutations(Autos)
================================================================================
