------------------------------- MODULE MatchLife -------------------------------
(***************************************************************************)
(* The matches of one room (room/hub.go): guests take seats, get ready or  *)
(* wait for the countdown, play rounds until somebody reaches the target,  *)
(* settle the bet and may start over. A round itself is a black box here   *)
(* (DummyEngine, ShotClock): it goes on and at some point is over.         *)
(*                                                                         *)
(* A goroutine is the handler of a guest's messages, the countdown's timer *)
(* or a clock: a goroutine of the shot clock or of a bot's timer, which    *)
(* plays a move for somebody and finishes the round that it ends. A step   *)
(* is one locked section or one database transaction. What finishRound     *)
(* does after unlocking interleaves with everything else, the next match   *)
(* included.                                                               *)
(***************************************************************************)
EXTENDS Integers, Sequences, FiniteSetsExt, Accounts, Coins

CONSTANTS
  Timer,         (* the countdown's goroutine                             *)
  Clocks,        (* goroutines of the shot clock and of bots' timers      *)
  Bots,          (* those that are bot.Bot                                *)
  Droppers,      (* those whose connection may drop and come back         *)
  MinPlayers, MaxPlayers,
  Points,        (* what a round may bring a player                       *)
  TargetScore,
  DbMayFail,     (* a transaction may fail; hub.go ignores the error      *)
  MaxRounds      (* bound: rounds played in the room                      *)

ASSUME MatchAssumption ==
  /\ IsFiniteSet(Guests) /\ Guests \cap Clocks = {} /\ Timer \notin Guests \cup Clocks
  /\ Bots \subseteq Guests /\ Droppers \subseteq Guests
  /\ MinPlayers \in Nat /\ MinPlayers > 1 /\ MaxPlayers \in Nat
  /\ Points \subseteq Int /\ TargetScore \in Int
  /\ Bet \in Nat /\ StartingCoins \in Nat
  /\ DbMayFail \in BOOLEAN

VARIABLES
  (* Room *)
  seats, ready, online,
  round,          (* Room.state: "none" (nil), "open" or "over"           *)
  matchID, roundNo, scores, finished, countdown,
  latched,        (* bots that sent their one ready                       *)
  (* Postgres *)
  matches,        (* ids of the matches rows                              *)
  closed,         (* those with status finished, and their winner         *)
  rounds,         (* rounds rows with their round_scores                  *)
  wallet,
  settled,        (* the SettleMatch transactions, in order of commit     *)
  recorded,       (* matches with match_settlements rows                  *)
  credited,       (* who was credited with a match played, match by match *)
  (* goroutines *)
  pc, job,
  played          (* history: the rounds scored, in order                 *)

roomVars == <<seats, ready, online, round, matchID, roundNo, scores, finished,
              countdown, latched>>
dbVars == <<matches, closed, rounds, wallet, settled, recorded, credited>>
vars == <<roomVars, dbVars, pc, job, played>>

Seated == {seats[i] : i \in DOMAIN seats}
Movers == Guests \cup Clocks
Procs == Movers \cup {Timer}
NoJob == [mid |-> 0]
NoScores == [g \in Guests |-> 0]

Init ==
  /\ seats = <<>> /\ ready = {} /\ online = {}
  /\ round = "none" /\ matchID = 0 /\ roundNo = 0
  /\ scores = NoScores /\ finished = FALSE /\ countdown = FALSE /\ latched = {}
  /\ matches = {} /\ closed = {} /\ rounds = {}
  /\ settled = <<>> /\ recorded = {} /\ credited = <<>>
  /\ wallet = [g \in Guests |-> StartingCoins]
  /\ pc = [x \in Procs |-> "idle"]
  /\ job = [x \in Procs |-> NoJob]
  /\ played = <<>>

-----------------------------------------------------------------------------
(* Seats and the countdown.                                                *)

(* JoinWith over REST: a seat without a connection. It leaves the          *)
(* countdown alone.                                                        *)
Join(g) ==
  /\ g \notin Seated /\ g \notin Bots /\ round = "none" /\ Len(seats) < MaxPlayers
  /\ seats' = Append(seats, g)
  /\ UNCHANGED <<ready, online, round, matchID, roundNo, scores, finished,
                 countdown, latched, dbVars, pc, job, played>>

Goto(x, where) == pc' = [pc EXCEPT ![x] = where]
With(x, j) == job' = [job EXCEPT ![x] = j]
Return(x) == Goto(x, "idle") /\ With(x, NoJob)

(* Mutant: nobody looks whether the table is full or a round is on.        *)
AttachAnyTime(g) ==
  /\ pc[g] = "idle" /\ g \notin online
  /\ seats' = IF g \in Seated THEN seats ELSE Append(seats, g)
  /\ online' = online \cup {g}
  /\ Goto(g, "evaluate")
  /\ UNCHANGED <<ready, round, matchID, roundNo, scores, finished, countdown,
                 latched, dbVars, job, played>>

Attach(g) ==
  /\ pc[g] = "idle" /\ g \notin online
  /\ \/ g \in Seated /\ UNCHANGED seats
     \/ /\ g \notin Seated /\ round = "none" /\ Len(seats) < MaxPlayers
        /\ seats' = Append(seats, g)
  /\ online' = online \cup {g}
  /\ Goto(g, "evaluate")
  /\ UNCHANGED <<ready, round, matchID, roundNo, scores, finished, countdown,
                 latched, dbVars, job, played>>

(* evaluateCountdown, the end of Attach: what it reads under the lock      *)
(* decides, what it then does is another locked section. Too few players   *)
(* cancel the countdown; enough of them arm it, and a full table may       *)
(* shorten one that is pending.                                            *)
EvaluateCountdown(g) ==
  /\ pc[g] = "evaluate"
  /\ \/ round = "none" /\ Len(seats) < MinPlayers /\ Goto(g, "cancel")
     \/ /\ round = "none" /\ Len(seats) >= MinPlayers
        /\ countdown => Len(seats) >= MaxPlayers
        /\ Goto(g, "arm")
     \/ round # "none" /\ Goto(g, "idle")
     \/ countdown /\ Len(seats) >= MinPlayers /\ Goto(g, "idle")
  /\ UNCHANGED <<roomVars, dbVars, job, played>>

ArmCountdown(g) ==
  /\ pc[g] = "arm"
  /\ countdown' = (countdown \/ round = "none")
  /\ Goto(g, "idle")
  /\ UNCHANGED <<seats, ready, online, round, matchID, roundNo, scores, finished,
                 latched, dbVars, job, played>>

CancelCountdown(g) ==
  /\ pc[g] = "cancel"
  /\ countdown' = FALSE
  /\ Goto(g, "idle")
  /\ UNCHANGED <<seats, ready, online, round, matchID, roundNo, scores, finished,
                 latched, dbVars, job, played>>

Detach(g) ==
  /\ g \in Droppers /\ pc[g] = "idle" /\ g \in online
  /\ online' = online \ {g}
  /\ UNCHANGED <<seats, ready, round, matchID, roundNo, scores, finished,
                 countdown, latched, dbVars, pc, job, played>>

(* handleReady. The first ready after a settled match asks for a rematch   *)
(* and wipes it. A bot gets ready once in its life.                        *)
ReadyNow(g) == (IF finished THEN {} ELSE ready) \cup {g}

(* Mutants: the scores stay; the round number stays.                       *)
ForgetMatchButScores ==
  /\ roundNo' = IF finished THEN 0 ELSE roundNo
  /\ finished' = FALSE /\ UNCHANGED scores
ForgetMatchButNumber ==
  /\ scores' = IF finished THEN NoScores ELSE scores
  /\ finished' = FALSE /\ UNCHANGED roundNo

ForgetMatch ==
  IF finished
  THEN scores' = NoScores /\ roundNo' = 0 /\ finished' = FALSE
  ELSE UNCHANGED <<scores, roundNo, finished>>

GetReady(g) ==
  /\ pc[g] = "idle" /\ g \in online
  /\ g \in Bots => g \notin latched /\ round = "none"
  /\ latched' = latched \cup (Bots \cap {g})
  /\ ForgetMatch
  /\ ready' = ReadyNow(g)
  /\ LET start == /\ Len(seats) >= MinPlayers
                  /\ Seated \subseteq ReadyNow(g)
                  /\ round = "none"
     IN pc' = [pc EXCEPT ![g] = IF start THEN "start" ELSE "idle"]
  /\ UNCHANGED <<seats, online, round, matchID, countdown, dbVars, job, played>>

-----------------------------------------------------------------------------
(* Rounds.                                                                 *)

(* Mutant: no guard against a double start.                                *)
OpenRoundAgain(x) ==
  /\ Len(played) < MaxRounds
  /\ countdown' = FALSE
  /\ round' = "open"
  /\ roundNo' = roundNo + 1
  /\ matchID' = IF roundNo = 0 THEN matchID + 1 ELSE matchID
  /\ IF roundNo = 0
     THEN Goto(x, "create") /\ With(x, [mid |-> matchID + 1])
     ELSE Return(x)
  /\ UNCHANGED <<seats, ready, online, scores, finished, latched, dbVars, played>>

(* The locked section of startRound. The first round of a match mints its  *)
(* id, and its row is created once the lock is released. A round that is   *)
(* going on stops it.                                                      *)
OpenRound(x) ==
  /\ round = "none" /\ Len(played) < MaxRounds
  /\ countdown' = FALSE
  /\ round' = "open"
  /\ roundNo' = roundNo + 1
  /\ IF roundNo = 0
     THEN /\ matchID' = matchID + 1
          /\ Goto(x, "create")
          /\ With(x, [mid |-> matchID + 1])
     ELSE Return(x) /\ UNCHANGED matchID
  /\ UNCHANGED <<seats, ready, online, scores, finished, latched, dbVars, played>>

Start(x) ==
  /\ pc[x] = "start"
  /\ \/ OpenRound(x)
     \/ round # "none" /\ Return(x) /\ UNCHANGED <<roomVars, dbVars, played>>

(* The first locked section of tryAutoStart, when the countdown elapses:   *)
(* the timer stays set until a round starts.                               *)
Elapse ==
  /\ pc[Timer] = "idle" /\ countdown
  /\ round = "none" /\ Len(seats) >= MinPlayers
  /\ Goto(Timer, "start")
  /\ UNCHANGED <<roomVars, dbVars, job, played>>

(* A move ends the round: a player's, or one that a clock makes for a      *)
(* player or a bot. A round outlasts the gap between a section that decides *)
(* what to do next and the section that does it.                           *)
EndRound(x) ==
  /\ pc[x] = "idle" /\ round = "open"
  /\ x \in Guests => x \in Seated
  /\ \A y \in Procs : pc[y] \notin {"start", "arm", "cancel"}
  /\ round' = "over"
  /\ Goto(x, "score")
  /\ UNCHANGED <<seats, ready, online, matchID, roundNo, scores, finished,
                 countdown, latched, dbVars, job, played>>

Reached(sc) == \E g \in Seated : sc[g] >= TargetScore

(* Mutant: the first seat to have reached the target.                      *)
FirstToReach(sc) ==
  IF Reached(sc)
  THEN seats[CHOOSE i \in DOMAIN seats :
               /\ sc[seats[i]] >= TargetScore
               /\ \A j \in DOMAIN seats : sc[seats[j]] >= TargetScore => i <= j]
  ELSE seats[1]

(* The first seat of those with the best score.                            *)
Winner(sc) ==
  seats[CHOOSE i \in DOMAIN seats :
          \A j \in DOMAIN seats : sc[seats[j]] <= sc[seats[i]]
                                  /\ (sc[seats[j]] = sc[seats[i]] => i <= j)]

(* Mutant: the room keeps the round that is over.                          *)
ClearReadyOnly == ready' = {} /\ UNCHANGED round
ClearTable == ready' = {} /\ round' = "none"

(* The locked section of finishRound.                                      *)
Score(x) ==
  /\ pc[x] = "score"
  /\ \E points \in [Seated -> Points] :
       LET sc == [p \in Guests |-> IF p \in Seated THEN scores[p] + points[p] ELSE scores[p]]
           r == [mid |-> matchID, no |-> roundNo, points |-> points] IN
       /\ scores' = sc
       /\ finished' = (finished \/ Reached(sc))
       /\ played' = Append(played, r)
       /\ With(x, [mid |-> matchID, round |-> r, reached |-> Reached(sc),
                   winner |-> Winner(sc), losers |-> {}])
  /\ ClearTable
  /\ Goto(x, "save")
  /\ UNCHANGED <<seats, online, matchID, roundNo, countdown, latched, dbVars>>

-----------------------------------------------------------------------------
(* The database. A row that refers to a match without a row of its own is  *)
(* refused.                                                                *)

HasRow(mid) == mid \in matches

(* A transaction that sets v to new, or fails and is forgotten about.      *)
Tries(v, new) == IF DbMayFail THEN {v, new} ELSE {new}

CreateMatch(x) ==
  /\ pc[x] = "create"
  /\ matches' \in Tries(matches, matches \cup {job[x].mid})
  /\ Return(x)
  /\ UNCHANGED <<roomVars, closed, rounds, wallet, settled, recorded, credited, played>>

(* Mutant: without the round's rows the match is not settled either.       *)
SaveRoundOrStop(x) ==
  LET mid == job[x].mid IN
  /\ pc[x] = "save"
  /\ rounds' \in Tries(rounds, rounds \cup (IF HasRow(mid) THEN {job[x].round} ELSE {}))
  /\ IF job[x].reached /\ job[x].round \in rounds'
     THEN Goto(x, "close") /\ UNCHANGED job ELSE Return(x)
  /\ UNCHANGED <<roomVars, matches, closed, wallet, settled, recorded, credited, played>>

SaveRound(x) ==
  LET mid == job[x].mid IN
  /\ pc[x] = "save"
  /\ rounds' \in Tries(rounds, rounds \cup (IF HasRow(mid) THEN {job[x].round} ELSE {}))
  /\ IF job[x].reached THEN Goto(x, "close") /\ UNCHANGED job ELSE Return(x)
  /\ UNCHANGED <<roomVars, matches, closed, wallet, settled, recorded, credited, played>>

FinishMatch(x) ==
  LET row == [mid |-> job[x].mid, winner |-> job[x].winner] IN
  /\ pc[x] = "close"
  /\ closed' \in Tries(closed, IF HasRow(row.mid)
                               THEN {r \in closed : r.mid # row.mid} \cup {row}
                               ELSE closed)
  /\ Goto(x, "credit")
  /\ UNCHANGED <<roomVars, matches, rounds, wallet, settled, recorded, credited,
                 job, played>>

(* IncrementMissions for everybody seated by now.                          *)
CreditPlayers(x) ==
  /\ pc[x] = "credit"
  /\ credited' = Append(credited, [mid |-> job[x].mid, guests |-> Seated])
  /\ Goto(x, "losers")
  /\ UNCHANGED <<roomVars, matches, closed, rounds, wallet, settled, recorded,
                 job, played>>

(* The losers of the match: everybody seated by now but the winner.        *)
ReadLosers(x) ==
  LET losers == Seated \ {job[x].winner} IN
  /\ pc[x] = "losers"
  /\ IF Bet > 0 /\ losers # {}
     THEN Goto(x, "settle") /\ With(x, [job[x] EXCEPT !.losers = losers])
     ELSE Return(x)
  /\ UNCHANGED <<roomVars, dbVars, played>>

(* Mutants: the bet is taken whatever the loser holds; the winner gets the *)
(* full bet of every loser.                                                *)
PaysFull(l) == Bet
Pays(l) == IF Bet > wallet[l] THEN wallet[l] ELSE Bet
PotOfBets(losers) == Bet * Cardinality(losers)
Pot(losers) == MapThenSumSet(Pays, losers)

(* SettleMatch, a single transaction.                                      *)
Settle(x) ==
  /\ pc[x] = "settle"
  /\ \/ /\ wallet' = [p \in Guests |->
                        CASE p \in job[x].losers -> wallet[p] - Pays(p)
                          [] p = job[x].winner -> wallet[p] + Pot(job[x].losers)
                          [] OTHER -> wallet[p]]
        /\ settled' = Append(settled, [mid |-> job[x].mid, winner |-> job[x].winner,
                                       losers |-> job[x].losers])
        /\ Goto(x, "record") /\ UNCHANGED job
     \/ DbMayFail /\ Return(x) /\ UNCHANGED <<wallet, settled>>
  /\ UNCHANGED <<roomVars, matches, closed, rounds, recorded, credited, played>>

(* RecordSettlement, another transaction.                                  *)
RecordSettlement(x) ==
  LET mid == job[x].mid IN
  /\ pc[x] = "record"
  /\ recorded' \in Tries(recorded, recorded \cup (IF HasRow(mid) THEN {mid} ELSE {}))
  /\ Return(x)
  /\ UNCHANGED <<roomVars, matches, closed, rounds, wallet, settled, credited, played>>

-----------------------------------------------------------------------------
Handler(x) ==
  \/ EvaluateCountdown(x) \/ ArmCountdown(x) \/ CancelCountdown(x)
  \/ Start(x) \/ CreateMatch(x)
  \/ Score(x) \/ SaveRound(x) \/ FinishMatch(x) \/ CreditPlayers(x)
  \/ ReadLosers(x) \/ Settle(x) \/ RecordSettlement(x)

Next ==
  \/ \E g \in Guests : Join(g) \/ Attach(g) \/ Detach(g) \/ GetReady(g)
  \/ Elapse
  \/ \E x \in Movers : EndRound(x)
  \/ \E x \in Procs : Handler(x)

(* The server goes on with what it began, a countdown elapses and a round  *)
(* ends (ShotClock!RoundPlaysOut).                                         *)
ServerFairness ==
  /\ WF_vars(Elapse)
  /\ WF_vars(\E x \in Movers : EndRound(x))
  /\ \A x \in Procs : WF_vars(Handler(x))

(* The guests want to play on: each gets ready again and again while       *)
(* nothing is played.                                                      *)
GuestsPlayOn ==
  \A g \in Guests : WF_vars(round = "none" /\ GetReady(g)) /\ WF_vars(Attach(g))

Spec == Init /\ [][Next]_vars /\ ServerFairness
PlayOnSpec == Spec /\ GuestsPlayOn
================================================================================
