-------------------------------- MODULE ShotClock --------------------------------
(***************************************************************************)
(* The room around the rounds (room/hub.go): the handlers of the players'  *)
(* connections, the shot clock of a turn, and the auto-player that plays   *)
(* when it runs out. Each handler and each expired clock is a goroutine;   *)
(* a step is what it does while it holds Room.mu.                          *)
(*                                                                         *)
(* A handler applies an action under the lock and only after unlocking     *)
(* arms the next clock or finishes the round; the auto-player decides in   *)
(* one locked section and acts in another.                                 *)
(***************************************************************************)
EXTENDS TurnFlow

CONSTANTS
  Autos,      (* goroutines of expired clocks that may overlap *)
  Level,      (* Room.BotLevel                                 *)
  MaxMoves    (* iterations of autoPlaySmart; 8 in the code    *)

ASSUME ClockAssumption ==
  /\ Autos \cap Players = {}
  /\ Level \in {"easy", "normal", "hard"}
  /\ MaxMoves \in Nat \ {0}

Procs == Players \cup Autos    (* p \in Players: the handler of p's messages *)

VARIABLES
  clock,      (* the pending turn timer's window: "off", "full" or "bot" *)
  online,     (* seat.client # nil                                       *)
  botMode,    (* seat.BotMode                                            *)
  pc,         (* where each goroutine is                                 *)
  task        (* what an auto-player carries from one section to another *)

vars == <<flowVars, clock, online, botMode, pc, task>>
roomVars == <<clock, online, botMode>>

(* seat: the turn it read; left: iterations left; size: cards of the move  *)
(* it chose; fresh: no action was applied since it chose; then: where it   *)
(* goes on once the handler of its action has armed a clock or finished    *)
(* the round.                                                              *)
NoTask == [seat |-> 0, left |-> 0, size |-> 0, fresh |-> TRUE, then |-> "idle"]

(* Between rounds Room.state is nil: phase = "none".                       *)
InTurn == phase \in {"draw", "meld"}

RoomInit ==
  /\ turn = 0 /\ phase = "none" /\ firstMove = FALSE
  /\ held = [p \in Players |-> 0] /\ deck = 0 /\ pile = 0 /\ tabled = FALSE
  /\ clock = "off"
  /\ online = [p \in Players |-> TRUE]
  /\ botMode = [p \in Players |-> FALSE]
  /\ pc = [x \in Procs |-> "idle"]
  /\ task = [a \in Autos |-> NoTask]

-----------------------------------------------------------------------------
(* What every goroutine does around an action of the engine.               *)

(* Mutant: only a human's discard arms the next clock.                     *)
GoOnArmingForHumans(x, otherwise) ==
  /\ pc' = [pc EXCEPT ![x] = CASE phase' = "round_over" -> "cancel"
                               [] phase' = "draw" /\ x \in Players -> "arm"
                               [] OTHER -> otherwise]
  /\ UNCHANGED task

(* x goes on after its action was applied: a round over is to be finished, *)
(* a new turn's clock armed. What the others decided on is stale now.      *)
GoOn(x, otherwise) ==
  /\ pc' = [pc EXCEPT ![x] = CASE phase' = "round_over" -> "cancel"
                               [] phase' = "draw" -> "arm"
                               [] OTHER -> otherwise]
  /\ task' = [a \in Autos |-> [task[a] EXCEPT !.fresh = @ /\ pc[a] \in {"idle", "fired"}]]

Return(x) ==
  /\ pc' = [pc EXCEPT ![x] = "idle"]
  /\ task' = [a \in Autos |-> IF a = x THEN NoTask ELSE task[a]]

(* Mutants: a round over is no reason not to arm; a handler that finds the *)
(* round over after its own action finishes it.                            *)
ArmEvenIfOver(x) ==
  /\ pc[x] = "arm"
  /\ clock' = IF phase = "none" THEN clock
              ELSE IF botMode[turn] THEN "bot" ELSE "full"
  /\ Return(x)
  /\ UNCHANGED <<flowVars, online, botMode>>
ArmOrFinish(x) ==
  /\ pc[x] = "arm"
  /\ pc' = [pc EXCEPT ![x] = IF phase = "round_over" THEN "cancel" ELSE "idle"]
  /\ clock' = IF ~InTurn THEN clock ELSE IF botMode[turn] THEN "bot" ELSE "full"
  /\ UNCHANGED <<flowVars, online, botMode, task>>

(* armTurnTimer: replaces a pending timer, for whoever is on turn by now.  *)
Arm(x) ==
  /\ pc[x] = "arm"
  /\ clock' = IF ~InTurn THEN clock ELSE IF botMode[turn] THEN "bot" ELSE "full"
  /\ Return(x)
  /\ UNCHANGED <<flowVars, online, botMode>>

(* cancelTurnTimer.                                                        *)
Cancel(x) ==
  /\ pc[x] = "cancel"
  /\ clock' = "off"
  /\ pc' = [pc EXCEPT ![x] = "finish"]
  /\ UNCHANGED <<flowVars, online, botMode, task>>

(* The locked section of finishRound: the round is scored and gone. An     *)
(* auto-player whose draw ended it still has its look at the room to come. *)
Finish(x) ==
  /\ pc[x] = "finish"
  /\ phase' = "none"
  /\ IF x \in Autos /\ task[x].then = "recheck"
     THEN pc' = [pc EXCEPT ![x] = "recheck"] /\ UNCHANGED task
     ELSE Return(x)
  /\ UNCHANGED <<turn, firstMove, held, deck, pile, tabled, roomVars>>

-----------------------------------------------------------------------------
(* The players' connections.                                               *)

(* The ready that completes the table: startRound, which arms the clock    *)
(* only after the match and a snapshot of the round are stored.            *)
Start(p) ==
  /\ pc[p] = "idle" /\ online[p] /\ phase = "none"
  /\ Deal
  /\ pc' = [pc EXCEPT ![p] = "arm"]
  /\ UNCHANGED <<roomVars, task>>

(* handleGameAction; an action the engine rejects changes nothing.         *)
Act(p) ==
  /\ pc[p] = "idle" /\ online[p]
  /\ Play(p)
  /\ GoOn(p, "idle")
  /\ UNCHANGED roomVars

Attach(p) ==
  /\ pc[p] = "idle" /\ ~online[p]
  /\ online' = [online EXCEPT ![p] = TRUE]
  /\ botMode' = [botMode EXCEPT ![p] = FALSE]
  /\ UNCHANGED <<flowVars, clock, pc, task>>

Detach(p) ==
  /\ pc[p] = "idle" /\ online[p]
  /\ online' = [online EXCEPT ![p] = FALSE]
  /\ UNCHANGED <<flowVars, clock, botMode, pc, task>>

(* handleBotTakeover: the clock that is running keeps its window.          *)
BotTakeover(p) ==
  /\ pc[p] = "idle" /\ online[p]
  /\ botMode' = [botMode EXCEPT ![p] = ~@]
  /\ UNCHANGED <<flowVars, clock, online, pc, task>>

-----------------------------------------------------------------------------
(* The auto-player.                                                        *)

(* The timer runs out; from here on Stop no longer reaches it.             *)
Expire(a) ==
  /\ pc[a] = "idle" /\ clock # "off"
  /\ clock' = "off"
  /\ pc' = [pc EXCEPT ![a] = "fired"]
  /\ UNCHANGED <<flowVars, online, botMode, task>>

(* What the auto-player of a seat does in the meld phase.                  *)
PlayOn(a, seat) ==
  /\ pc' = [pc EXCEPT ![a] = IF Level = "easy" THEN "discard" ELSE "think"]
  /\ task' = [task EXCEPT ![a] = [NoTask EXCEPT !.seat = seat, !.left = MaxMoves]]

(* autoPlay, first section: it plays for whoever is on turn by now. A seat *)
(* with no connection is played by the bot from now on.                    *)
Begin(a) ==
  /\ pc[a] = "fired"
  /\ \/ ~InTurn /\ Return(a) /\ UNCHANGED botMode
     \/ /\ InTurn
        /\ botMode' = [botMode EXCEPT ![turn] = @ \/ ~online[turn]]
        /\ \/ /\ phase = "draw"
              /\ pc' = [pc EXCEPT ![a] = "draw"]
              /\ task' = [task EXCEPT ![a] = [NoTask EXCEPT !.seat = turn, !.then = "recheck"]]
           \/ /\ phase = "meld"
              /\ IF Level = "easy" /\ held[turn] = 0 THEN Return(a) ELSE PlayOn(a, turn)
  /\ UNCHANGED <<flowVars, clock, online>>

(* draw_deck on behalf of the seat.                                        *)
AutoDraw(a) ==
  /\ pc[a] = "draw"
  /\ \/ Draw(task[a].seat) /\ GoOn(a, "recheck")
     \/ /\ ~(phase = "draw" /\ turn = task[a].seat)
        /\ pc' = [pc EXCEPT ![a] = "recheck"]
        /\ UNCHANGED <<flowVars, task>>
  /\ UNCHANGED roomVars

(* autoPlay, after the draw and all that followed from it: by now the      *)
(* round may be over, or be another one.                                   *)
Recheck(a) ==
  /\ pc[a] = "recheck"
  /\ IF phase = "meld" /\ turn = task[a].seat /\ held[turn] > 0
     THEN PlayOn(a, task[a].seat)
     ELSE Return(a)
  /\ UNCHANGED <<flowVars, roomVars>>

MayKnock == Level = "hard"

Choose(a, move, size) ==
  /\ pc' = [pc EXCEPT ![a] = move]
  /\ task' = [task EXCEPT ![a].size = size, ![a].left = @ - 1, ![a].fresh = TRUE]

(* SolveAutoKnock: nobody goes out by a plan with a single card in hand.   *)
PlanFound(p) == held[p] > 1 /\ PlanPossible(p)

(* SuggestMove lays n cards down, a new meld or one card onto the table.    *)
(* It gets that far only without a plan: the cards that leave a single one *)
(* would be the plan's.                                                    *)
LaysDown(p, n) ==
  /\ n <= held[p] /\ held[p] - n # 1
  /\ tabled \/ n >= MinMeldLen

(* autoPlaySmart, an iteration's decision. With a plan to go out it knocks *)
(* at level "hard"; at another it drops the knock card. Else it lays cards *)
(* down if it can, or drops one if it holds any.                           *)
Think(a) ==
  LET p == task[a].seat
      goesOn == task[a].left > 0 /\ phase = "meld" /\ turn = p IN
  /\ pc[a] = "think"
  /\ \/ ~goesOn /\ Return(a)
     \/ /\ goesOn
        /\ \/ PlanFound(p) /\ Choose(a, IF MayKnock THEN "knock" ELSE "discard", 0)
           \/ \E n \in {1, MinMeldLen} : LaysDown(p, n) /\ Choose(a, "lay", n)
           \/ held[p] > 0 /\ Choose(a, "discard", 0)
           \/ held[p] = 0 /\ Return(a)
  /\ UNCHANGED <<flowVars, roomVars>>

(* The engine rejects the move: it is not the seat's turn to make one any  *)
(* more, or another action came in between and took the cards.             *)
Rejected(a) ==
  \/ ~(phase = "meld" /\ turn = task[a].seat)
  \/ held[task[a].seat] = 0
  \/ ~task[a].fresh

AutoLay(a) ==
  /\ pc[a] = "lay"
  /\ \/ PutDown(task[a].seat, task[a].size) /\ GoOn(a, "think")
     \/ /\ Rejected(a)
        /\ pc' = [pc EXCEPT ![a] = "think"]
        /\ UNCHANGED <<flowVars, task>>
  /\ UNCHANGED roomVars

AutoDiscard(a) ==
  /\ pc[a] = "discard"
  /\ \/ Discard(task[a].seat) /\ GoOn(a, "idle")
     \/ Rejected(a) /\ Return(a) /\ UNCHANGED flowVars
  /\ UNCHANGED roomVars

AutoKnock(a) ==
  /\ pc[a] = "knock"
  /\ \/ GoOut(task[a].seat) /\ GoOn(a, "idle")
     \/ Rejected(a) /\ Return(a) /\ UNCHANGED flowVars
  /\ UNCHANGED roomVars

-----------------------------------------------------------------------------
AutoStep(a) ==
  \/ Begin(a) \/ AutoDraw(a) \/ Recheck(a)
  \/ Think(a) \/ AutoLay(a) \/ AutoDiscard(a) \/ AutoKnock(a)

AfterStep(x) == Arm(x) \/ Cancel(x) \/ Finish(x)

Client(p) == Start(p) \/ Act(p) \/ Attach(p) \/ Detach(p) \/ BotTakeover(p)

Next ==
  \/ \E p \in Players : Client(p)
  \/ \E a \in Autos : Expire(a) \/ AutoStep(a)
  \/ \E x \in Procs : AfterStep(x)

(* A pending timer fires and a goroutine that can run does; players need   *)
(* do nothing.                                                             *)
Fairness ==
  /\ WF_vars(\E a \in Autos : Expire(a))
  /\ \A a \in Autos : WF_vars(AutoStep(a))
  /\ \A x \in Procs : WF_vars(AfterStep(x))

Spec == RoomInit /\ [][Next]_vars /\ Fairness
==================================================================================
