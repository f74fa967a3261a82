----------------------------- MODULE ShotClockProofs -----------------------------
(***************************************************************************)
(* Proofs about the room's turns and shot clock (ShotClock), for every     *)
(* number of players, every size of deck and hands, any number of expired  *)
(* clocks that overlap, every bot level and every interleaving of them     *)
(* with the players' handlers.                                             *)
(***************************************************************************)
EXTENDS MCShotClock, FiniteSetTheorems, TLAPS

Ending == {"cancel", "finish"}
Places == {"idle", "arm", "fired", "draw", "recheck", "think", "lay", "discard", "knock"}
Phases == {"none", "draw", "meld", "round_over"}

-----------------------------------------------------------------------------
(* Who finishes a round, and its clock.                                    *)

(* A round over has one goroutine that finishes it, another round none.    *)
OneEnds ==
  IF phase = "round_over"
  THEN \E x \in Procs : /\ pc[x] \in Ending
                        /\ \A y \in Procs \ {x} : pc[y] \notin Ending
  ELSE \A x \in Procs : pc[x] \notin Ending

(* The clock is off once it was cancelled for good.                        *)
ClockStopped ==
  /\ phase = "none" => clock = "off"
  /\ \A x \in Procs : pc[x] = "finish" => clock = "off"

RoundInv ==
  /\ pc \in [Procs -> Places \cup Ending]
  /\ phase \in Phases
  /\ OneEnds
  /\ ClockStopped

LEMMA RoundInvInit == RoomInit => RoundInv
BY DEF RoomInit, RoundInv, OneEnds, ClockStopped, Places, Ending, Phases

(* What an action of the engine does to the phase.                         *)
LEMMA PlayPhases ==
  ASSUME NEW p, \/ Draw(p) \/ Discard(p) \/ GoOut(p) \/ \E n : PutDown(p, n)
                \/ \E t, used : PickUp(p, t, used)
  PROVE  InTurn /\ phase' \in {"draw", "meld", "round_over"}
BY DEF InTurn, Draw, Discard, GoOut, PutDown, PickUp

(* x applied an action of the engine.                                      *)
LEMMA AppliedKeepsInv ==
  ASSUME RoundInv, NEW x \in Procs, NEW otherwise \in Places,
         InTurn, phase' \in {"draw", "meld", "round_over"}, GoOn(x, otherwise), UNCHANGED clock
  PROVE  RoundInv'
<1>1. \A y \in Procs : pc[y] \notin Ending
  BY DEF RoundInv, OneEnds, InTurn
<1>2. pc \in [Procs -> Places \cup Ending]
  BY DEF RoundInv
<1>3. PICK s \in Places \cup {"cancel"} :
        pc' = [pc EXCEPT ![x] = s] /\ (s = "cancel" <=> phase' = "round_over")
  <2>1. "arm" \in Places /\ "cancel" \notin Places
    BY DEF Places
  <2>2. CASE phase' = "round_over"
    <3>1. pc' = [pc EXCEPT ![x] = "cancel"]
      BY <2>2 DEF GoOn
    <3>. QED
      BY <2>2, <3>1
  <2>3. CASE phase' = "draw"
    <3>1. pc' = [pc EXCEPT ![x] = "arm"]
      BY <2>3 DEF GoOn
    <3>. QED
      BY <2>1, <2>3, <3>1
  <2>4. CASE phase' = "meld"
    <3>1. pc' = [pc EXCEPT ![x] = otherwise]
      BY <2>4 DEF GoOn
    <3>2. otherwise # "cancel"
      BY <2>1
    <3>. QED
      BY <2>4, <3>1, <3>2
  <2>. QED
    BY <2>2, <2>3, <2>4
<1>4. pc' \in [Procs -> Places \cup Ending]
  BY <1>2, <1>3 DEF Ending
<1>5. pc'[x] = s /\ \A y \in Procs \ {x} : pc'[y] \notin Ending
  BY <1>1, <1>2, <1>3
<1>6. OneEnds'
  BY <1>3, <1>5 DEF OneEnds, Ending, Places
<1>7. ClockStopped'
  <2>1. \A y \in Procs : pc'[y] # "finish"
    BY <1>3, <1>5 DEF Ending, Places
  <2>. QED
    BY <2>1 DEF ClockStopped
<1>. QED
  BY <1>4, <1>6, <1>7 DEF RoundInv, Phases

(* x goes on to do something else while the round stays what it is.        *)
LEMMA QuietKeepsInv ==
  ASSUME RoundInv, NEW x \in Procs, NEW s \in Places, pc[x] \notin Ending,
         pc' = [pc EXCEPT ![x] = s], UNCHANGED phase,
         clock' = clock \/ clock' = "off" \/ InTurn
  PROVE  RoundInv'
<1>1. pc \in [Procs -> Places \cup Ending] /\ s \notin Ending
  BY DEF RoundInv, Places, Ending
<1>2. /\ pc' \in [Procs -> Places \cup Ending]
      /\ pc'[x] \notin Ending
      /\ \A y \in Procs \ {x} : pc'[y] = pc[y]
  BY <1>1
<1>3. \A y \in Procs : /\ pc'[y] \in Ending <=> pc[y] \in Ending
                       /\ pc'[y] = "finish" => pc[y] = "finish"
  BY <1>2 DEF Ending
<1>4. OneEnds'
  BY <1>3 DEF RoundInv, OneEnds
<1>5. ClockStopped'
  <2>1. CASE InTurn
    BY <1>3, <2>1 DEF RoundInv, OneEnds, ClockStopped, InTurn, Ending
  <2>2. CASE clock' = clock \/ clock' = "off"
    BY <1>3, <2>2 DEF RoundInv, ClockStopped
  <2>. QED
    BY <2>1, <2>2
<1>. QED
  BY <1>2, <1>4, <1>5 DEF RoundInv

(* The same for a step of x that is no step of pc at all.                  *)
LEMMA IdleKeepsInv ==
  ASSUME RoundInv, UNCHANGED <<pc, phase, clock>> PROVE RoundInv'
BY DEF RoundInv, OneEnds, ClockStopped

LEMMA ClientKeepsInv ==
  ASSUME RoundInv, NEW p \in Players, Client(p) PROVE RoundInv'
<1>1. p \in Procs /\ "idle" \in Places /\ "arm" \in Places /\ "idle" \notin Ending
  BY DEF Procs, Places, Ending
<1>2. CASE Start(p)
  <2>1. /\ pc[p] = "idle" /\ phase = "none" /\ phase' = "draw" /\ clock' = clock
        /\ pc' = [pc EXCEPT ![p] = "arm"]
    BY <1>2 DEF Start, Deal, roomVars
  <2>2. pc \in [Procs -> Places \cup Ending] /\ \A y \in Procs : pc[y] \notin Ending
    BY <2>1 DEF RoundInv, OneEnds
  <2>3. pc' \in [Procs -> Places \cup Ending] /\ \A y \in Procs : pc'[y] \notin Ending
    BY <1>1, <2>1, <2>2 DEF Ending
  <2>. QED
    BY <2>1, <2>3 DEF RoundInv, OneEnds, ClockStopped, Phases, Ending
<1>3. CASE Act(p)
  <2>1. Play(p) /\ GoOn(p, "idle") /\ UNCHANGED clock
    BY <1>3 DEF Act, roomVars
  <2>2. InTurn /\ phase' \in {"draw", "meld", "round_over"}
    BY <2>1, PlayPhases DEF Play
  <2>. QED
    BY <1>1, <2>1, <2>2, AppliedKeepsInv
<1>4. CASE Attach(p) \/ Detach(p) \/ BotTakeover(p)
  BY <1>4, IdleKeepsInv DEF Attach, Detach, BotTakeover, flowVars
<1>. QED
  BY <1>2, <1>3, <1>4 DEF Client

LEMMA AutoKeepsInv ==
  ASSUME RoundInv, NEW a \in Autos, Expire(a) \/ AutoStep(a) PROVE RoundInv'
<1>1. a \in Procs
  BY DEF Procs
<1>2. ASSUME NEW s \in Places, pc[a] \in Places, pc' = [pc EXCEPT ![a] = s],
             UNCHANGED phase, clock' \in {clock, "off"}
      PROVE  RoundInv'
  <2>1. pc[a] \notin Ending
    BY <1>2 DEF Places, Ending
  <2>. QED
    BY <1>1, <1>2, <2>1, QuietKeepsInv
<1>3. ASSUME NEW s \in Places, GoOn(a, s), UNCHANGED clock, NEW p,
             \/ Draw(p) \/ Discard(p) \/ GoOut(p) \/ \E n : PutDown(p, n)
      PROVE  RoundInv'
  BY <1>1, <1>3, PlayPhases, AppliedKeepsInv
<1>4. CASE Expire(a)
  BY <1>2, <1>4 DEF Expire, flowVars, Places
<1>5. CASE Begin(a)
  <2>1. pc[a] = "fired" /\ UNCHANGED <<phase, clock>>
    BY <1>5 DEF Begin, flowVars
  <2>2. \E s \in {"idle", "draw", "discard", "think"} : pc' = [pc EXCEPT ![a] = s]
    BY <1>5 DEF Begin, Return, PlayOn
  <2>. QED
    BY <1>2, <2>1, <2>2 DEF Places
<1>6. CASE AutoDraw(a)
  BY <1>2, <1>3, <1>6 DEF AutoDraw, roomVars, flowVars, Places
<1>7. CASE Recheck(a)
  <2>1. pc[a] = "recheck" /\ UNCHANGED <<phase, clock>>
    BY <1>7 DEF Recheck, flowVars, roomVars
  <2>2. \E s \in {"idle", "discard", "think"} : pc' = [pc EXCEPT ![a] = s]
    BY <1>7 DEF Recheck, Return, PlayOn
  <2>. QED
    BY <1>2, <2>1, <2>2 DEF Places
<1>8. CASE Think(a)
  <2>1. pc[a] = "think" /\ UNCHANGED <<phase, clock>>
    BY <1>8 DEF Think, flowVars, roomVars
  <2>2. \E s \in {"idle", "discard", "knock", "lay"} : pc' = [pc EXCEPT ![a] = s]
    BY <1>8 DEF Think, Return, Choose
  <2>. QED
    BY <1>2, <2>1, <2>2 DEF Places
<1>9. CASE AutoLay(a)
  BY <1>2, <1>3, <1>9 DEF AutoLay, roomVars, flowVars, Places
<1>10. CASE AutoDiscard(a)
  BY <1>2, <1>3, <1>10 DEF AutoDiscard, Return, roomVars, flowVars, Places
<1>11. CASE AutoKnock(a)
  BY <1>2, <1>3, <1>11 DEF AutoKnock, Return, roomVars, flowVars, Places
<1>. QED
  BY <1>4, <1>5, <1>6, <1>7, <1>8, <1>9, <1>10, <1>11 DEF AutoStep

LEMMA AfterKeepsInv ==
  ASSUME RoundInv, NEW x \in Procs, AfterStep(x) PROVE RoundInv'
<1>1. pc \in [Procs -> Places \cup Ending] /\ phase \in Phases
  BY DEF RoundInv
<1>2. CASE Arm(x)
  <2>1. /\ pc[x] = "arm" /\ pc' = [pc EXCEPT ![x] = "idle"] /\ UNCHANGED phase
        /\ InTurn \/ clock' = clock
    BY <1>2 DEF Arm, Return, flowVars
  <2>2. "arm" \notin Ending /\ "idle" \in Places
    BY DEF Ending, Places
  <2>. QED
    BY <2>1, <2>2, QuietKeepsInv
<1>3. CASE Cancel(x)
  <2>1. /\ pc[x] = "cancel" /\ pc' = [pc EXCEPT ![x] = "finish"] /\ UNCHANGED phase
        /\ clock' = "off"
    BY <1>3 DEF Cancel, flowVars
  <2>2. /\ pc' \in [Procs -> Places \cup Ending]
        /\ \A y \in Procs : pc'[y] \in Ending <=> pc[y] \in Ending
    BY <1>1, <2>1 DEF Ending
  <2>. QED
    BY <2>1, <2>2 DEF RoundInv, OneEnds, ClockStopped
<1>4. CASE Finish(x)
  <2>1. /\ pc[x] = "finish" /\ phase' = "none" /\ clock' = clock
        /\ \E s \in {"idle", "recheck"} : pc' = [pc EXCEPT ![x] = s]
    BY <1>4 DEF Finish, Return, roomVars
  <2>2. clock = "off"
    BY <2>1 DEF RoundInv, ClockStopped
  <2>3. \A y \in Procs \ {x} : pc[y] \notin Ending
    BY <2>1 DEF RoundInv, OneEnds, Ending
  <2>4. pc' \in [Procs -> Places \cup Ending] /\ \A y \in Procs : pc'[y] \notin Ending
    BY <1>1, <2>1, <2>3 DEF Ending, Places
  <2>. QED
    BY <2>1, <2>2, <2>4 DEF RoundInv, OneEnds, ClockStopped, Phases
<1>. QED
  BY <1>2, <1>3, <1>4 DEF AfterStep

LEMMA NextRoundInv == RoundInv /\ [Next]_vars => RoundInv'
<1> SUFFICES ASSUME RoundInv, [Next]_vars PROVE RoundInv'
  OBVIOUS
<1>1. CASE UNCHANGED vars
  BY <1>1, IdleKeepsInv DEF vars, flowVars
<1>2. CASE Next
  BY <1>2, ClientKeepsInv, AutoKeepsInv, AfterKeepsInv DEF Next
<1>. QED
  BY <1>1, <1>2

(* However many clocks expire while handlers run, a round that is over is  *)
(* scored by exactly one goroutine, and no other round is.                 *)
THEOREM RoundIsScoredOnce == MCSpec => []ScoredByOne
<1>1. RoundInv => ScoredByOne
  <2>. DEFINE enders == {x \in Procs : pc[x] \in {"cancel", "finish"}}
  <2> SUFFICES ASSUME RoundInv
               PROVE  Cardinality(enders) = IF phase = "round_over" THEN 1 ELSE 0
    BY DEF ScoredByOne
  <2>1. CASE phase = "round_over"
    <3>1. \E x \in Procs : enders = {x}
      BY <2>1 DEF RoundInv, OneEnds, Ending
    <3>. QED
      BY <2>1, <3>1, FS_Singleton
  <2>2. CASE phase # "round_over"
    <3>1. enders = {}
      BY <2>2 DEF RoundInv, OneEnds, Ending
    <3>. QED
      BY <2>2, <3>1, FS_EmptySet
  <2>. QED
    BY <2>1, <2>2
<1>. QED
  BY <1>1, RoundInvInit, NextRoundInv, PTL DEF MCSpec

(* No handler and no auto-player that is late with arming a clock leaves   *)
(* one running behind a round that was scored.                             *)
THEOREM ScoredRoundHasNoClock == MCSpec => []NoClockBetweenRounds
<1>1. RoundInv => NoClockBetweenRounds
  BY DEF RoundInv, ClockStopped, NoClockBetweenRounds
<1>. QED
  BY <1>1, RoundInvInit, NextRoundInv, PTL DEF MCSpec

-----------------------------------------------------------------------------
(* Types. The counters stay in range because no card is counted twice: the *)
(* cards of all hands, as pairs of a player and a number, the deck and the *)
(* pile are never more than NumCards.                                      *)

InHands(h) == {x \in Players \X Nat : x[2] \in 1..h[x[1]]}

CardsAddUp ==
  /\ held \in [Players -> Nat] /\ deck \in Nat /\ pile \in Nat
  /\ IsFiniteSet(InHands(held))
  /\ Cardinality(InHands(held)) + deck + pile <= NumCards

Task == [seat: Players, left: Nat, size: Nat, fresh: BOOLEAN, then: {"idle", "recheck"}]

TypeInv ==
  /\ turn \in Players
  /\ phase \in Phases
  /\ CardsAddUp
  /\ clock \in {"off", "full", "bot"}
  /\ online \in [Players -> BOOLEAN] /\ botMode \in [Players -> BOOLEAN]
  /\ pc \in [Procs -> Places \cup Ending]
  /\ \A p \in Players : pc[p] \in {"idle", "arm", "cancel", "finish"}
  /\ task \in [Autos -> Task]

LEMMA OneHand ==
  ASSUME NEW p \in Players, NEW n \in Nat
  PROVE  /\ IsFiniteSet({p} \X (1..n)) /\ Cardinality({p} \X (1..n)) = n
<1>1. IsFiniteSet({p}) /\ Cardinality({p}) = 1
  BY FS_Singleton
<1>2. IsFiniteSet(1..n) /\ Cardinality(1..n) = n
  <2>1. IsFiniteSet(1..n) /\ Cardinality(1..n) = IF 1 > n THEN 0 ELSE n - 1 + 1
    BY FS_Interval
  <2>. QED
    BY <2>1
<1>3. /\ IsFiniteSet({p} \X (1..n))
      /\ Cardinality({p} \X (1..n)) = Cardinality({p}) * Cardinality(1..n)
  <2>. DEFINE S == {p}
              T == 1..n
  <2>. HIDE DEF S, T
  <2>1. IsFiniteSet(S) /\ IsFiniteSet(T)
    BY <1>1, <1>2 DEF S, T
  <2>2. IsFiniteSet(S \X T) /\ Cardinality(S \X T) = Cardinality(S) * Cardinality(T)
    BY <2>1, FS_Product
  <2>. QED
    BY <2>2 DEF S, T
<1>4. 1 * n = n
  OBVIOUS
<1>. QED
  BY <1>1, <1>2, <1>3, <1>4

LEMMA DisjointUnion ==
  ASSUME NEW S, NEW T, IsFiniteSet(S), IsFiniteSet(T), S \cap T = {}
  PROVE  /\ IsFiniteSet(S \cup T)
         /\ Cardinality(S \cup T) = Cardinality(S) + Cardinality(T)
         /\ Cardinality(S) \in Nat
<1>1. Cardinality(S) \in Nat /\ Cardinality(T) \in Nat /\ Cardinality({}) = 0
  BY FS_CardinalityType, FS_EmptySet
<1>2. /\ IsFiniteSet(S \cup T)
      /\ Cardinality(S \cup T) = Cardinality(S) + Cardinality(T) - Cardinality(S \cap T)
  BY FS_Union
<1>3. Cardinality(S \cap T) = 0
  BY <1>1
<1>. QED
  BY <1>1, <1>2, <1>3

(* A hand that grows or shrinks changes the count by as much.              *)
LEMMA HandChanges ==
  ASSUME NEW h \in [Players -> Nat], NEW p \in Players, NEW n \in Nat, IsFiniteSet(InHands(h))
  PROVE  /\ IsFiniteSet(InHands([h EXCEPT ![p] = n]))
         /\ Cardinality(InHands([h EXCEPT ![p] = n])) = Cardinality(InHands(h)) - h[p] + n
         /\ h[p] <= Cardinality(InHands(h))
<1>. DEFINE g == [h EXCEPT ![p] = n]
            others == {x \in InHands(h) : x[1] # p}
<1>1. InHands(h) = others \cup ({p} \X (1..h[p])) /\ others \cap ({p} \X (1..h[p])) = {}
  BY DEF InHands
<1>2. InHands(g) = others \cup ({p} \X (1..n)) /\ others \cap ({p} \X (1..n)) = {}
  BY DEF InHands
<1>3. IsFiniteSet(others)
  BY FS_Subset
<1>. HIDE DEF g, others
<1>4. Cardinality(others) \in Nat
  BY <1>3, FS_CardinalityType
<1>5. h[p] \in Nat
  OBVIOUS
<1>6. Cardinality(InHands(h)) = Cardinality(others) + h[p]
  <2>1. /\ IsFiniteSet({p} \X (1..h[p])) /\ Cardinality({p} \X (1..h[p])) = h[p]
    BY <1>5, OneHand
  <2>. QED
    BY <1>1, <1>3, <2>1, DisjointUnion
<1>7. IsFiniteSet(InHands(g)) /\ Cardinality(InHands(g)) = Cardinality(others) + n
  <2>1. /\ IsFiniteSet({p} \X (1..n)) /\ Cardinality({p} \X (1..n)) = n
    BY OneHand
  <2>2. /\ IsFiniteSet(others \cup ({p} \X (1..n)))
        /\ Cardinality(others \cup ({p} \X (1..n)))
             = Cardinality(others) + Cardinality({p} \X (1..n))
    BY <1>2, <1>3, <2>1, DisjointUnion, Zenon
  <2>. QED
    BY <1>2, <2>1, <2>2
<1>. QED
  BY <1>4, <1>5, <1>6, <1>7 DEF g

(* A player's turn leaves no more cards than there were.                   *)
LEMMA HandStep ==
  ASSUME CardsAddUp, NEW p \in Players, NEW n \in Nat, held' = [held EXCEPT ![p] = n],
         deck' \in Nat, pile' \in Nat, n + deck' + pile' <= held[p] + deck + pile
  PROVE  CardsAddUp'
<1>1. /\ IsFiniteSet(InHands(held'))
      /\ Cardinality(InHands(held')) = Cardinality(InHands(held)) - held[p] + n
  BY HandChanges DEF CardsAddUp
<1>2. Cardinality(InHands(held)) \in Nat /\ held[p] \in Nat /\ NumCards \in Nat
  BY FS_CardinalityType, FlowAssumption DEF CardsAddUp
<1>3. Cardinality(InHands(held')) + deck' + pile' <= NumCards
  BY <1>1, <1>2 DEF CardsAddUp
<1>. QED
  BY <1>1, <1>3 DEF CardsAddUp

LEMMA Dealt == NumPlayers * HandSize \in Nat /\ Stock \in Nat
<1>1. NumPlayers * HandSize \in Nat
  BY FlowAssumption
<1>. QED
  BY <1>1, FlowAssumption DEF Stock

LEMMA DealAddsUp ==
  ASSUME Deal PROVE CardsAddUp'
<1>. DEFINE all == Players \X (1..HandSize)
<1>1. InHands(held') = all
  BY FlowAssumption DEF Deal, AllHoldAHand, InHands
<1>2. IsFiniteSet(Players) /\ Cardinality(Players) = NumPlayers
  <2>1. IsFiniteSet(0..(NumPlayers - 1)) /\ Cardinality(0..(NumPlayers - 1)) = NumPlayers
    BY FlowAssumption, FS_Interval
  <2>. QED
    BY <2>1 DEF Players
<1>3. IsFiniteSet(1..HandSize) /\ Cardinality(1..HandSize) = HandSize
  BY FlowAssumption, FS_Interval
<1>4. IsFiniteSet(all) /\ Cardinality(all) = NumPlayers * HandSize
  <2>1. IsFiniteSet(all) /\ Cardinality(all) = Cardinality(Players) * Cardinality(1..HandSize)
    BY <1>2, <1>3, FS_Product
  <2>. QED
    BY <1>2, <1>3, <2>1
<1>. HIDE DEF all
<1>5. held' \in [Players -> Nat] /\ deck' = Stock /\ pile' = 1
  BY FlowAssumption DEF Deal, AllHoldAHand
<1>6. Cardinality(InHands(held')) + deck' + pile' <= NumCards
  BY <1>1, <1>4, <1>5, Dealt, FlowAssumption DEF Stock
<1>. QED
  BY <1>1, <1>4, <1>5, <1>6, Dealt DEF CardsAddUp

LEMMA NextSeatInRange == ASSUME turn \in Players PROVE (turn + 1) % NumPlayers \in Players
BY FlowAssumption, SMT DEF Players

(* Every action of the engine keeps turn, phase and counters in range.     *)
LEMMA PlayTypes ==
  ASSUME turn \in Players, CardsAddUp, NEW p \in Players,
         \/ Draw(p) \/ Discard(p) \/ GoOut(p) \/ \E n \in Nat : PutDown(p, n)
         \/ \E t \in 1..pile, used \in 0..NumCards : PickUp(p, t, used)
  PROVE  turn' \in Players /\ phase' \in Phases /\ CardsAddUp'
<1>1. held \in [Players -> Nat] /\ held[p] \in Nat /\ deck \in Nat /\ pile \in Nat
  BY DEF CardsAddUp
<1>2. CASE Draw(p)
  <2>1. turn' \in Players /\ phase' \in Phases
    BY <1>2 DEF Draw, Phases
  <2>2. CASE UNCHANGED <<held, deck>>
    <3>1. pile' = pile
      BY <1>2 DEF Draw
    <3>2. CardsAddUp'
      BY <2>2, <3>1 DEF CardsAddUp
    <3>. QED
      BY <2>1, <3>2
  <2>3. CASE deck > 0 /\ deck' = deck - 1 /\ held' = [held EXCEPT ![p] = @ + 1]
    <3>1. /\ held[p] + 1 \in Nat /\ deck' \in Nat /\ pile' = pile
          /\ held' = [held EXCEPT ![p] = held[p] + 1]
          /\ (held[p] + 1) + deck' + pile' <= held[p] + deck + pile
      BY <1>1, <1>2, <2>3 DEF Draw
    <3>. QED
      BY <1>1, <2>1, <3>1, HandStep
  <2>. QED
    BY <1>2, <2>1, <2>2, <2>3 DEF Draw
<1>3. CASE Discard(p)
  <2>1. /\ held[p] - 1 \in Nat /\ deck' = deck /\ pile' = pile + 1
        /\ held' = [held EXCEPT ![p] = held[p] - 1]
        /\ (held[p] - 1) + deck' + pile' <= held[p] + deck + pile
    BY <1>1, <1>3 DEF Discard
  <2>2. turn' \in Players /\ phase' \in Phases
    BY <1>3, NextSeatInRange DEF Discard, Phases
  <2>3. deck' \in Nat /\ pile' \in Nat
    BY <1>1, <2>1
  <2>. QED
    BY <2>1, <2>2, <2>3, HandStep
<1>4. CASE GoOut(p)
  <2>1. /\ deck' = deck /\ pile' = pile /\ held' = [held EXCEPT ![p] = 0]
        /\ 0 + deck' + pile' <= held[p] + deck + pile
        /\ turn' \in Players /\ phase' \in Phases
    BY <1>1, <1>4 DEF GoOut, Phases
  <2>. QED
    BY <1>1, <2>1, HandStep
<1>5. ASSUME NEW n \in Nat, PutDown(p, n) PROVE turn' \in Players /\ phase' \in Phases /\ CardsAddUp'
  <2>1. /\ held[p] - n \in Nat /\ deck' = deck /\ pile' = pile
        /\ held' = [held EXCEPT ![p] = held[p] - n]
        /\ (held[p] - n) + deck' + pile' <= held[p] + deck + pile
        /\ turn' \in Players /\ phase' \in Phases
    BY <1>1, <1>5 DEF PutDown, Phases
  <2>. QED
    BY <1>1, <2>1, HandStep
<1>6. ASSUME NEW t \in 1..pile, NEW used \in 0..NumCards, PickUp(p, t, used)
      PROVE  turn' \in Players /\ phase' \in Phases /\ CardsAddUp'
  <2>. DEFINE n == held[p] + (pile - t) - used
  <2>1. used <= held[p] + (pile - t) /\ held' = [held EXCEPT ![p] = (held[p] + (pile - t)) - used]
        /\ pile' = t - 1 /\ deck' = deck /\ phase' = "meld" /\ turn' = turn
    BY <1>6 DEF PickUp
  <2>2. used \in Nat /\ t \in Nat /\ 1 <= t /\ t <= pile
    BY <1>1, FlowAssumption
  <2>3. n \in Nat /\ n = (held[p] + (pile - t)) - used /\ pile' \in Nat
    BY <1>1, <2>1, <2>2
  <2>4. n + deck' + pile' <= held[p] + deck + pile
    BY <1>1, <2>1, <2>2
  <2>5. held' = [held EXCEPT ![p] = n]
    BY <2>1, <2>3
  <2>6. turn' \in Players /\ phase' \in Phases
    BY <2>1 DEF Phases
  <2>. HIDE DEF n
  <2>. QED
    BY <1>1, <2>1, <2>3, <2>4, <2>5, <2>6, HandStep
<1>. QED
  BY <1>2, <1>3, <1>4, <1>5, <1>6

(* Where x is after its action, and the tasks.                             *)
LEMMA GoOnTypes ==
  ASSUME TypeInv, NEW x \in Procs, NEW otherwise \in Places, GoOn(x, otherwise),
         x \in Players => otherwise = "idle"
  PROVE  /\ pc' \in [Procs -> Places \cup Ending]
         /\ \A p \in Players : pc'[p] \in {"idle", "arm", "cancel", "finish"}
         /\ task' \in [Autos -> Task]
<1>1. PICK s \in {"cancel", "arm", otherwise} : pc' = [pc EXCEPT ![x] = s]
  <2>1. CASE phase' = "round_over"
    BY <2>1 DEF GoOn
  <2>2. CASE phase' = "draw"
    BY <2>2 DEF GoOn
  <2>3. CASE phase' # "round_over" /\ phase' # "draw"
    BY <2>3 DEF GoOn
  <2>. QED
    BY <2>1, <2>2, <2>3
<1>2. s \in Places \cup Ending /\ (x \in Players => s \in {"idle", "arm", "cancel"})
  BY DEF Places, Ending
<1>3. /\ pc' \in [Procs -> Places \cup Ending]
      /\ \A p \in Players : pc'[p] \in {"idle", "arm", "cancel", "finish"}
  BY <1>1, <1>2 DEF TypeInv, Procs
<1>4. task' \in [Autos -> Task]
  <2> SUFFICES ASSUME NEW a \in Autos PROVE task'[a] \in Task
    BY DEF GoOn
  <2>1. task[a] \in Task /\ task'[a] = [task[a] EXCEPT !.fresh = @ /\ pc[a] \in {"idle", "fired"}]
    BY DEF GoOn, TypeInv
  <2>. QED
    BY <2>1 DEF Task
<1>. QED
  BY <1>3, <1>4

(* The same for a step that moves one goroutine and at most its own task.  *)
LEMMA MoveTypes ==
  ASSUME TypeInv, NEW x \in Procs, NEW s \in Places \cup Ending, pc' = [pc EXCEPT ![x] = s],
         x \in Players => s \in {"idle", "arm", "cancel", "finish"},
         task' \in [Autos -> Task],
         UNCHANGED flowVars, clock' \in {"off", "full", "bot"},
         online' \in [Players -> BOOLEAN], botMode' \in [Players -> BOOLEAN]
  PROVE  TypeInv'
<1>1. /\ pc' \in [Procs -> Places \cup Ending]
      /\ \A p \in Players : pc'[p] \in {"idle", "arm", "cancel", "finish"}
  BY DEF TypeInv, Procs
<1>2. CardsAddUp'
  BY DEF TypeInv, CardsAddUp, flowVars
<1>. QED
  BY <1>1, <1>2 DEF TypeInv, flowVars

LEMMA NoTaskType == NoTask \in Task
BY FlowAssumption DEF NoTask, Task, Players

LEMMA ReturnTypes ==
  ASSUME TypeInv, NEW x \in Procs, Return(x)
  PROVE  task' \in [Autos -> Task] /\ pc' = [pc EXCEPT ![x] = "idle"]
BY NoTaskType DEF Return, TypeInv

LEMMA PlayOnTypes ==
  ASSUME TypeInv, NEW a \in Autos, NEW seat \in Players, PlayOn(a, seat)
  PROVE  /\ task' \in [Autos -> Task]
         /\ \E s \in {"discard", "think"} : pc' = [pc EXCEPT ![a] = s]
<1>1. [NoTask EXCEPT !.seat = seat, !.left = MaxMoves] \in Task
  BY ClockAssumption, NoTaskType DEF Task
<1>. QED
  BY <1>1 DEF PlayOn, TypeInv

LEMMA ClientTypes ==
  ASSUME TypeInv, NEW p \in Players, Client(p) PROVE TypeInv'
<1>1. p \in Procs /\ "idle" \in Places /\ "arm" \in Places
  BY DEF Procs, Places
<1>2. CASE Start(p)
  <2>1. Deal /\ pc' = [pc EXCEPT ![p] = "arm"] /\ UNCHANGED <<roomVars, task>>
    BY <1>2 DEF Start
  <2>2. turn' \in Players /\ phase' \in Phases /\ CardsAddUp'
    <3>1. turn' = 0 /\ phase' = "draw" /\ 0 \in Players
      BY <2>1, FlowAssumption DEF Deal, Players
    <3>2. CardsAddUp'
      BY <2>1, DealAddsUp
    <3>. QED
      BY <3>1, <3>2 DEF Phases
  <2>3. /\ pc' \in [Procs -> Places \cup Ending]
        /\ \A q \in Players : pc'[q] \in {"idle", "arm", "cancel", "finish"}
    BY <1>1, <2>1 DEF TypeInv, Procs
  <2>. QED
    BY <2>1, <2>2, <2>3 DEF TypeInv, roomVars
<1>3. CASE Act(p)
  <2>1. Play(p) /\ GoOn(p, "idle") /\ UNCHANGED roomVars
    BY <1>3 DEF Act
  <2>2. held[p] \in Nat /\ turn \in Players /\ CardsAddUp
    BY DEF TypeInv, CardsAddUp
  <2>3. \/ Draw(p) \/ Discard(p) \/ GoOut(p) \/ \E n \in Nat : PutDown(p, n)
        \/ \E t \in 1..pile, used \in 0..NumCards : PickUp(p, t, used)
    BY <2>1, <2>2 DEF Play
  <2>4. turn' \in Players /\ phase' \in Phases /\ CardsAddUp'
    BY <2>2, <2>3, PlayTypes
  <2>5. /\ pc' \in [Procs -> Places \cup Ending]
        /\ \A q \in Players : pc'[q] \in {"idle", "arm", "cancel", "finish"}
        /\ task' \in [Autos -> Task]
    BY <1>1, <2>1, GoOnTypes
  <2>. QED
    BY <2>1, <2>4, <2>5 DEF TypeInv, roomVars
<1>4. CASE Attach(p) \/ Detach(p) \/ BotTakeover(p)
  <2>1. /\ UNCHANGED <<flowVars, clock, pc, task>>
        /\ online' \in [Players -> BOOLEAN] /\ botMode' \in [Players -> BOOLEAN]
    BY <1>4 DEF Attach, Detach, BotTakeover, TypeInv
  <2>2. CardsAddUp'
    BY <2>1 DEF TypeInv, CardsAddUp, flowVars
  <2>. QED
    BY <2>1, <2>2 DEF TypeInv, flowVars
<1>. QED
  BY <1>2, <1>3, <1>4 DEF Client

LEMMA AutoTypes ==
  ASSUME TypeInv, NEW a \in Autos, Expire(a) \/ AutoStep(a) PROVE TypeInv'
<1>1. a \in Procs /\ a \notin Players /\ task[a] \in Task
  BY ClockAssumption DEF Procs, TypeInv
<1>2. /\ task \in [Autos -> Task] /\ clock \in {"off", "full", "bot"} /\ turn \in Players
      /\ online \in [Players -> BOOLEAN] /\ botMode \in [Players -> BOOLEAN]
  BY DEF TypeInv
<1>3. ASSUME NEW s \in Places, pc' = [pc EXCEPT ![a] = s], task' \in [Autos -> Task],
             UNCHANGED <<flowVars, roomVars>>
      PROVE  TypeInv'
  BY <1>1, <1>2, <1>3, MoveTypes DEF roomVars
<1>4. ASSUME Return(a), UNCHANGED <<flowVars, roomVars>> PROVE TypeInv'
  BY <1>1, <1>3, <1>4, ReturnTypes DEF Places
<1>5. task[a].seat \in Players /\ task[a].size \in Nat /\ task[a].left \in Nat
  BY <1>1 DEF Task
<1>6. ASSUME NEW s \in Places, GoOn(a, s), UNCHANGED roomVars,
             \/ Draw(task[a].seat) \/ Discard(task[a].seat) \/ GoOut(task[a].seat)
             \/ PutDown(task[a].seat, task[a].size)
      PROVE  TypeInv'
  <2>1. turn' \in Players /\ phase' \in Phases /\ CardsAddUp'
    BY <1>5, <1>6, PlayTypes DEF TypeInv
  <2>2. /\ pc' \in [Procs -> Places \cup Ending]
        /\ \A q \in Players : pc'[q] \in {"idle", "arm", "cancel", "finish"}
        /\ task' \in [Autos -> Task]
    BY <1>1, <1>6, GoOnTypes
  <2>. QED
    BY <1>2, <1>6, <2>1, <2>2 DEF TypeInv, roomVars
<1>7. CASE Expire(a)
  <2>1. /\ pc' = [pc EXCEPT ![a] = "fired"] /\ clock' = "off" /\ "fired" \in Places
        /\ UNCHANGED <<flowVars, online, botMode, task>>
    BY <1>7 DEF Expire, Places
  <2>. QED
    BY <1>1, <1>2, <2>1, MoveTypes
<1>8. CASE Begin(a)
  <2>1. UNCHANGED <<flowVars, clock, online>>
    BY <1>8 DEF Begin
  <2>2. botMode' \in [Players -> BOOLEAN]
    BY <1>2, <1>8 DEF Begin
  <2>. DEFINE forTurn == [NoTask EXCEPT !.seat = turn, !.then = "recheck"]
  <2>3. forTurn \in Task
    BY <1>2, NoTaskType DEF Task
  <2>4. /\ task' \in [Autos -> Task]
        /\ \E s \in {"idle", "draw", "discard", "think"} : pc' = [pc EXCEPT ![a] = s]
    <3>1. CASE Return(a)
      BY <1>1, <3>1, ReturnTypes
    <3>2. CASE PlayOn(a, turn)
      BY <1>2, <3>2, PlayOnTypes
    <3>3. CASE pc' = [pc EXCEPT ![a] = "draw"] /\ task' = [task EXCEPT ![a] = forTurn]
      BY <1>2, <2>3, <3>3
    <3>. QED
      BY <1>8, <3>1, <3>2, <3>3 DEF Begin
  <2>5. {"idle", "draw", "discard", "think"} \subseteq Places
    BY DEF Places
  <2>. QED
    BY <1>1, <1>2, <2>1, <2>2, <2>4, <2>5, MoveTypes
<1>9. CASE AutoDraw(a)
  <2>1. CASE Draw(task[a].seat) /\ GoOn(a, "recheck")
    BY <1>6, <1>9, <2>1 DEF AutoDraw, Places
  <2>2. CASE pc' = [pc EXCEPT ![a] = "recheck"] /\ UNCHANGED <<flowVars, task>>
    BY <1>2, <1>3, <1>9, <2>2 DEF AutoDraw, Places
  <2>. QED
    BY <1>9, <2>1, <2>2 DEF AutoDraw
<1>10. CASE Recheck(a)
  <2>1. UNCHANGED <<flowVars, roomVars>> /\ (Return(a) \/ PlayOn(a, task[a].seat))
    BY <1>10 DEF Recheck
  <2>2. CASE PlayOn(a, task[a].seat)
    BY <1>3, <1>5, <2>1, <2>2, PlayOnTypes DEF Places
  <2>. QED
    BY <1>4, <2>1, <2>2
<1>11. CASE Think(a)
  <2>1. UNCHANGED <<flowVars, roomVars>>
    BY <1>11 DEF Think
  <2>2. \/ Return(a)
        \/ /\ task[a].left > 0
           /\ \E move \in {"knock", "discard", "lay"}, size \in {0, 1, MinMeldLen} :
                Choose(a, move, size)
    BY <1>11 DEF Think
  <2>3. ASSUME task[a].left > 0, NEW move \in {"knock", "discard", "lay"},
               NEW size \in {0, 1, MinMeldLen}, Choose(a, move, size)
        PROVE  TypeInv'
    <3>1. size \in Nat /\ task[a].left - 1 \in Nat /\ move \in Places
      BY <1>5, <2>3, FlowAssumption DEF Places
    <3>2. task' \in [Autos -> Task]
      BY <1>1, <1>2, <2>3, <3>1 DEF Choose, Task
    <3>. QED
      BY <1>3, <2>1, <2>3, <3>1, <3>2 DEF Choose
  <2>. QED
    BY <1>4, <2>1, <2>2, <2>3
<1>12. CASE AutoLay(a)
  <2>1. CASE PutDown(task[a].seat, task[a].size) /\ GoOn(a, "think")
    BY <1>6, <1>12, <2>1 DEF AutoLay, Places
  <2>2. CASE pc' = [pc EXCEPT ![a] = "think"] /\ UNCHANGED <<flowVars, task>>
    BY <1>2, <1>3, <1>12, <2>2 DEF AutoLay, Places
  <2>. QED
    BY <1>12, <2>1, <2>2 DEF AutoLay
<1>13. CASE AutoDiscard(a)
  BY <1>4, <1>6, <1>13 DEF AutoDiscard, Places
<1>14. CASE AutoKnock(a)
  BY <1>4, <1>6, <1>14 DEF AutoKnock, Places
<1>. QED
  BY <1>7, <1>8, <1>9, <1>10, <1>11, <1>12, <1>13, <1>14 DEF AutoStep

LEMMA AfterTypes ==
  ASSUME TypeInv, NEW x \in Procs, AfterStep(x) PROVE TypeInv'
<1>1. /\ task \in [Autos -> Task] /\ clock \in {"off", "full", "bot"}
      /\ online \in [Players -> BOOLEAN] /\ botMode \in [Players -> BOOLEAN]
      /\ {"idle", "recheck"} \subseteq Places /\ "finish" \in Ending
  BY DEF TypeInv, Places, Ending
<1>2. CASE Arm(x)
  <2>1. Return(x) /\ clock' \in {"off", "full", "bot"} /\ UNCHANGED <<flowVars, online, botMode>>
    BY <1>1, <1>2 DEF Arm
  <2>. QED
    BY <1>1, <2>1, ReturnTypes, MoveTypes
<1>3. CASE Cancel(x)
  BY <1>1, <1>3, MoveTypes DEF Cancel
<1>4. CASE Finish(x)
  <2>1. phase' = "none" /\ UNCHANGED <<turn, firstMove, held, deck, pile, tabled, roomVars>>
    BY <1>4 DEF Finish
  <2>2. /\ task' \in [Autos -> Task]
        /\ \/ pc' = [pc EXCEPT ![x] = "idle"]
           \/ x \notin Players /\ pc' = [pc EXCEPT ![x] = "recheck"]
    <3>1. CASE Return(x)
      BY <3>1, ReturnTypes
    <3>2. CASE x \in Autos /\ pc' = [pc EXCEPT ![x] = "recheck"] /\ UNCHANGED task
      BY <1>1, <3>2, ClockAssumption
    <3>. QED
      BY <1>4, <3>1, <3>2 DEF Finish
  <2>3. /\ pc' \in [Procs -> Places \cup Ending]
        /\ \A p \in Players : pc'[p] \in {"idle", "arm", "cancel", "finish"}
    BY <1>1, <2>2 DEF TypeInv, Procs
  <2>4. CardsAddUp'
    BY <2>1 DEF TypeInv, CardsAddUp
  <2>. QED
    BY <2>1, <2>2, <2>3, <2>4 DEF TypeInv, Phases, roomVars
<1>. QED
  BY <1>2, <1>3, <1>4 DEF AfterStep

LEMMA NextTypeInv == TypeInv /\ [Next]_vars => TypeInv'
<1> SUFFICES ASSUME TypeInv, [Next]_vars PROVE TypeInv'
  OBVIOUS
<1>1. CASE UNCHANGED vars
  BY <1>1 DEF vars, flowVars, TypeInv, CardsAddUp
<1>2. CASE Next
  BY <1>2, ClientTypes, AutoTypes, AfterTypes DEF Next
<1>. QED
  BY <1>1, <1>2

LEMMA TypeInvInit == RoomInit => TypeInv
<1> SUFFICES ASSUME RoomInit PROVE TypeInv
  OBVIOUS
<1>1. 0 \in Players /\ held = [p \in Players |-> 0] /\ deck = 0 /\ pile = 0 /\ NumCards \in Nat
  BY FlowAssumption DEF RoomInit, Players
<1>2. InHands(held) = {}
  BY <1>1 DEF InHands
<1>3. CardsAddUp
  BY <1>1, <1>2, FS_EmptySet DEF CardsAddUp
<1>4. pc \in [Procs -> Places \cup Ending] /\ \A p \in Players : pc[p] = "idle"
  BY DEF RoomInit, Procs, Places, Ending
<1>5. task \in [Autos -> Task]
  BY NoTaskType DEF RoomInit
<1>. QED
  BY <1>1, <1>3, <1>4, <1>5 DEF RoomInit, TypeInv, Phases

(* A goroutine of the auto-player is only where the code can be, and the   *)
(* counts of cards stay within the deck, whatever the interleaving.        *)
THEOREM RoomTypeCorrect == MCSpec => []TypeOK
<1>1. TypeInv => TypeOK
  <2> SUFFICES ASSUME TypeInv PROVE TypeOK
    OBVIOUS
  <2>1. /\ held \in [Players -> Nat] /\ deck \in Nat /\ pile \in Nat
        /\ Cardinality(InHands(held)) \in Nat
        /\ Cardinality(InHands(held)) + deck + pile <= NumCards
        /\ NumCards \in Nat
    BY FS_CardinalityType, FlowAssumption DEF TypeInv, CardsAddUp
  <2>2. deck \in 0..NumCards /\ pile \in 0..NumCards
    BY <2>1
  <2>3. \A p \in Players : held[p] \in 0..NumCards
    <3> SUFFICES ASSUME NEW p \in Players PROVE held[p] \in 0..NumCards
      OBVIOUS
    <3>1. held[p] \in Nat /\ held[p] <= Cardinality(InHands(held))
      BY <2>1, HandChanges DEF TypeInv, CardsAddUp
    <3>. QED
      BY <2>1, <3>1
  <2>4. held \in [Players -> 0..NumCards]
    BY <2>1, <2>3
  <2>5. \A a \in Autos : pc[a] \in Places \cup Ending
    BY DEF TypeInv, Procs
  <2>. QED
    BY <2>2, <2>4, <2>5 DEF TypeInv, TypeOK, Phases, Places, Ending
<1>. QED
  BY <1>1, TypeInvInit, NextTypeInv, PTL DEF MCSpec

-----------------------------------------------------------------------------
(* A room left to its clocks at level "easy": what RoundPlaysOut needs     *)
(* besides fairness. There is always one that drives the round, it is      *)
(* where it can act, and whatever anybody does brings the end nearer.      *)
(* Others may be left over from a round before, with a look at the room or *)
(* a discard to come; they may even play for the seat on turn, but need    *)
(* not.                                                                    *)

Turning == {"arm", "fired", "draw", "cancel", "finish"}

(* It is about to discard for the seat on turn, or to choose the card.     *)
Plays(a) ==
  /\ task[a].seat = turn
  /\ \/ pc[a] = "recheck"
     \/ pc[a] = "discard" /\ task[a].fresh

(* Who drives a round that is on: its clock, or the one goroutine that     *)
(* goes from turn to turn, or in the meld phase the seat's auto-player.    *)
Driven ==
  /\ phase = "none" => clock = "off"
  /\ phase = "meld" => clock = "off" /\ \E a \in Autos : Plays(a)
  /\ phase \in {"draw", "round_over"} => clock # "off" \/ \E x \in Procs : pc[x] \in Turning

(* It is the only one, and where the engine takes its action.              *)
InPlace ==
  /\ clock # "off" => phase = "draw"
  /\ \A x \in Procs :
       pc[x] \in Turning =>
         /\ clock = "off"
         /\ \A y \in Procs : pc[y] \in Turning => x = y
         /\ phase = IF pc[x] \in Ending THEN "round_over" ELSE "draw"
  /\ \A a \in Autos : /\ pc[a] \notin {"think", "lay", "knock"}
                      /\ pc[a] = "draw" => turn = task[a].seat

HandsLeft ==
  /\ phase # "none" => \A p \in Players : held[p] > 0
  /\ phase = "meld" => held[turn] > 1

AwayInv == TypeInv /\ Driven /\ InPlace /\ HandsLeft

(* How many steps are left of a round, at most: seven for each card that   *)
(* is still in the deck, those of the turn, and those of the auto-players  *)
(* at work in the meld phase, or left over.                                *)
At(s) == {a \in Autos : pc[a] = s}
Load == 2 * Cardinality(At("recheck")) + Cardinality(At("discard"))
Weight(s) == CASE s = "recheck" -> 2 [] s = "discard" -> 1 [] OTHER -> 0

Rank(s) == CASE s = "arm" -> 5 [] s = "fired" -> 3 [] s = "draw" -> 2
             [] s = "cancel" -> 1 [] OTHER -> 0
Turner == CHOOSE x \in Procs : pc[x] \in Turning
Stage ==
  IF phase = "meld" THEN 6 ELSE IF clock # "off" THEN 4 ELSE Rank(pc[Turner])
StepsLeft == 7 * deck + Stage + Load

GetsOn == phase' = "none" \/ StepsLeft' < StepsLeft

LEMMA AwayNumbers ==
  ASSUME AwayInv
  PROVE  /\ deck \in Nat /\ turn \in Players /\ held \in [Players -> Nat]
         /\ pc \in [Procs -> Places \cup Ending] /\ task \in [Autos -> Task]
         /\ Autos \cap Players = {} /\ Autos \subseteq Procs /\ Players \subseteq Procs
         /\ \A p \in Players : pc[p] \in {"idle", "arm", "cancel", "finish"}
         /\ phase \in Phases
BY ClockAssumption DEF AwayInv, TypeInv, CardsAddUp, Procs

LEMMA LoadType == ASSUME IsFiniteSet(Autos) PROVE Load \in Nat
<1>1. ASSUME NEW s PROVE Cardinality(At(s)) \in Nat
  BY FS_Subset, FS_CardinalityType DEF At
<1>2. Cardinality(At("recheck")) \in Nat /\ Cardinality(At("discard")) \in Nat
  BY <1>1
<1>. QED
  BY <1>2 DEF Load

(* One goroutine more, or less, at a place.                                *)
LEMMA OneMoreAt ==
  ASSUME NEW S, IsFiniteSet(S), NEW a, NEW T, NEW comes \in {0, 1}, NEW leaves \in {0, 1},
         leaves = 1 <=> a \in S,
         T = IF comes = 1 THEN S \cup {a} ELSE S \ {a}
  PROVE  Cardinality(T) = (Cardinality(S) - leaves) + comes
<1>1. Cardinality(S) \in Nat
  BY FS_CardinalityType
<1>2. Cardinality(S \cup {a}) = IF a \in S THEN Cardinality(S) ELSE Cardinality(S) + 1
  BY FS_AddElement
<1>3. Cardinality(S \ {a}) = IF a \in S THEN Cardinality(S) - 1 ELSE Cardinality(S)
  BY FS_RemoveElement
<1>. QED
  BY <1>1, <1>2, <1>3

LEMMA LoadMoves ==
  ASSUME IsFiniteSet(Autos), AwayInv, NEW a \in Autos, NEW to, pc' = [pc EXCEPT ![a] = to]
  PROVE  Load' = (Load - Weight(pc[a])) + Weight(to)
<1>1. ASSUME NEW s PROVE IsFiniteSet(At(s)) /\ Cardinality(At(s)) \in Nat
  BY FS_Subset, FS_CardinalityType DEF At
<1>2. /\ Cardinality(At("recheck")) \in Nat /\ Cardinality(At("discard")) \in Nat
      /\ IsFiniteSet(At("recheck")) /\ IsFiniteSet(At("discard"))
  BY <1>1
<1>3. /\ Cardinality(At("recheck"))'
           = (Cardinality(At("recheck")) - (IF pc[a] = "recheck" THEN 1 ELSE 0))
               + (IF to = "recheck" THEN 1 ELSE 0)
      /\ Cardinality(At("discard"))'
           = (Cardinality(At("discard")) - (IF pc[a] = "discard" THEN 1 ELSE 0))
               + (IF to = "discard" THEN 1 ELSE 0)
  <2>1. pc'[a] = to /\ \A b \in Autos : b # a => pc'[b] = pc[b]
    BY AwayNumbers
  <2>. DEFINE S == At("recheck")
              T == At("recheck")'
              X == At("discard")
              Y == At("discard")'
              comes(s) == IF to = s THEN 1 ELSE 0
              leaves(s) == IF pc[a] = s THEN 1 ELSE 0
  <2>2. /\ leaves("recheck") = 1 <=> a \in S
        /\ T = IF comes("recheck") = 1 THEN S \cup {a} ELSE S \ {a}
    BY <2>1 DEF At
  <2>3. /\ leaves("discard") = 1 <=> a \in X
        /\ Y = IF comes("discard") = 1 THEN X \cup {a} ELSE X \ {a}
    BY <2>1 DEF At
  <2>4. /\ comes("recheck") \in {0, 1} /\ leaves("recheck") \in {0, 1}
        /\ comes("discard") \in {0, 1} /\ leaves("discard") \in {0, 1}
        /\ IsFiniteSet(S) /\ IsFiniteSet(X)
    BY <1>2
  <2>. HIDE DEF S, T, X, Y, comes, leaves
  <2>5. /\ Cardinality(T) = (Cardinality(S) - leaves("recheck")) + comes("recheck")
        /\ Cardinality(Y) = (Cardinality(X) - leaves("discard")) + comes("discard")
    BY <2>2, <2>3, <2>4, OneMoreAt
  <2>. QED
    BY <2>5 DEF S, T, X, Y, comes, leaves
<1>. DEFINE r == Cardinality(At("recheck"))
            d == Cardinality(At("discard"))
<1>4. Load = 2 * r + d /\ Load' = 2 * r' + d'
  BY DEF Load
<1>. HIDE DEF r, d
<1>5. /\ r \in Nat /\ d \in Nat
      /\ r' = (r - (IF pc[a] = "recheck" THEN 1 ELSE 0)) + (IF to = "recheck" THEN 1 ELSE 0)
      /\ d' = (d - (IF pc[a] = "discard" THEN 1 ELSE 0)) + (IF to = "discard" THEN 1 ELSE 0)
  BY <1>2, <1>3 DEF r, d
<1>6. Load' - Load = (2 * ((IF to = "recheck" THEN 1 ELSE 0) - (IF pc[a] = "recheck" THEN 1 ELSE 0)))
                       + ((IF to = "discard" THEN 1 ELSE 0) - (IF pc[a] = "discard" THEN 1 ELSE 0))
  BY <1>4, <1>5
<1>. QED
  BY <1>4, <1>5, <1>6 DEF Weight

(* A player's handler counts for nothing.                                  *)
LEMMA LoadStays ==
  ASSUME AwayInv, NEW p \in Players, NEW to, pc' = [pc EXCEPT ![p] = to]
  PROVE  Load' = Load
<1>1. \A s : At(s)' = At(s)
  BY AwayNumbers DEF At
<1>. QED
  BY <1>1 DEF Load

(* The goroutine that goes from turn to turn, and how far it has got.      *)
LEMMA TurnerIs ==
  ASSUME AwayInv, NEW x \in Procs, pc[x] \in Turning
  PROVE  /\ clock = "off" /\ phase = IF pc[x] \in Ending THEN "round_over" ELSE "draw"
         /\ Stage = Rank(pc[x]) /\ \A y \in Procs \ {x} : pc[y] \notin Turning
<1>1. /\ clock = "off" /\ phase = IF pc[x] \in Ending THEN "round_over" ELSE "draw"
      /\ \A y \in Procs : pc[y] \in Turning => x = y
  BY DEF AwayInv, InPlace
<1>2. Turner = x
  BY <1>1 DEF Turner
<1>. QED
  BY <1>1, <1>2 DEF Stage

(* Nobody does while the clock runs, a seat is in its meld phase or no     *)
(* round is on.                                                            *)
LEMMA NobodyTurns ==
  ASSUME AwayInv, clock # "off" \/ phase \in {"none", "meld"}
  PROVE  \A x \in Procs : pc[x] \notin Turning
BY DEF AwayInv, InPlace

(* x is the one from now on that goes from turn to turn.                   *)
LEMMA TurnerMoves ==
  ASSUME AwayInv, NEW x \in Procs, \A y \in Procs \ {x} : pc[y] \notin Turning,
         NEW to \in Turning, pc' = [pc EXCEPT ![x] = to], clock' = "off",
         phase' = IF to \in Ending THEN "round_over" ELSE "draw",
         turn' = turn \/ to # "draw",
         to = "draw" => x \in Autos /\ task'[x].seat = turn
  PROVE  Driven' /\ InPlace' /\ Stage' = Rank(to)
<1>1. /\ pc'[x] = to /\ \A y \in Procs \ {x} : pc'[y] = pc[y]
      /\ \A y \in Procs \ {x} : pc'[y] \notin Turning
  BY AwayNumbers
<1>2. phase' \in {"draw", "round_over"} /\ "draw" \in Turning
  BY DEF Turning
<1>3. Driven'
  BY <1>1, <1>2 DEF Driven
<1>4. {"think", "lay", "knock"} \cap Turning = {}
  BY DEF Turning
<1>5. InPlace'
  <2>1. ASSUME NEW y \in Procs, pc'[y] \in Turning PROVE y = x
    BY <1>1, <2>1
  <2>2. ASSUME NEW a \in Autos
        PROVE  pc'[a] \notin {"think", "lay", "knock"} /\ (pc'[a] = "draw" => turn' = task'[a].seat)
    <3>1. CASE a = x
      BY <1>1, <1>4, <3>1
    <3>2. CASE a # x
      BY <1>1, <1>2, <3>2, AwayNumbers DEF AwayInv, InPlace
    <3>. QED
      BY <3>1, <3>2
  <2>. QED
    BY <1>1, <2>1, <2>2 DEF InPlace
<1>6. Turner' = x
  BY <1>1 DEF Turner
<1>. QED
  BY <1>1, <1>2, <1>3, <1>5, <1>6 DEF Stage

(* A goroutine that is none of those stays none of those.                  *)
LEMMA OthersMove ==
  ASSUME AwayInv, NEW a \in Autos, pc[a] \notin Turning, NEW to \in {"idle", "recheck", "discard"},
         pc' = [pc EXCEPT ![a] = to], UNCHANGED <<flowVars, clock>>,
         \A b \in Autos : b # a => task'[b] = task[b],
         phase = "meld" /\ Plays(a) => Plays(a)'
  PROVE  Driven' /\ InPlace' /\ HandsLeft' /\ (phase # "none" => Stage' = Stage)
<1>1. /\ pc'[a] = to /\ \A y \in Procs \ {a} : pc'[y] = pc[y]
      /\ UNCHANGED <<phase, turn, held, clock>>
  BY AwayNumbers DEF flowVars
<1>2. to \notin Turning /\ to \notin {"think", "lay", "knock", "draw"} /\ "draw" \in Turning
  BY DEF Turning
<1>3. \A y \in Procs : /\ pc'[y] \in Turning <=> pc[y] \in Turning
                       /\ pc[y] \in Turning => pc'[y] = pc[y]
  BY <1>1, <1>2
<1>4. Driven'
  <2>1. \A b \in Autos : phase = "meld" /\ Plays(b) => Plays(b)'
    BY <1>1, AwayNumbers DEF Plays
  <2>. QED
    BY <1>1, <1>3, <2>1 DEF AwayInv, Driven
<1>5. InPlace'
  <2>1. \A b \in Autos : b # a => pc'[b] = pc[b] /\ task'[b] = task[b]
    BY <1>1, AwayNumbers
  <2>. QED
    BY <1>1, <1>2, <1>3, <2>1 DEF AwayInv, InPlace
<1>6. HandsLeft'
  BY <1>1 DEF AwayInv, HandsLeft
<1>7. phase # "none" => Stage' = Stage
  <2>1. CASE phase = "meld" \/ clock # "off"
    BY <1>1, <2>1 DEF Stage
  <2>2. CASE phase # "meld" /\ \E x \in Procs : pc[x] \in Turning
    <3>1. PICK x \in Procs : pc[x] \in Turning
      BY <2>2
    <3>2. \A y \in Procs \ {x} : pc[y] \notin Turning
      BY <3>1, TurnerIs
    <3>3. Turner = x
      BY <3>1, <3>2 DEF Turner
    <3>4. Turner' = x
      BY <1>3, <3>1, <3>2 DEF Turner
    <3>. QED
      BY <1>1, <1>3, <3>1, <3>3, <3>4 DEF Stage
  <2>. QED
    BY <2>1, <2>2, AwayNumbers DEF AwayInv, Driven, Phases
<1>. QED
  BY <1>4, <1>5, <1>6, <1>7

LEMMA StartAway ==
  ASSUME AwayInv, NEW p \in Players, Start(p)
  PROVE  Driven' /\ InPlace' /\ HandsLeft' /\ phase = "none"
<1>1. /\ phase = "none" /\ phase' = "draw" /\ clock' = clock
      /\ pc' = [pc EXCEPT ![p] = "arm"] /\ held' = [q \in Players |-> HandSize]
  BY DEF Start, Deal, roomVars, AllHoldAHand
<1>2. p \in Procs /\ clock = "off" /\ \A y \in Procs : pc[y] \notin Turning
  BY <1>1, NobodyTurns, AwayNumbers DEF AwayInv, Driven
<1>3. "arm" \in Turning /\ "arm" \notin Ending
  BY DEF Turning, Ending
<1>4. Driven' /\ InPlace'
  BY <1>1, <1>2, <1>3, TurnerMoves
<1>5. HandsLeft'
  BY <1>1, FlowAssumption DEF HandsLeft
<1>. QED
  BY <1>1, <1>4, <1>5

LEMMA DetachAway ==
  ASSUME AwayInv, NEW p \in Players, Detach(p)
  PROVE  Driven' /\ InPlace' /\ HandsLeft' /\ online' # online
<1>1. UNCHANGED <<flowVars, clock, pc, task>> /\ online[p] /\ online' = [online EXCEPT ![p] = FALSE]
  BY DEF Detach
<1>2. online' # online
  BY <1>1 DEF AwayInv, TypeInv
<1>. QED
  BY <1>1, <1>2 DEF AwayInv, Driven, InPlace, HandsLeft, Plays, flowVars

(* The goroutine that goes from turn to turn takes its next step.          *)
LEMMA TurnerGetsOn ==
  ASSUME IsFiniteSet(Autos), AwayInv, NEW x \in Procs, \A y \in Procs \ {x} : pc[y] \notin Turning,
         NEW to \in Turning, pc' = [pc EXCEPT ![x] = to], clock' = "off",
         phase' = IF to \in Ending THEN "round_over" ELSE "draw",
         turn' = turn \/ to # "draw",
         to = "draw" => x \in Autos /\ task'[x].seat = turn,
         deck' = deck, Rank(to) < Stage
  PROVE  Driven' /\ InPlace' /\ GetsOn
<1>1. Driven' /\ InPlace' /\ Stage' = Rank(to)
  BY TurnerMoves
<1>2. Load' <= Load /\ Load' \in Nat /\ Load \in Nat
  <2>1. CASE x \in Autos
    <3>1. Load' = (Load - Weight(pc[x])) + Weight(to)
      BY <2>1, LoadMoves
    <3>2. Weight(to) = 0 /\ Weight(pc[x]) \in {0, 1, 2}
      BY DEF Weight, Turning
    <3>3. Load \in Nat
      BY LoadType
    <3>4. Load' \in Nat
      <4>1. \A s : IsFiniteSet(At(s)') /\ Cardinality(At(s)') \in Nat
        BY FS_Subset, FS_CardinalityType DEF At
      <4>2. Cardinality(At("recheck")') \in Nat /\ Cardinality(At("discard")') \in Nat
        BY <4>1
      <4>. QED
        BY <4>2 DEF Load
    <3>. QED
      BY <3>1, <3>2, <3>3, <3>4
  <2>2. CASE x \in Players
    <3>1. Load' = Load
      BY <2>2, LoadStays
    <3>. QED
      BY <3>1, LoadType
  <2>. QED
    BY <2>1, <2>2 DEF Procs
<1>3. Stage \in Nat /\ Rank(to) \in Nat /\ deck \in Nat
  BY AwayNumbers DEF Stage, Rank
<1>. QED
  BY <1>1, <1>2, <1>3 DEF GetsOn, StepsLeft

LEMMA ExpireAway ==
  ASSUME IsFiniteSet(Autos), AwayInv, NEW a \in Autos, Expire(a)
  PROVE  Driven' /\ InPlace' /\ HandsLeft' /\ GetsOn
<1>1. /\ clock # "off" /\ clock' = "off" /\ pc' = [pc EXCEPT ![a] = "fired"]
      /\ UNCHANGED <<phase, deck, held, turn>>
  BY DEF Expire, flowVars
<1>2. a \in Procs /\ phase = "draw" /\ \A y \in Procs : pc[y] \notin Turning
  BY <1>1, NobodyTurns, AwayNumbers DEF AwayInv, InPlace
<1>3. "fired" \in Turning /\ "fired" \notin Ending /\ Rank("fired") < Stage
  BY <1>1, <1>2 DEF Turning, Ending, Rank, Stage
<1>4. Driven' /\ InPlace' /\ GetsOn
  BY <1>1, <1>2, <1>3, TurnerGetsOn
<1>5. HandsLeft'
  BY <1>1 DEF AwayInv, HandsLeft
<1>. QED
  BY <1>4, <1>5

(* One left over goes on, and leaves the turn to the others.               *)
LEMMA OtherGetsOn ==
  ASSUME IsFiniteSet(Autos), AwayInv, NEW a \in Autos, pc[a] \in {"recheck", "discard"},
         NEW to \in {"idle", "discard"}, pc[a] # to,
         pc' = [pc EXCEPT ![a] = to], UNCHANGED <<flowVars, clock>>,
         \A b \in Autos : b # a => task'[b] = task[b],
         phase = "meld" /\ Plays(a) => Plays(a)'
  PROVE  Driven' /\ InPlace' /\ HandsLeft' /\ GetsOn
<1>1. pc[a] \notin Turning
  BY DEF Turning
<1>2. Driven' /\ InPlace' /\ HandsLeft' /\ (phase # "none" => Stage' = Stage)
  BY <1>1, OthersMove
<1>3. Load' = (Load - Weight(pc[a])) + Weight(to) /\ Load \in Nat
  BY LoadMoves, LoadType
<1>4. Weight(to) < Weight(pc[a]) /\ Weight(to) \in Nat /\ Weight(pc[a]) \in Nat
  BY DEF Weight
<1>5. Stage \in Nat /\ deck \in Nat /\ deck' = deck /\ phase' = phase
  BY AwayNumbers DEF Stage, Rank, flowVars
<1>. QED
  BY <1>2, <1>3, <1>4, <1>5 DEF GetsOn, StepsLeft

LEMMA AutoAway ==
  ASSUME Level = "easy", IsFiniteSet(Autos), AwayInv, NEW a \in Autos, AutoStep(a)
  PROVE  Driven' /\ InPlace' /\ HandsLeft' /\ GetsOn
<1>1. /\ deck \in Nat /\ turn \in Players /\ held \in [Players -> Nat] /\ a \in Procs
      /\ pc \in [Procs -> Places \cup Ending] /\ task \in [Autos -> Task]
  BY AwayNumbers
<1>2. HandsLeft /\ Driven /\ InPlace
  BY DEF AwayInv
<1>3. CASE Begin(a)
  <2>1. pc[a] \in Turning /\ pc[a] \notin Ending /\ pc[a] = "fired" /\ "draw" \in Turning \ Ending
    BY <1>3 DEF Begin, Turning, Ending
  <2>2. /\ phase = "draw" /\ clock = "off" /\ Stage = 3
        /\ \A y \in Procs \ {a} : pc[y] \notin Turning
    BY <1>1, <2>1, TurnerIs DEF Rank
  <2>3. /\ pc' = [pc EXCEPT ![a] = "draw"]
        /\ task' = [task EXCEPT ![a] = [NoTask EXCEPT !.seat = turn, !.then = "recheck"]]
        /\ UNCHANGED <<flowVars, clock>>
    BY <1>3, <2>2 DEF Begin, InTurn
  <2>4. task'[a].seat = turn
    BY <1>1, <2>3 DEF NoTask
  <2>5. Rank("draw") < Stage
    BY <2>2 DEF Rank
  <2>6. Driven' /\ InPlace' /\ GetsOn
    BY <1>1, <2>1, <2>2, <2>3, <2>4, <2>5, TurnerGetsOn DEF flowVars
  <2>7. HandsLeft'
    BY <1>2, <2>3 DEF HandsLeft, flowVars
  <2>. QED
    BY <2>6, <2>7
<1>4. CASE AutoDraw(a)
  <2>1. pc[a] \in Turning /\ pc[a] \notin Ending /\ pc[a] = "draw" /\ clock' = clock
    BY <1>4 DEF AutoDraw, Turning, Ending, roomVars
  <2>2. /\ phase = "draw" /\ clock = "off" /\ Stage = 2 /\ turn = task[a].seat
        /\ \A y \in Procs \ {a} : pc[y] \notin Turning
    BY <1>1, <1>2, <2>1, TurnerIs DEF Rank, InPlace
  <2>3. Draw(turn) /\ GoOn(a, "recheck")
    BY <1>4, <2>2 DEF AutoDraw
  <2>4. turn' = turn /\ task'[a].seat = task[a].seat
    BY <1>1, <2>3 DEF Draw, GoOn, Task
  <2>5. CASE deck = 0 /\ phase' = "round_over" /\ UNCHANGED <<held, deck>>
    <3>1. pc' = [pc EXCEPT ![a] = "cancel"]
      BY <2>3, <2>5 DEF GoOn
    <3>2. "cancel" \in Turning /\ "cancel" \in Ending /\ Rank("cancel") < Stage
      BY <2>2 DEF Turning, Ending, Rank
    <3>3. Driven' /\ InPlace' /\ GetsOn
      BY <1>1, <2>1, <2>2, <2>4, <2>5, <3>1, <3>2, TurnerGetsOn
    <3>4. HandsLeft'
      BY <1>2, <2>2, <2>5 DEF HandsLeft
    <3>. QED
      BY <3>3, <3>4
  <2>6. CASE deck > 0 /\ deck' = deck - 1 /\ held' = [held EXCEPT ![turn] = @ + 1] /\ phase' = "meld"
    <3>1. pc' = [pc EXCEPT ![a] = "recheck"]
      BY <2>3, <2>6 DEF GoOn
    <3>2. pc'[a] = "recheck" /\ \A y \in Procs : pc'[y] \notin Turning
      BY <1>1, <2>2, <3>1 DEF Turning
    <3>3. Driven'
      BY <2>1, <2>2, <2>4, <2>6, <3>2 DEF Driven, Plays
    <3>4. InPlace'
      <4>1. \A b \in Autos : pc'[b] \notin {"think", "lay", "knock"}
        BY <1>1, <1>2, <3>1 DEF InPlace
      <4>2. \A b \in Autos : pc'[b] # "draw"
        BY <3>2, AwayNumbers DEF Turning
      <4>. QED
        BY <2>1, <2>2, <3>2, <4>1, <4>2 DEF InPlace
    <3>5. HandsLeft'
      BY <1>1, <1>2, <2>2, <2>4, <2>6 DEF HandsLeft
    <3>6. Load' = (Load - Weight("draw")) + Weight("recheck") /\ Load \in Nat
      BY <2>1, <3>1, LoadMoves, LoadType
    <3>7. Weight("draw") = 0 /\ Weight("recheck") = 2 /\ Stage' = 6
      BY <2>6 DEF Weight, Stage
    <3>. QED
      BY <1>1, <2>2, <2>6, <3>3, <3>4, <3>5, <3>6, <3>7 DEF GetsOn, StepsLeft
  <2>. QED
    BY <2>3, <2>5, <2>6 DEF Draw
<1>5. CASE Recheck(a)
  <2>1. pc[a] = "recheck" /\ UNCHANGED <<flowVars, clock>>
    BY <1>5 DEF Recheck, roomVars
  <2>2. CASE phase = "meld" /\ turn = task[a].seat /\ held[turn] > 0
    <3>1. PlayOn(a, task[a].seat)
      BY <1>5, <2>2 DEF Recheck
    <3>2. /\ pc' = [pc EXCEPT ![a] = "discard"] /\ task'[a].seat = turn /\ task'[a].fresh
          /\ \A b \in Autos : b # a => task'[b] = task[b]
      BY <1>1, <2>2, <3>1 DEF PlayOn, NoTask
    <3>3. Plays(a)'
      BY <1>1, <2>1, <3>2 DEF Plays, flowVars
    <3>. QED
      BY <2>1, <3>2, <3>3, OtherGetsOn
  <2>3. CASE ~(phase = "meld" /\ turn = task[a].seat /\ held[turn] > 0)
    <3>1. Return(a)
      BY <1>5, <2>3 DEF Recheck
    <3>2. /\ pc' = [pc EXCEPT ![a] = "idle"] /\ \A b \in Autos : b # a => task'[b] = task[b]
      BY <3>1 DEF Return
    <3>3. ~(phase = "meld" /\ Plays(a))
      BY <1>1, <1>2, <2>3 DEF Plays, HandsLeft
    <3>. QED
      BY <2>1, <3>2, <3>3, OtherGetsOn
  <2>. QED
    BY <2>2, <2>3
<1>6. CASE AutoDiscard(a)
  <2>1. pc[a] = "discard" /\ clock' = clock
    BY <1>6 DEF AutoDiscard, roomVars
  <2>2. CASE Discard(task[a].seat) /\ GoOn(a, "idle")
    <3>1. /\ phase = "meld" /\ turn = task[a].seat /\ phase' = "draw" /\ deck' = deck
          /\ held' = [held EXCEPT ![turn] = @ - 1]
      BY <2>2 DEF Discard
    <3>2. pc' = [pc EXCEPT ![a] = "arm"]
      BY <2>2, <3>1 DEF GoOn
    <3>3. clock = "off" /\ Stage = 6 /\ \A y \in Procs : pc[y] \notin Turning
      BY <1>2, <3>1, NobodyTurns DEF Driven, Stage
    <3>4. "arm" \in Turning /\ "arm" \notin Ending /\ Rank("arm") < Stage
      BY <3>3 DEF Turning, Ending, Rank
    <3>5. Driven' /\ InPlace' /\ GetsOn
      BY <1>1, <2>1, <3>1, <3>2, <3>3, <3>4, TurnerGetsOn
    <3>6. HandsLeft'
      BY <1>1, <1>2, <3>1 DEF HandsLeft
    <3>. QED
      BY <3>5, <3>6
  <2>3. CASE Rejected(a) /\ Return(a) /\ UNCHANGED flowVars
    <3>1. /\ pc' = [pc EXCEPT ![a] = "idle"] /\ \A b \in Autos : b # a => task'[b] = task[b]
      BY <2>3 DEF Return
    <3>2. ~(phase = "meld" /\ Plays(a))
      BY <1>1, <1>2, <2>1, <2>3 DEF Plays, Rejected, HandsLeft
    <3>. QED
      BY <2>1, <2>3, <3>1, <3>2, OtherGetsOn
  <2>. QED
    BY <1>6, <2>2, <2>3 DEF AutoDiscard
<1>7. ~Think(a) /\ ~AutoLay(a) /\ ~AutoKnock(a)
  BY <1>2 DEF Think, AutoLay, AutoKnock, InPlace
<1>. QED
  BY <1>3, <1>4, <1>5, <1>6, <1>7 DEF AutoStep

LEMMA AfterAway ==
  ASSUME IsFiniteSet(Autos), AwayInv, NEW x \in Procs, AfterStep(x)
  PROVE  Driven' /\ InPlace' /\ HandsLeft' /\ GetsOn
<1>1. /\ deck \in Nat /\ pc \in [Procs -> Places \cup Ending]
      /\ HandsLeft /\ Driven /\ InPlace
  BY AwayNumbers DEF AwayInv
<1>2. pc[x] \in {"arm", "cancel", "finish"} /\ pc[x] \in Turning
  BY DEF AfterStep, Arm, Cancel, Finish, Turning
<1>3. /\ clock = "off" /\ phase = (IF pc[x] \in Ending THEN "round_over" ELSE "draw")
      /\ Stage = Rank(pc[x]) /\ \A y \in Procs \ {x} : pc[y] \notin Turning
  BY <1>2, TurnerIs
<1>4. ASSUME NEW to \in {"idle", "recheck"}, pc' = [pc EXCEPT ![x] = to],
             to = "recheck" => x \in Autos
      PROVE  /\ \A y \in Procs : pc'[y] \notin Turning
             /\ \A b \in Autos : pc'[b] \notin {"think", "lay", "knock", "draw"}
  <2>1. \A y \in Procs : pc'[y] \notin Turning
    BY <1>1, <1>3, <1>4 DEF Turning
  <2>2. \A b \in Autos : pc'[b] \notin {"think", "lay", "knock"}
    BY <1>1, <1>4 DEF InPlace
  <2>3. \A b \in Autos : pc'[b] # "draw"
    BY <2>1, AwayNumbers DEF Turning
  <2>. QED
    BY <2>1, <2>2, <2>3
<1>5. CASE Arm(x)
  <2>1. /\ phase = "draw" /\ clock' # "off" /\ pc' = [pc EXCEPT ![x] = "idle"]
        /\ Stage = 5 /\ UNCHANGED flowVars
    BY <1>3, <1>5 DEF Arm, Return, InTurn, Ending, Rank
  <2>2. /\ \A y \in Procs : pc'[y] \notin Turning
        /\ \A b \in Autos : pc'[b] \notin {"think", "lay", "knock", "draw"}
    BY <1>4, <2>1
  <2>3. Driven' /\ InPlace' /\ HandsLeft' /\ Stage' = 4 /\ deck' = deck
    BY <1>1, <2>1, <2>2 DEF Driven, InPlace, HandsLeft, Stage, flowVars
  <2>4. Load' = Load /\ Load \in Nat
    <3>1. CASE x \in Players
      BY <2>1, <3>1, LoadStays, LoadType
    <3>2. CASE x \in Autos
      <4>1. pc[x] = "arm"
        BY <1>5 DEF Arm
      <4>2. Load' = (Load - Weight("arm")) + Weight("idle") /\ Load \in Nat
        BY <2>1, <3>2, <4>1, LoadMoves, LoadType
      <4>. QED
        BY <4>2 DEF Weight
    <3>. QED
      BY <3>1, <3>2 DEF Procs
  <2>. QED
    BY <1>1, <2>1, <2>3, <2>4 DEF GetsOn, StepsLeft
<1>6. CASE Cancel(x)
  <2>1. /\ pc[x] = "cancel" /\ clock' = "off" /\ pc' = [pc EXCEPT ![x] = "finish"]
        /\ phase = "round_over" /\ UNCHANGED flowVars
    BY <1>3, <1>6 DEF Cancel, Ending
  <2>2. "finish" \in Turning /\ "finish" \in Ending /\ Rank("finish") < Stage
    BY <1>3, <2>1 DEF Turning, Ending, Rank
  <2>3. Driven' /\ InPlace' /\ GetsOn
    BY <1>3, <2>1, <2>2, TurnerGetsOn DEF flowVars
  <2>4. HandsLeft'
    BY <1>1, <2>1 DEF HandsLeft, flowVars
  <2>. QED
    BY <2>3, <2>4
<1>7. CASE Finish(x)
  <2>1. /\ phase' = "none" /\ clock' = clock
        /\ \/ pc' = [pc EXCEPT ![x] = "idle"]
           \/ x \in Autos /\ pc' = [pc EXCEPT ![x] = "recheck"]
    BY <1>7 DEF Finish, Return, roomVars
  <2>2. /\ \A y \in Procs : pc'[y] \notin Turning
        /\ \A b \in Autos : pc'[b] \notin {"think", "lay", "knock", "draw"}
    BY <1>4, <2>1
  <2>3. Driven' /\ InPlace' /\ HandsLeft'
    BY <1>3, <2>1, <2>2 DEF Driven, InPlace, HandsLeft
  <2>. QED
    BY <2>1, <2>3 DEF GetsOn
<1>. QED
  BY <1>5, <1>6, <1>7 DEF AfterStep

LEMMA AwayStep ==
  ASSUME Level = "easy", IsFiniteSet(Autos), AwayInv, [LeftAlone]_vars
  PROVE  AwayInv' /\ [phase # "none" /\ UNCHANGED online => GetsOn]_vars
<1>1. TypeInv'
  <2>1. LeftAlone => Next
    BY DEF LeftAlone, Next, Client
  <2>. QED
    BY <2>1, NextTypeInv DEF AwayInv
<1>2. CASE UNCHANGED vars
  BY <1>1, <1>2 DEF AwayInv, Driven, InPlace, HandsLeft, Plays, vars, flowVars
<1>3. CASE LeftAlone
  <2>1. Driven' /\ InPlace' /\ HandsLeft' /\ (phase # "none" /\ UNCHANGED online => GetsOn)
    BY <1>3, StartAway, DetachAway, ExpireAway, AutoAway, AfterAway DEF LeftAlone
  <2>. QED
    BY <1>1, <2>1 DEF AwayInv
<1>. QED
  BY <1>2, <1>3

LEMMA AwayStart == RoomInit => AwayInv
<1>. SUFFICES ASSUME RoomInit PROVE AwayInv
  OBVIOUS
<1>1. /\ phase = "none" /\ clock = "off" /\ \A x \in Procs : pc[x] = "idle"
      /\ Autos \subseteq Procs /\ "idle" \notin Turning
  BY DEF RoomInit, Procs, Turning
<1>2. TypeInv
  BY TypeInvInit
<1>. QED
  BY <1>1, <1>2 DEF AwayInv, Driven, InPlace, HandsLeft

(* At level "easy", whoever drops out: a round that is on is driven by its *)
(* clock or by a goroutine that goes from turn to turn, or in the meld     *)
(* phase by an auto-player of the seat on turn whose discard the engine    *)
(* takes; and nothing but one that may be left over from a round before    *)
(* works beside it (armTurnTimer, autoPlay, handleGameAction).             *)
THEOREM SomebodyGoesOn ==
  ASSUME Level = "easy", IsFiniteSet(Autos) PROVE AwaySpec => [](Driven /\ InPlace)
<1>1. AwayInv => Driven /\ InPlace
  BY DEF AwayInv
<1>2. AwayInv /\ [LeftAlone]_vars => AwayInv'
  BY AwayStep
<1>. QED
  BY <1>1, <1>2, AwayStart, PTL DEF AwaySpec

(* Each of their steps ends the round or brings its end nearer: no turn    *)
(* goes on for ever, and a round takes no more than StepsLeft steps.       *)
THEOREM RoundsRunOut ==
  ASSUME Level = "easy", IsFiniteSet(Autos)
  PROVE  AwaySpec => /\ [](phase # "none" => StepsLeft \in Nat)
                     /\ [][phase # "none" /\ UNCHANGED online => GetsOn]_vars
<1>1. AwayInv => (phase # "none" => StepsLeft \in Nat)
  <2>. SUFFICES ASSUME AwayInv, phase # "none" PROVE StepsLeft \in Nat
    OBVIOUS
  <2>1. Stage \in Nat
    BY DEF Stage, Rank
  <2>. QED
    BY <2>1, AwayNumbers, LoadType DEF StepsLeft
<1>2. AwayInv /\ [LeftAlone]_vars => AwayInv' /\ [phase # "none" /\ UNCHANGED online => GetsOn]_vars
  BY AwayStep
<1>. QED
  BY <1>1, <1>2, AwayStart, PTL DEF AwaySpec
=================================================================================
