---------------------------- MODULE AutoKnockSearch ----------------------------
(***************************************************************************)
(* The going-out solver as a program (game/autoknock.go): try every card   *)
(* of the hand as the knock card and split the rest by a recursive search  *)
(* that always places the first remaining card next. DummyRules says what  *)
(* a plan is (KnockPlans); here the search is checked against it: pinning  *)
(* the first card loses no plan, and what the search returns can be played *)
(* step by step.                                                           *)
(***************************************************************************)
EXTENDS HandAndTable

VARIABLE answer      (* NotAsked, or the plans the search can return       *)

searchVars == <<hand, table, answer>>
NotAsked == <<>>

OnTable == [kind: {"set", "run"}, cards: SUBSET Cards, owner: Nat, aceHigh: BOOLEAN]

(* The first of the cards that are left, in the order of the hand.         *)
FirstOf(h, left) ==
  h[CHOOSE i \in DOMAIN h : /\ h[i] \in left
                            /\ \A j \in DOMAIN h : h[j] \in left => i <= j]

(* The groups that a bit mask over the others can make with the pinned card. *)
Groups(pin, others) == {{pin} \cup G : G \in SUBSET others}

NewMelds(pin, others) == {G \in Groups(pin, others) : IsMeld(G)}

(* Mutant: the layoff loop tries the pinned card alone.                    *)
LayOffsOfOne(pin, others, melds) ==
  {s \in [meld: DOMAIN melds, cards: {{pin}}] : CanLayOff(melds[s.meld], s.cards)}

LayOffSteps(pin, others, melds) ==
  {s \in [meld: DOMAIN melds, cards: Groups(pin, others)] :
     CanLayOff(melds[s.meld], s.cards)}

Applied(melds, s) == [melds EXCEPT ![s.meld] = LaidOff(@, s.cards)]

WithMeld(G, rests) == {[sub EXCEPT !.groups = @ \cup {G}] : sub \in rests}

(* Mutant: a step comes after those that were found on its table.          *)
WithStepLast(s, rests) == {[sub EXCEPT !.steps = Append(@, s)] : sub \in rests}

WithStep(s, rests) == {[sub EXCEPT !.steps = <<s>> \o @] : sub \in rests}

(* One level of the search: new melds of the pinned card first, then       *)
(* layoffs, after which the search goes on with a table that has grown.    *)
(* Every split it can return; the code returns the first it meets.         *)
Placed(h, splits, left, melds) ==
  IF left = {}
  THEN {[groups |-> {}, steps |-> <<>>]}
  ELSE LET pin == FirstOf(h, left)
           others == left \ {pin} IN
       (UNION {WithMeld(G, splits[left \ G][melds]) : G \in NewMelds(pin, others)})
       \cup
       (UNION {WithStep(s, splits[left \ s.cards][Applied(melds, s)]) :
                 s \in LayOffSteps(pin, others, melds)})

PartitionForKnock(h) ==
  LET splits[left \in SUBSET ToSet(h)] ==
        [melds \in Seq(OnTable) |-> Placed(h, splits, left, melds)]
  IN  splits

PlansFor(h, k, melds) ==
  {[card |-> k, groups |-> sub.groups, steps |-> sub.steps] :
     sub \in PartitionForKnock(h)[ToSet(h) \ {k}][melds]}

SolveAutoKnock(h, melds) ==
  IF Len(h) < 2 THEN {} ELSE UNION {PlansFor(h, k, melds) : k \in ToSet(h)}

-----------------------------------------------------------------------------
SearchInit == Held /\ answer = NotAsked

Ask ==
  /\ answer = NotAsked
  /\ answer' = <<SolveAutoKnock(hand, table)>>
  /\ UNCHANGED <<hand, table>>

SearchNext == Ask
SearchSpec == SearchInit /\ [][SearchNext]_searchVars

-----------------------------------------------------------------------------
(* The search finds a way out whenever one exists: a player who can go out *)
(* is never told the hand cannot (autoknock.go:53-55 pins the first card   *)
(* of the rest "to avoid duplicate permutations"). It follows from         *)
(* StepsAmountToThePlan, which also says which ways out are found.         *)
SearchIsComplete ==
  answer # NotAsked => (answer[1] # {} <=> CanAutoKnock(ToSet(hand), table))

(* The table after each of a plan's layoff steps.                          *)
TableAfter(melds, steps) ==
  LET after[n \in 0..Len(steps)] ==
        IF n = 0 THEN melds ELSE Applied(after[n - 1], steps[n])
  IN  after

(* The parts of a plan do not share a card.                                *)
PlanIsDisjoint(plan) ==
  /\ \A G, H \in plan.groups : G # H => G \cap H = {}
  /\ \A m, n \in DOMAIN plan.steps :
       m # n => plan.steps[m].cards \cap plan.steps[n].cards = {}
  /\ \A G \in plan.groups : \A n \in DOMAIN plan.steps : G \cap plan.steps[n].cards = {}

PlanCards(plan) == UNION (plan.groups \cup {plan.steps[n].cards : n \in DOMAIN plan.steps})

(* A plan returned can be carried out in order without an error half way   *)
(* (applyAutoKnock has no rollback), and places every card but the knock   *)
(* card exactly once.                                                      *)
PlansArePlayable ==
  answer # NotAsked =>
    \A plan \in answer[1] :
      /\ \A G \in plan.groups : IsMeld(G)
      /\ \A n \in DOMAIN plan.steps :
           LET before == TableAfter(table, plan.steps)[n - 1]
               step == plan.steps[n] IN
           step.meld \in DOMAIN table /\ CanLayOff(before[step.meld], step.cards)
      /\ PlanCards(plan) = ToSet(hand) \ {plan.card}
      /\ PlanIsDisjoint(plan)
      /\ plan.card \in ToSet(hand)

(* What a plan's layoff steps put onto each meld, and the table with that  *)
(* put onto it at once.                                                    *)
LayOf(melds, steps) ==
  [i \in DOMAIN melds |-> UNION {steps[n].cards : n \in {m \in DOMAIN steps : steps[m].meld = i}}]

GrownTable(melds, lay) ==
  [i \in DOMAIN melds |-> IF lay[i] = {} THEN melds[i] ELSE LaidOff(melds[i], lay[i])]

Gathered(melds, plan) ==
  [card |-> plan.card, groups |-> plan.groups, lay |-> LayOf(melds, plan.steps)]

(* The plans of the search are those of the rules, and laying their steps  *)
(* off one by one leaves the table that laying them off at once does: what *)
(* allows a round to go out in one step (engine.go:379-391, one layoff at  *)
(* a time, each on the meld as the last one left it).                      *)
StepsAmountToThePlan ==
  answer # NotAsked =>
    /\ {Gathered(table, plan) : plan \in answer[1]} = KnockPlans(ToSet(hand), table)
    /\ \A plan \in answer[1] :
         TableAfter(table, plan.steps)[Len(plan.steps)]
           = GrownTable(table, Gathered(table, plan).lay)
===============================================================================
