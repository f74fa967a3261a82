# PaiDummy: TLA+ models and proofs

PaiDummy is a Thai Dummy (rummy) game: a Go server (`server/`) that owns every rule and every coin, and a
Flutter client (`paidummy/`) that shows what the server sends. This directory holds TLA+ modules
translated from the server's source, the TLC configurations that check them on small instances, and TLAPS
proofs of what holds for every instance. Line numbers below refer to files under `server/internal/` unless
they say otherwise.

## 1. The system

### 1.1 Components

| component | state | operations | model |
|---|---|---|---|
| Rules: melds, layoffs, going out (`game/card.go`, `deck.go`, `meld.go`, `layoff.go`, `autoknock.go`, `ruleset.go`) | none | classify a meld, extend it, value a card, find a plan to go out | `DummyRules`, `AutoKnockSearch` |
| Rules engine (`game/engine.go`, `state.go`, `action.go`) | one `GameState`: hands, piles, melds, turn, phase, head card, penalties | `Start`; `ApplyAction`: draw, pick up, meld, lay off, knock, auto-knock, discard | `DummyEngine` |
| Scoring (`game/scoring.go`) | none | `ScoreRound` | `RoundScoring` |
| Suggestion engine (`game/suggest.go`) | none | `SuggestMove` | `MoveAdvisor`; kind and size of its moves in `ShotClock` |
| Room: turns (`room/hub.go`) | `Room.state`, the turn timer, seats with connection and bot flag | actions from players, shot clock, auto-player, bot takeover, attach and detach | `ShotClock` |
| Room: matches (`room/hub.go`) | seats, ready flags, countdown, running scores, match id, round number | attach, ready, countdown, start and finish of a round, rematch, settlement | `MatchLife` |
| Match tables (`db/db.go`) | `matches`, `rounds`, `round_scores`, `match_settlements` | `CreateMatch`, `SaveRound`, `FinishMatch`, `RecordSettlement` | `MatchLife` |
| Wallets and rewards (`db/db.go`, `daily.go`, `adreward.go`, `missions.go`, `referral.go`) | `guest_users` rows with coins, streak, ad time, referrer; `mission_progress` | daily bonus, ad, mission, purchase, settlement, referral | `Wallet` implements `CoinLedger` |
| Bot (`bot/bot.go`) | a latch `readied`, a pending call, the last frame | notes frames, gets ready once, plays its turns | moves in `MoveAdvisor`, frames and calls in `Connections`, its ready in `MatchLife` |
| Hub: lobby, quick join, practice, passwords (`room/hub.go`, `rest.go`) | the map of rooms, their seats | create, join, quick play, practice, add bots | `Lobby` |
| Views (`room/view.go`) | none | what a seat or a spectator is shown | `TableView` |
| WebSocket connections (`ws/handler.go`) and broadcasts (`room/hub.go`) | sockets, send channels, each seat's client, spectators | open, attach, message, detach, close; broadcast | `Connections` |
| Sessions (`session/session.go`) | token cache in Redis, `sessions` table | create, resolve | `Sessions` |
| Snapshots (`store/redis.go`) | Redis keys of rooms and games | save, clear | not modelled: nothing reads them back (`LoadGame` has no caller), a restart begins with no rooms |
| Friends (`db/friends.go`) | `friend_requests`, `friendships` | request, accept | `Friends` |
| Tournaments (`room/tournament.go`) | none | a schedule computed from the clock | not modelled: players enter by quick play |
| Collusion scan, leaderboards, avatars, themes, replay, device tokens, reports | tables | single queries | not modelled: one statement each, nothing to interleave |
| HTTP wiring, configuration, push (`httpapi`, `config`, `notify`, `cmd/server`) | none | decoding, routing | not modelled |
| Flutter client (`paidummy/lib`) | a copy of the last view | reconnect loop, reducer | not modelled: no rules; it reconnects as any client in `Connections` may |

### 1.2 How they interact

A player's message arrives on a WebSocket goroutine, which calls `Room.HandleMessage`. The handler takes
`Room.mu`, lets the engine change `Room.state`, unlocks, and only then writes the snapshot, broadcasts, arms
the next shot clock or finishes the round. A shot clock that runs out starts a goroutine of its own
(`autoPlay`) which takes the same lock. `finishRound` scores under the lock and then talks to Postgres with
several separate transactions, re-reading the seats in between. The countdown that starts the next round is
another timer. Each connection has a goroutine that attaches it to its seat, handles its messages and detaches it
when reading fails; the bot is a client without a socket, whose `Send` is called under the room's lock and whose moves
come from timers of its own. `broadcastState` sends under the lock, `broadcast` to a list copied under it. Guests reach a
room through the hub, which chooses it in one step and seats them in another. REST handlers reach the same wallets at the same time; there the only lock is Postgres's
row lock.

### 1.3 What is hard about it

- The engine's state is redundant: a pile and a parallel slice of who discarded what, meld flags computed
  again on every layoff, a snapshot of who had produced when the turn began, a bonus that follows a card.
  One slip and a card is doubled or points go to the wrong player many moves later.
- The room drops its lock between a decision and its effect, in every handler and four times in
  `finishRound`: clocks fire late, seats change, rounds end under a handler that still means to arm a clock.
- Nothing runs between rounds: that another round starts depends on some event arming a timer.
- Every database error is ignored, so each later step must cope with each earlier one not having happened.
- Coins are moved by eight different transactions over shared rows.
- Every change is broadcast after unlocking, by whoever made it, if that path broadcasts at all; a guest may have two
  connections, of which either detaches the seat.

The properties that make each component correct are listed with the runs (section 4); the places where the
code is exposed, line by line, are the `hazards` of `PROJECT.json`.

## 2. The modules

```
DummyRules ── DummyEngine ── RoundScoring ── TableView ── MCDummyEngine    CardTable   (implemented by DummyEngine)
     │             └── DummyEngineProofs          └── DummyRoundProofs     TurnFlow    (implemented by DummyEngine,
     │                                                                                  used by ShotClock)
     └── HandAndTable ── AutoKnockSearch ── MCAutoKnockSearch ── AdvisorProofs
                    └─── MoveAdvisor ──────┘       │
Accounts ── Connections, Lobby, Friends, Sessions ─┴─ MCHub ── HubProofs   SumProofs   (lemmas on finite sums)

Accounts, Coins ── MatchLife ── MCMatchLife ── MatchLifeProofs
                └─ Wallet ───── MCWallet ───── WalletProofs                CoinLedger  (implemented by Wallet)
                                MCMatchLife, MCWallet ── MCMatchAndWallet
TurnFlow ── ShotClock ── MCShotClock ── ShotClockProofs
```

**DummyRules** is the pure part of the engine: cards as records of suit and rank, `IsMeld`, `CanLayOff`, the
Ace that is high after the King and low before the 2, `Points`, and `KnockPlans`: by definition, every way
to lay down a hand but one card. The order of cards within a meld is dropped: nothing depends on it.

**HandAndTable** is what the solver, the hint engine and the bot are asked about: a hand in the order it is held, and melds on
the table. **AutoKnockSearch** is `SolveAutoKnock` as the code computes it: `PartitionForKnock` is a recursive function of the cards
that are left and the melds on the table, `Placed` one level of it (pin the first card left, `FirstOf`; try every new meld with it, then every
layoff, going on with the table as that leaves it). The code returns the first split it meets, the model the set of all it might
meet; its layoffs remain a sequence of steps, where `KnockPlans` has what goes onto each meld together.

**DummyEngine** is `GameState` and `ApplyAction`. `hand`, `drawPile`, `discardPile` and `discardedBy`,
`melds`, `turn`, `phase`, `produced`, `producedAtTurnStart`, `firstMove`, `headOwner`, `dumpPenalties`,
the knock's record and `endReason` are the fields of the same name. The draw pile is a set: which card is
drawn is a choice, which stands for every shuffle. `Draw…`, `PickUpMeld`, `PickUpLayOff`, `LayMeld`, `LayOff`,
`Knock`, `AutoKnock` and `Discard` are the handlers; their guards are the handlers' error returns, and an
action that is rejected leaves the state alone and is no step. `AutoKnock` applies some plan of `KnockPlans`
in some order: that the code's search finds one exactly if there is one is `SearchIsComplete`, that a plan's steps never fail half-way is
`PlansArePlayable`, and that carrying them out one by one comes to the same is `StepsAmountToThePlan`. All three are proved.

**RoundScoring** is `ScoreRound` as operators over a finished round.

**TableView** is `viewFor` and `roundResult`: what each seat and every spectator is shown of a table. The cards a viewer
does not see are parameters, so that the view of a table can be compared with that of one that differs in them only.

**MoveAdvisor** is the hint engine and the bot's choice of a move, on the hands and tables of `HandAndTable`. Both take the first
move they find in the order of the hand; as the hand is in any order, the model has the set of moves they may give.

**CardTable** and **TurnFlow** are two abstractions of the engine: the first says what moves cards may make
(a turn takes cards once, the table only grows, another player's hand is never touched), the second what the
room sees (turn, phase and counts). `MCDummyEngine` checks that the engine implements both.

**ShotClock** is a room around `TurnFlow`. A goroutine is the handler of a player's messages or an expired
clock; `pc` says which locked section comes next, and a step is one locked section: `Act` then `Arm`, or
`Cancel` then `Finish`; for the auto-player `Begin`, `AutoDraw`, `Recheck`, and per iteration `Think` and one of
`AutoLay`, `AutoDiscard`, `AutoKnock`. `clock` is the pending timer and the window it was armed with. `task` is
what an auto-player carries across the unlock; `fresh` tells whether the state it chose its move for is
still the state it submits it to. How the moves that can be suggested depend on the hand is abstracted to the
number of cards held: a plan needs at least two (`PlanFound`: `SolveAutoKnock` refuses fewer), so a last card is laid off or
discarded at every level (`LaysDown`, `Think`).

**MatchLife** takes a round as a black box with an arbitrary result and models what surrounds it:
`seats`, `ready`, `online`, `countdown`, `matchID`, `roundNo`, `scores`, `finished` are the room's fields,
`matches`, `rounds`, `closed`, `wallet`, `recorded` the tables. A goroutine is a guest's, the countdown's timer, or one of
`Clocks`, which stand for the shot clock's goroutines (hub.go:520) and the bots' (bot.go:90): whoever makes the move that ends a
round (`EndRound`) goes through `finishRound`, and while a clock does so every guest is free to get ready. A guest may take a seat over REST
first (`Join`) and attach later, or attach at once. `Attach`, the look at the countdown that ends it (`EvaluateCountdown`) and what that decides
(`ArmCountdown`, `CancelCountdown`) are three locked sections, as are `Elapse` and `Start` of the countdown's timer. After `Score`, the locked section of
`finishRound`, come `SaveRound`, `FinishMatch`, `CreditPlayers`, `ReadLosers`, `Settle` and `RecordSettlement`, each a step of its
own, each allowed to fail where `DbMayFail`. A row that refers to a match not yet inserted is refused, as by the
foreign keys.

**Wallet** is everything that moves coins, one SQL statement per step. `db` holds the committed rows, `draft` what
an open transaction has written: the rows in it are those it has locked. A statement on a locked row waits; what it
reads is what was committed when it gets the lock (`SELECT … FOR UPDATE` and `UPDATE` at read committed).
`Fail` aborts a transaction at any statement, which stands for a cancelled request, a lost connection and
a deadlock that Postgres breaks. One mission stands for the three of `MissionDefs`. Rooms and REST clients may ask
for anything in any order, which includes the order in which `finishRound` asks (`MatchLife`). `FOR KEY SHARE` locks
of foreign keys are left out: they delay an insert, never let one through.

**CoinLedger** is what the wallets promise: each payment in one step, in full, and once if it is due once. `MCWallet`
shows `Wallet` to implement it, with the ledger's `paid` read off `claimed` and `referral_rewarded` and, for bonuses
and ads, off the history of what was committed.

**Connections** is a room's goroutines and what they send. `stage` says which locked section each is at: a connection's
goroutine (open, `Attach`, its messages, the deferred `Detach` and close), the clock's, and the bot's calls of `act`. A change
of the room empties `shown`, a `broadcastState` puts every seated client into it: `shown` is who has been sent the room as it
is. `relay` is the list that `broadcast` copied; a send to a connection that closed meanwhile is `Panic`. For the
bot, `plan` is what the call that is scheduled will do on the last frame noted (`pending`, `started`, `turn`, `seat`, `phase` of
the code). The round itself is three values, because who moves and what is legal is the business of the modules above.

**Lobby** is how guests come to seats: one request at a time for each guest, one step for each section under the hub's or a room's
lock. `QuickPlay` looks at the rooms one by one (`Scan`), under the hub's read lock, then takes a seat (`TakeSeat`) in a later
step; `OpenPractice` registers a room that `MarkPractice` makes private afterwards; `LookForPlace` and `SeatBot` are `AddBot`. Wallets
do not change here. **Friends** is `SendFriendRequest` and `AcceptFriendRequest`, one statement per step, each allowed to fail.
**Sessions** is one token: its row, its copy in Redis, which may be lost at any time, and days. **Accounts** and **Coins** declare the guests and
the coins that several parts know. `MCHub` composes the parts around a table, and `MCMatchAndWallet` matches and wallets, as a choice of one
part, made at the start: the parts share no state, so the sum of them shows what their product would.

The MC modules add history variables that no step reads, the properties, and sets to instantiate constants with.
A definition preceded by "Mutant" is a plausible wrong version of the one after it, which no specification
uses: with it in place, the property named in `PROJECT.json` is violated.

## 3. Fairness

Safety runs have none. Three liveness properties have what the code's scheduling gives:

- `ShotClock`: a pending timer fires, and a goroutine that can take its next locked section does
  (`time.AfterFunc`, `sync.Mutex`). Players owe nothing.
- `MatchLife`, server side: the handler goes on with what it began, the countdown elapses, and an open round ends. The
  last is `RoundPlaysOut` of `ShotClock`, one level down.
- `MatchLife`, guests: `GuestsPlayOn` says that everybody comes back and gets ready again as long as no round is on.
  It is an assumption about people, needed because a room whose guests have left rightly does nothing; the
  properties that use it say what the server does for guests who want to play.

## 4. What is checked

### 4.1 Runs that pass

**MCDummyEngine** (three players, one card each, two suits of four ranks, melds of two cards, every deal with a 2 as the
head card; 578 thousand states). With melds of two cards, a deck of eight gives sets, runs with a low and a high Ace, a
complete suit, layoffs on others' melds, pick-ups from any depth of the pile, penalties, dark and same-suit knocks and
empty decks. The cards 3 are speto cards.
- `CardConservation`: every card is in one place, always.
- `MeldsValid`: what lies on the table is a meld, with the Ace counted as the whole run says, after any layoffs.
- `HeadBonusOwner`: the bonus belongs to the owner of the meld with the head card.
- `DarkKnockIsBlind`: double pay only to one without a meld when the turn began.
- `PenaltyAttribution`: a penalty is charged when and only when one is owed, to whose card it was. The owner is
  remembered in a history variable, independently of `discardedBy`: the two parallel slices stay parallel.
- `PointsBalance`: all totals together are the worth of the cards on the table and in hand plus bonuses
  minus penalties; `OthersNeverCost`: another player's move never lowers one's total, but for a penalty or a suit completed.
- `ViewsHideHands`: exchange any two cards a viewer does not see, in hands or deck, and the view stays the same, the knock lamp
  included, which is computed from a hand.
- `MovesCardsAsPromised` (`CardTable`), `CountsAsPromised` (`TurnFlow`).

**MCShotClock** (level hard, two players with hands of one card, two auto-players that may overlap, three iterations instead of eight; 5.7
million states): `ScoredByOne`, a finished round has exactly one goroutine that will score it; `NoClockBetweenRounds`. Two
auto-players are what it takes for one to act on what the other changed; two iterations for one to go on after another. An auto-player
meets a hand of one card, which it lays off or discards, and of two and more, with which it may knock.

**MCShotClockAway** (level easy, three players who may all drop out): `RoundPlaysOut`, the clock alone ends each round.

**MCMatchAndWallet** (three guests; 2.4 million states), one of two parts at a time.
- Matches (two seats, two goroutines of clocks, a database that may refuse anything, two rounds, each of which may be a match):
  `ScoresAddUp`, `RoundsNumbered`, `SettledOnce`, `WinnerIsBest`, `OnlyPlayersSettle`, `MoneyIsSafe`. One clock can be anywhere in the
  settlement of the first match while the guests get ready, play and the other clock finishes the second. No guest drops out, but
  seats are taken over REST as well, and attached to later; the steps that arm the countdown in a finished match (`ArmsLate`) are left
  out, as in `OnTimeSpec`, and a full table leaves no seat to join: two violations below are exactly what happens otherwise. Two rounds
  are what it takes for two matches to overlap, or for one match to need two rounds.
- Wallets (two transactions at a time, three requests, three days): `PaysAsPromised`, the refinement; `StreakCounts`, `AdsSpacedOut`,
  `StatusIsHonest`. That nobody owes coins is part of the refinement: the ledger's stakes never exceed a balance. Three guests make a
  settlement with two losers and a referral across it; three requests make one event and two claims on it at once. A day is one tick
  and the ad cooldown two, so that three ticks show a streak, a missed day and a cooldown; no code compares the two.

**MCMatchLifeLive** (two guests who play on, one dropping out, two rounds; 681 thousand states): `RoundsKeepComing`,
`EveryMatchIsPaid`. Two rounds are one match with a round in which nobody reached the target, or a match and its rematch.

**MCHub** (two guests, two connections, two rooms for two; 3.6 million states), one part at a time.
- Connections: two connections of one guest or of two, a bot with one call of `act` under way beside the one scheduled, a clock, one goroutine that fetches
  coins. `PlayersAreShown`: once every broadcast that was begun is made, each connected player has been sent the room as it is, although a
  ready may end in a `startRound` that broadcasts nothing. `BotIsAwake`: on its turn the bot's move is scheduled or under way. `ClientsAreLive`: the
  room never holds a closed connection, so that no send under its lock panics; and a guest with one connection is not taken for gone.
- Lobby: two rooms, two stakes, one guest who covers both and one who covers one, a room locked or not, a practice bot. `TypeOK` has the limit of the
  seats; `QuickPlayIsCovered`: quick play seats for no more than the stake asked for and covered, and in no locked room. Two guests are what it takes to
  race for a seat, two rooms to pass one over.
- Friends: two calls that overlap. `FriendsByConsent`: no friendship without a request or an acceptance of each side.
- Sessions: a lifetime of three days within ten. `SessionsEnd`: no token outlives its row by a lifetime.
- Advice: every hand of up to four of eight cards in every order, every table of up to two melds; a meld has two cards or more, so that sets
  and runs compete for the same cards, which is what the pruning could get wrong. `PlansArePlayable`, each layoff is legal on the table as the ones before
  left it, and every card but the knock card is placed once; `StepsAmountToThePlan`, the plans found are those of the rules (so that one is found
  when there is one, `SearchIsComplete`), and step by step they leave the same table as at once; `AdviceMissesNothing`, told to discard, a player has no
  meld and no layoff of any size.

### 4.2 Runs that find a violation

| run | property | what the code does |
|---|---|---|
| MCMatchLifeReconnect | `SettledOnce` | `Attach` (hub.go:454) arms the countdown in a room whose match is finished: after a reconnect, or on the first connection to a seat taken over REST. The round it starts belongs to the old match and ends with the target reached, so the bet is collected again. |
| MCMatchLifeJoin | `OnlyPlayersSettle` | Between two locked sections of `finishRound` a newcomer takes a free seat and is then read as a loser (hub.go:1112). |
| MCMatchLifeBot | `RoundsKeepComing` | `Bot.readied` is never cleared (bot.go:75, 99): with a bot at the table there is no second round. |
| MCShotClockStuck | `RoundPlaysOut` | At level normal the auto-player may lay down its whole hand; then it can neither discard nor knock, and no clock is armed. |
| MCBotMinimum | `BotMoveIsLegal` | The bot judges melds by the default rules (bot.go:41, 145): in a room with a minimum of four it plays melds of three, which the engine refuses. |
| MCHubPractice | `PracticeIsPrivate` | A room is a practice room only from hub.go:247 on: quick play may seat a stranger in it between that and hub.go:243. |

Each is a `finding` of `PROJECT.json` with the sentence of the repository it contradicts. MCMatchLifeReconnect runs under `CalmSpec`, in
which no round opens between somebody's attaching and the look at the countdown, so that its trace needs no unlucky scheduling.

### 4.3 Bounds

`MaxRounds`, `MaxTime` and `MaxRequests` end the runs that could go on for ever; they are in the guards. `CHECK_DEADLOCK
FALSE` everywhere: a round ends, a room may be left by everybody, a server may get no requests. Symmetry (suits,
auto-players, guests, goroutines) is used in runs without liveness only, and in none of them does a definition single out an element.

## 5. What is proved

Every theorem holds for all values of the constants that the named assumptions allow (`RulesAssumption`, `EngineAssumption`,
`ScoringAssumption`, `FlowAssumption`, `ClockAssumption`, `MatchAssumption`, `WalletAssumption`, `ConnAssumption`,
`LobbyAssumption`, `SessionsAssumption`: that a number is a number, a minimum at least two, and that the names of different things
differ). TLC evaluates each of them in a run. Each invariant was first a property of a run; where it is not inductive as it stands,
the strengthening is named below. The proofs have a step for each action.

**The engine** (`DummyEngineProofs`, `DummyRoundProofs`: every deck, number of players, hand size and minimum meld length)
- `TypeCorrectness`. The lemmas on what `MeldOf`, `LaidOff`, `AbsorbHead`, `ChargeDumper`, `TruncatePile` and `ExposeMeld`
  return carry it.
- `Conservation`. Once a card was knocked it is out of play and the count is one short, so the step needs that before
  `round_over` there was no knock: `ConservationInv == TypeOK /\ CardConservation /\ NoKnockYet`.
- `MeldsStayValid`: a meld laid down is one (`NewMeldValid`), one laid off onto is one with its Ace computed again (`LaidOffValid`).
- `HeadBonusFollowsCard`: inductive beside the types: the head card is absorbed in the step that lays it down (`AbsorbHead`), and nothing takes a card off the table.
- `DarkKnockPaysTheBlind`, by `BlindInv`: who is in `produced` owns a meld; the snapshot `producedAtTurnStart` tells
  who owned one when the turn began; the dark flag was computed from the snapshot.
- `PenaltiesHitTheDiscarder`, an action property, by `PenaltyInv == ConservationInv /\ SlicesParallel`: `discardPile` and
  `discardedBy` are as long as each other, and the second agrees at every position with a history of who discarded what.
- `ViewsNeverLeak`, from conservation: a card the viewer does not see is not in his hand, so that exchanging two of them changes
  none of the things a view is computed from (`SwapKeepsCount`, `HiddenIsNotHeld`).
- `MovesCards` and `CountsCards`: the engine implements `CardTable` and `TurnFlow`. Each action is shown to be a step of the
  abstraction or a stutter under the refinement mapping; `TurnFlow` counts cards, so that the second needs `Cardinality`
  of hands and pile followed through every slice and union.
- `PointsAddUp`: the totals add up to the worth of what is on the table and in hand, by exchanging the sums over players and
  over melds (`SumOfSums`); needs that there is a knocker exactly if the round ended in a knock (`KnockerKnocked`).
- `OthersTakeNoPoints`: a step of another player leaves one's melds or extends them, and a meld that grew is worth at least what it
  was (`GrownIsWorthMore`), but for a completed suit.

**What a player is told of his hand** (`AdvisorProofs`: every deck, hand and table of melds)
- `AdviceIsComplete`: `FairTable => AdviceMissesNothing`. Each meld contains one of the smallest size (`MeldShrinks`), and cards that
  go onto a meld together include one that goes onto it alone (`LayOffOne`). The second is an argument about ranks:
  a straight within a longer one, the Ace low or above the King in either, has a next rank in it (`StraightGrows`).
- `SolverFindsPlans`: the plans of the search, with the layoffs onto each meld taken together, are `KnockPlans`. The search is a recursive
  function, so first that there is such a function: one that is right for fewer than `n` cards exists for every `n`, since there is no smallest `n` for which
  it does not (`SearchExists`, `SearchIs`). Then, by a smallest set of cards for which it fails, whatever table is beside it:
  every split is a plan (`SplitsAmountToPlans`), because a meld or layoff beside a plan for the other cards is a plan (`PlanWithMeld`,
  `PlanWithStep`); and every plan is found (`PlansAreFound`), because in a plan the pinned card is in a new meld or in what goes onto some meld, and
  without that it is a plan for the others (`PlanHasPlace`). What makes the layoffs work is that laying off twice is laying off
  once with both (`LayOffTwice`, `LaidOffTwice`).
- `SolverPlansCanBePlayed` and `StepsLeaveTheSameTable`, along the steps of a plan (`TableAfterCons`, `SplitsArePlayable`, `GrownAfterStep`).
- These hold for hands and tables of any size. `SearchMissesNoPlan`, `ReturnedPlansArePlayable`, `StepsAmountToPlans` and
  `AdviceAlwaysHolds` say it of the specification the run checks, by `SearchInv`: the table is of melds, no card is twice in the
  hand, and the answer is the solver's.

**The room's turns** (`ShotClockProofs`: any number of players and of expired clocks that overlap, every level)
- `RoundIsScoredOnce`, `ScoredRoundHasNoClock`, by `RoundInv`: in a round that is over exactly one goroutine is on its way through
  `Cancel` and `Finish`, in any other none is, and after `Cancel` the clock stays off.
- `RoomTypeCorrect`, by `TypeInv`: the counts of cards add up, which bounds each of them.
- `SomebodyGoesOn` and `RoundsRunOut`, by `AwayInv`, at level easy in a room left to its clocks (`AwaySpec`, whose players only start rounds
  and drop out), for finitely many auto-players: while a round is on, either its clock runs or a goroutine goes from turn to turn, or in the meld phase an
  auto-player of the seat on turn is about to discard (`Driven`), where the engine will take its action (`InPlace`). An auto-player whose draw ended
  the round may still be on its way to a look at the next one (`Recheck`), beside whoever drives that. Each of their steps ends the round or makes `StepsLeft` smaller, a bound from the cards in the deck, the turn and the auto-players. The invariant needs
  that nobody runs out of cards (`HandsLeft`) and that nothing comes between a decision and its action. This is the safety half of `RoundPlaysOut` for any
  number of players and cards; fairness and that those steps are enabled is the other half.

**Matches** (`MatchLifeProofs`: any number of guests, seats, rounds and coins; a database that may refuse anything)
- `MatchTypeCorrect`, and `CoinsArePreserved` by `MoneyInv`: the coins of all guests together never change, and no settlement takes
  more than there is.
- `RoundsAddUp`, `RoundsCountUp`, `MatchesPayOnce`, `TheBestIsPaid`, `ThePlayersPay`, by `QuietInv`: who is at the table and how far a match is
  (`TableInv`), what the rounds played say about scores and round number (`PlayedInv`), and what the goroutines between `Score` and
  `RecordSettlement` carry (`BillInv`). These five hold of `QuietSpec`: nobody takes a seat between two rounds once the
  first match has begun (`Joins`), and nobody arms the countdown in a match that is finished (`ArmsLate`), be it by coming back, by a first connection, or by
  an `Attach` that began before the last round was scored. Without the one they are false, as
  run MCMatchLifeJoin shows (a newcomer pays for a match he did not play); without the other too, as MCMatchLifeReconnect shows (the countdown
  starts a round nobody got ready for, of a match that is over). Connections may otherwise drop and come back at any time, and a clock's goroutine may be
  anywhere in `finishRound` while the players start and finish the next match.
- `FullRoomsAreFair`: nobody can join a room that starts only when it is full, so there the five need nothing but that the countdown is
  not armed in a finished match (`FullRoomsAreQuiet`; `EnoughInv`: a match begins with enough seats taken). Run MCMatchAndWallet has such a room.
- `NoMatchIsForgotten`, the safety half of `EveryMatchIsPaid`: while the database does not fail and a bet is set, a match in which somebody
  reached the target is settled, or one of the goroutines carries its bill (`WonIsOwed`). It needs that the room's scores are those
  of the match (`PlayedInv`), that a claim lasts until it is settled (`ClaimsLast`, `PaysOff`), and that a winner has a loser: enough are seated,
  and nobody twice (`EnoughInv`). It covers every goroutine that may finish a round.

**Wallets** (`WalletProofs`: any number of guests, goroutines and requests, any ladder, reward and cooldown)
- `WalletTypeCorrect`, `StreaksCountDays`, `AdsKeepTheirDistance`, `StatusTellsTheTruth`, by `WalletInv`: a row in an open
  transaction's draft is in no other's, what the transaction read of it is still what is committed, and the history of bonuses and ads agrees with the rows.
- `EveryPaymentIsInTheLedger`: `Wallet` implements `CoinLedger`. Each commit is one payment of the ledger, every other step a
  stutter. `PayInv` adds to `WalletInv` what a transaction still owes at each of its statements (`Owes`), that is, by how much its draft
  differs from the rows, and that nobody is his own referrer.

**Around a table** (`HubProofs`: any number of guests, connections, rooms, calls and days)
- `SessionsComeToAnEnd` (`SessionInv`: a copy in Redis ends before its row does plus a lifetime; a call that found the row found it in time).
- `FriendshipsAreMutual` (`ConsentInv`: a call that is about to accept was asked).
- `QuickPlayersCanPay`, `RoomsNeverOverflow` (`LobbyInv`: the room quick play chose, once chosen, stays unlocked and of the stake asked for
  until the seat is taken, where the limit is looked at again).
- `PlayersSeeTheTable`, `BotWakesForItsTurn`, `SeatsHoldLiveClients`, `HubTypeCorrect` (`ConnInv`): a seat's client is that guest's and
  not closed (`LinkInv`); a guest's only connection keeps the seat (`EntitledInv`); either some goroutine has still
  to broadcast, or every player was shown the room as it is and the bot's move is scheduled or under way (`SightInv`).

`SumProofs` has what these need of `MapThenSumSet`. It is defined by recursion over sets, and the induction principles of the library
take an operator as parameter. The lemmas are proved by a smallest counterexample instead: among the subsets of a finite set for which a lemma
fails one is smallest (`Smallest`, by well-foundedness), and taking a member away contradicts it.

Only model-checked:
- liveness under fairness: `RoundPlaysOut` and `EveryMatchIsPaid` (their safety halves are proved, see above), and `RoundsKeepComing`;
- what `MatchLife` does when guests come between rounds or the countdown is armed late: there the properties above fail, as the runs show;
- `BotMoveIsLegal` and `PracticeIsPrivate`, which the code breaks.

## 6. What the models showed beside the runs

Read in the source while modelling, and not stated as runs of their own:

- The auto-player submits the discard it chose before unlocking (hub.go:557, 578, 592). When a move of the seat's player comes in between
  and takes that card, the engine refuses the discard and nothing arms a clock for the rest of the turn: the step `Rejected` of
  `AutoDiscard` in `ShotClock`. At the levels with a search it is the same with the move it thought of (hub.go:608-641).
- `evaluateCountdown` counts the seats in one locked section and cancels in another (hub.go:661-665, 475-482): a cancel decided on one seat may
  come after the arming by the guest who filled the table, which then waits with no countdown until everybody is ready or somebody attaches again. `MatchLife` has
  the three sections (`EvaluateCountdown`, `ArmCountdown`, `CancelCountdown`) and this order of them.

- At level hard the auto-player does knock (hub.go:611), while the comments at hub.go:88 and 103-105 say it never does.
- A turn in which the auto-player's eight iterations did not suffice (hub.go:600) is off the clock from then on.
- Bot takeover does not shorten the clock that is running (hub.go:806-808).
- The first ready of a rematch does not re-arm the countdown, although hub.go:862-865 says so: `handleReady` never evaluates it.
- A ready while a round runs that a late countdown started in a finished match resets `roundNo` and wipes the scores in the middle of it.
- `CreateMatch` runs after the unlock (hub.go:937): a round shorter than that call is refused by `SaveRound`'s foreign key. In the
  model the window exists; `EveryMatchIsPaid` shows the coins are not affected.
- `SettleMatch` and `RecordSettlement` are two transactions: coins may move with no row to show for it, and a referral then waits
  for the next match.
- Two settlements that share guests may lock each other's rows (losers in seat order, winner last). Postgres aborts
  one; `finishRound` ignores the error and that match is never settled.
- A payment is captured before the coins are credited and nothing records it in between (rest.go:307-320).
- A guest's stored referrer always signed up earlier (`SetReferrer` is called from `CreateGuest` only), so that referrals form no circle and
  award transactions alone never deadlock.
- A meld, layoff or pick-up may take the last card of the hand, after which a turn has no legal end (bot.go:139-140 knows).
- A layoff that completes a suit turns its Ace low and so costs the owner points: the exception in `OthersNeverCost`.
- The head card never comes into a hand, so that the bonus code in `applyMeld` and `applyLayOff` never finds it there.
- An auto-knock never counts as dark, whatever the hand was.
- A clock that expires between a discard and the arming of the next clock forces the move of the next player, whose turn has only
  begun: `autoPlay` reads `Room.state.Turn` when it gets the lock (hub.go:543), not the turn its clock was armed for.
- Two connections of one guest: the older one's `Detach` (hub.go:685) clears the seat of the newer, which then gets no frames and is
  played for, until it attaches again. The history `entitled` of `MCHub` sets exactly these connections apart in `ClientsAreLive`.
- `broadcast` sends to a list copied before unlocking (hub.go:1214-1218). A connection on it that closes meanwhile makes `Send` panic,
  where its comment speaks of dropping (ws/handler.go:64). In a connection's goroutine the HTTP server recovers the panic, and what the
  handler had still to do is skipped, a settlement included; in a timer's goroutine it ends the program.
- `room_state` is broadcast before the turn's clock is armed (hub.go:941-942, 1012-1022), so that the `turn_end_ms` it carries is the
  previous turn's. The bot flag that `autoPlay` sets (hub.go:551) is told with the next change only.
- A spectator's greeting is sent after unlocking (hub.go:398-400) and may be older than a broadcast that overtook it.
- A room seats its host in a second step (rest.go:92), ignoring the error.
- `POST /rooms` lets any stake pass if the wallet cannot be read, and a request without a stake gets 100 without a look at the
  wallet (rest.go:75-77, hub.go:176). A WebSocket seats its guest in a locked room without a password (hub.go:430).
- Two quick players can open two rooms at once, and quick play may answer that the room it chose is full or started.
- Two guests who ask each other at once may both be left pending, or a request remain after they have become friends.
- A session's copy in Redis may outlive its row by up to a lifetime (session.go:79-88).
- `ensureCoins` (hub.go:339) may overwrite a settlement's balance with an older one, for display. Snapshots are written outside the lock,
  and `LoadGame` has no caller although store/redis.go:62-63 says it is read on reconnection.

- A countdown that `armCountdown` stops (hub.go:465) may have fired already; its goroutine then starts the round early, as `Elapse` before `Start` allows.

One assumption on timing is made: in `MatchLife` a round does not end while a goroutine stands between a section that decided what to do with
the countdown or the round and the section that does it (`EndRound` waits for `"start"`, `"arm"` and `"cancel"`); a look at the countdown that is still to come may
be as late as it likes.

## 7. Plan

Done: the engine, its rules, scoring and views; the hint engine and the bot; the room's turns, matches and connections; the lobby; the
wallets; friends and sessions. Every safety property of a passing run is proved. What could still be added:

1. The safety half of `RoundPlaysOut` at level hard, where the auto-player melds and goes on thinking: what bounds a turn there are its
   iterations, and that it may end with neither a discard nor a knock is what run MCShotClockStuck shows of level normal.
2. The safety half of `RoundsKeepComing`.

Not modelled, and why: snapshots (nothing reads them back), tournaments (a computed schedule), collusion scan, leaderboards, avatars, themes, replay,
device tokens and reports (single statements over stored rows), HTTP wiring, configuration, payment provider and push (decoding and wiring),
the Flutter client (no rules).
