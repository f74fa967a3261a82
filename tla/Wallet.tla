--------------------------------- MODULE Wallet --------------------------------
(***************************************************************************)
(* The wallets in Postgres and everything that moves coins (internal/db):  *)
(* the daily bonus, rewarded ads, missions, purchases, referrals and the   *)
(* settlement of a match. REST handlers and rooms run concurrently; a step *)
(* is one SQL statement. A statement that locks a row waits until no other *)
(* transaction holds it and sees what was committed by then; what a        *)
(* transaction wrote becomes visible when it commits.                      *)
(***************************************************************************)
EXTENDS Integers, SequencesExt, FiniteSetsExt, Accounts, Coins

CONSTANTS
  Nobody,
  Servers,           (* goroutines: requests and rooms being served       *)
  DailyRewardLadder, AdReward, AdCooldown,
  MissionReward, Goal,               (* one mission stands for MissionDefs *)
  ReferralBonus, PackageCoins,
  DayLength,         (* in ticks of the clock                             *)
  MaxTime, MaxRequests               (* bounds: the clock; requests begun *)

ASSUME WalletAssumption ==
  /\ Nobody \notin Guests
  /\ \A g \in Guests : g \notin Guests \X Nat   (* the tables' keys differ *)
  /\ DailyRewardLadder \in Seq(Nat) /\ DailyRewardLadder # <<>>
  /\ {StartingCoins, AdReward, AdCooldown, MissionReward, Goal, ReferralBonus,
      PackageCoins, Bet, MaxTime, MaxRequests} \subseteq Nat
  /\ Bet > 0 /\ AdCooldown > 0 /\ DayLength \in Nat \ {0}

VARIABLES
  now,
  db,            (* the committed rows: guest_users by guest, and         *)
                 (* mission_progress by guest and day                     *)
  settlements,   (* guests with a row in match_settlements                *)
  serving, req,  (* what a goroutine does next, and for whom              *)
  draft,         (* the rows its transaction wrote and so keeps locked    *)
  asked,
  granted        (* history: the daily bonuses and ads paid               *)

walletVars == <<now, db, settlements, serving, req, draft, asked, granted>>

(* A row is inserted or updated; those of new go over those of old.        *)
Put(rows, row, value) ==
  [x \in DOMAIN rows \cup {row} |-> IF x = row THEN value ELSE rows[x]]
Over(new, old) ==
  [x \in DOMAIN new \cup DOMAIN old |-> IF x \in DOMAIN new THEN new[x] ELSE old[x]]

Users == DOMAIN db \cap Guests
Day(t) == t \div DayLength
Never == -1
NoDraft == [row \in {} |-> 0]
NoRequest == [op |-> "none"]

NewUser(referrer) ==
  [coins |-> StartingCoins, claimDay |-> Never, streak |-> 0, adAt |-> Never,
   referrer |-> referrer, rewarded |-> FALSE]

WalletInit ==
  /\ now = 0
  /\ db = NoDraft
  /\ settlements = {}
  /\ serving = [p \in Servers |-> "idle"]
  /\ req = [p \in Servers |-> NoRequest]
  /\ draft = [p \in Servers |-> NoDraft]
  /\ asked = 0
  /\ granted = {}

Tick == now < MaxTime /\ now' = now + 1
        /\ UNCHANGED <<db, settlements, serving, req, draft, asked, granted>>

(* CreateGuest, EnsureRefCode and SetReferrer: nobody knows the new row    *)
(* before all three are done. A code that is missing, unknown or refused   *)
(* by the database leaves the guest without a referrer.                    *)
SignUp(g) ==
  /\ g \notin Users
  /\ \E referrer \in Users \cup {Nobody} : db' = Put(db, g, NewUser(referrer))
  /\ UNCHANGED <<now, settlements, serving, req, draft, asked, granted>>

-----------------------------------------------------------------------------
(* Transactions.                                                           *)

(* Mutant: rows are read without FOR UPDATE.                               *)
FreeToRead(p, row) == TRUE
Free(p, row) == \A q \in Servers \ {p} : row \notin DOMAIN draft[q]

Proceed(p, step) == serving' = [serving EXCEPT ![p] = step]
Write(p, row, value) == draft' = [draft EXCEPT ![p] = Put(@, row, value)]
Answer(p) ==
  /\ Proceed(p, "idle")
  /\ req' = [req EXCEPT ![p] = NoRequest]

(* The deferred Rollback of a transaction that found nothing to do.        *)
Refuse(p) == Answer(p) /\ draft' = [draft EXCEPT ![p] = NoDraft]

(* What a transaction that fails leaves behind: nothing.                   *)
(* Mutant: without the transaction, what was written so far stays.         *)
KeepWrites(p) == db' = Over(draft[p], db)
Undo(p) == UNCHANGED db

(* A transaction fails: the request was given up, the connection was lost, *)
(* or Postgres ended a circle of waiting transactions. Callers ignore it.  *)
Fail(p) ==
  /\ serving[p] # "idle"
  /\ Undo(p)
  /\ Answer(p) /\ draft' = [draft EXCEPT ![p] = NoDraft]
  /\ UNCHANGED <<now, settlements, asked, granted>>

Commit(p) ==
  LET r == req[p]  d == draft[p] IN
  /\ serving[p] = "commit"
  /\ db' = Over(d, db)
  /\ draft' = [draft EXCEPT ![p] = NoDraft]
  /\ granted' = granted \cup
       CASE r.op = "daily" -> {<<"daily", r.g, d[r.g].claimDay>>}
         [] r.op = "ad" -> {<<"ad", r.g, d[r.g].adAt>>}
         [] OTHER -> {}
  /\ IF r.op = "lose" THEN Proceed(p, "record") /\ UNCHANGED req ELSE Answer(p)
  /\ UNCHANGED <<now, settlements, asked>>

-----------------------------------------------------------------------------
(* ClaimDaily. The clock is read once the row is locked.                   *)

RewardFor(streak) ==
  DailyRewardLadder[CASE streak <= 0 -> 1
                      [] streak > Len(DailyRewardLadder) -> Len(DailyRewardLadder)
                      [] OTHER -> streak]

ClaimedToday(u) == u.claimDay # Never /\ Day(now) <= u.claimDay

(* Mutants: a missed day does not end the streak; a streak starts at zero. *)
NextStreakFromZero(u, today) ==
  IF u.claimDay # Never /\ today = u.claimDay + 1 THEN u.streak + 1 ELSE 0
NextStreakForgiving(u, today) == IF u.claimDay # Never THEN u.streak + 1 ELSE 1
NextStreak(u, today) ==
  IF u.claimDay # Never /\ today = u.claimDay + 1 THEN u.streak + 1 ELSE 1

ClaimDaily(p) ==
  LET g == req[p].g  u == db[g]  streak == NextStreak(u, Day(now)) IN
  /\ serving[p] = "daily" /\ Free(p, g)
  /\ IF ClaimedToday(u) THEN Refuse(p)
     ELSE /\ Write(p, g, [u EXCEPT !.coins = @ + RewardFor(streak),
                                   !.claimDay = Day(now), !.streak = streak])
          /\ Proceed(p, "commit") /\ UNCHANGED req
  /\ UNCHANGED <<now, db, settlements, asked, granted>>

(* What DailyStatus tells: whether there is a bonus to claim, the streak   *)
(* and the coins it would bring.                                           *)
(* Mutant: the streak goes on after any number of missed days.             *)
DailyStatusForgiving(u) ==
  IF ClaimedToday(u)
  THEN [claimable |-> FALSE, streak |-> u.streak, reward |-> RewardFor(u.streak + 1)]
  ELSE [claimable |-> TRUE, streak |-> u.streak + 1, reward |-> RewardFor(u.streak + 1)]
DailyStatus(u) ==
  LET days == Day(now) - u.claimDay
      open(streak) == [claimable |-> TRUE, streak |-> streak, reward |-> RewardFor(streak)]
  IN CASE u.claimDay = Never -> open(1)
       [] u.claimDay # Never /\ days <= 0 ->
            [claimable |-> FALSE, streak |-> u.streak, reward |-> RewardFor(u.streak + 1)]
       [] u.claimDay # Never /\ days = 1 -> open(u.streak + 1)
       [] OTHER -> open(1)

(* ClaimAd.                                                                *)
OnCooldown(u) == u.adAt # Never /\ now < u.adAt + AdCooldown
ClaimAd(p) ==
  LET g == req[p].g  u == db[g] IN
  /\ serving[p] = "ad" /\ Free(p, g)
  /\ IF OnCooldown(u) THEN Refuse(p)
     ELSE /\ Write(p, g, [u EXCEPT !.coins = @ + AdReward, !.adAt = now])
          /\ Proceed(p, "commit") /\ UNCHANGED req
  /\ UNCHANGED <<now, db, settlements, asked, granted>>

(* IncrementMissions: one statement, for the day it was called on.         *)
IncrementMissions(p) ==
  LET row == <<req[p].g, req[p].day>> IN
  /\ serving[p] = "play" /\ Free(p, row)
  /\ db' = Put(db, row, IF row \in DOMAIN db THEN [db[row] EXCEPT !.progress = @ + 1]
                        ELSE [progress |-> 1, claimed |-> FALSE])
  /\ Answer(p)
  /\ UNCHANGED <<now, settlements, draft, asked, granted>>

(* ClaimMission, for the day it was called on.                             *)
Claimable(m) == ~m.claimed /\ m.progress >= Goal
ClaimMission(p) ==
  LET row == <<req[p].g, req[p].day>> IN
  /\ serving[p] = "mission" /\ Free(p, row)
  /\ IF row \in DOMAIN db /\ Claimable(db[row])
     THEN /\ Write(p, row, [db[row] EXCEPT !.claimed = TRUE])
          /\ Proceed(p, "credit") /\ UNCHANGED req
     ELSE Refuse(p)
  /\ UNCHANGED <<now, db, settlements, asked, granted>>

(* PurchaseHandler: the provider captures the payment or refuses; then     *)
(* PurchasePackage credits the coins.                                      *)
Capture(p) ==
  /\ serving[p] = "capture"
  /\ (Proceed(p, "credit") /\ UNCHANGED req) \/ Answer(p)
  /\ UNCHANGED <<now, db, settlements, draft, asked, granted>>

(* The second statement of ClaimMission and of PurchasePackage.            *)
CreditWallet(p) ==
  LET g == req[p].g
      coins == IF req[p].op = "mission" THEN MissionReward ELSE PackageCoins IN
  /\ serving[p] = "credit" /\ Free(p, g)
  /\ Write(p, g, [db[g] EXCEPT !.coins = @ + coins])
  /\ Proceed(p, "commit")
  /\ UNCHANGED <<now, db, settlements, req, asked, granted>>

-----------------------------------------------------------------------------
(* SettleMatch: the losers' rows in the order of their seats, the          *)
(* winner's last; then RecordSettlement, in a transaction of its own.      *)

Stake(u) == IF Bet > u.coins THEN u.coins ELSE Bet

Lose(p) ==
  LET l == Head(req[p].losers)  rest == Tail(req[p].losers)  paid == Stake(db[l]) IN
  /\ serving[p] = "lose" /\ Free(p, l)
  /\ Write(p, l, [db[l] EXCEPT !.coins = @ - paid])
  /\ req' = [req EXCEPT ![p].losers = rest, ![p].pot = @ + paid,
                        ![p].players = @ \cup {l}]
  /\ Proceed(p, IF rest = <<>> THEN "win" ELSE "lose")
  /\ UNCHANGED <<now, db, settlements, asked, granted>>

Win(p) ==
  LET w == req[p].g IN
  /\ serving[p] = "win" /\ Free(p, w)
  /\ Write(p, w, [db[w] EXCEPT !.coins = @ + req[p].pot])
  /\ Proceed(p, "commit")
  /\ UNCHANGED <<now, db, settlements, req, asked, granted>>

RecordPlayers(p) ==
  /\ serving[p] = "record"
  /\ settlements' = settlements \cup req[p].players \cup {req[p].g}
  /\ Answer(p)
  /\ UNCHANGED <<now, db, draft, asked, granted>>

(* MaybeAwardReferral: the new guest's row, then the referrer's.           *)
Due(g) == ~db[g].rewarded /\ db[g].referrer # Nobody /\ g \in settlements
AwardReferee(p) ==
  LET g == req[p].g IN
  /\ serving[p] = "refer" /\ Free(p, g)
  /\ IF Due(g)
     THEN /\ Write(p, g, [db[g] EXCEPT !.coins = @ + ReferralBonus, !.rewarded = TRUE])
          /\ Proceed(p, "referrer") /\ UNCHANGED req
     ELSE Refuse(p)
  /\ UNCHANGED <<now, db, settlements, asked, granted>>

AwardReferrer(p) ==
  LET r == db[req[p].g].referrer IN
  /\ serving[p] = "referrer" /\ Free(p, r)
  /\ Write(p, r, [db[r] EXCEPT !.coins = @ + ReferralBonus])
  /\ Proceed(p, "commit")
  /\ UNCHANGED <<now, db, settlements, req, asked, granted>>

-----------------------------------------------------------------------------
(* What REST clients and rooms may ask for. The day of a mission is that   *)
(* of the call.                                                            *)
Requests ==
  [op : {"daily", "ad", "capture", "refer"}, g : Users]
  \cup [op : {"mission", "play"}, g : Users, day : {Day(now)}]
  \cup UNION {[op : {"lose"}, g : {w}, pot : {0}, players : {{}},
               losers : SetToAllKPermutations(Users \ {w}) \ {<<>>}] : w \in Users}

Ask(p) ==
  /\ serving[p] = "idle" /\ asked < MaxRequests
  /\ \E r \in Requests : req' = [req EXCEPT ![p] = r] /\ Proceed(p, r.op)
  /\ asked' = asked + 1
  /\ UNCHANGED <<now, db, settlements, draft, granted>>

Serve(p) ==
  \/ ClaimDaily(p) \/ ClaimAd(p)
  \/ IncrementMissions(p) \/ ClaimMission(p)
  \/ Capture(p) \/ CreditWallet(p)
  \/ Lose(p) \/ Win(p) \/ RecordPlayers(p)
  \/ AwardReferee(p) \/ AwardReferrer(p)
  \/ Commit(p)

WalletNext ==
  \/ Tick
  \/ \E g \in Guests : SignUp(g)
  \/ \E p \in Servers : Ask(p) \/ Serve(p) \/ Fail(p)

WalletSpec == WalletInit /\ [][WalletNext]_walletVars
================================================================================
