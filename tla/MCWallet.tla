-------------------------------- MODULE MCWallet -------------------------------
(***************************************************************************)
(* What is checked of Wallet: what the wallets promise (CoinLedger) and the*)
(* rules of the rewards, over the history of what was paid.                *)
(***************************************************************************)
EXTENDS Wallet

TwoSteps == <<1, 2>>
Interchangeable == Permutations(Guests) \cup Permutations(Servers)

WalletTypeOK ==
  /\ now \in Nat /\ asked \in 0..MaxRequests
  /\ \A g \in Users :
       /\ db[g] \in [coins : Int, claimDay : Nat \cup {Never}, streak : Nat,
                     adAt : Nat \cup {Never}, referrer : Users \cup {Nobody},
                     rewarded : BOOLEAN]
       /\ db[g].claimDay = Never <=> db[g].streak = 0
  /\ \A row \in DOMAIN db \ Guests : db[row] \in [progress : Nat, claimed : BOOLEAN]
  /\ settlements \subseteq Users
  /\ \A p \in Servers : DOMAIN draft[p] \subseteq DOMAIN db

(* The transactions do what CoinLedger promises, one indivisible payment   *)
(* at a time, whatever runs, fails or is aborted next to them (internal/db:*)
(* "atomically").                                                          *)
MissionsPaid ==
  {<<"mission", row[1], row[2]>> : row \in {r \in DOMAIN db \ Guests : db[r].claimed}}
ReferralsPaid == {<<"referral", g>> : g \in {h \in Users : db[h].rewarded}}
Ledger == INSTANCE CoinLedger WITH
  Times <- 0..MaxTime,
  Ladder <- Range(DailyRewardLadder),
  coins <- [g \in Users |-> db[g].coins],
  paid <- granted \cup MissionsPaid \cup ReferralsPaid
PaysAsPromised == Ledger!Spec

(* The streak counts the days in a row on which the bonus was claimed, up  *)
(* to the last claim (daily.go, migration 0005: "resets to 1 if they skip  *)
(* a day").                                                                *)
StreakCounts ==
  \A g \in Users : LET u == db[g] IN
    u.claimDay # Never =>
      /\ \A k \in 0..u.streak - 1 : <<"daily", g, u.claimDay - k>> \in granted
      /\ <<"daily", g, u.claimDay - u.streak>> \notin granted

(* Two rewarded ads of a guest are the cooldown apart, however many claims *)
(* arrive together (ClaimAd).                                              *)
AdsSpacedOut ==
  \A a, b \in {e \in granted : e[1] = "ad"} :
    a[2] = b[2] /\ a[3] < b[3] => b[3] >= a[3] + AdCooldown

(* The status a guest is shown is what a claim made now would do: refused  *)
(* or paid, and how much (DailyStatus against ClaimDaily, which decide     *)
(* about the streak separately).                                           *)
StatusIsHonest ==
  \A g \in Users : LET u == db[g]  status == DailyStatus(u) IN
    /\ status.claimable = ~ClaimedToday(u)
    /\ status.claimable => /\ status.streak = NextStreak(u, Day(now))
                           /\ status.reward = RewardFor(status.streak)
================================================================================
