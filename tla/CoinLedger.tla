------------------------------- MODULE CoinLedger ------------------------------
(***************************************************************************)
(* What the wallets promise: every payment is one indivisible step, made   *)
(* in full or not at all, and what is due once is paid once. Wallet shows  *)
(* the transactions of internal/db to implement this.                      *)
(***************************************************************************)
EXTENDS Integers, FiniteSets, FiniteSetsExt

CONSTANTS
  Guests,
  Times,           (* days and moments                                    *)
  StartingCoins,
  Ladder,          (* coins of the daily bonus                            *)
  AdReward, MissionReward, ReferralBonus,
  PackageCoins, Bet

VARIABLES
  coins,           (* the wallets of those who signed up                  *)
  paid             (* the one-time payments made                          *)

ledgerVars == <<coins, paid>>

Init == coins = [g \in {} |-> 0] /\ paid = {}

SignUp(g) ==
  /\ g \notin DOMAIN coins
  /\ coins' = [h \in DOMAIN coins \cup {g} |-> IF h = g THEN StartingCoins ELSE coins[h]]
  /\ UNCHANGED paid

(* Guest g bought coins; he may buy more.                                  *)
Credit(g, amount) == coins' = [coins EXCEPT ![g] = @ + amount] /\ UNCHANGED paid

(* Guest g is paid what is due once: a day's bonus or mission, a moment's  *)
(* ad.                                                                     *)
Reward(g, due, amount) ==
  /\ due \notin paid
  /\ paid' = paid \cup {due}
  /\ coins' = [coins EXCEPT ![g] = @ + amount]

(* Both sides of a referral are paid, once.                                *)
Refer(g, r) ==
  /\ g # r
  /\ <<"referral", g>> \notin paid
  /\ paid' = paid \cup {<<"referral", g>>}
  /\ coins' = [coins EXCEPT ![g] = @ + ReferralBonus, ![r] = @ + ReferralBonus]

(* Every loser pays the bet, or what he has; the winner gets what was paid.*)
Stake(l) == IF Bet > coins[l] THEN coins[l] ELSE Bet
Settle(w, losers) ==
  /\ w \notin losers
  /\ coins' = [g \in DOMAIN coins |->
                 CASE g = w -> coins[g] + MapThenSumSet(Stake, losers)
                   [] g \in losers -> coins[g] - Stake(g)
                   [] OTHER -> coins[g]]
  /\ UNCHANGED paid

Pay(g) ==
  \/ Credit(g, PackageCoins)
  \/ \E t \in Times :
       \/ \E amount \in Ladder : Reward(g, <<"daily", g, t>>, amount)
       \/ Reward(g, <<"mission", g, t>>, MissionReward)
       \/ Reward(g, <<"ad", g, t>>, AdReward)
  \/ \E r \in DOMAIN coins : Refer(g, r)
  \/ \E losers \in SUBSET DOMAIN coins : Settle(g, losers)

(* A step that moves nothing is none.                                      *)
Next ==
  /\ coins' # coins \/ paid' # paid
  /\ \/ \E g \in Guests : SignUp(g)
     \/ \E g \in DOMAIN coins : Pay(g)

Spec == Init /\ [][Next]_ledgerVars
================================================================================
