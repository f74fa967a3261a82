------------------------------- MODULE WalletProofs ------------------------------
(***************************************************************************)
(* Proofs about the wallets, for any number of guests and goroutines and   *)
(* any ladder, reward and cooldown. They rest on the locks: a row that a   *)
(* transaction has written is written by no other before it ends, so that  *)
(* what the transaction read of it is still so when it commits.            *)
(***************************************************************************)
EXTENDS MCWallet, SumProofs, SequenceTheorems

Steps == {"idle", "daily", "ad", "play", "mission", "capture", "credit", "lose", "win",
          "record", "refer", "referrer", "commit"}
User == [coins : Int, claimDay : Nat \cup {Never}, streak : Nat, adAt : Nat \cup {Never},
         referrer : Guests \cup {Nobody}, rewarded : BOOLEAN]
Mission == [progress : Nat, claimed : BOOLEAN]
MissionRows == Guests \X Nat
Job == {NoRequest}
  \cup [op : {"daily", "ad", "capture", "refer"}, g : Guests]
  \cup [op : {"mission", "play"}, g : Guests, day : Nat]
  \cup [op : {"lose"}, g : Guests, pot : Int, players : SUBSET Guests, losers : Seq(Guests)]

(* A guest without a claim has no streak, and with one a streak.           *)
GoodUser(u) == u \in User /\ (u.claimDay = Never <=> u.streak = 0)

GoodRows(b) ==
  /\ DOMAIN b \subseteq Guests \cup MissionRows
  /\ \A g \in DOMAIN b \cap Guests :
       GoodUser(b[g]) /\ b[g].referrer \in (DOMAIN b \cap Guests) \cup {Nobody}
  /\ \A row \in DOMAIN b \cap MissionRows : b[row] \in Mission
  /\ IsFiniteSet(DOMAIN b \cap Guests)

(* What a transaction wrote, against the row it read.                      *)
Fits(op, old, new) ==
  /\ GoodUser(new) /\ new.referrer = old.referrer
  /\ IF op = "ad"
     THEN new.adAt \in Nat /\ (old.adAt = Never \/ new.adAt >= old.adAt + AdCooldown)
     ELSE new.adAt = old.adAt
  /\ IF op = "daily"
     THEN /\ new.claimDay \in Nat /\ (old.claimDay = Never \/ old.claimDay < new.claimDay)
          /\ new.streak = NextStreak(old, new.claimDay)
     ELSE new.claimDay = old.claimDay /\ new.streak = old.streak

Quiet == {"idle", "daily", "ad", "play", "mission", "capture", "record", "refer"}

(* A goroutine at step s with request r and the written rows d, over the   *)
(* rows b.                                                                 *)
GoodStep(s, r, d, b) ==
  /\ s \in Steps /\ r \in Job
  /\ s # "idle" => r # NoRequest /\ r.g \in DOMAIN b
  /\ s \in {"daily", "ad", "play", "mission", "capture"} => r.op = s
  /\ s \in {"refer", "referrer"} => r.op = "refer"
  /\ s \in {"lose", "win", "record"} => r.op = "lose"
  /\ s = "credit" => r.op \in {"mission", "capture"}
  /\ s = "lose" => r.losers # <<>>
  /\ r.op = "lose" => r.players \subseteq DOMAIN b /\ Range(r.losers) \subseteq DOMAIN b
  /\ s = "referrer" => b[r.g].referrer # Nobody
  /\ DOMAIN d \subseteq DOMAIN b
  /\ \A row \in DOMAIN d : /\ row \in Guests => Fits(r.op, b[row], d[row])
                           /\ row \in MissionRows => d[row] \in Mission
  /\ s \in Quiet => DOMAIN d = {}
  /\ s = "commit" /\ r.op \in {"daily", "ad"} => DOMAIN d = {r.g}

(* The history of what was paid, against the rows.                         *)
GoodHistory(b, h) ==
  /\ h \subseteq {"daily", "ad"} \X Guests \X Nat
  /\ \A e \in h : e[2] \in DOMAIN b
  /\ \A g \in Guests, t \in Nat : <<"ad", g, t>> \in h => b[g].adAt # Never /\ t <= b[g].adAt
  /\ \A g \in Guests, t \in Nat :
       <<"daily", g, t>> \in h => b[g].claimDay # Never /\ t <= b[g].claimDay
  /\ \A g \in DOMAIN b \cap Guests : b[g].claimDay # Never =>
       /\ \A k \in 0..b[g].streak - 1 : <<"daily", g, b[g].claimDay - k>> \in h
       /\ <<"daily", g, b[g].claimDay - b[g].streak>> \notin h
  /\ \A g \in Guests, t, u \in Nat :
       <<"ad", g, t>> \in h /\ <<"ad", g, u>> \in h /\ t < u => u >= t + AdCooldown

WalletInv ==
  /\ now \in Nat /\ asked \in 0..MaxRequests
  /\ GoodRows(db) /\ settlements \subseteq Users
  /\ serving \in [Servers -> Steps] /\ req \in [Servers -> Job]
  /\ draft = [p \in Servers |-> draft[p]]
  /\ \A p \in Servers : GoodStep(serving[p], req[p], draft[p], db)
  /\ \A p, q \in Servers : p # q => DOMAIN draft[p] \cap DOMAIN draft[q] = {}
  /\ GoodHistory(db, granted)

-----------------------------------------------------------------------------
(* Rows and amounts.                                                       *)

LEMMA PutIs ==
  ASSUME NEW rows, NEW row, NEW value
  PROVE  /\ DOMAIN Put(rows, row, value) = DOMAIN rows \cup {row}
         /\ Put(rows, row, value)[row] = value
         /\ \A x \in DOMAIN rows : x # row => Put(rows, row, value)[x] = rows[x]
BY DEF Put

LEMMA OverIs ==
  ASSUME NEW new, NEW old
  PROVE  /\ DOMAIN Over(new, old) = DOMAIN new \cup DOMAIN old
         /\ \A x \in DOMAIN new : Over(new, old)[x] = new[x]
         /\ \A x \in DOMAIN old : x \notin DOMAIN new => Over(new, old)[x] = old[x]
BY DEF Over

LEMMA DaysAreNat == ASSUME now \in Nat PROVE Day(now) \in Nat
<1>1. DayLength \in Nat \ {0}
  BY WalletAssumption
<1>2. now \div DayLength \in Nat
  BY <1>1
<1>. QED
  BY <1>2 DEF Day

LEMMA Amounts ==
  /\ AdReward \in Nat /\ AdCooldown \in Nat /\ MissionReward \in Nat /\ ReferralBonus \in Nat
  /\ PackageCoins \in Nat /\ Bet \in Nat /\ StartingCoins \in Nat /\ MaxRequests \in Nat
  /\ MaxTime \in Nat
BY WalletAssumption

LEMMA RewardIs ==
  ASSUME NEW streak \in Nat
  PROVE  RewardFor(streak) \in Range(DailyRewardLadder) /\ RewardFor(streak) \in Nat
<1>1. /\ DailyRewardLadder \in [1..Len(DailyRewardLadder) -> Nat]
      /\ Len(DailyRewardLadder) \in Nat /\ Len(DailyRewardLadder) # 0
      /\ DOMAIN DailyRewardLadder = 1..Len(DailyRewardLadder)
  BY WalletAssumption
<1>. DEFINE i == CASE streak <= 0 -> 1
                   [] streak > Len(DailyRewardLadder) -> Len(DailyRewardLadder)
                   [] OTHER -> streak
<1>2. i \in 1..Len(DailyRewardLadder)
  BY <1>1
<1>3. RewardFor(streak) = DailyRewardLadder[i]
  BY DEF RewardFor
<1>. HIDE DEF i
<1>. QED
  BY <1>1, <1>2, <1>3 DEF Range

LEMMA TablesDiffer ==
  /\ Guests \cap MissionRows = {} /\ Nobody \notin Guests
BY WalletAssumption DEF MissionRows

LEMMA StreakIs ==
  ASSUME NEW u, GoodUser(u), NEW d \in Nat PROVE NextStreak(u, d) \in Nat \ {0}
BY DEF GoodUser, User, NextStreak

-----------------------------------------------------------------------------
(* The rows a transaction read are still so.                               *)
LEMMA StepKept ==
  ASSUME NEW s, NEW r, NEW d, NEW b, NEW c, GoodStep(s, r, d, b),
         DOMAIN b \subseteq DOMAIN c,
         \A row \in DOMAIN d : c[row] = b[row],
         \A g \in DOMAIN b \cap Guests : c[g].referrer = b[g].referrer
  PROVE  GoodStep(s, r, d, c)
<1>1. s # "idle" => r.g \in Guests
  BY DEF GoodStep, Job
<1>. QED
  BY <1>1 DEF GoodStep

(* One goroutine goes on and no row is committed.                          *)
LEMMA OneServes ==
  ASSUME WalletInv, NEW p \in Servers, NEW s, NEW r, NEW d, GoodStep(s, r, d, db),
         serving' = [serving EXCEPT ![p] = s], req' = [req EXCEPT ![p] = r],
         draft' = [draft EXCEPT ![p] = d],
         \A row \in DOMAIN d : Free(p, row),
         UNCHANGED <<now, db, granted>>, asked' \in 0..MaxRequests, settlements' \subseteq Users
  PROVE  WalletInv'
<1>1. serving' \in [Servers -> Steps] /\ req' \in [Servers -> Job] /\ draft' = [q \in Servers |-> draft'[q]]
  BY DEF WalletInv, GoodStep
<1>2. serving'[p] = s /\ req'[p] = r /\ draft'[p] = d
      /\ \A q \in Servers : q # p => serving'[q] = serving[q] /\ req'[q] = req[q] /\ draft'[q] = draft[q]
  BY DEF WalletInv
<1>3. \A q \in Servers : GoodStep(serving'[q], req'[q], draft'[q], db)
  BY <1>2 DEF WalletInv
<1>4. \A q \in Servers : q # p => DOMAIN draft'[p] \cap DOMAIN draft'[q] = {}
  BY <1>2 DEF Free
<1>5. \A q, x \in Servers : q # x => DOMAIN draft'[q] \cap DOMAIN draft'[x] = {}
  BY <1>2, <1>4 DEF WalletInv
<1>6. Users' = Users
  BY DEF Users
<1>. QED
  BY <1>1, <1>3, <1>5, <1>6 DEF WalletInv

(* The same, with the usual forms of going on.                             *)
LEMMA OneWrites ==
  ASSUME WalletInv, NEW p \in Servers, NEW s \in Steps, NEW row, NEW value,
         GoodStep(s, req[p], Put(draft[p], row, value), db), Free(p, row),
         Write(p, row, value), Proceed(p, s),
         UNCHANGED <<now, db, settlements, req, asked, granted>>
  PROVE  WalletInv'
<1>1. draft' = [draft EXCEPT ![p] = Put(draft[p], row, value)] /\ serving' = [serving EXCEPT ![p] = s]
      /\ req' = [req EXCEPT ![p] = req[p]]
  BY DEF Write, Proceed, WalletInv
<1>2. \A x \in DOMAIN Put(draft[p], row, value) : Free(p, x)
  <2>1. DOMAIN Put(draft[p], row, value) = DOMAIN draft[p] \cup {row}
    BY PutIs
  <2>2. \A x \in DOMAIN draft[p] : Free(p, x)
    BY DEF Free, WalletInv
  <2>. QED
    BY <2>1, <2>2
<1>3. asked' \in 0..MaxRequests /\ settlements' \subseteq Users
  BY DEF WalletInv
<1>. QED
  BY <1>1, <1>2, <1>3, OneServes

LEMMA OneReturns ==
  ASSUME WalletInv, NEW p \in Servers, Answer(p),
         \/ draft' = [draft EXCEPT ![p] = NoDraft]
         \/ draft' = draft /\ DOMAIN draft[p] = {},
         UNCHANGED <<now, db, asked, granted>>, settlements' \subseteq Users
  PROVE  WalletInv'
<1>1. PICK d : draft' = [draft EXCEPT ![p] = d] /\ DOMAIN d = {}
  <2>1. CASE draft' = [draft EXCEPT ![p] = NoDraft]
    <3>1. DOMAIN NoDraft = {}
      BY DEF NoDraft
    <3>. QED
      BY <2>1, <3>1
  <2>2. CASE draft' = draft /\ DOMAIN draft[p] = {}
    <3>1. draft' = [draft EXCEPT ![p] = draft[p]]
      BY <2>2 DEF WalletInv
    <3>. QED
      BY <2>2, <3>1
  <2>. QED
    BY <2>1, <2>2
<1>2. GoodStep("idle", NoRequest, d, db)
  BY <1>1 DEF GoodStep, Steps, Job, NoRequest
<1>3. serving' = [serving EXCEPT ![p] = "idle"] /\ req' = [req EXCEPT ![p] = NoRequest]
  BY DEF Answer, Proceed
<1>4. asked' \in 0..MaxRequests
  BY DEF WalletInv
<1>. QED
  BY <1>1, <1>2, <1>3, <1>4, OneServes

LEMMA ServedBy ==
  ASSUME WalletInv, NEW p \in Servers
  PROVE  /\ GoodStep(serving[p], req[p], draft[p], db) /\ req[p] \in Job
         /\ serving[p] # "idle" => /\ req[p] # NoRequest /\ req[p].g \in Users
                              /\ GoodUser(db[req[p].g])
         /\ \A g \in Users : GoodUser(db[g]) /\ db[g].referrer \in Users \cup {Nobody}
<1>1. req[p] # NoRequest => req[p].g \in Guests
  BY DEF WalletInv, Job
<1>. QED
  BY <1>1 DEF WalletInv, GoodStep, GoodRows, Users

(* One more row is written.                                                *)
LEMMA RowWritten ==
  ASSUME NEW s, NEW r, NEW d, NEW b, GoodStep(s, r, d, b), s # "idle",
         NEW t \in {"commit", "credit", "referrer", "lose", "win"}, NEW row \in DOMAIN b, NEW value,
         row \in Guests => Fits(r.op, b[row], value),
         row \in MissionRows => value \in Mission,
         t = "commit" /\ r.op \in {"daily", "ad"} => DOMAIN d = {} /\ row = r.g,
         t = "credit" => r.op \in {"mission", "capture"},
         t = "referrer" => r.op = "refer" /\ b[r.g].referrer # Nobody,
         t \in {"lose", "win"} => r.op = "lose",
         t = "lose" => r.losers # <<>>
  PROVE  GoodStep(t, r, Put(d, row, value), b)
<1>1. \A x \in DOMAIN Put(d, row, value) : x # row => x \in DOMAIN d /\ Put(d, row, value)[x] = d[x]
  BY DEF Put
<1>2. Put(d, row, value)[row] = value /\ DOMAIN Put(d, row, value) = DOMAIN d \cup {row}
  BY DEF Put
<1>3. t \in Steps /\ t \notin Quiet
  BY DEF Steps, Quiet
<1>. QED
  BY <1>1, <1>2, <1>3 DEF GoodStep

LEMMA DailyKeeps ==
  ASSUME WalletInv, NEW p \in Servers, ClaimDaily(p) PROVE WalletInv'
<1>. DEFINE g == req[p].g
            u == db[g]
            streak == NextStreak(u, Day(now))
            v == [u EXCEPT !.coins = @ + RewardFor(streak), !.claimDay = Day(now), !.streak = streak]
<1>1. /\ serving[p] = "daily" /\ Free(p, g) /\ UNCHANGED <<now, db, settlements, asked, granted>>
      /\ IF ClaimedToday(u) THEN Refuse(p) ELSE Write(p, g, v) /\ Proceed(p, "commit") /\ UNCHANGED req
  BY DEF ClaimDaily
<1>2. /\ g \in Users /\ GoodUser(u) /\ GoodStep("daily", req[p], draft[p], db)
      /\ req[p].op = "daily" /\ DOMAIN draft[p] = {} /\ g \in DOMAIN db
  BY <1>1, ServedBy DEF GoodStep, Quiet, Users
<1>3. CASE ClaimedToday(u)
  BY <1>1, <1>3, OneReturns DEF Refuse, WalletInv
<1>4. CASE ~ClaimedToday(u)
  <2>1. Day(now) \in Nat /\ (u.claimDay = Never \/ u.claimDay < Day(now))
    <3>1. Day(now) \in Nat
      BY DaysAreNat DEF WalletInv
    <3>2. u.claimDay \in Nat \cup {Never}
      BY <1>2 DEF GoodUser, User
    <3>. QED
      BY <1>4, <3>1, <3>2 DEF ClaimedToday
  <2>2. streak \in Nat \ {0}
    BY <1>2, <2>1, StreakIs
  <2>3. RewardFor(streak) \in Nat
    BY <2>2, RewardIs
  <2>. HIDE DEF streak
  <2>4. u \in User /\ u.coins \in Int /\ u.coins + RewardFor(streak) \in Int
    BY <1>2, <2>3 DEF GoodUser, User
  <2>5. /\ v \in User /\ v.claimDay = Day(now) /\ v.streak = streak /\ v.adAt = u.adAt
        /\ v.referrer = u.referrer
    BY <2>1, <2>2, <2>4 DEF User
  <2>6. Never \notin Nat
    BY DEF Never
  <2>. HIDE DEF v
  <2>7. Fits("daily", u, v)
    BY <2>1, <2>2, <2>5, <2>6 DEF Fits, GoodUser, streak
  <2>8. GoodStep("commit", req[p], Put(draft[p], g, v), db)
    BY <1>2, <2>7, RowWritten, TablesDiffer DEF Users
  <2>. QED
    BY <1>1, <1>4, <2>8, OneWrites DEF Steps
<1>. QED
  BY <1>3, <1>4

LEMMA AdKeeps ==
  ASSUME WalletInv, NEW p \in Servers, ClaimAd(p) PROVE WalletInv'
<1>. DEFINE g == req[p].g
            u == db[g]
            v == [u EXCEPT !.coins = @ + AdReward, !.adAt = now]
<1>1. /\ serving[p] = "ad" /\ Free(p, g) /\ UNCHANGED <<now, db, settlements, asked, granted>>
      /\ IF OnCooldown(u) THEN Refuse(p) ELSE Write(p, g, v) /\ Proceed(p, "commit") /\ UNCHANGED req
  BY DEF ClaimAd
<1>2. /\ g \in Users /\ GoodUser(u) /\ GoodStep("ad", req[p], draft[p], db)
      /\ req[p].op = "ad" /\ DOMAIN draft[p] = {} /\ g \in DOMAIN db
  BY <1>1, ServedBy DEF GoodStep, Quiet, Users
<1>3. CASE OnCooldown(u)
  BY <1>1, <1>3, OneReturns DEF Refuse, WalletInv
<1>4. CASE ~OnCooldown(u)
  <2>1. now \in Nat /\ (u.adAt = Never \/ now >= u.adAt + AdCooldown)
    <3>1. now \in Nat /\ AdCooldown \in Nat
      BY Amounts DEF WalletInv
    <3>2. u.adAt \in Nat \cup {Never}
      BY <1>2 DEF GoodUser, User
    <3>. QED
      BY <1>4, <3>1, <3>2 DEF OnCooldown
  <2>2. u \in User /\ u.coins \in Int /\ u.coins + AdReward \in Int
    BY <1>2, Amounts DEF GoodUser, User
  <2>3. /\ v \in User /\ v.claimDay = u.claimDay /\ v.streak = u.streak /\ v.adAt = now
        /\ v.referrer = u.referrer
    BY <2>1, <2>2 DEF User
  <2>. HIDE DEF v
  <2>4. Fits("ad", u, v)
    BY <1>2, <2>1, <2>3 DEF Fits, GoodUser
  <2>5. GoodStep("commit", req[p], Put(draft[p], g, v), db)
    BY <1>2, <2>4, RowWritten, TablesDiffer DEF Users
  <2>. QED
    BY <1>1, <1>4, <2>5, OneWrites DEF Steps
<1>. QED
  BY <1>3, <1>4

(* A statement that moves coins and nothing else.                          *)
LEMMA CoinsMoved ==
  ASSUME NEW u, GoodUser(u), NEW coins \in Int, NEW rewarded \in BOOLEAN, NEW op,
         op \notin {"daily", "ad"}, NEW v,
         \/ v = [u EXCEPT !.coins = coins]
         \/ v = [u EXCEPT !.coins = coins, !.rewarded = rewarded]
  PROVE  Fits(op, u, v)
<1>1. u \in User
  BY DEF GoodUser
<1>2. /\ v \in User /\ v.claimDay = u.claimDay /\ v.streak = u.streak /\ v.adAt = u.adAt
      /\ v.referrer = u.referrer
  BY <1>1 DEF User
<1>. QED
  BY <1>2 DEF Fits, GoodUser

LEMMA MissionKeeps ==
  ASSUME WalletInv, NEW p \in Servers, ClaimMission(p) PROVE WalletInv'
<1>. DEFINE row == <<req[p].g, req[p].day>>
            v == [db[row] EXCEPT !.claimed = TRUE]
<1>1. /\ serving[p] = "mission" /\ Free(p, row) /\ UNCHANGED <<now, db, settlements, asked, granted>>
      /\ \/ /\ row \in DOMAIN db
            /\ Write(p, row, v) /\ Proceed(p, "credit") /\ UNCHANGED req
         \/ Refuse(p)
  BY DEF ClaimMission
<1>2. GoodStep("mission", req[p], draft[p], db) /\ req[p].op = "mission"
  BY <1>1, ServedBy DEF GoodStep
<1>3. CASE Refuse(p)
  BY <1>1, <1>3, OneReturns DEF Refuse, WalletInv
<1>4. CASE row \in DOMAIN db /\ Write(p, row, v) /\ Proceed(p, "credit") /\ UNCHANGED req
  <2>1. row \in MissionRows
    BY <1>2, ServedBy DEF Job, MissionRows, NoRequest
  <2>2. db[row] \in Mission
    BY <1>4, <2>1 DEF WalletInv, GoodRows
  <2>3. v \in Mission
    BY <2>2 DEF Mission
  <2>. HIDE DEF v, row
  <2>4. GoodStep("credit", req[p], Put(draft[p], row, v), db)
    BY <1>2, <1>4, <2>1, <2>3, RowWritten, TablesDiffer
  <2>. QED
    BY <1>1, <1>4, <2>4, OneWrites DEF Steps
<1>. QED
  BY <1>1, <1>3, <1>4

LEMMA CreditKeeps ==
  ASSUME WalletInv, NEW p \in Servers, CreditWallet(p) PROVE WalletInv'
<1>. DEFINE g == req[p].g
            c == IF req[p].op = "mission" THEN MissionReward ELSE PackageCoins
            v == [db[g] EXCEPT !.coins = @ + c]
<1>1. /\ serving[p] = "credit" /\ Free(p, g) /\ Write(p, g, v) /\ Proceed(p, "commit")
      /\ UNCHANGED <<now, db, settlements, req, asked, granted>>
  BY DEF CreditWallet
<1>2. /\ g \in Users /\ GoodUser(db[g]) /\ GoodStep("credit", req[p], draft[p], db)
      /\ req[p].op \in {"mission", "capture"} /\ g \in DOMAIN db
  BY <1>1, ServedBy DEF GoodStep, Users
<1>3. db[g].coins + c \in Int
  BY <1>2, Amounts DEF GoodUser, User
<1>4. Fits(req[p].op, db[g], v)
  <2>. DEFINE n == db[g].coins + c
  <2>1. v = [db[g] EXCEPT !.coins = n]
    OBVIOUS
  <2>2. n \in Int
    BY <1>3
  <2>. HIDE DEF n, v
  <2>. QED
    BY <1>2, <2>1, <2>2, CoinsMoved
<1>. HIDE DEF v, c
<1>5. GoodStep("commit", req[p], Put(draft[p], g, v), db)
  BY <1>2, <1>4, RowWritten, TablesDiffer DEF Users
<1>. QED
  BY <1>1, <1>5, OneWrites DEF Steps

LEMMA CaptureKeeps ==
  ASSUME WalletInv, NEW p \in Servers, Capture(p) PROVE WalletInv'
<1>1. /\ serving[p] = "capture" /\ UNCHANGED <<now, db, settlements, draft, asked, granted>>
      /\ (Proceed(p, "credit") /\ UNCHANGED req) \/ Answer(p)
  BY DEF Capture
<1>2. /\ GoodStep("capture", req[p], draft[p], db) /\ req[p].op = "capture"
      /\ DOMAIN draft[p] = {}
  BY <1>1, ServedBy DEF GoodStep, Quiet
<1>3. CASE Answer(p)
  BY <1>1, <1>2, <1>3, OneReturns DEF WalletInv
<1>4. CASE Proceed(p, "credit") /\ UNCHANGED req
  <2>1. GoodStep("credit", req[p], draft[p], db)
    BY <1>2 DEF GoodStep, Steps, Quiet
  <2>2. /\ serving' = [serving EXCEPT ![p] = "credit"] /\ req' = [req EXCEPT ![p] = req[p]]
        /\ draft' = [draft EXCEPT ![p] = draft[p]]
    BY <1>1, <1>4 DEF Proceed, WalletInv
  <2>3. asked' \in 0..MaxRequests /\ settlements' \subseteq Users
    BY <1>1 DEF WalletInv
  <2>. QED
    BY <1>1, <1>2, <2>1, <2>2, <2>3, OneServes
<1>. QED
  BY <1>1, <1>3, <1>4

LEMMA ReferKeeps ==
  ASSUME WalletInv, NEW p \in Servers, AwardReferee(p) \/ AwardReferrer(p) PROVE WalletInv'
<1>1. CASE AwardReferee(p)
  <2>. DEFINE g == req[p].g
              n == db[g].coins + ReferralBonus
              v == [db[g] EXCEPT !.coins = n, !.rewarded = TRUE]
  <2>1. /\ serving[p] = "refer" /\ Free(p, g) /\ UNCHANGED <<now, db, settlements, asked, granted>>
        /\ \/ /\ Due(g)
              /\ Write(p, g, v) /\ Proceed(p, "referrer") /\ UNCHANGED req
           \/ Refuse(p)
    BY <1>1 DEF AwardReferee
  <2>2. /\ g \in Users /\ GoodUser(db[g]) /\ GoodStep("refer", req[p], draft[p], db)
        /\ req[p].op = "refer" /\ g \in DOMAIN db
    BY <2>1, ServedBy DEF GoodStep, Users
  <2>3. CASE Refuse(p)
    BY <2>1, <2>3, OneReturns DEF Refuse, WalletInv
  <2>4. CASE Due(g) /\ Write(p, g, v) /\ Proceed(p, "referrer") /\ UNCHANGED req
    <3>1. n \in Int
      BY <2>2, Amounts DEF GoodUser, User
    <3>. HIDE DEF n
    <3>2. Fits("refer", db[g], v)
      BY <2>2, <3>1, CoinsMoved
    <3>. HIDE DEF v
    <3>3. GoodStep("referrer", req[p], Put(draft[p], g, v), db)
      BY <2>2, <2>4, <3>2, RowWritten, TablesDiffer DEF Users, Due
    <3>. QED
      BY <2>1, <2>4, <3>3, OneWrites DEF Steps
  <2>. QED
    BY <2>1, <2>3, <2>4
<1>2. CASE AwardReferrer(p)
  <2>. DEFINE g == db[req[p].g].referrer
              n == db[g].coins + ReferralBonus
              v == [db[g] EXCEPT !.coins = n]
  <2>1. /\ serving[p] = "referrer" /\ Free(p, g) /\ Write(p, g, v) /\ Proceed(p, "commit")
        /\ UNCHANGED <<now, db, settlements, req, asked, granted>>
    BY <1>2 DEF AwardReferrer
  <2>2. GoodStep("referrer", req[p], draft[p], db) /\ req[p].op = "refer" /\ g # Nobody
    BY <2>1, ServedBy DEF GoodStep
  <2>3. g \in Users /\ GoodUser(db[g]) /\ g \in DOMAIN db
    BY <2>1, <2>2, ServedBy DEF Users
  <2>4. n \in Int
    BY <2>3, Amounts DEF GoodUser, User
  <2>. HIDE DEF n
  <2>5. Fits("refer", db[g], v)
    BY <2>3, <2>4, CoinsMoved
  <2>. HIDE DEF v, g
  <2>6. GoodStep("commit", req[p], Put(draft[p], g, v), db)
    BY <2>2, <2>3, <2>5, RowWritten, TablesDiffer DEF Users
  <2>. QED
    BY <2>1, <2>6, OneWrites DEF Steps
<1>. QED
  BY <1>1, <1>2

LEMMA StakeIs ==
  ASSUME NEW u, GoodUser(u) PROVE Stake(u) \in Int
BY Amounts DEF Stake, GoodUser, User

LEMMA LoseKeeps ==
  ASSUME WalletInv, NEW p \in Servers, Lose(p) PROVE WalletInv'
<1>. DEFINE l == Head(req[p].losers)
            rest == Tail(req[p].losers)
            paid == Stake(db[l])
            n == db[l].coins - paid
            v == [db[l] EXCEPT !.coins = n]
            r == [req[p] EXCEPT !.losers = rest, !.pot = @ + paid, !.players = @ \cup {l}]
            t == IF rest = <<>> THEN "win" ELSE "lose"
<1>1. /\ serving[p] = "lose" /\ Free(p, l) /\ Write(p, l, v) /\ Proceed(p, t)
      /\ req' = [req EXCEPT ![p].losers = rest, ![p].pot = @ + paid, ![p].players = @ \cup {l}]
      /\ UNCHANGED <<now, db, settlements, asked, granted>>
  BY DEF Lose
<1>2. GoodStep("lose", req[p], draft[p], db) /\ req[p].op = "lose" /\ req[p].losers # <<>>
      /\ Range(req[p].losers) \subseteq DOMAIN db /\ req[p].players \subseteq DOMAIN db
  BY <1>1, ServedBy DEF GoodStep
<1>3. req[p] \in [op : {"lose"}, g : Guests, pot : Int, players : SUBSET Guests, losers : Seq(Guests)]
  BY <1>2, ServedBy DEF Job, NoRequest
<1>4. l \in Range(req[p].losers) /\ l \in Guests /\ rest \in Seq(Guests)
      /\ Range(rest) \subseteq Range(req[p].losers)
  <2>1. req[p].losers \in Seq(Guests) /\ req[p].losers # <<>>
    BY <1>2, <1>3
  <2>. DEFINE q == req[p].losers
  <2>2. q \in Seq(Guests) /\ q # <<>>
    BY <2>1
  <2>. HIDE DEF q
  <2>3. Len(q) \in Nat \ {0} /\ DOMAIN q = 1..Len(q) /\ Head(q) = q[1] /\ Head(q) \in Guests
        /\ Tail(q) \in Seq(Guests) /\ DOMAIN Tail(q) = 1..(Len(q) - 1)
        /\ \A i \in 1..(Len(q) - 1) : Tail(q)[i] = q[i + 1]
    BY <2>2, HeadTailProperties
  <2>4. \A i \in 1..(Len(q) - 1) : i + 1 \in 1..Len(q)
    BY <2>3
  <2>5. Head(q) \in Range(q) /\ Range(Tail(q)) \subseteq Range(q)
    BY <2>3, <2>4 DEF Range
  <2>. QED
    BY <2>3, <2>5 DEF q
<1>5. l \in Users /\ l \in DOMAIN db /\ GoodUser(db[l])
  BY <1>2, <1>4, ServedBy DEF Users
<1>6. paid \in Int /\ n \in Int
  <2>1. paid \in Int /\ db[l].coins \in Int
    BY <1>5, StakeIs DEF GoodUser, User
  <2>. HIDE DEF paid
  <2>. QED
    BY <2>1
<1>. HIDE DEF paid, n, l, rest
<1>7. Fits("lose", db[l], v)
  BY <1>5, <1>6, CoinsMoved
<1>8. /\ r \in Job /\ r.op = "lose" /\ r.g = req[p].g /\ r.losers = rest
      /\ r.players = req[p].players \cup {l} /\ r # NoRequest
  <2>1. r \in [op : {"lose"}, g : Guests, pot : Int, players : SUBSET Guests, losers : Seq(Guests)]
    <3>1. req[p].pot + paid \in Int
      BY <1>3, <1>6
    <3>2. req[p].players \cup {l} \in SUBSET Guests
      BY <1>3, <1>4
    <3>. QED
      BY <1>3, <1>4, <3>1, <3>2
  <2>2. r.losers = rest /\ r.players = req[p].players \cup {l} /\ r.g = req[p].g
    BY <1>3
  <2>. QED
    BY <2>1, <2>2 DEF Job, NoRequest
<1>9. req' = [req EXCEPT ![p] = r]
  BY <1>1 DEF WalletInv
<1>. HIDE DEF v, r
<1>10. GoodStep("win", r, draft[p], db)
  BY <1>2, <1>4, <1>5, <1>8 DEF GoodStep, Steps, Quiet
<1>11. GoodStep(t, r, Put(draft[p], l, v), db)
  <2>1. l \in Guests /\ l \notin MissionRows
    BY <1>4, TablesDiffer
  <2>2. t \in {"lose", "win"} /\ (t = "lose" => r.losers # <<>>)
    BY <1>8
  <2>. HIDE DEF t
  <2>. QED
    BY <1>5, <1>7, <1>8, <1>10, <2>1, <2>2, RowWritten
<1>. HIDE DEF t
<1>12. serving' = [serving EXCEPT ![p] = t] /\ draft' = [draft EXCEPT ![p] = Put(draft[p], l, v)]
  BY <1>1 DEF Proceed, Write
<1>13. \A x \in DOMAIN Put(draft[p], l, v) : Free(p, x)
  <2>1. DOMAIN Put(draft[p], l, v) = DOMAIN draft[p] \cup {l}
    BY PutIs
  <2>2. \A x \in DOMAIN draft[p] : Free(p, x)
    BY DEF Free, WalletInv
  <2>. QED
    BY <1>1, <2>1, <2>2
<1>14. asked' \in 0..MaxRequests /\ settlements' \subseteq Users
  BY <1>1 DEF WalletInv
<1>. QED
  BY <1>1, <1>9, <1>11, <1>12, <1>13, <1>14, OneServes

LEMMA WinKeeps ==
  ASSUME WalletInv, NEW p \in Servers, Win(p) PROVE WalletInv'
<1>. DEFINE w == req[p].g
            n == db[w].coins + req[p].pot
            v == [db[w] EXCEPT !.coins = n]
<1>1. /\ serving[p] = "win" /\ Free(p, w) /\ Write(p, w, v) /\ Proceed(p, "commit")
      /\ UNCHANGED <<now, db, settlements, req, asked, granted>>
  BY DEF Win
<1>2. GoodStep("win", req[p], draft[p], db) /\ req[p].op = "lose"
  BY <1>1, ServedBy DEF GoodStep
<1>3. w \in Users /\ w \in DOMAIN db /\ GoodUser(db[w])
  BY <1>1, ServedBy DEF Users
<1>4. req[p].pot \in Int
  BY <1>2, ServedBy DEF Job, NoRequest
<1>5. n \in Int
  BY <1>3, <1>4 DEF GoodUser, User
<1>. HIDE DEF n
<1>6. Fits("lose", db[w], v)
  BY <1>3, <1>5, CoinsMoved
<1>. HIDE DEF v
<1>7. GoodStep("commit", req[p], Put(draft[p], w, v), db)
  BY <1>2, <1>3, <1>6, RowWritten, TablesDiffer DEF Users
<1>. QED
  BY <1>1, <1>7, OneWrites DEF Steps

LEMMA RecordKeeps ==
  ASSUME WalletInv, NEW p \in Servers, RecordPlayers(p) PROVE WalletInv'
<1>1. /\ serving[p] = "record" /\ Answer(p) /\ UNCHANGED <<now, db, draft, asked, granted>>
      /\ settlements' = settlements \cup req[p].players \cup {req[p].g}
  BY DEF RecordPlayers
<1>2. req[p].op = "lose" /\ DOMAIN draft[p] = {} /\ req[p].players \subseteq DOMAIN db
  BY <1>1, ServedBy DEF GoodStep, Quiet
<1>3. req[p].players \subseteq Guests
  BY <1>2, ServedBy DEF Job, NoRequest
<1>4. settlements' \subseteq Users
  BY <1>1, <1>2, <1>3, ServedBy DEF WalletInv, Users
<1>. QED
  BY <1>1, <1>2, <1>4, OneReturns

LEMMA FailKeeps ==
  ASSUME WalletInv, NEW p \in Servers, Fail(p) PROVE WalletInv'
<1>1. UNCHANGED <<now, db, settlements, asked, granted>>
      /\ Answer(p) /\ draft' = [draft EXCEPT ![p] = NoDraft]
  BY DEF Fail, Undo
<1>. QED
  BY <1>1, OneReturns DEF WalletInv

LEMMA AskKeeps ==
  ASSUME WalletInv, NEW p \in Servers, Ask(p) PROVE WalletInv'
<1>1. PICK r \in Requests : req' = [req EXCEPT ![p] = r] /\ Proceed(p, r.op)
  BY DEF Ask
<1>2. /\ serving[p] = "idle" /\ asked < MaxRequests /\ asked' = asked + 1
      /\ UNCHANGED <<now, db, settlements, draft, granted>>
  BY DEF Ask
<1>3. DOMAIN draft[p] = {}
  BY <1>2, ServedBy DEF GoodStep, Quiet
<1>4. GoodStep(r.op, r, draft[p], db)
  <2>1. CASE r \in [op : {"daily", "ad", "capture", "refer"}, g : Users]
    BY <1>3, <2>1 DEF GoodStep, Job, Steps, Users, NoRequest
  <2>2. CASE r \in [op : {"mission", "play"}, g : Users, day : {Day(now)}]
    <3>1. Day(now) \in Nat
      BY DaysAreNat DEF WalletInv
    <3>. QED
      BY <1>3, <2>2, <3>1 DEF GoodStep, Job, Steps, Users, NoRequest
  <2>3. ASSUME NEW w \in Users,
               r \in [op : {"lose"}, g : {w}, pot : {0}, players : {{}},
                      losers : SetToAllKPermutations(Users \ {w}) \ {<<>>}]
        PROVE  GoodStep(r.op, r, draft[p], db)
    <3>1. PICK S \in SUBSET (Users \ {w}) : r.losers \in SetToSeqs(S)
      BY <2>3 DEF SetToAllKPermutations
    <3>2. IsFiniteSet(S)
      BY FS_Subset DEF WalletInv, GoodRows, Users
    <3>3. Cardinality(S) \in Nat
      BY <3>2, FS_CardinalityType
    <3>4. r.losers \in [1..Cardinality(S) -> S]
      BY <3>1 DEF SetToSeqs
    <3>5. r.losers \in Seq(S) /\ Range(r.losers) \subseteq S
      BY <3>3, <3>4 DEF Range
    <3>6. r.losers \in Seq(Guests) /\ Range(r.losers) \subseteq DOMAIN db
      BY <3>3, <3>4, <3>5 DEF Users
    <3>7. r.op = "lose" /\ r.g = w /\ r.players = {} /\ r.losers # <<>> /\ r.pot = 0
      BY <2>3
    <3>8. r \in Job /\ r # NoRequest
      <4>1. r = [op |-> "lose", g |-> w, pot |-> 0, players |-> {}, losers |-> r.losers]
        BY <2>3
      <4>. HIDE <2>3
      <4>2. r \in [op : {"lose"}, g : Guests, pot : Int, players : SUBSET Guests, losers : Seq(Guests)]
        BY <3>6, <4>1 DEF Users
      <4>. QED
        BY <3>7, <4>2 DEF Job, NoRequest
    <3>. QED
      BY <1>3, <3>6, <3>7, <3>8 DEF GoodStep, Steps, Users
  <2>. QED
    BY <2>1, <2>2, <2>3 DEF Requests
<1>5. serving' = [serving EXCEPT ![p] = r.op] /\ draft' = [draft EXCEPT ![p] = draft[p]]
  BY <1>1, <1>2 DEF Proceed, WalletInv
<1>6. asked' \in 0..MaxRequests /\ settlements' \subseteq Users
  BY <1>2, Amounts DEF WalletInv
<1>. QED
  BY <1>1, <1>2, <1>3, <1>4, <1>5, <1>6, OneServes

-----------------------------------------------------------------------------
(* The rows change.                                                        *)

LEMMA SameHistory ==
  ASSUME NEW b, NEW c, NEW h, GoodHistory(b, h), DOMAIN b \subseteq DOMAIN c,
         \A g \in DOMAIN b \cap Guests : /\ c[g].adAt = b[g].adAt
                                         /\ c[g].claimDay = b[g].claimDay
                                         /\ c[g].streak = b[g].streak,
         \A g \in (DOMAIN c \cap Guests) \ DOMAIN b : c[g].claimDay = Never
  PROVE  GoodHistory(c, h)
<1>1. ASSUME NEW g \in Guests, NEW t \in Nat PROVE
        /\ <<"ad", g, t>> \in h => c[g].adAt # Never /\ t <= c[g].adAt
        /\ <<"daily", g, t>> \in h => c[g].claimDay # Never /\ t <= c[g].claimDay
  <2>1. \A s \in {"ad", "daily"} : <<s, g, t>> \in h => g \in DOMAIN b
    BY DEF GoodHistory
  <2>. QED
    BY <2>1 DEF GoodHistory
<1>2. ASSUME NEW g \in DOMAIN c \cap Guests, c[g].claimDay # Never
      PROVE  /\ \A k \in 0..c[g].streak - 1 : <<"daily", g, c[g].claimDay - k>> \in h
             /\ <<"daily", g, c[g].claimDay - c[g].streak>> \notin h
  <2>1. g \in DOMAIN b \cap Guests
    BY <1>2
  <2>. QED
    BY <1>2, <2>1 DEF GoodHistory
<1>. QED
  BY <1>1, <1>2 DEF GoodHistory

LEMMA DailyHistory ==
  ASSUME NEW b, NEW c, NEW h, GoodRows(b), GoodHistory(b, h), DOMAIN c = DOMAIN b,
         NEW g \in DOMAIN b \cap Guests, Fits("daily", b[g], c[g]),
         \A x \in DOMAIN b : x # g => c[x] = b[x]
  PROVE  GoodHistory(c, h \cup {<<"daily", g, c[g].claimDay>>})
<1>. DEFINE day == c[g].claimDay
            new == h \cup {<<"daily", g, day>>}
            u == b[g]
<1>1. /\ day \in Nat /\ c[g].streak = NextStreak(u, day) /\ c[g].adAt = u.adAt
      /\ u.claimDay = Never \/ u.claimDay < day
      /\ GoodUser(u)
  BY DEF Fits, GoodRows
<1>2. /\ u.claimDay \in Nat \cup {Never} /\ u.streak \in Nat /\ u.adAt \in Nat \cup {Never}
      /\ u.claimDay # Never => u.streak # 0
  BY <1>1 DEF GoodUser, User
<1>3. new \subseteq {"daily", "ad"} \X Guests \X Nat /\ \A e \in new : e[2] \in DOMAIN c
  BY <1>1 DEF GoodHistory
<1>4. ASSUME NEW x \in Guests, NEW t \in Nat
      PROVE  <<"ad", x, t>> \in new => c[x].adAt # Never /\ t <= c[x].adAt
  <2>1. <<"ad", x, t>> \in new => <<"ad", x, t>> \in h
    OBVIOUS
  <2>2. <<"ad", x, t>> \in h => x \in DOMAIN b /\ b[x].adAt # Never /\ t <= b[x].adAt
    BY DEF GoodHistory
  <2>3. x \in DOMAIN b => c[x].adAt = b[x].adAt
    BY <1>1
  <2>. QED
    BY <2>1, <2>2, <2>3
<1>5. \A t \in Nat : <<"daily", g, t>> \in h => t < day
  <2>1. \A t \in Nat : <<"daily", g, t>> \in h => u.claimDay # Never /\ t <= u.claimDay
    BY DEF GoodHistory
  <2>. QED
    BY <1>1, <1>2, <2>1
<1>6. ASSUME NEW x \in Guests, NEW t \in Nat
      PROVE  <<"daily", x, t>> \in new => c[x].claimDay # Never /\ t <= c[x].claimDay
  <2>1. CASE x = g
    <3>1. Never \notin Nat
      BY DEF Never
    <3>. QED
      BY <1>1, <1>5, <2>1, <3>1
  <2>2. CASE x # g
    <3>1. <<"daily", x, t>> \in new => <<"daily", x, t>> \in h
      BY <2>2
    <3>2. <<"daily", x, t>> \in h => x \in DOMAIN b /\ b[x].claimDay # Never /\ t <= b[x].claimDay
      BY DEF GoodHistory
    <3>. QED
      BY <2>2, <3>1, <3>2
  <2>. QED
    BY <2>1, <2>2
<1>7. ASSUME NEW k \in 0..c[g].streak - 1 PROVE <<"daily", g, day - k>> \in new
  <2>1. CASE k = 0
    <3>1. day - k = day
      BY <1>1, <2>1
    <3>. QED
      BY <3>1
  <2>2. CASE k # 0
    <3>1. u.claimDay # Never /\ day = u.claimDay + 1 /\ c[g].streak = u.streak + 1
      BY <1>1, <1>2, <2>2 DEF NextStreak
    <3>2. k - 1 \in 0..u.streak - 1 /\ day - k = u.claimDay - (k - 1)
      BY <1>1, <1>2, <2>2, <3>1
    <3>3. <<"daily", g, u.claimDay - (k - 1)>> \in h
      BY <3>1, <3>2 DEF GoodHistory
    <3>. QED
      BY <3>2, <3>3
  <2>. QED
    BY <2>1, <2>2
<1>8. <<"daily", g, day - c[g].streak>> \notin new
  <2>1. CASE u.claimDay # Never /\ day = u.claimDay + 1
    <3>1. c[g].streak = u.streak + 1
      BY <1>1, <2>1 DEF NextStreak
    <3>2. day - c[g].streak = u.claimDay - u.streak /\ day - c[g].streak # day
      BY <1>1, <1>2, <2>1, <3>1
    <3>3. <<"daily", g, u.claimDay - u.streak>> \notin h
      BY <2>1 DEF GoodHistory
    <3>. QED
      BY <3>2, <3>3
  <2>2. CASE ~(u.claimDay # Never /\ day = u.claimDay + 1)
    <3>1. c[g].streak = 1 /\ day - 1 # day /\ day - 1 \in Int
      BY <1>1, <2>2 DEF NextStreak
    <3>2. ASSUME <<"daily", g, day - 1>> \in h PROVE FALSE
      <4>1. day - 1 \in Nat
        BY <3>2 DEF GoodHistory
      <4>2. u.claimDay # Never /\ day - 1 <= u.claimDay
        BY <3>2, <4>1 DEF GoodHistory
      <4>. QED
        BY <1>1, <1>2, <2>2, <4>2
    <3>. QED
      BY <3>1, <3>2
  <2>. QED
    BY <2>1, <2>2
<1>9. ASSUME NEW x \in DOMAIN c \cap Guests, c[x].claimDay # Never
      PROVE  /\ \A k \in 0..c[x].streak - 1 : <<"daily", x, c[x].claimDay - k>> \in new
             /\ <<"daily", x, c[x].claimDay - c[x].streak>> \notin new
  <2>1. CASE x = g
    BY <1>7, <1>8, <2>1
  <2>2. CASE x # g
    <3>1. c[x] = b[x] /\ \A t : <<"daily", x, t>> \in new <=> <<"daily", x, t>> \in h
      BY <2>2
    <3>. QED
      BY <1>9, <3>1 DEF GoodHistory
  <2>. QED
    BY <2>1, <2>2
<1>10. \A x \in Guests, t \in Nat : <<"ad", x, t>> \in new <=> <<"ad", x, t>> \in h
  OBVIOUS
<1>11. ASSUME NEW x \in Guests, NEW t \in Nat, NEW v \in Nat
       PROVE  <<"ad", x, t>> \in new /\ <<"ad", x, v>> \in new /\ t < v => v >= t + AdCooldown
  BY <1>10 DEF GoodHistory
<1>. HIDE DEF new
<1>12. GoodHistory(c, new)
  BY <1>3, <1>4, <1>6, <1>9, <1>11 DEF GoodHistory
<1>. QED
  BY <1>12 DEF new

LEMMA AdHistory ==
  ASSUME NEW b, NEW c, NEW h, GoodRows(b), GoodHistory(b, h), DOMAIN c = DOMAIN b,
         NEW g \in DOMAIN b \cap Guests, Fits("ad", b[g], c[g]),
         \A x \in DOMAIN b : x # g => c[x] = b[x]
  PROVE  GoodHistory(c, h \cup {<<"ad", g, c[g].adAt>>})
<1>. DEFINE at == c[g].adAt
            new == h \cup {<<"ad", g, at>>}
            u == b[g]
<1>1. /\ at \in Nat /\ c[g].streak = u.streak /\ c[g].claimDay = u.claimDay
      /\ u.adAt = Never \/ at >= u.adAt + AdCooldown
      /\ u.adAt \in Nat \cup {Never}
  BY DEF Fits, GoodRows, GoodUser, User
<1>2. new \subseteq {"daily", "ad"} \X Guests \X Nat /\ \A e \in new : e[2] \in DOMAIN c
  BY <1>1 DEF GoodHistory
<1>3. \A t \in Nat : <<"ad", g, t>> \in h => t <= at /\ at >= t + AdCooldown
  <2>1. \A t \in Nat : <<"ad", g, t>> \in h => u.adAt # Never /\ t <= u.adAt
    BY DEF GoodHistory
  <2>. QED
    BY <1>1, <2>1, Amounts
<1>4. ASSUME NEW x \in Guests, NEW t \in Nat
      PROVE  <<"ad", x, t>> \in new => c[x].adAt # Never /\ t <= c[x].adAt
  <2>1. CASE x = g
    <3>1. Never \notin Nat
      BY DEF Never
    <3>. QED
      BY <1>1, <1>3, <2>1, <3>1
  <2>2. CASE x # g
    <3>1. <<"ad", x, t>> \in new => <<"ad", x, t>> \in h
      BY <2>2
    <3>2. <<"ad", x, t>> \in h => x \in DOMAIN b /\ b[x].adAt # Never /\ t <= b[x].adAt
      BY DEF GoodHistory
    <3>. QED
      BY <2>2, <3>1, <3>2
  <2>. QED
    BY <2>1, <2>2
<1>5. \A x \in Guests : \A t : <<"daily", x, t>> \in new <=> <<"daily", x, t>> \in h
  OBVIOUS
<1>6. \A x \in DOMAIN c \cap Guests : c[x].claimDay = b[x].claimDay /\ c[x].streak = b[x].streak
  BY <1>1
<1>7. ASSUME NEW x \in Guests, NEW t \in Nat
      PROVE  <<"daily", x, t>> \in new => c[x].claimDay # Never /\ t <= c[x].claimDay
  <2>1. <<"daily", x, t>> \in h => x \in DOMAIN b /\ b[x].claimDay # Never /\ t <= b[x].claimDay
    BY DEF GoodHistory
  <2>. QED
    BY <1>5, <1>6, <2>1
<1>8. ASSUME NEW x \in DOMAIN c \cap Guests, c[x].claimDay # Never
      PROVE  /\ \A k \in 0..c[x].streak - 1 : <<"daily", x, c[x].claimDay - k>> \in new
             /\ <<"daily", x, c[x].claimDay - c[x].streak>> \notin new
  BY <1>5, <1>6, <1>8 DEF GoodHistory
<1>9. ASSUME NEW x \in Guests, NEW t \in Nat, NEW v \in Nat, t < v,
             <<"ad", x, t>> \in new, <<"ad", x, v>> \in new
      PROVE  v >= t + AdCooldown
  <2>1. CASE <<"ad", x, t>> \in h /\ <<"ad", x, v>> \in h
    BY <1>9, <2>1 DEF GoodHistory
  <2>2. CASE <<"ad", x, t>> \in h /\ x = g /\ v = at
    BY <1>3, <2>2
  <2>3. CASE x = g /\ t = at
    BY <1>1, <1>3, <1>9, <2>3
  <2>. QED
    BY <1>9, <2>1, <2>2, <2>3
<1>. HIDE DEF new
<1>10. GoodHistory(c, new)
  BY <1>2, <1>4, <1>7, <1>8, <1>9 DEF GoodHistory
<1>. QED
  BY <1>10 DEF new

LEMMA CommitKeeps ==
  ASSUME WalletInv, NEW p \in Servers, Commit(p) PROVE WalletInv'
<1>. DEFINE r == req[p]
            d == draft[p]
<1>1. /\ serving[p] = "commit" /\ db' = Over(d, db) /\ draft' = [draft EXCEPT ![p] = NoDraft]
      /\ granted' = granted \cup
           CASE r.op = "daily" -> {<<"daily", r.g, d[r.g].claimDay>>}
             [] r.op = "ad" -> {<<"ad", r.g, d[r.g].adAt>>}
             [] OTHER -> {}
      /\ IF r.op = "lose" THEN Proceed(p, "record") /\ UNCHANGED req ELSE Answer(p)
      /\ UNCHANGED <<now, settlements, asked>>
  BY DEF Commit
<1>2. GoodStep("commit", r, d, db) /\ r \in Job /\ r # NoRequest /\ r.g \in Users
  BY <1>1, ServedBy
<1>3. DOMAIN d \subseteq DOMAIN db /\ \A g \in DOMAIN d \cap Guests : Fits(r.op, db[g], d[g])
  BY <1>2 DEF GoodStep
<1>4. /\ DOMAIN db' = DOMAIN db /\ \A x \in DOMAIN d : db'[x] = d[x]
      /\ \A x \in DOMAIN db : x \notin DOMAIN d => db'[x] = db[x]
  BY <1>1, <1>3 DEF Over
<1>5. Users' = Users
  BY <1>4 DEF Users
<1>6. GoodRows(db) /\ GoodHistory(db, granted)
  BY DEF WalletInv
<1>7. \A g \in Users : GoodUser(db'[g]) /\ db'[g].referrer = db[g].referrer
  <2>1. ASSUME NEW g \in Users PROVE GoodUser(db'[g]) /\ db'[g].referrer = db[g].referrer
    <3>1. CASE g \in DOMAIN d
      BY <1>3, <1>4, <3>1 DEF Users, Fits
    <3>2. CASE g \notin DOMAIN d
      BY <1>4, <1>6, <3>2 DEF Users, GoodRows
    <3>. QED
      BY <3>1, <3>2
  <2>. QED
    BY <2>1
<1>8. GoodRows(db')
  <2>1. \A row \in DOMAIN db' \cap MissionRows : db'[row] \in Mission
    BY <1>2, <1>4, <1>6 DEF GoodRows, GoodStep
  <2>. QED
    BY <1>4, <1>6, <1>7, <2>1 DEF GoodRows, Users
<1>9. \A q \in Servers : q # p => GoodStep(serving[q], req[q], draft[q], db')
  <2>1. ASSUME NEW q \in Servers, q # p PROVE GoodStep(serving[q], req[q], draft[q], db')
    <3>1. GoodStep(serving[q], req[q], draft[q], db) /\ DOMAIN draft[q] \cap DOMAIN d = {}
      BY <2>1 DEF WalletInv
    <3>2. DOMAIN draft[q] \subseteq DOMAIN db
      BY <3>1 DEF GoodStep
    <3>3. \A row \in DOMAIN draft[q] : db'[row] = db[row]
      BY <1>4, <3>1, <3>2
    <3>. QED
      BY <1>4, <1>7, <3>1, <3>3, StepKept DEF Users
  <2>. QED
    BY <2>1
<1>10. DOMAIN NoDraft = {}
  BY DEF NoDraft
<1>11. PICK s \in Steps, j \in Job : /\ serving' = [serving EXCEPT ![p] = s] /\ req' = [req EXCEPT ![p] = j]
                                     /\ GoodStep(s, j, NoDraft, db')
  <2>1. CASE r.op = "lose"
    <3>1. serving' = [serving EXCEPT ![p] = "record"] /\ req' = [req EXCEPT ![p] = r]
      BY <1>1, <2>1 DEF Proceed, WalletInv
    <3>2. GoodStep("record", r, NoDraft, db')
      BY <1>2, <1>4, <1>10, <2>1 DEF GoodStep, Steps, Users
    <3>3. "record" \in Steps
      BY DEF Steps
    <3>. QED
      BY <1>2, <3>1, <3>2, <3>3
  <2>2. CASE r.op # "lose"
    <3>1. serving' = [serving EXCEPT ![p] = "idle"] /\ req' = [req EXCEPT ![p] = NoRequest]
      BY <1>1, <2>2 DEF Answer, Proceed
    <3>2. GoodStep("idle", NoRequest, NoDraft, db') /\ "idle" \in Steps /\ NoRequest \in Job
      BY <1>10 DEF GoodStep, Steps, Job, NoRequest
    <3>. QED
      BY <3>1, <3>2
  <2>. QED
    BY <2>1, <2>2
<1>12. GoodHistory(db', granted')
  <2>1. CASE r.op = "daily"
    <3>1. DOMAIN d = {r.g} /\ r.g \in DOMAIN db \cap Guests
      BY <1>2, <2>1 DEF GoodStep, Users
    <3>2. granted' = granted \cup {<<"daily", r.g, db'[r.g].claimDay>>}
      BY <1>1, <1>4, <2>1, <3>1
    <3>3. Fits("daily", db[r.g], db'[r.g]) /\ \A x \in DOMAIN db : x # r.g => db'[x] = db[x]
      BY <1>3, <1>4, <2>1, <3>1
    <3>. QED
      BY <1>4, <1>6, <3>1, <3>2, <3>3, DailyHistory
  <2>2. CASE r.op = "ad"
    <3>1. DOMAIN d = {r.g} /\ r.g \in DOMAIN db \cap Guests
      BY <1>2, <2>2 DEF GoodStep, Users
    <3>2. granted' = granted \cup {<<"ad", r.g, db'[r.g].adAt>>}
      BY <1>1, <1>4, <2>2, <3>1
    <3>3. Fits("ad", db[r.g], db'[r.g]) /\ \A x \in DOMAIN db : x # r.g => db'[x] = db[x]
      BY <1>3, <1>4, <2>2, <3>1
    <3>. QED
      BY <1>4, <1>6, <3>1, <3>2, <3>3, AdHistory
  <2>3. CASE r.op \notin {"daily", "ad"}
    <3>1. granted' = granted
      BY <1>1, <2>3
    <3>2. \A g \in DOMAIN db \cap Guests :
            /\ db'[g].adAt = db[g].adAt /\ db'[g].claimDay = db[g].claimDay
            /\ db'[g].streak = db[g].streak
      BY <1>3, <1>4, <2>3 DEF Fits
    <3>. QED
      BY <1>4, <1>6, <3>1, <3>2, SameHistory
  <2>. QED
    BY <2>1, <2>2, <2>3
<1>13. serving' \in [Servers -> Steps] /\ req' \in [Servers -> Job] /\ draft' = [q \in Servers |-> draft'[q]]
  BY <1>1, <1>11 DEF WalletInv
<1>14. serving'[p] = s /\ req'[p] = j /\ draft'[p] = NoDraft
       /\ \A q \in Servers : q # p => serving'[q] = serving[q] /\ req'[q] = req[q] /\ draft'[q] = draft[q]
  BY <1>1, <1>11 DEF WalletInv
<1>15. \A q \in Servers : GoodStep(serving'[q], req'[q], draft'[q], db')
  BY <1>9, <1>11, <1>14
<1>16. \A q, x \in Servers : q # x => DOMAIN draft'[q] \cap DOMAIN draft'[x] = {}
  BY <1>10, <1>14 DEF WalletInv
<1>17. now' \in Nat /\ asked' \in 0..MaxRequests /\ settlements' \subseteq Users'
  BY <1>1, <1>5 DEF WalletInv
<1>. QED
  BY <1>8, <1>12, <1>13, <1>15, <1>16, <1>17 DEF WalletInv

LEMMA PlayKeeps ==
  ASSUME WalletInv, NEW p \in Servers, IncrementMissions(p) PROVE WalletInv'
<1>. DEFINE row == <<req[p].g, req[p].day>>
            v == IF row \in DOMAIN db THEN [db[row] EXCEPT !.progress = @ + 1]
                 ELSE [progress |-> 1, claimed |-> FALSE]
<1>1. /\ serving[p] = "play" /\ Free(p, row) /\ db' = Put(db, row, v) /\ Answer(p)
      /\ UNCHANGED <<now, settlements, draft, asked, granted>>
  BY DEF IncrementMissions
<1>2. req[p].op = "play" /\ DOMAIN draft[p] = {}
  BY <1>1, ServedBy DEF GoodStep, Quiet
<1>3. row \in MissionRows
  BY <1>2, ServedBy DEF Job, MissionRows, NoRequest
<1>4. v \in Mission
  <2>1. CASE row \in DOMAIN db
    <3>1. db[row] \in Mission
      BY <1>3, <2>1 DEF WalletInv, GoodRows
    <3>2. db[row].progress + 1 \in Nat
      BY <3>1 DEF Mission
    <3>. QED
      BY <2>1, <3>1, <3>2 DEF Mission
  <2>2. CASE row \notin DOMAIN db
    BY <2>2 DEF Mission
  <2>. QED
    BY <2>1, <2>2
<1>. HIDE DEF v, row
<1>5. /\ DOMAIN db' = DOMAIN db \cup {row} /\ db'[row] = v
      /\ \A x \in DOMAIN db : x # row => db'[x] = db[x]
  BY <1>1 DEF Put
<1>6. row \notin Guests /\ Users' = Users /\ DOMAIN db' \cap Guests = DOMAIN db \cap Guests
  BY <1>3, <1>5, TablesDiffer DEF Users
<1>7. \A g \in Users : db'[g] = db[g]
  BY <1>5, <1>6 DEF Users
<1>8. GoodRows(db')
  <2>1. \A x \in DOMAIN db' \cap MissionRows : db'[x] \in Mission
    BY <1>4, <1>5 DEF WalletInv, GoodRows
  <2>2. DOMAIN db' \subseteq Guests \cup MissionRows
    BY <1>3, <1>5 DEF WalletInv, GoodRows
  <2>. QED
    BY <1>6, <1>7, <2>1, <2>2 DEF WalletInv, GoodRows, Users
<1>9. GoodHistory(db', granted')
  <2>1. \A g \in (DOMAIN db' \cap Guests) \ DOMAIN db : db'[g].claimDay = Never
    BY <1>6
  <2>. QED
    BY <1>1, <1>5, <1>7, <2>1, SameHistory DEF WalletInv, Users
<1>10. \A q \in Servers : q # p => GoodStep(serving[q], req[q], draft[q], db')
  <2>1. ASSUME NEW q \in Servers, q # p PROVE GoodStep(serving[q], req[q], draft[q], db')
    <3>1. GoodStep(serving[q], req[q], draft[q], db) /\ row \notin DOMAIN draft[q]
      BY <1>1, <2>1 DEF WalletInv, Free
    <3>2. \A x \in DOMAIN draft[q] : db'[x] = db[x]
      BY <1>5, <3>1 DEF GoodStep
    <3>. QED
      BY <1>5, <1>7, <3>1, <3>2, StepKept DEF Users
  <2>. QED
    BY <2>1
<1>11. GoodStep("idle", NoRequest, draft[p], db')
  BY <1>2 DEF GoodStep, Steps, Job, NoRequest
<1>12. serving' \in [Servers -> Steps] /\ req' \in [Servers -> Job]
       /\ serving'[p] = "idle" /\ req'[p] = NoRequest
       /\ \A q \in Servers : q # p => serving'[q] = serving[q] /\ req'[q] = req[q]
  BY <1>1 DEF Answer, Proceed, WalletInv, Steps, Job
<1>13. \A q \in Servers : GoodStep(serving'[q], req'[q], draft'[q], db')
  BY <1>1, <1>10, <1>11, <1>12
<1>. QED
  BY <1>1, <1>6, <1>8, <1>9, <1>12, <1>13 DEF WalletInv

LEMMA SignUpKeeps ==
  ASSUME WalletInv, NEW g \in Guests, SignUp(g) PROVE WalletInv'
<1>1. g \notin DOMAIN db /\ UNCHANGED <<now, settlements, serving, req, draft, asked, granted>>
  BY DEF SignUp, Users
<1>2. PICK referrer \in Users \cup {Nobody} : db' = Put(db, g, NewUser(referrer))
  BY DEF SignUp
<1>3. /\ DOMAIN db' = DOMAIN db \cup {g} /\ db'[g] = NewUser(referrer)
      /\ \A x \in DOMAIN db : db'[x] = db[x]
  BY <1>1, <1>2 DEF Put
<1>4. GoodUser(NewUser(referrer)) /\ NewUser(referrer).referrer = referrer
      /\ NewUser(referrer).claimDay = Never
  BY Amounts DEF NewUser, GoodUser, User, Never, Users
<1>5. Users' = Users \cup {g} /\ g \notin MissionRows
  BY <1>3, TablesDiffer DEF Users
<1>6. GoodRows(db')
  <2>1. IsFiniteSet(DOMAIN db' \cap Guests)
    <3>1. DOMAIN db' \cap Guests = (DOMAIN db \cap Guests) \cup {g}
      BY <1>3
    <3>2. IsFiniteSet(DOMAIN db \cap Guests)
      BY DEF WalletInv, GoodRows
    <3>. QED
      BY <3>1, <3>2, FS_AddElement
  <2>2. DOMAIN db' \subseteq Guests \cup MissionRows
        /\ \A row \in DOMAIN db' \cap MissionRows : db'[row] \in Mission
    BY <1>3, <1>5 DEF WalletInv, GoodRows
  <2>3. \A x \in DOMAIN db' \cap Guests :
          GoodUser(db'[x]) /\ db'[x].referrer \in (DOMAIN db' \cap Guests) \cup {Nobody}
    BY <1>3, <1>4 DEF WalletInv, GoodRows, Users
  <2>. QED
    BY <2>1, <2>2, <2>3 DEF GoodRows
<1>7. \A p \in Servers : GoodStep(serving[p], req[p], draft[p], db')
  <2>1. ASSUME NEW p \in Servers PROVE GoodStep(serving[p], req[p], draft[p], db')
    <3>1. GoodStep(serving[p], req[p], draft[p], db)
      BY DEF WalletInv
    <3>2. \A x \in DOMAIN draft[p] : db'[x] = db[x]
      BY <1>3, <3>1 DEF GoodStep
    <3>. QED
      BY <1>3, <3>1, <3>2, StepKept
  <2>. QED
    BY <2>1
<1>8. GoodHistory(db', granted')
  <2>1. \A x \in (DOMAIN db' \cap Guests) \ DOMAIN db : db'[x].claimDay = Never
    BY <1>3, <1>4
  <2>. QED
    BY <1>1, <1>3, <2>1, SameHistory DEF WalletInv
<1>. QED
  BY <1>1, <1>5, <1>6, <1>7, <1>8 DEF WalletInv

LEMMA TickKeeps == ASSUME WalletInv, Tick \/ UNCHANGED walletVars PROVE WalletInv'
<1>1. /\ UNCHANGED <<db, settlements, serving, req, draft, asked, granted>>
      /\ now' = now \/ now' = now + 1
  BY DEF Tick, walletVars
<1>2. now' \in Nat
  BY <1>1 DEF WalletInv
<1>3. Users' = Users
  BY <1>1 DEF Users
<1>. QED
  BY <1>1, <1>2, <1>3 DEF WalletInv

LEMMA WalletStep == ASSUME WalletInv, [WalletNext]_walletVars PROVE WalletInv'
<1>1. ASSUME NEW p \in Servers, Serve(p) PROVE WalletInv'
  BY <1>1, DailyKeeps, AdKeeps, PlayKeeps, MissionKeeps, CaptureKeeps, CreditKeeps, LoseKeeps,
     WinKeeps, RecordKeeps, ReferKeeps, CommitKeeps DEF Serve
<1>. QED
  BY <1>1, TickKeeps, SignUpKeeps, AskKeeps, FailKeeps DEF WalletNext

LEMMA WalletStart == WalletInit => WalletInv
<1>1. SUFFICES ASSUME WalletInit PROVE WalletInv
  OBVIOUS
<1>2. DOMAIN NoDraft = {} /\ DOMAIN db = {} /\ Users = {}
  BY <1>1 DEF WalletInit, NoDraft, Users
<1>3. GoodRows(db)
  BY <1>2, FS_EmptySet DEF GoodRows
<1>4. GoodHistory(db, granted)
  BY <1>1, <1>2 DEF WalletInit, GoodHistory
<1>5. \A p \in Servers : serving[p] = "idle" /\ req[p] = NoRequest /\ draft[p] = NoDraft
  BY <1>1 DEF WalletInit
<1>6. GoodStep("idle", NoRequest, NoDraft, db)
  BY <1>2 DEF GoodStep, Steps, Job, NoRequest
<1>7. serving \in [Servers -> Steps] /\ req \in [Servers -> Job] /\ draft = [p \in Servers |-> draft[p]]
  BY <1>1 DEF WalletInit, Steps, Job
<1>8. now \in Nat /\ asked \in 0..MaxRequests /\ settlements \subseteq Users
  BY <1>1, Amounts DEF WalletInit
<1>. QED
  BY <1>2, <1>3, <1>4, <1>5, <1>6, <1>7, <1>8 DEF WalletInv

LEMMA WalletAlways == WalletSpec => []WalletInv
BY WalletStart, WalletStep, PTL DEF WalletSpec

-----------------------------------------------------------------------------
(* The wallets, streaks, referrals and missions keep their types, and a    *)
(* transaction writes only rows that exist (internal/db).                  *)
THEOREM WalletTypeCorrect == WalletSpec => []WalletTypeOK
<1>1. ASSUME WalletInv PROVE WalletTypeOK
  <2>1. \A g \in Users : GoodUser(db[g]) /\ db[g].referrer \in Users \cup {Nobody}
    BY <1>1, ServedBy DEF WalletInv, GoodRows, Users
  <2>2. ASSUME NEW g \in Users
        PROVE  /\ db[g] \in [coins : Int, claimDay : Nat \cup {Never}, streak : Nat,
                             adAt : Nat \cup {Never}, referrer : Users \cup {Nobody},
                             rewarded : BOOLEAN]
               /\ db[g].claimDay = Never <=> db[g].streak = 0
    <3>1. db[g] \in User /\ db[g].referrer \in Users \cup {Nobody}
      BY <2>1 DEF GoodUser
    <3>. QED
      BY <2>1, <3>1 DEF User, GoodUser
  <2>3. \A row \in DOMAIN db \ Guests : db[row] \in [progress : Nat, claimed : BOOLEAN]
    BY <1>1 DEF WalletInv, GoodRows, Mission
  <2>4. \A p \in Servers : DOMAIN draft[p] \subseteq DOMAIN db
    BY <1>1 DEF WalletInv, GoodStep
  <2>. QED
    BY <1>1, <2>2, <2>3, <2>4 DEF WalletTypeOK, WalletInv
<1>. QED
  BY <1>1, WalletAlways, PTL

(* The streak is the number of days in a row on which the bonus was        *)
(* claimed: two claims that arrive together cannot both count, whatever    *)
(* else writes the guest's row meanwhile (ClaimDaily, db/daily.go).        *)
THEOREM StreaksCountDays == WalletSpec => []StreakCounts
<1>1. WalletInv => StreakCounts
  BY DEF WalletInv, GoodHistory, StreakCounts, Users
<1>. QED
  BY <1>1, WalletAlways, PTL

(* Two rewarded ads of a guest are the cooldown apart, however many claims *)
(* arrive together (ClaimAd, db/adreward.go).                              *)
THEOREM AdsKeepTheirDistance == WalletSpec => []AdsSpacedOut
<1>1. ASSUME WalletInv, NEW a \in granted, NEW b \in granted, a[1] = "ad", b[1] = "ad",
             a[2] = b[2], a[3] < b[3]
      PROVE  b[3] >= a[3] + AdCooldown
  <2>1. /\ a[2] \in Guests /\ a[3] \in Nat /\ b[3] \in Nat
        /\ a = <<"ad", a[2], a[3]>> /\ b = <<"ad", a[2], b[3]>>
    BY <1>1 DEF WalletInv, GoodHistory
  <2>. QED
    BY <1>1, <2>1 DEF WalletInv, GoodHistory
<1>2. WalletInv => AdsSpacedOut
  BY <1>1 DEF AdsSpacedOut
<1>. QED
  BY <1>2, WalletAlways, PTL

(* What the status tells of the bonus is what a claim made now would do    *)
(* (DailyStatus and ClaimDaily, db/daily.go).                              *)
THEOREM StatusTellsTheTruth == WalletSpec => []StatusIsHonest
<1>1. ASSUME WalletInv, NEW u, u.claimDay \in Nat \cup {Never}, u.streak \in Nat
      PROVE  /\ DailyStatus(u).claimable = ~ClaimedToday(u)
             /\ DailyStatus(u).claimable =>
                  /\ DailyStatus(u).streak = NextStreak(u, Day(now))
                  /\ DailyStatus(u).reward = RewardFor(DailyStatus(u).streak)
  <2>. DEFINE days == Day(now) - u.claimDay
              open(streak) == [claimable |-> TRUE, streak |-> streak,
                               reward |-> RewardFor(streak)]
              shut == [claimable |-> FALSE, streak |-> u.streak,
                       reward |-> RewardFor(u.streak + 1)]
  <2>1. Day(now) \in Nat
    BY <1>1, DaysAreNat DEF WalletInv
  <2>2. CASE u.claimDay = Never
    <3>1. DailyStatus(u) = open(1) /\ ~ClaimedToday(u) /\ NextStreak(u, Day(now)) = 1
      BY <2>2 DEF DailyStatus, ClaimedToday, NextStreak
    <3>2. DailyStatus(u).claimable = TRUE /\ DailyStatus(u).streak = 1
          /\ DailyStatus(u).reward = RewardFor(1)
      BY <3>1
    <3>. QED
      BY <3>1, <3>2, Zenon
  <2>3. CASE u.claimDay # Never /\ days <= 0
    <3>1. DailyStatus(u) = shut
      BY <2>3 DEF DailyStatus
    <3>2. ClaimedToday(u)
      BY <1>1, <2>1, <2>3 DEF ClaimedToday, Never
    <3>3. DailyStatus(u).claimable = FALSE
      BY <3>1
    <3>. QED
      BY <3>1, <3>2, <3>3, Zenon
  <2>4. CASE u.claimDay # Never /\ days = 1
    <3>1. ~(days <= 0) /\ Day(now) = u.claimDay + 1 /\ ~(Day(now) <= u.claimDay)
      BY <1>1, <2>1, <2>4
    <3>2. DailyStatus(u) = open(u.streak + 1)
      BY <2>4, <3>1 DEF DailyStatus
    <3>3. ~ClaimedToday(u) /\ NextStreak(u, Day(now)) = u.streak + 1
      BY <2>4, <3>1 DEF ClaimedToday, NextStreak
    <3>4. DailyStatus(u).claimable = TRUE /\ DailyStatus(u).streak = u.streak + 1
          /\ DailyStatus(u).reward = RewardFor(u.streak + 1)
      BY <3>2
    <3>. QED
      BY <3>2, <3>3, <3>4, Zenon
  <2>5. CASE u.claimDay # Never /\ ~(days <= 0) /\ days # 1
    <3>1. Day(now) # u.claimDay + 1 /\ ~(Day(now) <= u.claimDay)
      BY <1>1, <2>1, <2>5
    <3>2. DailyStatus(u) = open(1)
      BY <2>5 DEF DailyStatus
    <3>3. ~ClaimedToday(u) /\ NextStreak(u, Day(now)) = 1
      BY <2>5, <3>1 DEF ClaimedToday, NextStreak
    <3>4. DailyStatus(u).claimable = TRUE /\ DailyStatus(u).streak = 1
          /\ DailyStatus(u).reward = RewardFor(1)
      BY <3>2
    <3>. QED
      BY <3>2, <3>3, <3>4, Zenon
  <2>. QED
    BY <2>2, <2>3, <2>4, <2>5
<1>2. ASSUME WalletInv PROVE StatusIsHonest
  <2>1. \A g \in Users : db[g].claimDay \in Nat \cup {Never} /\ db[g].streak \in Nat
    BY <1>2 DEF WalletInv, GoodRows, Users, GoodUser, User
  <2>. QED
    BY <1>1, <1>2, <2>1 DEF StatusIsHonest
<1>. QED
  BY <1>2, WalletAlways, PTL

-----------------------------------------------------------------------------
(* The ledger that the wallets keep.                                       *)
CoinsIn(b) == [g \in DOMAIN b \cap Guests |-> b[g].coins]
PaidIn(b, h) ==
  h \cup {<<"mission", row[1], row[2]>> : row \in {x \in DOMAIN b \ Guests : b[x].claimed}}
    \cup {<<"referral", g>> : g \in {x \in DOMAIN b \cap Guests : b[x].rewarded}}

Stakes(b) == [g \in DOMAIN b \cap Guests |-> Stake(b[g])]

LEMMA LedgerIs ==
  /\ Ledger!ledgerVars = <<CoinsIn(db), PaidIn(db, granted)>>
  /\ Ledger!ledgerVars' = <<CoinsIn(db'), PaidIn(db', granted')>>
BY DEF Ledger!ledgerVars, CoinsIn, PaidIn, Users, MissionsPaid, ReferralsPaid

LEMMA LedgerStake ==
  ASSUME NEW L, L \subseteq Users, IsFiniteSet(L)
  PROVE  Ledger!MapThenSumSet(Ledger!Stake, L) = Sum(Stakes(db), L)
<1>. DEFINE h == Stakes(db)
            v(l) == Ledger!Stake(l)
            adds(it) == it = [s \in SUBSET L |-> IF s = {} THEN 0 ELSE v(Pick(s)) + it[s \ {Pick(s)}]]
            total == CHOOSE it : adds(it)
<1>1. Ledger!MapThenSumSet(Ledger!Stake, L) = total[L]
  BY DEF Ledger!MapThenSumSet, Ledger!MapThenFoldSet, Pick
<1>2. \A s \in SUBSET L : s # {} => h[Pick(s)] = v(Pick(s))
  <2>1. \A l \in Users : h[l] = v(l)
    BY DEF Ledger!Stake, Stake, Stakes, Users
  <2>. QED
    BY <2>1, PickIs
<1>. HIDE DEF h, v
<1>3. PICK f : Adds(h, L, f)
  BY SomeOne
<1>4. adds(f)
  <2>1. f = [s \in SUBSET L |-> IF s = {} THEN 0 ELSE h[Pick(s)] + f[s \ {Pick(s)}]]
    BY <1>3 DEF Adds
  <2>2. \A s \in SUBSET L : (IF s = {} THEN 0 ELSE h[Pick(s)] + f[s \ {Pick(s)}])
                          = (IF s = {} THEN 0 ELSE v(Pick(s)) + f[s \ {Pick(s)}])
    BY <1>2
  <2>. QED
    BY <2>1, <2>2
<1>5. adds(total)
  BY <1>4
<1>. HIDE DEF total
<1>6. Adds(h, L, total)
  <2>1. \A s \in SUBSET L : (IF s = {} THEN 0 ELSE h[Pick(s)] + total[s \ {Pick(s)}])
                          = (IF s = {} THEN 0 ELSE v(Pick(s)) + total[s \ {Pick(s)}])
    BY <1>2
  <2>2. total = [s \in SUBSET L |-> IF s = {} THEN 0 ELSE h[Pick(s)] + total[s \ {Pick(s)}]]
    BY <1>5, <2>1
  <2>. QED
    BY <2>2 DEF Adds
<1>7. (CHOOSE it : Adds(h, L, it)) = total
  BY <1>6, OnlyOne
<1>. QED
  BY <1>1, <1>7, SumIs DEF h

-----------------------------------------------------------------------------
(* What a transaction at step s for request r has written in d over the    *)
(* rows b: a part of one payment, and at its commit all of it.             *)
Moved(d, b, x, n) == d[x].coins = b[x].coins + n /\ d[x].rewarded = b[x].rewarded

OwesDaily(s, r, d, b) ==
  r.op = "daily" /\ s = "commit" =>
    d[r.g].claimDay <= MaxTime /\ \E n \in Range(DailyRewardLadder) : Moved(d, b, r.g, n)

OwesAd(s, r, d, b) ==
  r.op = "ad" /\ s = "commit" => d[r.g].adAt <= MaxTime /\ Moved(d, b, r.g, AdReward)

MissionOf(r) == <<r.g, r.day>>
OwesMission(s, r, d, b) ==
  /\ r.op \in {"mission", "play"} => r.day <= MaxTime
  /\ s = "commit" => r.op # "play"
  /\ r.op = "mission" /\ s \in {"credit", "commit"} =>
       /\ DOMAIN d = {MissionOf(r)} \cup (IF s = "commit" THEN {r.g} ELSE {})
       /\ ~b[MissionOf(r)].claimed /\ d[MissionOf(r)].claimed
       /\ s = "commit" => Moved(d, b, r.g, MissionReward)

OwesPackage(s, r, d, b) ==
  /\ r.op = "capture" /\ s = "credit" => DOMAIN d = {}
  /\ r.op = "capture" /\ s = "commit" => DOMAIN d = {r.g} /\ Moved(d, b, r.g, PackageCoins)

OwesReferral(s, r, d, b) ==
  r.op = "refer" /\ s \in {"referrer", "commit"} =>
    /\ d[r.g].coins = b[r.g].coins + ReferralBonus
    /\ ~b[r.g].rewarded /\ d[r.g].rewarded
    /\ s = "referrer" => DOMAIN d = {r.g}
    /\ s = "commit" => /\ b[r.g].referrer \in Guests \ {r.g}
                       /\ DOMAIN d = {r.g, b[r.g].referrer}
                       /\ Moved(d, b, b[r.g].referrer, ReferralBonus)

OwesPot(s, r, d, b) ==
  r.op = "lose" /\ s \in {"lose", "win", "commit"} =>
    /\ DOMAIN d = r.players \cup (IF s = "commit" THEN {r.g} ELSE {})
    /\ r.g \notin r.players /\ r.g \notin Range(r.losers)
    /\ IsInjective(r.losers) /\ Range(r.losers) \cap r.players = {}
    /\ r.pot = Sum(Stakes(b), r.players)
    /\ \A l \in r.players : /\ d[l].coins = b[l].coins - Stake(b[l])
                            /\ d[l].rewarded = b[l].rewarded
    /\ s = "commit" => Moved(d, b, r.g, r.pot)

Owes(s, r, d, b) ==
  /\ OwesDaily(s, r, d, b) /\ OwesAd(s, r, d, b) /\ OwesMission(s, r, d, b)
  /\ OwesPackage(s, r, d, b) /\ OwesReferral(s, r, d, b) /\ OwesPot(s, r, d, b)

PayInv ==
  /\ WalletInv
  /\ now <= MaxTime
  /\ \A g \in Users : db[g].referrer # g
  /\ \A p \in Servers : Owes(serving[p], req[p], draft[p], db)

(* Nothing is owed for the rows that stay.                                 *)
LEMMA OwesKept ==
  ASSUME NEW s, NEW r, NEW d, NEW b, NEW c, GoodStep(s, r, d, b), GoodRows(b), Owes(s, r, d, b),
         DOMAIN b \subseteq DOMAIN c, \A row \in DOMAIN d : c[row] = b[row]
  PROVE  Owes(s, r, d, c)
<1>1. DOMAIN d \subseteq DOMAIN b
  BY DEF GoodStep
<1>2. /\ OwesDaily(s, r, d, c) /\ OwesAd(s, r, d, c) /\ OwesPackage(s, r, d, c)
  <2>1. s = "commit" /\ r.op \in {"daily", "ad", "capture"} => c[r.g] = b[r.g]
    BY DEF GoodStep, Owes, OwesPackage
  <2>. QED
    BY <2>1 DEF Owes, OwesDaily, OwesAd, OwesPackage, Moved
<1>3. OwesMission(s, r, d, c)
  BY DEF Owes, OwesMission, Moved
<1>4. OwesReferral(s, r, d, c)
  BY DEF Owes, OwesReferral, Moved
<1>5. OwesPot(s, r, d, c)
  <2>1. CASE r.op = "lose" /\ s \in {"lose", "win", "commit"}
    <3>1. r.players \subseteq DOMAIN d /\ (s = "commit" => r.g \in DOMAIN d)
      BY <2>1 DEF Owes, OwesPot
    <3>2. r.players \subseteq DOMAIN b \cap Guests
      BY <1>1, <2>1, <3>1 DEF GoodStep, Job, NoRequest
    <3>3. \A l \in r.players : Stakes(c)[l] = Stakes(b)[l]
      BY <1>1, <3>1, <3>2 DEF Stakes
    <3>4. IsFiniteSet(r.players)
      BY <3>2, FS_Subset DEF GoodRows
    <3>5. Sum(Stakes(c), r.players) = Sum(Stakes(b), r.players)
      BY <3>3, <3>4, SumSame
    <3>. QED
      BY <2>1, <3>1, <3>5 DEF Owes, OwesPot, Moved
  <2>. QED
    BY <2>1 DEF OwesPot
<1>. QED
  BY <1>2, <1>3, <1>4, <1>5 DEF Owes

(* One goroutine goes on and no row is committed.                          *)
LEMMA OneOwes ==
  ASSUME PayInv, WalletInv', NEW p \in Servers, NEW s, NEW r, NEW d, Owes(s, r, d, db),
         serving' = [serving EXCEPT ![p] = s], req' = [req EXCEPT ![p] = r],
         draft' = [draft EXCEPT ![p] = d], UNCHANGED <<now, db>>
  PROVE  PayInv'
<1>1. serving'[p] = s /\ req'[p] = r /\ draft'[p] = d
      /\ \A q \in Servers : q # p => serving'[q] = serving[q] /\ req'[q] = req[q] /\ draft'[q] = draft[q]
  BY DEF WalletInv, PayInv
<1>2. \A q \in Servers : Owes(serving'[q], req'[q], draft'[q], db')
  BY <1>1 DEF PayInv
<1>. QED
  BY <1>2 DEF PayInv, Users

LEMMA OwesNothing ==
  ASSUME NEW s, NEW r, NEW d, NEW b,
         s \in Quiet, r.op \in {"mission", "play"} => r.day <= MaxTime
  PROVE  Owes(s, r, d, b)
BY DEF Owes, Quiet, OwesDaily, OwesAd, OwesMission, OwesPackage, OwesReferral, OwesPot

LEMMA ReturnOwes ==
  ASSUME PayInv, WalletInv', NEW p \in Servers, Answer(p), NEW d,
         draft' = [draft EXCEPT ![p] = d], UNCHANGED <<now, db>>
  PROVE  PayInv'
<1>1. Owes("idle", NoRequest, d, db)
  BY OwesNothing DEF Quiet, NoRequest
<1>. QED
  BY <1>1, OneOwes DEF Answer, Proceed

LEMMA WriteOwes ==
  ASSUME PayInv, WalletInv', NEW p \in Servers, NEW s, NEW row, NEW value,
         Owes(s, req[p], Put(draft[p], row, value), db),
         Write(p, row, value), Proceed(p, s), UNCHANGED <<now, db, req>>
  PROVE  PayInv'
<1>1. draft' = [draft EXCEPT ![p] = Put(draft[p], row, value)] /\ serving' = [serving EXCEPT ![p] = s]
      /\ req' = [req EXCEPT ![p] = req[p]]
  BY DEF Write, Proceed, WalletInv, PayInv
<1>. QED
  BY <1>1, OneOwes

LEMMA DayBound == ASSUME now \in Nat PROVE Day(now) <= now
<1>1. DayLength \in Nat \ {0}
  BY WalletAssumption
<1>2. \A d \in Nat \ {0} : now \div d <= now
  OBVIOUS
<1>. QED
  BY <1>1, <1>2 DEF Day

LEMMA DailyOwes ==
  ASSUME PayInv, WalletInv', NEW p \in Servers, ClaimDaily(p) PROVE PayInv'
<1>. DEFINE g == req[p].g
            u == db[g]
            streak == NextStreak(u, Day(now))
            v == [u EXCEPT !.coins = @ + RewardFor(streak), !.claimDay = Day(now), !.streak = streak]
            d == Put(draft[p], g, v)
<1>1. /\ serving[p] = "daily" /\ UNCHANGED <<now, db>>
      /\ Refuse(p) \/ (Write(p, g, v) /\ Proceed(p, "commit") /\ UNCHANGED req)
  BY DEF ClaimDaily
<1>2. /\ WalletInv /\ now \in Nat /\ now <= MaxTime /\ GoodUser(u)
      /\ req[p].op = "daily"
  BY <1>1, ServedBy DEF PayInv, WalletInv, GoodStep
<1>3. CASE Refuse(p)
  BY <1>1, <1>3, ReturnOwes DEF Refuse
<1>4. CASE Write(p, g, v) /\ Proceed(p, "commit") /\ UNCHANGED req
  <2>1. Day(now) \in Nat /\ Day(now) <= MaxTime
    BY <1>2, DayBound, DaysAreNat, Amounts
  <2>2. RewardFor(streak) \in Range(DailyRewardLadder)
    BY <1>2, <2>1, StreakIs, RewardIs
  <2>. HIDE DEF streak
  <2>3. v.coins = u.coins + RewardFor(streak) /\ v.claimDay = Day(now) /\ v.rewarded = u.rewarded
    BY <1>2 DEF GoodUser, User
  <2>. HIDE DEF v
  <2>4. d[g] = v
    BY DEF Put
  <2>. HIDE DEF d
  <2>5. OwesDaily("commit", req[p], d, db)
    BY <2>1, <2>2, <2>3, <2>4 DEF OwesDaily, Moved
  <2>6. Owes("commit", req[p], d, db)
    BY <1>2, <2>5 DEF Owes, OwesAd, OwesMission, OwesPackage, OwesReferral, OwesPot
  <2>. QED
    BY <1>1, <1>4, <2>6, WriteOwes DEF d
<1>. QED
  BY <1>1, <1>3, <1>4

LEMMA AdOwes ==
  ASSUME PayInv, WalletInv', NEW p \in Servers, ClaimAd(p) PROVE PayInv'
<1>. DEFINE g == req[p].g
            u == db[g]
            v == [u EXCEPT !.coins = @ + AdReward, !.adAt = now]
            d == Put(draft[p], g, v)
<1>1. /\ serving[p] = "ad" /\ UNCHANGED <<now, db>>
      /\ Refuse(p) \/ (Write(p, g, v) /\ Proceed(p, "commit") /\ UNCHANGED req)
  BY DEF ClaimAd
<1>2. WalletInv /\ now <= MaxTime /\ GoodUser(u) /\ req[p].op = "ad"
  BY <1>1, ServedBy DEF PayInv, WalletInv, GoodStep
<1>3. CASE Refuse(p)
  BY <1>1, <1>3, ReturnOwes DEF Refuse
<1>4. CASE Write(p, g, v) /\ Proceed(p, "commit") /\ UNCHANGED req
  <2>1. v.coins = u.coins + AdReward /\ v.adAt = now /\ v.rewarded = u.rewarded
    BY <1>2 DEF GoodUser, User
  <2>. HIDE DEF v
  <2>2. d[g] = v
    BY DEF Put
  <2>. HIDE DEF d
  <2>3. OwesAd("commit", req[p], d, db)
    BY <1>2, <2>1, <2>2 DEF OwesAd, Moved
  <2>4. Owes("commit", req[p], d, db)
    BY <1>2, <2>3 DEF Owes, OwesDaily, OwesMission, OwesPackage, OwesReferral, OwesPot
  <2>. QED
    BY <1>1, <1>4, <2>4, WriteOwes DEF d
<1>. QED
  BY <1>1, <1>3, <1>4

LEMMA MissionOwes ==
  ASSUME PayInv, WalletInv', NEW p \in Servers, ClaimMission(p) PROVE PayInv'
<1>. DEFINE row == <<req[p].g, req[p].day>>
            v == [db[row] EXCEPT !.claimed = TRUE]
            d == Put(draft[p], row, v)
<1>1. /\ serving[p] = "mission" /\ UNCHANGED <<now, db>>
      /\ \/ /\ row \in DOMAIN db /\ ~db[row].claimed
            /\ Write(p, row, v) /\ Proceed(p, "credit") /\ UNCHANGED req
         \/ Refuse(p)
  BY DEF ClaimMission, Claimable
<1>2. /\ WalletInv /\ req[p].op = "mission" /\ req[p] \in Job /\ DOMAIN draft[p] = {}
      /\ req[p].day <= MaxTime
  BY <1>1, ServedBy DEF PayInv, GoodStep, Quiet, Owes, OwesMission
<1>3. CASE Refuse(p)
  BY <1>1, <1>3, ReturnOwes DEF Refuse
<1>4. CASE /\ row \in DOMAIN db /\ ~db[row].claimed
           /\ Write(p, row, v) /\ Proceed(p, "credit") /\ UNCHANGED req
  <2>1. row \in MissionRows /\ row = MissionOf(req[p])
    BY <1>2 DEF Job, MissionRows, NoRequest, MissionOf
  <2>2. db[row] \in Mission
    BY <1>2, <1>4, <2>1 DEF WalletInv, GoodRows
  <2>3. v.claimed = TRUE
    BY <2>2 DEF Mission
  <2>. HIDE DEF v, row
  <2>4. DOMAIN d = {row} /\ d[row] = v
    BY <1>2 DEF Put
  <2>. HIDE DEF d
  <2>5. d[row].claimed
    BY <2>3, <2>4
  <2>6. OwesMission("credit", req[p], d, db)
    BY <1>2, <1>4, <2>1, <2>4, <2>5 DEF OwesMission
  <2>7. Owes("credit", req[p], d, db)
    BY <1>2, <2>6 DEF Owes, OwesDaily, OwesAd, OwesPackage, OwesReferral, OwesPot
  <2>. QED
    BY <1>1, <1>4, <2>7, WriteOwes DEF d
<1>. QED
  BY <1>1, <1>3, <1>4

LEMMA CreditOwes ==
  ASSUME PayInv, WalletInv', NEW p \in Servers, CreditWallet(p) PROVE PayInv'
<1>. DEFINE g == req[p].g
            c == IF req[p].op = "mission" THEN MissionReward ELSE PackageCoins
            v == [db[g] EXCEPT !.coins = @ + c]
            d == Put(draft[p], g, v)
<1>1. /\ serving[p] = "credit" /\ Write(p, g, v) /\ Proceed(p, "commit") /\ UNCHANGED <<now, db, req>>
  BY DEF CreditWallet
<1>2. /\ WalletInv /\ g \in Guests /\ GoodUser(db[g]) /\ req[p].op \in {"mission", "capture"}
      /\ req[p] \in Job /\ Owes("credit", req[p], draft[p], db)
  BY <1>1, ServedBy DEF PayInv, GoodStep, Users
<1>3. v.coins = db[g].coins + c /\ v.rewarded = db[g].rewarded
  BY <1>2 DEF GoodUser, User
<1>. HIDE DEF v
<1>4. /\ DOMAIN d = DOMAIN draft[p] \cup {g} /\ d[g] = v
      /\ \A x \in DOMAIN draft[p] : x # g => d[x] = draft[p][x]
  BY DEF Put
<1>. HIDE DEF d
<1>5. CASE req[p].op = "mission"
  <2>1. MissionOf(req[p]) \in MissionRows
    BY <1>2, <1>5 DEF Job, MissionRows, NoRequest, MissionOf
  <2>2. MissionOf(req[p]) # g
    BY <1>2, <2>1, TablesDiffer
  <2>3. /\ DOMAIN draft[p] = {MissionOf(req[p])} /\ req[p].day <= MaxTime
        /\ ~db[MissionOf(req[p])].claimed /\ draft[p][MissionOf(req[p])].claimed
    BY <1>2, <1>5 DEF Owes, OwesMission
  <2>4. Moved(d, db, g, MissionReward)
    BY <1>3, <1>4, <1>5 DEF Moved
  <2>5. OwesMission("commit", req[p], d, db)
    BY <1>4, <1>5, <2>2, <2>3, <2>4 DEF OwesMission
  <2>6. Owes("commit", req[p], d, db)
    BY <1>5, <2>5 DEF Owes, OwesDaily, OwesAd, OwesPackage, OwesReferral, OwesPot
  <2>. QED
    BY <1>1, <2>6, WriteOwes DEF d
<1>6. CASE req[p].op = "capture"
  <2>1. DOMAIN draft[p] = {}
    BY <1>2, <1>6 DEF Owes, OwesPackage
  <2>2. Moved(d, db, g, PackageCoins)
    BY <1>3, <1>4, <1>6 DEF Moved
  <2>3. OwesPackage("commit", req[p], d, db)
    BY <1>4, <2>1, <2>2 DEF OwesPackage
  <2>4. Owes("commit", req[p], d, db)
    BY <1>6, <2>3 DEF Owes, OwesDaily, OwesAd, OwesMission, OwesReferral, OwesPot
  <2>. QED
    BY <1>1, <2>4, WriteOwes DEF d
<1>. QED
  BY <1>2, <1>5, <1>6

LEMMA CaptureOwes ==
  ASSUME PayInv, WalletInv', NEW p \in Servers, Capture(p) PROVE PayInv'
<1>1. /\ serving[p] = "capture" /\ UNCHANGED <<now, db, draft>>
      /\ (Proceed(p, "credit") /\ UNCHANGED req) \/ Answer(p)
  BY DEF Capture
<1>2. req[p].op = "capture" /\ DOMAIN draft[p] = {} /\ WalletInv
  BY <1>1, ServedBy DEF GoodStep, Quiet, PayInv
<1>3. draft' = [draft EXCEPT ![p] = draft[p]]
  BY <1>1 DEF WalletInv, PayInv
<1>4. CASE Answer(p)
  BY <1>1, <1>3, <1>4, ReturnOwes
<1>5. CASE Proceed(p, "credit") /\ UNCHANGED req
  <2>1. Owes("credit", req[p], draft[p], db)
    BY <1>2 DEF Owes, OwesDaily, OwesAd, OwesMission, OwesPackage, OwesReferral, OwesPot
  <2>2. serving' = [serving EXCEPT ![p] = "credit"] /\ req' = [req EXCEPT ![p] = req[p]]
    BY <1>5 DEF Proceed, WalletInv, PayInv
  <2>. QED
    BY <1>1, <1>3, <2>1, <2>2, OneOwes
<1>. QED
  BY <1>1, <1>4, <1>5

LEMMA RefereeOwes ==
  ASSUME PayInv, WalletInv', NEW p \in Servers, AwardReferee(p) PROVE PayInv'
<1>. DEFINE g == req[p].g
            v == [db[g] EXCEPT !.coins = @ + ReferralBonus, !.rewarded = TRUE]
            d == Put(draft[p], g, v)
<1>1. /\ serving[p] = "refer" /\ UNCHANGED <<now, db>>
      /\ \/ /\ Due(g)
            /\ Write(p, g, v) /\ Proceed(p, "referrer") /\ UNCHANGED req
         \/ Refuse(p)
  BY DEF AwardReferee
<1>2. GoodUser(db[g]) /\ req[p].op = "refer" /\ DOMAIN draft[p] = {}
  BY <1>1, ServedBy DEF PayInv, GoodStep, Quiet
<1>3. CASE Refuse(p)
  BY <1>1, <1>3, ReturnOwes DEF Refuse
<1>4. CASE Due(g) /\ Write(p, g, v) /\ Proceed(p, "referrer") /\ UNCHANGED req
  <2>1. v.coins = db[g].coins + ReferralBonus /\ v.rewarded = TRUE
    BY <1>2 DEF GoodUser, User
  <2>. HIDE DEF v
  <2>2. DOMAIN d = {g} /\ d[g] = v
    BY <1>2 DEF Put
  <2>3. ~db[g].rewarded
    BY <1>4 DEF Due
  <2>. HIDE DEF d
  <2>4. d[g].rewarded
    BY <2>1, <2>2
  <2>5. OwesReferral("referrer", req[p], d, db)
    BY <2>1, <2>2, <2>3, <2>4 DEF OwesReferral
  <2>6. Owes("referrer", req[p], d, db)
    BY <1>2, <2>5 DEF Owes, OwesDaily, OwesAd, OwesMission, OwesPackage, OwesPot
  <2>. QED
    BY <1>1, <1>4, <2>6, WriteOwes DEF d
<1>. QED
  BY <1>1, <1>3, <1>4

LEMMA ReferrerOwes ==
  ASSUME PayInv, WalletInv', NEW p \in Servers, AwardReferrer(p) PROVE PayInv'
<1>. DEFINE g == req[p].g
            r == db[g].referrer
            v == [db[r] EXCEPT !.coins = @ + ReferralBonus]
            d == Put(draft[p], r, v)
<1>1. /\ serving[p] = "referrer" /\ Write(p, r, v) /\ Proceed(p, "commit") /\ UNCHANGED <<now, db, req>>
  BY DEF AwardReferrer
<1>2. /\ WalletInv /\ g \in Users /\ req[p].op = "refer" /\ r # Nobody
      /\ Owes("referrer", req[p], draft[p], db)
  BY <1>1, ServedBy DEF PayInv, GoodStep
<1>3. r \in Users /\ GoodUser(db[r]) /\ r # g /\ r \in Guests \ {g}
  BY <1>2, ServedBy DEF PayInv, Users
<1>4. v.coins = db[r].coins + ReferralBonus /\ v.rewarded = db[r].rewarded
  BY <1>3 DEF GoodUser, User
<1>. HIDE DEF v
<1>5. /\ DOMAIN draft[p] = {g} /\ draft[p][g].coins = db[g].coins + ReferralBonus
      /\ ~db[g].rewarded /\ draft[p][g].rewarded
  BY <1>2 DEF Owes, OwesReferral
<1>6. DOMAIN d = {g, r} /\ d[r] = v /\ d[g] = draft[p][g]
  BY <1>3, <1>5 DEF Put
<1>. HIDE DEF d
<1>7. d[g].rewarded
  BY <1>5, <1>6
<1>8. Moved(d, db, r, ReferralBonus)
  BY <1>4, <1>6 DEF Moved
<1>9. OwesReferral("commit", req[p], d, db)
  BY <1>3, <1>5, <1>6, <1>7, <1>8 DEF OwesReferral
<1>10. Owes("commit", req[p], d, db)
  BY <1>2, <1>9 DEF Owes, OwesDaily, OwesAd, OwesMission, OwesPackage, OwesPot
<1>. QED
  BY <1>1, <1>10, WriteOwes DEF d

LEMMA LosersAre ==
  ASSUME NEW q \in Seq(Guests), q # <<>>, IsInjective(q)
  PROVE  /\ Head(q) \in Range(q) /\ Tail(q) \in Seq(Guests)
         /\ Range(Tail(q)) = Range(q) \ {Head(q)} /\ IsInjective(Tail(q))
<1>1. Len(q) \in Nat \ {0} /\ DOMAIN q = 1..Len(q) /\ Head(q) = q[1]
      /\ Tail(q) \in Seq(Guests) /\ DOMAIN Tail(q) = 1..(Len(q) - 1)
      /\ \A i \in 1..(Len(q) - 1) : Tail(q)[i] = q[i + 1]
  BY HeadTailProperties
<1>2. \A i, j \in 1..Len(q) : q[i] = q[j] => i = j
  BY <1>1 DEF IsInjective
<1>3. \A i \in 1..(Len(q) - 1) : i + 1 \in 1..Len(q) /\ i + 1 # 1
  BY <1>1
<1>4. 1 \in 1..Len(q) /\ \A i \in 1..Len(q) : i # 1 => i - 1 \in 1..(Len(q) - 1) /\ (i - 1) + 1 = i
  BY <1>1
<1>5. Range(Tail(q)) \subseteq Range(q) \ {Head(q)}
  BY <1>1, <1>2, <1>3, <1>4 DEF Range
<1>6. Range(q) \ {Head(q)} \subseteq Range(Tail(q))
  <2>1. ASSUME NEW x \in Range(q), x # Head(q) PROVE x \in Range(Tail(q))
    <3>1. PICK i \in 1..Len(q) : x = q[i]
      BY <1>1 DEF Range
    <3>2. i # 1
      BY <1>1, <2>1, <3>1
    <3>3. i - 1 \in DOMAIN Tail(q) /\ Tail(q)[i - 1] = x
      BY <1>1, <1>4, <3>1, <3>2
    <3>. QED
      BY <3>3 DEF Range
  <2>. QED
    BY <2>1
<1>7. IsInjective(Tail(q))
  <2>1. ASSUME NEW i \in DOMAIN Tail(q), NEW j \in DOMAIN Tail(q), Tail(q)[i] = Tail(q)[j]
        PROVE  i = j
    <3>1. i + 1 \in 1..Len(q) /\ j + 1 \in 1..Len(q) /\ q[i + 1] = q[j + 1] /\ i \in Int /\ j \in Int
      BY <1>1, <1>3, <2>1
    <3>2. i + 1 = j + 1
      BY <1>2, <3>1
    <3>. QED
      BY <3>1, <3>2
  <2>. QED
    BY <2>1 DEF IsInjective
<1>. QED
  BY <1>1, <1>4, <1>5, <1>6, <1>7 DEF Range

LEMMA LoseOwes ==
  ASSUME PayInv, WalletInv', NEW p \in Servers, Lose(p) PROVE PayInv'
<1>. DEFINE q == req[p].losers
            l == Head(q)
            rest == Tail(q)
            paid == Stake(db[l])
            v == [db[l] EXCEPT !.coins = @ - paid]
            r == [req[p] EXCEPT !.losers = rest, !.pot = @ + paid, !.players = @ \cup {l}]
            t == IF rest = <<>> THEN "win" ELSE "lose"
            d == Put(draft[p], l, v)
<1>1. /\ serving[p] = "lose" /\ Write(p, l, v) /\ Proceed(p, t) /\ UNCHANGED <<now, db>>
      /\ req' = [req EXCEPT ![p].losers = rest, ![p].pot = @ + paid, ![p].players = @ \cup {l}]
  BY DEF Lose
<1>2. /\ WalletInv /\ req[p].op = "lose" /\ q # <<>> /\ Range(q) \subseteq DOMAIN db
      /\ req[p].players \subseteq DOMAIN db
      /\ Owes("lose", req[p], draft[p], db)
  BY <1>1, ServedBy DEF GoodStep, PayInv
<1>3. req[p] \in [op : {"lose"}, g : Guests, pot : Int, players : SUBSET Guests, losers : Seq(Guests)]
  BY <1>2, ServedBy DEF Job, NoRequest
<1>4. /\ r.losers = rest /\ r.pot = req[p].pot + paid /\ r.players = req[p].players \cup {l}
      /\ r.op = "lose" /\ r.g = req[p].g
  BY <1>3
<1>5. req' = [req EXCEPT ![p] = r]
  BY <1>1, <1>2 DEF WalletInv
<1>. HIDE DEF r
<1>6. /\ DOMAIN draft[p] = req[p].players /\ req[p].g \notin req[p].players
      /\ req[p].g \notin Range(q) /\ IsInjective(q) /\ Range(q) \cap req[p].players = {}
      /\ req[p].pot = Sum(Stakes(db), req[p].players)
      /\ \A x \in req[p].players : /\ draft[p][x].coins = db[x].coins - Stake(db[x])
                                   /\ draft[p][x].rewarded = db[x].rewarded
  BY <1>2 DEF Owes, OwesPot
<1>7. /\ l \in Range(q) /\ rest \in Seq(Guests) /\ Range(rest) = Range(q) \ {l}
      /\ IsInjective(rest) /\ Range(q) \subseteq Guests
  <2>1. q \in Seq(Guests)
    BY <1>3
  <2>2. Range(q) \subseteq Guests
    BY <2>1 DEF Range
  <2>. HIDE DEF q
  <2>. QED
    BY <1>2, <1>6, <2>1, <2>2, LosersAre
<1>. HIDE DEF rest, q
<1>8. l \in Users /\ l \notin req[p].players /\ GoodUser(db[l])
  BY <1>2, <1>6, <1>7, ServedBy DEF Users
<1>9. paid \in Int
  BY <1>8, StakeIs
<1>. HIDE DEF paid
<1>10. v.coins = db[l].coins - paid /\ v.rewarded = db[l].rewarded
  BY <1>8 DEF GoodUser, User
<1>. HIDE DEF l, v
<1>11. /\ DOMAIN d = req[p].players \cup {l} /\ d[l] = v
       /\ \A x \in req[p].players : d[x] = draft[p][x]
  BY <1>6, <1>8 DEF Put
<1>. HIDE DEF d
<1>12. r.pot = Sum(Stakes(db), r.players)
  <2>1. IsFiniteSet(req[p].players) /\ req[p].players \subseteq Users
    <3>1. req[p].players \subseteq DOMAIN db \cap Guests
      BY <1>2, <1>3
    <3>. QED
      BY <1>2, <3>1, FS_Subset DEF WalletInv, GoodRows, Users
  <2>2. \A x \in req[p].players \cup {l} : Stakes(db)[x] \in Int
    BY <1>2, <1>8, <2>1, ServedBy, StakeIs DEF Stakes, Users
  <2>3. Sum(Stakes(db), req[p].players \cup {l}) = Stakes(db)[l] + Sum(Stakes(db), req[p].players)
    BY <1>8, <2>1, <2>2, SumWith
  <2>4. Stakes(db)[l] = paid
    BY <1>8 DEF Stakes, Users, paid
  <2>5. Sum(Stakes(db), req[p].players) \in Int
    BY <2>1, <2>2, SumType
  <2>. QED
    BY <1>4, <1>6, <1>9, <2>3, <2>4, <2>5
<1>13. \A x \in r.players : /\ d[x].coins = db[x].coins - Stake(db[x])
                            /\ d[x].rewarded = db[x].rewarded
  BY <1>4, <1>6, <1>10, <1>11 DEF paid
<1>14. t \in {"lose", "win"}
  OBVIOUS
<1>. HIDE DEF t
<1>15. OwesPot(t, r, d, db)
  BY <1>4, <1>6, <1>7, <1>11, <1>12, <1>13, <1>14 DEF OwesPot
<1>16. Owes(t, r, d, db)
  BY <1>4, <1>15 DEF Owes, OwesDaily, OwesAd, OwesMission, OwesPackage, OwesReferral
<1>17. serving' = [serving EXCEPT ![p] = t] /\ draft' = [draft EXCEPT ![p] = d]
  BY <1>1 DEF Proceed, Write, d
<1>. QED
  BY <1>1, <1>5, <1>16, <1>17, OneOwes

LEMMA WinOwes ==
  ASSUME PayInv, WalletInv', NEW p \in Servers, Win(p) PROVE PayInv'
<1>. DEFINE w == req[p].g
            v == [db[w] EXCEPT !.coins = @ + req[p].pot]
            d == Put(draft[p], w, v)
<1>1. /\ serving[p] = "win" /\ Write(p, w, v) /\ Proceed(p, "commit") /\ UNCHANGED <<now, db, req>>
  BY DEF Win
<1>2. /\ req[p].op = "lose" /\ GoodUser(db[w]) /\ Owes("win", req[p], draft[p], db)
  BY <1>1, ServedBy DEF GoodStep, PayInv
<1>3. v.coins = db[w].coins + req[p].pot /\ v.rewarded = db[w].rewarded
  BY <1>2 DEF GoodUser, User
<1>. HIDE DEF v
<1>4. /\ DOMAIN draft[p] = req[p].players /\ w \notin req[p].players
      /\ w \notin Range(req[p].losers) /\ IsInjective(req[p].losers)
      /\ Range(req[p].losers) \cap req[p].players = {}
      /\ req[p].pot = Sum(Stakes(db), req[p].players)
      /\ \A x \in req[p].players : /\ draft[p][x].coins = db[x].coins - Stake(db[x])
                                   /\ draft[p][x].rewarded = db[x].rewarded
  BY <1>2 DEF Owes, OwesPot
<1>5. /\ DOMAIN d = req[p].players \cup {w} /\ d[w] = v
      /\ \A x \in req[p].players : d[x] = draft[p][x]
  BY <1>4 DEF Put
<1>. HIDE DEF d
<1>6. Moved(d, db, w, req[p].pot)
  BY <1>3, <1>5 DEF Moved
<1>7. OwesPot("commit", req[p], d, db)
  BY <1>4, <1>5, <1>6 DEF OwesPot
<1>8. Owes("commit", req[p], d, db)
  BY <1>2, <1>7 DEF Owes, OwesDaily, OwesAd, OwesMission, OwesPackage, OwesReferral
<1>. QED
  BY <1>1, <1>8, WriteOwes DEF d

LEMMA RecordOwes ==
  ASSUME PayInv, WalletInv', NEW p \in Servers, RecordPlayers(p) PROVE PayInv'
<1>1. Answer(p) /\ UNCHANGED <<now, db>> /\ draft' = [draft EXCEPT ![p] = draft[p]]
  BY DEF RecordPlayers, WalletInv, PayInv
<1>. QED
  BY <1>1, ReturnOwes

LEMMA FailOwes ==
  ASSUME PayInv, WalletInv', NEW p \in Servers, Fail(p) PROVE PayInv'
<1>1. Answer(p) /\ UNCHANGED <<now, db>> /\ draft' = [draft EXCEPT ![p] = NoDraft]
  BY DEF Fail, Undo
<1>. QED
  BY <1>1, ReturnOwes

LEMMA AskOwes ==
  ASSUME PayInv, WalletInv', NEW p \in Servers, Ask(p) PROVE PayInv'
<1>1. PICK r \in Requests : req' = [req EXCEPT ![p] = r] /\ Proceed(p, r.op)
  BY DEF Ask
<1>2. serving[p] = "idle" /\ UNCHANGED <<now, db, draft>>
  BY DEF Ask
<1>3. DOMAIN draft[p] = {} /\ now \in Nat /\ now <= MaxTime
  BY <1>2, ServedBy DEF GoodStep, Quiet, PayInv, WalletInv
<1>4. Day(now) <= MaxTime
  BY <1>3, DayBound, DaysAreNat, Amounts
<1>5. Owes(r.op, r, draft[p], db)
  <2>1. CASE r \in [op : {"daily", "ad", "capture", "refer"}, g : Users]
    BY <2>1, OwesNothing DEF Quiet
  <2>2. CASE r \in [op : {"mission", "play"}, g : Users, day : {Day(now)}]
    BY <1>4, <2>2, OwesNothing DEF Quiet
  <2>3. ASSUME NEW w \in Users,
               r \in [op : {"lose"}, g : {w}, pot : {0}, players : {{}},
                      losers : SetToAllKPermutations(Users \ {w}) \ {<<>>}]
        PROVE  Owes(r.op, r, draft[p], db)
    <3>1. PICK S \in SUBSET (Users \ {w}) : r.losers \in SetToSeqs(S)
      BY <2>3 DEF SetToAllKPermutations
    <3>2. Cardinality(S) \in Nat
      BY FS_Subset, FS_CardinalityType DEF PayInv, WalletInv, GoodRows, Users
    <3>3. r.losers \in [1..Cardinality(S) -> S]
          /\ \A i, j \in 1..Cardinality(S) : i # j => r.losers[i] # r.losers[j]
      BY <3>1 DEF SetToSeqs, IsInjective
    <3>4. Range(r.losers) \subseteq S /\ IsInjective(r.losers)
      BY <3>3 DEF Range, IsInjective
    <3>5. r.op = "lose" /\ r.g = w /\ r.players = {} /\ r.pot = 0
      BY <2>3
    <3>6. OwesPot("lose", r, draft[p], db)
      BY <1>3, <3>4, <3>5, SumEmpty DEF OwesPot
    <3>. QED
      BY <3>5, <3>6 DEF Owes, OwesDaily, OwesAd, OwesMission, OwesPackage, OwesReferral
  <2>. QED
    BY <2>1, <2>2, <2>3 DEF Requests
<1>6. serving' = [serving EXCEPT ![p] = r.op] /\ draft' = [draft EXCEPT ![p] = draft[p]]
  BY <1>1, <1>2 DEF Proceed, WalletInv, PayInv
<1>. QED
  BY <1>1, <1>2, <1>5, <1>6, OneOwes

LEMMA SignUpOwes ==
  ASSUME PayInv, WalletInv', NEW g \in Guests, SignUp(g) PROVE PayInv'
<1>1. g \notin DOMAIN db /\ UNCHANGED <<now, serving, req, draft>>
  BY DEF SignUp, Users
<1>2. PICK referrer \in Users \cup {Nobody} : db' = Put(db, g, NewUser(referrer))
  BY DEF SignUp
<1>3. /\ DOMAIN db' = DOMAIN db \cup {g} /\ db'[g] = NewUser(referrer)
      /\ \A x \in DOMAIN db : db'[x] = db[x]
  BY <1>1, <1>2 DEF Put
<1>4. \A x \in Users' : db'[x].referrer # x
  BY <1>1, <1>3, TablesDiffer DEF PayInv, Users, NewUser
<1>5. ASSUME NEW p \in Servers PROVE Owes(serving[p], req[p], draft[p], db')
  <2>1. GoodStep(serving[p], req[p], draft[p], db) /\ GoodRows(db) /\ Owes(serving[p], req[p], draft[p], db)
    BY DEF PayInv, WalletInv
  <2>2. \A x \in DOMAIN draft[p] : db'[x] = db[x]
    BY <1>3, <2>1 DEF GoodStep
  <2>. QED
    BY <1>3, <2>1, <2>2, OwesKept
<1>. QED
  BY <1>1, <1>4, <1>5 DEF PayInv

LEMMA TickOwes == ASSUME PayInv, WalletInv', Tick \/ UNCHANGED walletVars PROVE PayInv'
<1>1. /\ UNCHANGED <<db, serving, req, draft>>
      /\ now' = now \/ (now < MaxTime /\ now' = now + 1)
  BY DEF Tick, walletVars
<1>2. now' <= MaxTime
  BY <1>1, Amounts DEF PayInv, WalletInv
<1>. QED
  BY <1>1, <1>2 DEF PayInv, Users

LEMMA PlayOwes ==
  ASSUME PayInv, WalletInv', NEW p \in Servers, IncrementMissions(p) PROVE PayInv'
<1>. DEFINE row == <<req[p].g, req[p].day>>
            v == IF row \in DOMAIN db THEN [db[row] EXCEPT !.progress = @ + 1]
                 ELSE [progress |-> 1, claimed |-> FALSE]
<1>1. /\ serving[p] = "play" /\ Free(p, row) /\ db' = Put(db, row, v) /\ Answer(p)
      /\ UNCHANGED <<now, draft>>
  BY DEF IncrementMissions
<1>2. req[p].op = "play"
  BY <1>1, ServedBy DEF GoodStep, PayInv
<1>3. row \in MissionRows /\ row \notin Guests
  BY <1>2, ServedBy, TablesDiffer DEF Job, MissionRows, NoRequest, PayInv
<1>. HIDE DEF v, row
<1>4. /\ DOMAIN db' = DOMAIN db \cup {row}
      /\ \A x \in DOMAIN db : x # row => db'[x] = db[x]
  BY <1>1 DEF Put
<1>5. \A g \in Users' : db'[g].referrer # g
  BY <1>3, <1>4 DEF PayInv, Users
<1>6. ASSUME NEW q \in Servers, q # p PROVE Owes(serving[q], req[q], draft[q], db')
  <2>1. /\ GoodStep(serving[q], req[q], draft[q], db) /\ GoodRows(db) /\ row \notin DOMAIN draft[q]
        /\ Owes(serving[q], req[q], draft[q], db)
    BY <1>1, <1>6 DEF WalletInv, PayInv, Free
  <2>2. \A x \in DOMAIN draft[q] : db'[x] = db[x]
    BY <1>4, <2>1 DEF GoodStep
  <2>. QED
    BY <1>4, <2>1, <2>2, OwesKept
<1>7. Owes("idle", NoRequest, draft[p], db')
  BY OwesNothing DEF Quiet, NoRequest
<1>8. serving'[p] = "idle" /\ req'[p] = NoRequest
      /\ \A q \in Servers : q # p => serving'[q] = serving[q] /\ req'[q] = req[q]
  BY <1>1 DEF Answer, Proceed, WalletInv, PayInv
<1>9. \A q \in Servers : Owes(serving'[q], req'[q], draft'[q], db')
  BY <1>1, <1>6, <1>7, <1>8
<1>. QED
  BY <1>1, <1>5, <1>9 DEF PayInv

(* What a commit does to the rows.                                         *)
LEMMA CommitIs ==
  ASSUME WalletInv, NEW p \in Servers, Commit(p)
  PROVE  /\ serving[p] = "commit" /\ UNCHANGED <<now, settlements, asked>>
         /\ GoodStep("commit", req[p], draft[p], db) /\ req[p] \in Job /\ req[p] # NoRequest
         /\ req[p].g \in Users /\ DOMAIN draft[p] \subseteq DOMAIN db
         /\ DOMAIN db' = DOMAIN db /\ Users' = Users
         /\ \A x \in DOMAIN draft[p] : db'[x] = draft[p][x]
         /\ \A x \in DOMAIN db : x \notin DOMAIN draft[p] => db'[x] = db[x]
         /\ \A g \in DOMAIN draft[p] \cap Guests : Fits(req[p].op, db[g], draft[p][g])
<1>1. /\ serving[p] = "commit" /\ db' = Over(draft[p], db) /\ UNCHANGED <<now, settlements, asked>>
  BY DEF Commit
<1>2. GoodStep("commit", req[p], draft[p], db) /\ req[p] \in Job /\ req[p] # NoRequest
      /\ req[p].g \in Users
  BY <1>1, ServedBy
<1>3. DOMAIN draft[p] \subseteq DOMAIN db
      /\ \A g \in DOMAIN draft[p] \cap Guests : Fits(req[p].op, db[g], draft[p][g])
  BY <1>2 DEF GoodStep
<1>4. /\ DOMAIN db' = DOMAIN db /\ \A x \in DOMAIN draft[p] : db'[x] = draft[p][x]
      /\ \A x \in DOMAIN db : x \notin DOMAIN draft[p] => db'[x] = db[x]
  BY <1>1, <1>3 DEF Over
<1>. QED
  BY <1>1, <1>2, <1>3, <1>4 DEF Users

LEMMA CommitOwes ==
  ASSUME PayInv, WalletInv', NEW p \in Servers, Commit(p) PROVE PayInv'
<1>1. WalletInv
  BY DEF PayInv
<1>2. \A g \in Users' : db'[g].referrer # g
  <2>1. ASSUME NEW g \in Users PROVE db'[g].referrer = db[g].referrer
    <3>1. CASE g \in DOMAIN draft[p]
      BY <1>1, <3>1, CommitIs DEF Fits, Users
    <3>2. CASE g \notin DOMAIN draft[p]
      BY <1>1, <3>2, CommitIs DEF Users
    <3>. QED
      BY <3>1, <3>2
  <2>. QED
    BY <1>1, <2>1, CommitIs DEF PayInv
<1>3. ASSUME NEW q \in Servers, q # p PROVE Owes(serving[q], req[q], draft[q], db')
  <2>1. /\ GoodStep(serving[q], req[q], draft[q], db) /\ GoodRows(db)
        /\ DOMAIN draft[q] \cap DOMAIN draft[p] = {}
        /\ Owes(serving[q], req[q], draft[q], db)
    BY <1>3 DEF WalletInv, PayInv
  <2>2. DOMAIN draft[q] \subseteq DOMAIN db
    BY <2>1 DEF GoodStep
  <2>3. \A x \in DOMAIN draft[q] : db'[x] = db[x]
    BY <1>1, <2>1, <2>2, CommitIs
  <2>. QED
    BY <1>1, <2>1, <2>3, CommitIs, OwesKept
<1>4. /\ draft' = [draft EXCEPT ![p] = NoDraft]
      /\ IF req[p].op = "lose" THEN Proceed(p, "record") /\ UNCHANGED req ELSE Answer(p)
  BY DEF Commit
<1>5. /\ serving'[p] \in {"record", "idle"} /\ req'[p].op \notin {"mission", "play"}
      /\ \A q \in Servers : q # p => serving'[q] = serving[q] /\ req'[q] = req[q] /\ draft'[q] = draft[q]
  BY <1>1, <1>4 DEF Proceed, Answer, WalletInv, NoRequest
<1>6. Owes(serving'[p], req'[p], draft'[p], db')
  BY <1>5, OwesNothing DEF Quiet
<1>7. \A q \in Servers : Owes(serving'[q], req'[q], draft'[q], db')
  BY <1>3, <1>5, <1>6
<1>. QED
  BY <1>1, <1>2, <1>7, CommitIs DEF PayInv

LEMMA PayStep == ASSUME PayInv, [WalletNext]_walletVars PROVE PayInv'
<1>1. WalletInv'
  BY WalletStep DEF PayInv
<1>2. ASSUME NEW p \in Servers, Serve(p) PROVE PayInv'
  BY <1>1, <1>2, DailyOwes, AdOwes, PlayOwes, MissionOwes, CaptureOwes, CreditOwes, LoseOwes,
     WinOwes, RecordOwes, RefereeOwes, ReferrerOwes, CommitOwes DEF Serve
<1>. QED
  BY <1>1, <1>2, TickOwes, SignUpOwes, AskOwes, FailOwes DEF WalletNext

LEMMA PayStart == WalletInit => PayInv
<1>1. SUFFICES ASSUME WalletInit PROVE PayInv
  OBVIOUS
<1>2. WalletInv /\ now <= MaxTime /\ Users = {}
  BY <1>1, WalletStart, Amounts DEF WalletInit, NoDraft, Users
<1>3. \A p \in Servers : serving[p] = "idle" /\ req[p] = NoRequest
  BY <1>1 DEF WalletInit
<1>4. \A p \in Servers : Owes(serving[p], req[p], draft[p], db)
  BY <1>3, OwesNothing DEF Quiet, NoRequest
<1>. QED
  BY <1>2, <1>4 DEF PayInv

LEMMA PayAlways == WalletSpec => []PayInv
BY PayStart, PayStep, PTL DEF WalletSpec

-----------------------------------------------------------------------------
(* The steps of the ledger, in terms of the rows.                          *)

LEMMA LedgerKept ==
  ASSUME Users' = Users, \A g \in Users : db'[g].coins = db[g].coins,
         PaidIn(db', granted') = PaidIn(db, granted)
  PROVE  UNCHANGED Ledger!ledgerVars
<1>1. CoinsIn(db') = CoinsIn(db)
  BY DEF CoinsIn, Users
<1>. QED
  BY <1>1, LedgerIs

LEMMA LedgerPays ==
  ASSUME NEW g \in Users, Ledger!Pay(g)
  PROVE  [Ledger!Next]_(Ledger!ledgerVars)
BY DEF Ledger!Next, Ledger!ledgerVars

LEMMA LedgerRewards ==
  ASSUME NEW g \in Users, NEW due, NEW n, due \notin PaidIn(db, granted),
         PaidIn(db', granted') = PaidIn(db, granted) \cup {due}, Users' = Users,
         db'[g].coins = db[g].coins + n,
         \A x \in Users : x # g => db'[x].coins = db[x].coins
  PROVE  Ledger!Reward(g, due, n)
BY DEF Ledger!Reward, PaidIn, MissionsPaid, ReferralsPaid, Users

LEMMA LedgerCredits ==
  ASSUME NEW g \in Users, NEW n, PaidIn(db', granted') = PaidIn(db, granted), Users' = Users,
         db'[g].coins = db[g].coins + n,
         \A x \in Users : x # g => db'[x].coins = db[x].coins
  PROVE  Ledger!Credit(g, n)
BY DEF Ledger!Credit, PaidIn, MissionsPaid, ReferralsPaid, Users

LEMMA LedgerRefers ==
  ASSUME NEW g \in Users, NEW r \in Users, g # r, <<"referral", g>> \notin PaidIn(db, granted),
         PaidIn(db', granted') = PaidIn(db, granted) \cup {<<"referral", g>>}, Users' = Users,
         db'[g].coins = db[g].coins + ReferralBonus,
         db'[r].coins = db[r].coins + ReferralBonus,
         \A x \in Users \ {g, r} : db'[x].coins = db[x].coins
  PROVE  Ledger!Refer(g, r)
BY DEF Ledger!Refer, PaidIn, MissionsPaid, ReferralsPaid, Users

LEMMA LedgerSettles ==
  ASSUME NEW w \in Users, NEW L, L \subseteq Users, IsFiniteSet(L), w \notin L,
         PaidIn(db', granted') = PaidIn(db, granted), Users' = Users,
         db'[w].coins = db[w].coins + Sum(Stakes(db), L),
         \A l \in L : db'[l].coins = db[l].coins - Stake(db[l]),
         \A x \in Users : x # w /\ x \notin L => db'[x].coins = db[x].coins
  PROVE  Ledger!Settle(w, L)
<1>. DEFINE pot == Ledger!MapThenSumSet(Ledger!Stake, L)
<1>1. pot = Sum(Stakes(db), L)
  BY LedgerStake
<1>2. \A l \in L : Ledger!Stake(l) = Stake(db[l])
  BY DEF Ledger!Stake, Stake, Users
<1>3. Ledger!Settle(w, L) <=>
        /\ w \notin L
        /\ [g \in Users' |-> db'[g].coins] =
             [g \in Users |-> CASE g = w -> [h \in Users |-> db[h].coins][g] + pot
                                [] g \in L -> [h \in Users |-> db[h].coins][g] - Ledger!Stake(g)
                                [] OTHER -> [h \in Users |-> db[h].coins][g]]
        /\ UNCHANGED (granted \cup MissionsPaid \cup ReferralsPaid)
  BY DEF Ledger!Settle
<1>. HIDE DEF pot
<1>4. \A g \in Users : db'[g].coins =
        CASE g = w -> db[g].coins + pot
          [] g \in L -> db[g].coins - Ledger!Stake(g)
          [] OTHER -> db[g].coins
  BY <1>1, <1>2
<1>5. UNCHANGED (granted \cup MissionsPaid \cup ReferralsPaid)
  BY DEF PaidIn, MissionsPaid, ReferralsPaid, Users
<1>. QED
  BY <1>3, <1>4, <1>5

LEMMA LedgerSigns ==
  ASSUME WalletInv, NEW g \in Guests, SignUp(g)
  PROVE  [Ledger!Next]_(Ledger!ledgerVars)
<1>1. g \notin DOMAIN db /\ granted' = granted
  BY DEF SignUp, Users
<1>2. PICK referrer \in Users \cup {Nobody} : db' = Put(db, g, NewUser(referrer))
  BY DEF SignUp
<1>3. /\ DOMAIN db' = DOMAIN db \cup {g} /\ db'[g] = NewUser(referrer)
      /\ \A x \in DOMAIN db : db'[x] = db[x]
  BY <1>1, <1>2 DEF Put
<1>4. NewUser(referrer).coins = StartingCoins /\ ~NewUser(referrer).rewarded
  BY DEF NewUser
<1>5. Users' = Users \cup {g} /\ g \notin Users
  BY <1>1, <1>3 DEF Users
<1>6. MissionsPaid' = MissionsPaid
  BY <1>3 DEF MissionsPaid
<1>7. ReferralsPaid' = ReferralsPaid
  BY <1>1, <1>3, <1>4, <1>5 DEF ReferralsPaid, Users
<1>8. \A x \in Users : db'[x] = db[x]
  BY <1>3 DEF Users
<1>9. Ledger!SignUp(g)
  BY <1>1, <1>3, <1>4, <1>5, <1>6, <1>7, <1>8 DEF Ledger!SignUp
<1>. QED
  BY <1>9 DEF Ledger!Next, Ledger!SignUp

LEMMA LedgerPlays ==
  ASSUME WalletInv, NEW p \in Servers, IncrementMissions(p)
  PROVE  UNCHANGED Ledger!ledgerVars
<1>. DEFINE row == <<req[p].g, req[p].day>>
            v == IF row \in DOMAIN db THEN [db[row] EXCEPT !.progress = @ + 1]
                 ELSE [progress |-> 1, claimed |-> FALSE]
<1>1. serving[p] = "play" /\ db' = Put(db, row, v) /\ granted' = granted
  BY DEF IncrementMissions
<1>2. req[p].op = "play"
  BY <1>1, ServedBy DEF GoodStep
<1>3. row \in MissionRows /\ row \notin Guests
  BY <1>2, ServedBy, TablesDiffer DEF Job, MissionRows, NoRequest
<1>4. row \in DOMAIN db => db[row] \in Mission
  BY <1>3 DEF WalletInv, GoodRows
<1>5. v.claimed = (row \in DOMAIN db /\ db[row].claimed)
  <2>1. CASE row \in DOMAIN db
    <3>1. v.claimed = db[row].claimed
      BY <1>4, <2>1 DEF Mission
    <3>2. db[row].claimed \in BOOLEAN
      BY <1>4, <2>1 DEF Mission
    <3>. HIDE DEF v, row
    <3>. QED
      BY <2>1, <3>1, <3>2, Zenon
  <2>2. CASE row \notin DOMAIN db
    <3>1. v.claimed = FALSE
      BY <2>2
    <3>. HIDE DEF v, row
    <3>. QED
      BY <2>2, <3>1, Zenon
  <2>. QED
    BY <2>1, <2>2
<1>. HIDE DEF v, row
<1>6. /\ DOMAIN db' = DOMAIN db \cup {row} /\ db'[row] = v
      /\ \A x \in DOMAIN db : x # row => db'[x] = db[x]
  BY <1>1 DEF Put
<1>7. Users' = Users /\ \A x \in Users : db'[x] = db[x]
  BY <1>3, <1>6 DEF Users
<1>8. {x \in DOMAIN db' \ Guests : db'[x].claimed} = {x \in DOMAIN db \ Guests : db[x].claimed}
  BY <1>3, <1>5, <1>6
<1>9. {x \in DOMAIN db' \cap Guests : db'[x].rewarded}
        = {x \in DOMAIN db \cap Guests : db[x].rewarded}
  BY <1>7 DEF Users
<1>10. PaidIn(db', granted') = PaidIn(db, granted)
  BY <1>1, <1>8, <1>9 DEF PaidIn
<1>. QED
  BY <1>7, <1>10, LedgerKept

(* What is paid for the bonuses and ads, the missions and the referrals    *)
(* after a commit.                                                         *)
ClaimedIn(b) == {x \in DOMAIN b \ Guests : b[x].claimed}
RewardedIn(b) == {x \in DOMAIN b \cap Guests : b[x].rewarded}

LEMMA PaidIs ==
  ASSUME NEW b, NEW h
  PROVE  PaidIn(b, h) = h \cup {<<"mission", row[1], row[2]>> : row \in ClaimedIn(b)}
                          \cup {<<"referral", g>> : g \in RewardedIn(b)}
BY DEF PaidIn, ClaimedIn, RewardedIn

(* Bonuses and ads are not paid twice.                                     *)
LEMMA NotYetPaid ==
  ASSUME WalletInv, NEW g \in Users, NEW t \in Nat, NEW u
  PROVE  /\ Fits("daily", db[g], u) /\ u.claimDay = t => <<"daily", g, t>> \notin granted
         /\ Fits("ad", db[g], u) /\ u.adAt = t => <<"ad", g, t>> \notin granted
<1>1. /\ GoodHistory(db, granted) /\ GoodUser(db[g]) /\ g \in Guests
      /\ db[g].claimDay \in Nat \cup {Never} /\ db[g].adAt \in Nat \cup {Never}
      /\ AdCooldown \in Nat \ {0}
  <2>1. GoodHistory(db, granted) /\ GoodUser(db[g]) /\ g \in Guests
    BY DEF WalletInv, GoodRows, Users
  <2>. QED
    BY <2>1, WalletAssumption DEF GoodUser, User
<1>2. ASSUME Fits("daily", db[g], u), u.claimDay = t, <<"daily", g, t>> \in granted PROVE FALSE
  <2>1. db[g].claimDay # Never /\ t <= db[g].claimDay
    BY <1>1, <1>2 DEF GoodHistory
  <2>2. db[g].claimDay < t
    BY <1>2, <2>1 DEF Fits
  <2>. QED
    BY <1>1, <2>1, <2>2
<1>3. ASSUME Fits("ad", db[g], u), u.adAt = t, <<"ad", g, t>> \in granted PROVE FALSE
  <2>1. db[g].adAt # Never /\ t <= db[g].adAt
    BY <1>1, <1>3 DEF GoodHistory
  <2>2. t >= db[g].adAt + AdCooldown
    BY <1>3, <2>1 DEF Fits
  <2>. QED
    BY <1>1, <2>1, <2>2
<1>. QED
  BY <1>2, <1>3

(* A transaction wrote guests' rows and left their referrals as they were. *)
LEMMA SameClaims ==
  ASSUME NEW b, NEW c, DOMAIN c = DOMAIN b, NEW D, D \subseteq DOMAIN b,
         \A x \in DOMAIN b : x \notin D => c[x] = b[x]
  PROVE  /\ D \subseteq Guests => ClaimedIn(c) = ClaimedIn(b)
         /\ (\A x \in D \cap Guests : c[x].rewarded = b[x].rewarded) => RewardedIn(c) = RewardedIn(b)
BY DEF ClaimedIn, RewardedIn

LEMMA GrantPaid ==
  ASSUME PayInv, NEW p \in Servers, Commit(p), req[p].op \in {"daily", "ad"}
  PROVE  [Ledger!Next]_(Ledger!ledgerVars)
<1>. DEFINE g == req[p].g
            d == draft[p]
            t == IF req[p].op = "daily" THEN d[g].claimDay ELSE d[g].adAt
            due == <<req[p].op, g, t>>
<1>1. /\ WalletInv /\ Owes("commit", req[p], d, db)
      /\ granted' = granted \cup {due}
  <2>1. serving[p] = "commit" /\ WalletInv /\ Owes(serving[p], req[p], d, db)
    BY DEF PayInv, Commit
  <2>2. CASE req[p].op = "daily"
    BY <2>1, <2>2 DEF Commit
  <2>3. CASE req[p].op = "ad"
    BY <2>1, <2>3 DEF Commit
  <2>. QED
    BY <2>1, <2>2, <2>3
<1>2. /\ g \in Users /\ Users' = Users /\ DOMAIN db' = DOMAIN db /\ DOMAIN d = {g}
      /\ g \in DOMAIN db /\ g \in Guests
      /\ db'[g] = d[g] /\ \A x \in DOMAIN db : x # g => db'[x] = db[x]
      /\ Fits(req[p].op, db[g], d[g])
  BY <1>1, CommitIs DEF GoodStep, Users
<1>3. t \in 0..MaxTime
  <2>1. t \in Nat
    BY <1>2 DEF Fits
  <2>2. t <= MaxTime
    BY <1>1 DEF Owes, OwesDaily, OwesAd
  <2>. QED
    BY <2>1, <2>2, Amounts
<1>4. PICK n : Moved(d, db, g, n)
               /\ (IF req[p].op = "daily" THEN n \in Range(DailyRewardLadder) ELSE n = AdReward)
  <2>1. CASE req[p].op = "daily"
    BY <1>1, <2>1 DEF Owes, OwesDaily
  <2>2. CASE req[p].op = "ad"
    BY <1>1, <2>2 DEF Owes, OwesAd
  <2>. QED
    BY <2>1, <2>2
<1>5. db'[g].coins = db[g].coins + n /\ db'[g].rewarded = db[g].rewarded
  BY <1>2, <1>4 DEF Moved
<1>6. ClaimedIn(db') = ClaimedIn(db) /\ RewardedIn(db') = RewardedIn(db)
  <2>1. {g} \subseteq DOMAIN db /\ {g} \subseteq Guests
    BY <1>2
  <2>2. \A x \in {g} \cap Guests : db'[x].rewarded = db[x].rewarded
    BY <1>5
  <2>3. \A x \in DOMAIN db : x \notin {g} => db'[x] = db[x]
    BY <1>2
  <2>. HIDE DEF g
  <2>. QED
    BY <1>2, <2>1, <2>2, <2>3, SameClaims
<1>7. due \notin granted
  <2>1. t \in Nat
    BY <1>3
  <2>2. CASE req[p].op = "daily"
    BY <1>1, <1>2, <2>1, <2>2, NotYetPaid
  <2>3. CASE req[p].op = "ad"
    BY <1>1, <1>2, <2>1, <2>3, NotYetPaid
  <2>. QED
    BY <2>2, <2>3
<1>. HIDE DEF g, t
<1>8. due \notin PaidIn(db, granted)
  <2>1. \A row : due # <<"mission", row[1], row[2]>>
    OBVIOUS
  <2>2. \A x : due # <<"referral", x>>
    OBVIOUS
  <2>. QED
    BY <1>7, <2>1, <2>2, PaidIs
<1>. HIDE DEF due
<1>9. PaidIn(db', granted') = PaidIn(db, granted) \cup {due}
  BY <1>1, <1>6, PaidIs
<1>10. \A x \in Users : x # g => db'[x].coins = db[x].coins
  BY <1>2 DEF Users
<1>11. PICK x \in Users, s \in {"daily", "ad"}, u \in 0..MaxTime :
          x = g /\ s = req[p].op /\ u = t
  BY <1>2, <1>3
<1>12. Ledger!Reward(x, <<s, x, u>>, n)
  BY <1>2, <1>5, <1>8, <1>9, <1>10, <1>11, LedgerRewards DEF due
<1>13. Ledger!Pay(x)
  BY <1>4, <1>11, <1>12 DEF Ledger!Pay
<1>. QED
  BY <1>13, LedgerPays

LEMMA MissionPaid ==
  ASSUME PayInv, NEW p \in Servers, Commit(p), req[p].op = "mission"
  PROVE  [Ledger!Next]_(Ledger!ledgerVars)
<1>. DEFINE g == req[p].g
            d == draft[p]
            row == MissionOf(req[p])
            due == <<"mission", g, req[p].day>>
<1>1. WalletInv /\ Owes("commit", req[p], d, db) /\ granted' = granted
  BY DEF PayInv, Commit
<1>2. /\ DOMAIN d = {row, g} /\ ~db[row].claimed /\ d[row].claimed
      /\ d[g].coins = db[g].coins + MissionReward /\ d[g].rewarded = db[g].rewarded
      /\ req[p].day <= MaxTime
  BY <1>1 DEF Owes, OwesMission, Moved
<1>3. /\ g \in Users /\ g \in Guests /\ req[p].day \in Nat /\ row = <<g, req[p].day>>
      /\ row \in MissionRows /\ row \notin Guests /\ g # row
  BY <1>1, CommitIs, TablesDiffer DEF Job, MissionRows, NoRequest, MissionOf, Users
<1>. HIDE DEF row
<1>4. /\ Users' = Users /\ DOMAIN db' = DOMAIN db /\ row \in DOMAIN db
      /\ db'[g] = d[g] /\ db'[row] = d[row] /\ \A x \in DOMAIN db \ {row, g} : db'[x] = db[x]
  BY <1>1, <1>2, CommitIs
<1>5. db'[row].claimed
  BY <1>2, <1>4
<1>6. ClaimedIn(db') = ClaimedIn(db) \cup {row} /\ row \notin ClaimedIn(db)
  BY <1>2, <1>3, <1>4, <1>5 DEF ClaimedIn
<1>7. RewardedIn(db') = RewardedIn(db)
  BY <1>2, <1>3, <1>4 DEF RewardedIn
<1>8. row[1] = g /\ row[2] = req[p].day
  BY <1>3
<1>9. PaidIn(db', granted') = PaidIn(db, granted) \cup {due}
  <2>1. {<<"mission", x[1], x[2]>> : x \in ClaimedIn(db')}
          = {<<"mission", x[1], x[2]>> : x \in ClaimedIn(db)} \cup {due}
    BY <1>6, <1>8
  <2>. QED
    BY <1>1, <1>7, <2>1, PaidIs
<1>10. due \notin PaidIn(db, granted)
  <2>1. \A x \in ClaimedIn(db) : due # <<"mission", x[1], x[2]>>
    <3>1. ASSUME NEW x \in ClaimedIn(db), x[1] = g, x[2] = req[p].day PROVE FALSE
      <4>1. x \in MissionRows
        BY <1>1 DEF WalletInv, GoodRows, ClaimedIn
      <4>2. x = row
        BY <1>3, <3>1, <4>1 DEF MissionRows
      <4>. QED
        BY <1>6, <4>2
    <3>. HIDE DEF g
    <3>. QED
      BY <3>1
  <2>2. due \notin granted
    BY <1>1 DEF WalletInv, GoodHistory
  <2>3. \A x : due # <<"referral", x>>
    OBVIOUS
  <2>. HIDE DEF due
  <2>. QED
    BY <2>1, <2>2, <2>3, PaidIs
<1>11. \A x \in Users : x # g => db'[x].coins = db[x].coins
  BY <1>3, <1>4 DEF Users
<1>12. db'[g].coins = db[g].coins + MissionReward
  BY <1>2, <1>4
<1>. HIDE DEF due, g
<1>13. PICK x \in Users, t \in 0..MaxTime : x = g /\ t = req[p].day
  BY <1>2, <1>3, Amounts
<1>14. Ledger!Reward(x, <<"mission", x, t>>, MissionReward)
  BY <1>4, <1>9, <1>10, <1>11, <1>12, <1>13, LedgerRewards DEF due
<1>15. Ledger!Pay(x)
  BY <1>14 DEF Ledger!Pay
<1>. QED
  BY <1>15, LedgerPays

LEMMA PackagePaid ==
  ASSUME PayInv, NEW p \in Servers, Commit(p), req[p].op = "capture"
  PROVE  [Ledger!Next]_(Ledger!ledgerVars)
<1>. DEFINE g == req[p].g
            d == draft[p]
<1>1. WalletInv /\ Owes("commit", req[p], d, db) /\ granted' = granted
  BY DEF PayInv, Commit
<1>2. DOMAIN d = {g} /\ d[g].coins = db[g].coins + PackageCoins /\ d[g].rewarded = db[g].rewarded
  BY <1>1 DEF Owes, OwesPackage, Moved
<1>3. /\ g \in Users /\ g \in Guests /\ g \in DOMAIN db /\ Users' = Users
      /\ DOMAIN db' = DOMAIN db /\ db'[g] = d[g] /\ \A x \in DOMAIN db : x # g => db'[x] = db[x]
  BY <1>1, <1>2, CommitIs DEF Users
<1>4. PaidIn(db', granted') = PaidIn(db, granted)
  <2>1. ClaimedIn(db') = ClaimedIn(db) /\ RewardedIn(db') = RewardedIn(db)
    BY <1>2, <1>3 DEF ClaimedIn, RewardedIn
  <2>. QED
    BY <1>1, <2>1, PaidIs
<1>5. \A x \in Users : x # g => db'[x].coins = db[x].coins
  BY <1>3 DEF Users
<1>6. PICK x \in Users : x = g
  BY <1>3
<1>7. Ledger!Credit(x, PackageCoins)
  BY <1>2, <1>3, <1>4, <1>5, <1>6, LedgerCredits
<1>8. Ledger!Pay(x)
  BY <1>7 DEF Ledger!Pay
<1>. QED
  BY <1>8, LedgerPays

LEMMA ReferralPaid ==
  ASSUME PayInv, NEW p \in Servers, Commit(p), req[p].op = "refer"
  PROVE  [Ledger!Next]_(Ledger!ledgerVars)
<1>. DEFINE g == req[p].g
            d == draft[p]
            r == db[g].referrer
            due == <<"referral", g>>
<1>1. WalletInv /\ Owes("commit", req[p], d, db) /\ granted' = granted
  BY DEF PayInv, Commit
<1>2. /\ DOMAIN d = {g, r} /\ r \in Guests \ {g} /\ ~db[g].rewarded /\ d[g].rewarded
      /\ d[g].coins = db[g].coins + ReferralBonus
      /\ d[r].coins = db[r].coins + ReferralBonus /\ d[r].rewarded = db[r].rewarded
  BY <1>1 DEF Owes, OwesReferral, Moved
<1>. HIDE DEF r
<1>3. /\ g \in Users /\ g \in Guests /\ g \in DOMAIN db /\ Users' = Users
      /\ DOMAIN db' = DOMAIN db /\ r \in DOMAIN db /\ r \in Users
      /\ db'[g] = d[g] /\ db'[r] = d[r] /\ \A x \in DOMAIN db \ {g, r} : db'[x] = db[x]
  BY <1>1, <1>2, CommitIs DEF Users
<1>4. db'[g].rewarded
  BY <1>2, <1>3
<1>5. ClaimedIn(db') = ClaimedIn(db)
  BY <1>2, <1>3 DEF ClaimedIn
<1>6. RewardedIn(db') = RewardedIn(db) \cup {g} /\ g \notin RewardedIn(db)
  BY <1>2, <1>3, <1>4 DEF RewardedIn
<1>7. PaidIn(db', granted') = PaidIn(db, granted) \cup {due}
  BY <1>1, <1>5, <1>6, PaidIs
<1>8. due \notin PaidIn(db, granted)
  <2>1. due \notin granted
    BY <1>1 DEF WalletInv, GoodHistory
  <2>2. \A x : due # <<"mission", x[1], x[2]>>
    OBVIOUS
  <2>3. \A x \in RewardedIn(db) : due # <<"referral", x>>
    BY <1>6
  <2>. HIDE DEF due
  <2>. QED
    BY <2>1, <2>2, <2>3, PaidIs
<1>9. \A x \in Users \ {g, r} : db'[x].coins = db[x].coins
  BY <1>3 DEF Users
<1>10. PICK x \in Users, y \in Users : x = g /\ y = r
  BY <1>3
<1>. HIDE DEF g
<1>11. /\ x # y /\ <<"referral", x>> \notin PaidIn(db, granted)
       /\ PaidIn(db', granted') = PaidIn(db, granted) \cup {<<"referral", x>>}
       /\ db'[x].coins = db[x].coins + ReferralBonus
       /\ db'[y].coins = db[y].coins + ReferralBonus
       /\ \A z \in Users \ {x, y} : db'[z].coins = db[z].coins
  BY <1>2, <1>3, <1>7, <1>8, <1>9, <1>10
<1>12. Ledger!Refer(x, y)
  BY <1>3, <1>11, LedgerRefers
<1>13. Ledger!Pay(x)
  BY <1>12 DEF Ledger!Pay
<1>. QED
  BY <1>13, LedgerPays

LEMMA PotPaid ==
  ASSUME PayInv, NEW p \in Servers, Commit(p), req[p].op = "lose"
  PROVE  [Ledger!Next]_(Ledger!ledgerVars)
<1>. DEFINE w == req[p].g
            d == draft[p]
            L == req[p].players
<1>1. WalletInv /\ Owes("commit", req[p], d, db) /\ granted' = granted
  BY DEF PayInv, Commit
<1>2. /\ DOMAIN d = L \cup {w} /\ w \notin L
      /\ d[w].coins = db[w].coins + Sum(Stakes(db), L) /\ d[w].rewarded = db[w].rewarded
      /\ \A l \in L : d[l].coins = db[l].coins - Stake(db[l]) /\ d[l].rewarded = db[l].rewarded
  BY <1>1 DEF Owes, OwesPot, Moved
<1>3. /\ w \in Users /\ w \in Guests /\ Users' = Users /\ DOMAIN db' = DOMAIN db
      /\ L \cup {w} \subseteq DOMAIN db /\ \A x \in L \cup {w} : db'[x] = d[x]
      /\ \A x \in DOMAIN db : x \notin L \cup {w} => db'[x] = db[x]
  BY <1>1, <1>2, CommitIs DEF Users
<1>4. L \subseteq Users /\ L \cup {w} \subseteq Guests
  <2>1. L \subseteq Guests
    BY <1>1, CommitIs DEF Job, NoRequest
  <2>. QED
    BY <1>3, <2>1 DEF Users
<1>5. IsFiniteSet(L)
  BY <1>1, <1>4, FS_Subset DEF WalletInv, GoodRows, Users
<1>6. PaidIn(db', granted') = PaidIn(db, granted)
  <2>1. ClaimedIn(db') = ClaimedIn(db) /\ RewardedIn(db') = RewardedIn(db)
    BY <1>2, <1>3, <1>4 DEF ClaimedIn, RewardedIn
  <2>. QED
    BY <1>1, <2>1, PaidIs
<1>7. /\ db'[w].coins = db[w].coins + Sum(Stakes(db), L)
      /\ \A l \in L : db'[l].coins = db[l].coins - Stake(db[l])
  BY <1>2, <1>3
<1>8. \A x \in Users : x # w /\ x \notin L => db'[x].coins = db[x].coins
  BY <1>3 DEF Users
<1>9. PICK x \in Users, M \in SUBSET Users : x = w /\ M = L
  BY <1>3, <1>4
<1>. HIDE DEF w, L
<1>10. /\ IsFiniteSet(M) /\ x \notin M /\ db'[x].coins = db[x].coins + Sum(Stakes(db), M)
       /\ \A l \in M : db'[l].coins = db[l].coins - Stake(db[l])
       /\ \A y \in Users : y # x /\ y \notin M => db'[y].coins = db[y].coins
  BY <1>2, <1>5, <1>7, <1>8, <1>9
<1>11. Ledger!Settle(x, M)
  BY <1>3, <1>6, <1>10, LedgerSettles
<1>12. Ledger!Pay(x)
  BY <1>11 DEF Ledger!Pay
<1>. QED
  BY <1>12, LedgerPays

LEMMA CommitPays ==
  ASSUME PayInv, NEW p \in Servers, Commit(p)
  PROVE  [Ledger!Next]_(Ledger!ledgerVars)
<1>1. req[p].op \in {"daily", "ad", "mission", "capture", "refer", "lose"}
  <2>1. req[p].op # "play" /\ req[p] \in Job /\ req[p] # NoRequest
    <3>1. serving[p] = "commit" /\ Owes(serving[p], req[p], draft[p], db)
      BY DEF PayInv, Commit
    <3>. QED
      BY <3>1, CommitIs DEF Owes, OwesMission, PayInv
  <2>. QED
    BY <2>1 DEF Job, NoRequest
<1>. QED
  BY <1>1, GrantPaid, MissionPaid, PackagePaid, ReferralPaid, PotPaid

LEMMA LedgerStep ==
  ASSUME PayInv, [WalletNext]_walletVars
  PROVE  [Ledger!Next]_(Ledger!ledgerVars)
<1>1. ASSUME UNCHANGED <<db, granted>> PROVE UNCHANGED Ledger!ledgerVars
  BY <1>1, LedgerIs
<1>2. ASSUME NEW p \in Servers, Serve(p), ~Commit(p), ~IncrementMissions(p)
      PROVE  UNCHANGED <<db, granted>>
  BY <1>2 DEF Serve, ClaimDaily, ClaimAd, ClaimMission, Capture, CreditWallet, Lose, Win,
              RecordPlayers, AwardReferee, AwardReferrer
<1>3. ASSUME NEW p \in Servers, Serve(p) PROVE [Ledger!Next]_(Ledger!ledgerVars)
  <2>1. CASE Commit(p)
    BY <2>1, CommitPays
  <2>2. CASE IncrementMissions(p)
    BY <2>2, LedgerPlays DEF PayInv
  <2>. QED
    BY <1>1, <1>2, <1>3, <2>1, <2>2
<1>4. ASSUME NEW p \in Servers, Ask(p) \/ Fail(p) PROVE UNCHANGED <<db, granted>>
  BY <1>4 DEF Ask, Fail, Undo
<1>5. ASSUME Tick \/ UNCHANGED walletVars PROVE UNCHANGED <<db, granted>>
  BY <1>5 DEF Tick, walletVars
<1>. QED
  BY <1>1, <1>3, <1>4, <1>5, LedgerSigns DEF WalletNext, PayInv

(* Every transaction of the wallets is, at its commit, one payment of the  *)
(* ledger: made in full, to both sides, and once if it is due once;        *)
(* everything before the commit, and a transaction that fails, moves       *)
(* nothing (internal/db: ClaimDaily, ClaimAd, ClaimMission,                *)
(* PurchasePackage, MaybeAwardReferral, SettleMatch).                      *)
THEOREM EveryPaymentIsInTheLedger == WalletSpec => PaysAsPromised
<1>1. WalletInit => Ledger!Init
  <2>1. SUFFICES ASSUME WalletInit PROVE Ledger!Init
    OBVIOUS
  <2>2. DOMAIN db = {} /\ granted = {} /\ Users = {}
    BY <2>1 DEF WalletInit, NoDraft, Users
  <2>. QED
    BY <2>2 DEF Ledger!Init, MissionsPaid, ReferralsPaid
<1>2. PayInv /\ [WalletNext]_walletVars => [Ledger!Next]_(Ledger!ledgerVars)
  BY LedgerStep
<1>. QED
  BY <1>1, <1>2, PayAlways, PTL DEF WalletSpec, PaysAsPromised, Ledger!Spec
================================================================================
