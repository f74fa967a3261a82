----------------------------- MODULE MatchLifeProofs -----------------------------
(***************************************************************************)
(* Proofs about the matches of a room, for any number of guests, seats and *)
(* rounds, any bet and target.                                             *)
(***************************************************************************)
EXTENDS MCMatchLife, SumProofs, SequenceTheorems

AfterScore == {"save", "close", "credit", "losers", "settle", "record"}
RoundRow == [mid : Nat, no : Nat, points : UNION {[S -> Points] : S \in SUBSET Guests}]
Verdict == [mid : Nat, round : RoundRow, reached : BOOLEAN, winner : Guests,
            losers : SUBSET Guests]
Bill == [mid : Nat, winner : Guests, losers : SUBSET Guests]

(* What a goroutine at step s carries.                                     *)
GoodJob(s, j) ==
  /\ s \in AfterScore => j \in Verdict
  /\ s = "create" => j.mid \in Nat
  /\ s = "settle" => j.winner \notin j.losers

Jobs == \A x \in Procs : GoodJob(pc[x], job[x])

(* Somebody is seated where a round is played or about to be.              *)
Populated == \A x \in Procs : pc[x] \in {"start", "score"} \/ round = "open" => Seated # {}

LifeTypes ==
  /\ TypeOK /\ Jobs /\ Populated
  /\ job = [x \in Procs |-> job[x]]
  /\ played \in Seq(RoundRow)
  /\ settled \in Seq(Bill)
  /\ credited \in Seq([mid : Nat, guests : SUBSET Guests])
  /\ closed \subseteq [mid : Nat, winner : Guests]

-----------------------------------------------------------------------------
(* The winner of a table.                                                  *)

LEMMA SeatsAre ==
  ASSUME NEW s \in Seq(Guests)
  PROVE  /\ DOMAIN s = 1..Len(s) /\ Len(s) \in Nat /\ IsFiniteSet(DOMAIN s)
         /\ \A i \in DOMAIN s : s[i] \in Guests /\ i \in Nat
<1>1. DOMAIN s = 1..Len(s) /\ Len(s) \in Nat
  OBVIOUS
<1>2. IsFiniteSet(1..Len(s))
  BY <1>1, FS_Interval
<1>. QED
  BY <1>1, <1>2

(* One seat is best: the first of those with the highest score.            *)
LEMMA BestSeat ==
  ASSUME NEW s \in Seq(Guests), s # <<>>, NEW sc \in [Guests -> Int]
  PROVE  \E i \in DOMAIN s : \A j \in DOMAIN s :
           sc[s[j]] <= sc[s[i]] /\ (sc[s[j]] = sc[s[i]] => i <= j)
<1>. DEFINE better(i, j) == sc[s[j]] <= sc[s[i]] /\ (sc[s[j]] = sc[s[i]] => i <= j)
            F == {S \in SUBSET DOMAIN s : S = {} \/ \E i \in S : \A j \in S : better(i, j)}
<1>1. {} \in F
  OBVIOUS
<1>2. ASSUME NEW S \in SUBSET DOMAIN s, S # {}, S \ {Pick(S)} \in F PROVE S \in F
  <2>. DEFINE p == Pick(S)
              T == S \ {p}
  <2>1. p \in S
    BY <1>2, PickIs
  <2>2. \A i \in S : i \in Nat /\ sc[s[i]] \in Int
    BY SeatsAre
  <2>. HIDE DEF p
  <2>3. CASE T = {}
    <3>1. \A j \in S : j = p
      BY <2>3
    <3>2. \A j \in S : better(p, j)
      BY <2>1, <2>2, <3>1
    <3>. QED
      BY <2>1, <3>2
  <2>4. CASE T # {}
    <3>1. PICK i \in T : \A j \in T : better(i, j)
      BY <1>2, <2>4 DEF p
    <3>2. CASE better(i, p)
      <4>1. \A j \in S : better(i, j)
        BY <3>1, <3>2
      <4>. QED
        BY <3>1, <4>1
    <3>3. CASE ~better(i, p)
      <4>1. \A j \in T : better(p, j)
        <5>1. ASSUME NEW j \in T PROVE better(p, j)
          <6>1. better(i, j) /\ j \in S /\ i \in S
            BY <3>1
          <6>. QED
            BY <2>1, <2>2, <3>3, <6>1
        <5>. QED
          BY <5>1
      <4>2. better(p, p)
        BY <2>1, <2>2
      <4>. QED
        BY <2>1, <4>1, <4>2
    <3>. QED
      BY <3>2, <3>3
  <2>. QED
    BY <2>3, <2>4
<1>3. IsFiniteSet(DOMAIN s) /\ DOMAIN s # {}
  BY SeatsAre
<1>. HIDE DEF F
<1>4. DOMAIN s \in F
  BY <1>1, <1>2, <1>3, Grows
<1>. QED
  BY <1>3, <1>4 DEF F

LEMMA WinnerIs ==
  ASSUME seats \in Seq(Guests), Seated # {}, NEW sc \in [Guests -> Int]
  PROVE  Winner(sc) \in Seated /\ \A g \in Seated : sc[g] <= sc[Winner(sc)]
<1>1. seats # <<>>
  BY DEF Seated
<1>. DEFINE best(i) == \A j \in DOMAIN seats : sc[seats[j]] <= sc[seats[i]]
                                               /\ (sc[seats[j]] = sc[seats[i]] => i <= j)
            w == CHOOSE i \in DOMAIN seats : best(i)
<1>2. \E i \in DOMAIN seats : best(i)
  BY <1>1, BestSeat
<1>3. w \in DOMAIN seats /\ best(w)
  BY <1>2
<1>4. Winner(sc) = seats[w]
  BY DEF Winner
<1>. HIDE DEF w
<1>. QED
  BY <1>3, <1>4 DEF Seated

LEMMA Givens ==
  /\ IsFiniteSet(Guests) /\ Timer \notin Guests /\ Bots \subseteq Guests
  /\ Droppers \subseteq Guests /\ Points \subseteq Int /\ Bet \in Nat /\ StartingCoins \in Nat
  /\ MinPlayers \in Nat /\ MaxPlayers \in Nat /\ MinPlayers > 1 /\ TargetScore \in Int
BY MatchAssumption

-----------------------------------------------------------------------------
(* The types.                                                              *)

LEMMA SeatedType == ASSUME seats \in Seq(Guests) PROVE Seated \subseteq Guests
BY SeatsAre DEF Seated

(* One goroutine goes on.                                                  *)
LEMMA JobsGoOn ==
  ASSUME LifeTypes, NEW x \in Procs, NEW s \in Steps, NEW j, GoodJob(s, j),
         pc' = [pc EXCEPT ![x] = s], job' = [job EXCEPT ![x] = j],
         s \in {"start", "score"} => Seated # {},
         round' = "open" => round = "open" \/ Seated # {},
         Seated \subseteq Seated'
  PROVE  pc' \in [Procs -> Steps] /\ Jobs' /\ Populated' /\ job' = [y \in Procs |-> job'[y]]
<1>1. pc \in [Procs -> Steps] /\ job = [y \in Procs |-> job[y]]
  BY DEF LifeTypes, TypeOK
<1>2. pc'[x] = s /\ job'[x] = j /\ \A y \in Procs : y # x => pc'[y] = pc[y] /\ job'[y] = job[y]
  BY <1>1
<1>3. \A y \in Procs : GoodJob(pc'[y], job'[y])
  BY <1>2 DEF LifeTypes, Jobs
<1>4. Populated'
  <2>1. SUFFICES ASSUME NEW y \in Procs, pc'[y] \in {"start", "score"} \/ round' = "open"
                 PROVE  Seated # {}
    BY DEF Populated
  <2>. QED
    BY <1>2, <2>1 DEF LifeTypes, Populated
<1>. QED
  BY <1>1, <1>3, <1>4 DEF Jobs

(* A goroutine that carries nothing new.                                   *)
LEMMA StepTypes ==
  ASSUME LifeTypes, NEW x \in Procs,
         NEW s \in {"idle", "evaluate", "arm", "cancel", "start", "score"},
         pc' = [pc EXCEPT ![x] = s], UNCHANGED job,
         s \in {"start", "score"} => Seated # {},
         round' = "open" => round = "open" \/ Seated # {},
         Seated \subseteq Seated'
  PROVE  pc' \in [Procs -> Steps] /\ Jobs' /\ Populated' /\ job' = [y \in Procs |-> job'[y]]
<1>1. job' = [job EXCEPT ![x] = job[x]]
  BY DEF LifeTypes
<1>2. GoodJob(s, job[x]) /\ s \in Steps
  BY DEF GoodJob, AfterScore, Steps
<1>. QED
  BY <1>1, <1>2, JobsGoOn

(* A seat is taken, or none.                                               *)
LEMMA SeatTaken ==
  ASSUME LifeTypes, NEW g \in Guests,
         \/ UNCHANGED seats
         \/ seats' = Append(seats, g) /\ Len(seats) < MaxPlayers
  PROVE  /\ seats' \in Seq(Guests) /\ Len(seats') <= MaxPlayers /\ Seated \subseteq Seated'
         /\ seats' = Append(seats, g) => g \in Seated'
<1>1. seats \in Seq(Guests) /\ Len(seats) <= MaxPlayers
  BY DEF LifeTypes, TypeOK
<1>2. Len(Append(seats, g)) = Len(seats) + 1 /\ Append(seats, g) \in Seq(Guests)
  BY <1>1
<1>3. seats' \in Seq(Guests) /\ Len(seats') <= MaxPlayers
  BY <1>1, <1>2, SeatsAre, Givens
<1>4. \A i \in DOMAIN seats : i \in DOMAIN Append(seats, g) /\ Append(seats, g)[i] = seats[i]
  BY <1>1
<1>5. Append(seats, g)[Len(seats) + 1] = g /\ Len(seats) + 1 \in DOMAIN Append(seats, g)
  BY <1>1
<1>6. Seated \subseteq Seated' /\ (seats' = Append(seats, g) => g \in Seated')
  BY <1>4, <1>5 DEF Seated
<1>. QED
  BY <1>3, <1>6

LEMMA JoinTypes ==
  ASSUME LifeTypes, NEW g \in Guests, Join(g) PROVE LifeTypes'
<1>1. /\ seats' = Append(seats, g) /\ Len(seats) < MaxPlayers
      /\ UNCHANGED <<ready, online, round, matchID, roundNo, scores, finished,
                     countdown, latched, dbVars, pc, job, played>>
  BY DEF Join
<1>2. seats' \in Seq(Guests) /\ Len(seats') <= MaxPlayers /\ Seated \subseteq Seated'
  BY <1>1, SeatTaken
<1>3. TypeOK'
  BY <1>1, <1>2 DEF LifeTypes, TypeOK, dbVars
<1>4. Jobs' /\ Populated'
  BY <1>1, <1>2 DEF LifeTypes, Jobs, Populated
<1>. QED
  BY <1>1, <1>3, <1>4 DEF LifeTypes, dbVars

LEMMA AttachTypes ==
  ASSUME LifeTypes, NEW g \in Guests, Attach(g) PROVE LifeTypes'
<1>1. /\ \/ g \in Seated /\ UNCHANGED seats
         \/ seats' = Append(seats, g) /\ Len(seats) < MaxPlayers
      /\ online' = online \cup {g}
      /\ pc' = [pc EXCEPT ![g] = "evaluate"]
      /\ UNCHANGED <<ready, round, matchID, roundNo, scores, finished, countdown,
                     latched, dbVars, job, played>>
  BY DEF Attach, Goto
<1>2. seats' \in Seq(Guests) /\ Len(seats') <= MaxPlayers /\ Seated \subseteq Seated' /\ g \in Seated'
  BY <1>1, SeatTaken
<1>3. pc' \in [Procs -> Steps] /\ Jobs' /\ Populated' /\ job' = [y \in Procs |-> job'[y]]
  BY <1>1, <1>2, StepTypes DEF Procs, Movers
<1>4. TypeOK'
  BY <1>1, <1>2, <1>3 DEF LifeTypes, TypeOK, dbVars
<1>. QED
  BY <1>1, <1>3, <1>4 DEF LifeTypes, dbVars

LEMMA DetachTypes ==
  ASSUME LifeTypes, NEW g \in Guests, Detach(g) PROVE LifeTypes'
<1>1. /\ online' = online \ {g}
      /\ UNCHANGED <<seats, ready, round, matchID, roundNo, scores, finished,
                     countdown, latched, dbVars, pc, job, played>>
  BY DEF Detach
<1>2. Seated' = Seated /\ Jobs' /\ Populated'
  BY <1>1 DEF Seated, Jobs, LifeTypes, Populated
<1>3. TypeOK'
  BY <1>1, <1>2 DEF LifeTypes, TypeOK, dbVars
<1>. QED
  BY <1>1, <1>2, <1>3 DEF LifeTypes, dbVars

LEMMA ReadyTypes ==
  ASSUME LifeTypes, NEW g \in Guests, GetReady(g) PROVE LifeTypes'
<1>1. /\ g \in online
      /\ latched' = latched \cup (Bots \cap {g}) /\ ready' = ReadyNow(g)
      /\ ForgetMatch
      /\ UNCHANGED <<seats, online, round, matchID, countdown, dbVars, job, played>>
      /\ \E s \in {"start", "idle"} : pc' = [pc EXCEPT ![g] = s]
  BY DEF GetReady
<1>2. PICK s \in {"start", "idle"} : pc' = [pc EXCEPT ![g] = s]
  BY <1>1
<1>3. Seated' = Seated /\ g \in Procs /\ g \in Seated
  BY <1>1 DEF Seated, Procs, Movers, LifeTypes, TypeOK
<1>4. ready' \subseteq Seated' /\ latched' \subseteq Bots
  BY <1>1, <1>3 DEF ReadyNow, LifeTypes, TypeOK
<1>5. scores' \in [Guests -> Int] /\ roundNo' \in Nat /\ finished' \in BOOLEAN
  <2>1. scores' \in {scores, NoScores} /\ roundNo' \in {roundNo, 0} /\ finished' \in {finished, FALSE}
    BY <1>1 DEF ForgetMatch
  <2>2. NoScores \in [Guests -> Int] /\ scores \in [Guests -> Int] /\ roundNo \in Nat
    BY DEF NoScores, LifeTypes, TypeOK
  <2>3. finished \in BOOLEAN
    BY DEF LifeTypes, TypeOK
  <2>4. finished' \in BOOLEAN
    BY <2>1, <2>3
  <2>. QED
    BY <2>1, <2>2, <2>4
<1>6. pc' \in [Procs -> Steps] /\ Jobs' /\ Populated' /\ job' = [y \in Procs |-> job'[y]]
  BY <1>1, <1>2, <1>3, StepTypes
<1>7. TypeOK'
  BY <1>1, <1>3, <1>4, <1>5, <1>6 DEF LifeTypes, TypeOK, dbVars
<1>. QED
  BY <1>1, <1>6, <1>7 DEF LifeTypes, dbVars

LEMMA ElapseTypes == ASSUME LifeTypes, Elapse PROVE LifeTypes'
<1>1. /\ Len(seats) >= MinPlayers /\ pc' = [pc EXCEPT ![Timer] = "start"]
      /\ UNCHANGED <<roomVars, dbVars, job, played>>
  BY DEF Elapse, Goto
<1>2. Seated' = Seated /\ Timer \in Procs
  BY <1>1 DEF Seated, roomVars, Procs
<1>3. Seated # {}
  <2>1. 1 \in DOMAIN seats
    BY <1>1, Givens, SeatsAre DEF LifeTypes, TypeOK
  <2>. QED
    BY <2>1 DEF Seated
<1>4. pc' \in [Procs -> Steps] /\ Jobs' /\ Populated' /\ job' = [y \in Procs |-> job'[y]]
  BY <1>1, <1>2, <1>3, StepTypes DEF roomVars
<1>5. TypeOK'
  BY <1>1, <1>2, <1>4 DEF LifeTypes, TypeOK, dbVars, roomVars
<1>. QED
  BY <1>1, <1>4, <1>5 DEF LifeTypes, dbVars

LEMMA CountdownTypes ==
  ASSUME LifeTypes, NEW g \in Procs,
         EvaluateCountdown(g) \/ ArmCountdown(g) \/ CancelCountdown(g)
  PROVE  LifeTypes'
<1>1. /\ \E s \in {"arm", "cancel", "idle"} : pc' = [pc EXCEPT ![g] = s]
      /\ countdown' \in {countdown, (countdown \/ round = "none"), FALSE}
      /\ UNCHANGED <<seats, ready, online, round, matchID, roundNo, scores, finished,
                     latched, dbVars, job, played>>
  BY DEF EvaluateCountdown, ArmCountdown, CancelCountdown, Goto, roomVars
<1>2. Seated' = Seated /\ countdown' \in BOOLEAN
  BY <1>1 DEF Seated, LifeTypes, TypeOK
<1>3. pc' \in [Procs -> Steps] /\ Jobs' /\ Populated' /\ job' = [y \in Procs |-> job'[y]]
  BY <1>1, <1>2, StepTypes
<1>4. TypeOK'
  BY <1>1, <1>2, <1>3 DEF LifeTypes, TypeOK, dbVars
<1>. QED
  BY <1>1, <1>3, <1>4 DEF LifeTypes, dbVars

LEMMA ReturnJob == GoodJob("idle", NoJob) /\ "idle" \in Steps
BY DEF GoodJob, AfterScore, Steps

LEMMA OpenTypes ==
  ASSUME LifeTypes, NEW x \in Procs, pc[x] = "start", OpenRound(x) PROVE LifeTypes'
<1>1. /\ countdown' = FALSE /\ round' = "open" /\ roundNo' = roundNo + 1
      /\ matchID' \in {matchID, matchID + 1}
      /\ UNCHANGED <<seats, ready, online, scores, finished, latched, dbVars, played>>
      /\ \/ pc' = [pc EXCEPT ![x] = "idle"] /\ job' = [job EXCEPT ![x] = NoJob]
         \/ /\ pc' = [pc EXCEPT ![x] = "create"]
            /\ job' = [job EXCEPT ![x] = [mid |-> matchID + 1]]
  BY DEF OpenRound, Goto, With, Return
<1>2. matchID \in Nat /\ roundNo \in Nat
  BY DEF LifeTypes, TypeOK
<1>3. matchID' \in Nat /\ roundNo' \in Nat
  BY <1>1, <1>2
<1>4. GoodJob("create", [mid |-> matchID + 1]) /\ "create" \in Steps
  BY <1>2 DEF GoodJob, AfterScore, Steps
<1>5. Seated' = Seated /\ Seated # {}
  BY <1>1 DEF Seated, LifeTypes, Populated
<1>6. pc' \in [Procs -> Steps] /\ Jobs' /\ Populated' /\ job' = [y \in Procs |-> job'[y]]
  BY <1>1, <1>4, <1>5, JobsGoOn, ReturnJob
<1>7. TypeOK'
  BY <1>1, <1>3, <1>5, <1>6 DEF LifeTypes, TypeOK, dbVars
<1>. QED
  BY <1>1, <1>6, <1>7 DEF LifeTypes, dbVars

LEMMA StartTypes ==
  ASSUME LifeTypes, NEW g \in Procs, Start(g) PROVE LifeTypes'
<1>1. CASE OpenRound(g)
  BY <1>1, OpenTypes DEF Start
<1>2. CASE Return(g) /\ UNCHANGED <<roomVars, dbVars, played>>
  <2>1. Seated' = Seated /\ round' = round
    BY <1>2 DEF Seated, roomVars
  <2>2. pc' = [pc EXCEPT ![g] = "idle"] /\ job' = [job EXCEPT ![g] = NoJob]
    BY <1>2 DEF Return, Goto, With
  <2>3. pc' \in [Procs -> Steps] /\ Jobs' /\ Populated' /\ job' = [y \in Procs |-> job'[y]]
    BY <2>1, <2>2, JobsGoOn, ReturnJob
  <2>4. TypeOK'
    BY <1>2, <2>1, <2>3 DEF LifeTypes, TypeOK, dbVars, roomVars
  <2>. QED
    BY <1>2, <2>3, <2>4 DEF LifeTypes, dbVars
<1>. QED
  BY <1>1, <1>2 DEF Start

LEMMA EndTypes ==
  ASSUME LifeTypes, NEW g \in Procs, EndRound(g) PROVE LifeTypes'
<1>1. /\ round = "open" /\ round' = "over" /\ pc' = [pc EXCEPT ![g] = "score"]
      /\ UNCHANGED <<seats, ready, online, matchID, roundNo, scores, finished,
                     countdown, latched, dbVars, job, played>>
  BY DEF EndRound, Goto
<1>2. Seated' = Seated /\ Seated # {}
  BY <1>1 DEF Seated, LifeTypes, Populated
<1>3. pc' \in [Procs -> Steps] /\ Jobs' /\ Populated' /\ job' = [y \in Procs |-> job'[y]]
  BY <1>1, <1>2, StepTypes
<1>4. TypeOK'
  BY <1>1, <1>2, <1>3 DEF LifeTypes, TypeOK, dbVars
<1>. QED
  BY <1>1, <1>3, <1>4 DEF LifeTypes, dbVars

(* The scores after a round, and who won if that was the last.             *)
Added(points) ==
  [p \in Guests |-> IF p \in Seated THEN scores[p] + points[p] ELSE scores[p]]
RowOf(points) == [mid |-> matchID, no |-> roundNo, points |-> points]
VerdictOf(points) ==
  [mid |-> matchID, round |-> RowOf(points), reached |-> Reached(Added(points)),
   winner |-> Winner(Added(points)), losers |-> {}]

LEMMA ScoreIs ==
  ASSUME LifeTypes, NEW g \in Procs, Score(g)
  PROVE  \E points \in [Seated -> Points] :
           /\ pc[g] = "score"
           /\ scores' = Added(points) /\ scores' \in [Guests -> Int]
           /\ finished' = (finished \/ Reached(Added(points)))
           /\ played' = Append(played, RowOf(points)) /\ RowOf(points) \in RoundRow
           /\ pc' = [pc EXCEPT ![g] = "save"]
           /\ job' = [job EXCEPT ![g] = VerdictOf(points)] /\ VerdictOf(points) \in Verdict
           /\ Winner(Added(points)) \in Seated
           /\ \A h \in Seated : Added(points)[h] <= Added(points)[Winner(Added(points))]
           /\ ready' = {} /\ round' = "none"
           /\ UNCHANGED <<seats, online, matchID, roundNo, countdown, latched, dbVars>>
<1>1. PICK points \in [Seated -> Points] :
        /\ scores' = Added(points) /\ finished' = (finished \/ Reached(Added(points)))
        /\ played' = Append(played, RowOf(points)) /\ With(g, VerdictOf(points))
  BY DEF Score, Added, RowOf, VerdictOf
<1>2. /\ pc[g] = "score" /\ ready' = {} /\ round' = "none" /\ pc' = [pc EXCEPT ![g] = "save"]
      /\ UNCHANGED <<seats, online, matchID, roundNo, countdown, latched, dbVars>>
  BY DEF Score, ClearTable, Goto
<1>3. Seated # {} /\ seats \in Seq(Guests) /\ Seated \subseteq Guests
  BY <1>2, SeatedType DEF LifeTypes, TypeOK, Populated
<1>4. Added(points) \in [Guests -> Int]
  <2>1. \A p \in Seated : points[p] \in Int
    BY Givens
  <2>2. \A p \in Guests : scores[p] \in Int
    BY DEF LifeTypes, TypeOK
  <2>. QED
    BY <2>1, <2>2 DEF Added
<1>5. /\ Winner(Added(points)) \in Seated
      /\ \A h \in Seated : Added(points)[h] <= Added(points)[Winner(Added(points))]
  BY <1>3, <1>4, WinnerIs
<1>6. RowOf(points) \in RoundRow
  BY <1>3 DEF RowOf, RoundRow, LifeTypes, TypeOK
<1>7. Reached(Added(points)) \in BOOLEAN
  BY DEF Reached
<1>8. VerdictOf(points) \in Verdict
  BY <1>3, <1>5, <1>6, <1>7 DEF VerdictOf, Verdict, LifeTypes, TypeOK
<1>. QED
  BY <1>1, <1>2, <1>3, <1>4, <1>5, <1>6, <1>8 DEF With

LEMMA ScoreTypes ==
  ASSUME LifeTypes, NEW g \in Procs, Score(g) PROVE LifeTypes'
<1>1. PICK points \in [Seated -> Points] :
           /\ scores' \in [Guests -> Int]
           /\ finished' = (finished \/ Reached(Added(points)))
           /\ played' = Append(played, RowOf(points)) /\ RowOf(points) \in RoundRow
           /\ pc' = [pc EXCEPT ![g] = "save"]
           /\ job' = [job EXCEPT ![g] = VerdictOf(points)] /\ VerdictOf(points) \in Verdict
           /\ ready' = {} /\ round' = "none"
           /\ UNCHANGED <<seats, online, matchID, roundNo, countdown, latched, dbVars>>
  BY ScoreIs
<1>2. Seated' = Seated
  BY <1>1 DEF Seated
<1>3. GoodJob("save", VerdictOf(points)) /\ "save" \in Steps
  BY <1>1 DEF GoodJob, Steps
<1>4. pc' \in [Procs -> Steps] /\ Jobs' /\ Populated' /\ job' = [y \in Procs |-> job'[y]]
  BY <1>1, <1>2, <1>3, JobsGoOn
<1>5. finished' \in BOOLEAN /\ played' \in Seq(RoundRow)
  BY <1>1 DEF LifeTypes, Reached
<1>6. TypeOK'
  BY <1>1, <1>2, <1>4, <1>5 DEF LifeTypes, TypeOK, dbVars
<1>. QED
  BY <1>1, <1>4, <1>5, <1>6 DEF LifeTypes, dbVars

(* A handler works on the database.                                        *)
LEMMA RowsTypes ==
  ASSUME LifeTypes, UNCHANGED <<roomVars, played>>,
         NEW x \in Procs, NEW s \in Steps \ {"start", "score"}, NEW j, GoodJob(s, j),
         pc' = [pc EXCEPT ![x] = s], job' = [job EXCEPT ![x] = j],
         wallet' \in [Guests -> Int], matches' \subseteq Nat, recorded' \subseteq Nat,
         settled' \in Seq(Bill), credited' \in Seq([mid : Nat, guests : SUBSET Guests]),
         closed' \subseteq [mid : Nat, winner : Guests]
  PROVE  LifeTypes'
<1>1. Seated' = Seated /\ round' = round
  BY DEF Seated, roomVars
<1>2. pc' \in [Procs -> Steps] /\ Jobs' /\ Populated' /\ job' = [y \in Procs |-> job'[y]]
  BY <1>1, JobsGoOn
<1>3. TypeOK'
  BY <1>1, <1>2 DEF LifeTypes, TypeOK, roomVars
<1>. QED
  BY <1>2, <1>3 DEF LifeTypes

LEMMA JobIs ==
  ASSUME LifeTypes, NEW g \in Procs, pc[g] \in AfterScore
  PROVE  job[g] \in Verdict
BY DEF LifeTypes, Jobs, GoodJob

LEMMA RowsAre ==
  ASSUME LifeTypes
  PROVE  /\ wallet \in [Guests -> Int] /\ matches \subseteq Nat /\ recorded \subseteq Nat
         /\ settled \in Seq(Bill) /\ credited \in Seq([mid : Nat, guests : SUBSET Guests])
         /\ closed \subseteq [mid : Nat, winner : Guests] /\ Seated \subseteq Guests
         /\ seats \in Seq(Guests) /\ job = [x \in Procs |-> job[x]] /\ pc \in [Procs -> Steps]
BY SeatedType DEF LifeTypes, TypeOK

LEMMA CreateTypes ==
  ASSUME LifeTypes, NEW x \in Procs, CreateMatch(x) PROVE LifeTypes'
<1>1. /\ pc[x] = "create" /\ matches' \in {matches, matches \cup {job[x].mid}}
      /\ pc' = [pc EXCEPT ![x] = "idle"] /\ job' = [job EXCEPT ![x] = NoJob]
      /\ UNCHANGED <<roomVars, closed, rounds, wallet, settled, recorded, credited, played>>
  BY DEF CreateMatch, Tries, Return, Goto, With
<1>2. job[x].mid \in Nat
  BY <1>1 DEF LifeTypes, Jobs, GoodJob
<1>3. matches' \subseteq Nat
  BY <1>1, <1>2, RowsAre
<1>. QED
  BY <1>1, <1>3, ReturnJob, RowsAre, RowsTypes

LEMMA SaveTypes ==
  ASSUME LifeTypes, NEW g \in Procs, SaveRound(g) PROVE LifeTypes'
<1>1. /\ pc[g] = "save"
      /\ \/ pc' = [pc EXCEPT ![g] = "close"] /\ UNCHANGED job
         \/ pc' = [pc EXCEPT ![g] = "idle"] /\ job' = [job EXCEPT ![g] = NoJob]
      /\ UNCHANGED <<roomVars, matches, closed, wallet, settled, recorded, credited, played>>
  BY DEF SaveRound, Return, Goto, With
<1>2. job[g] \in Verdict
  BY <1>1, JobIs DEF AfterScore
<1>3. GoodJob("close", job[g]) /\ "close" \in Steps
  BY <1>2 DEF GoodJob, Steps
<1>4. UNCHANGED job => job' = [job EXCEPT ![g] = job[g]]
  BY RowsAre
<1>. QED
  BY <1>1, <1>2, <1>3, <1>4, ReturnJob, RowsAre, RowsTypes

LEMMA FinishTypes ==
  ASSUME LifeTypes, NEW g \in Procs, FinishMatch(g) PROVE LifeTypes'
<1>. DEFINE row == [mid |-> job[g].mid, winner |-> job[g].winner]
<1>1. /\ pc[g] = "close" /\ pc' = [pc EXCEPT ![g] = "credit"] /\ UNCHANGED job
      /\ closed' \subseteq closed \cup {row}
      /\ UNCHANGED <<roomVars, matches, rounds, wallet, settled, recorded, credited, played>>
  BY DEF FinishMatch, Goto, Tries
<1>2. job[g] \in Verdict
  BY <1>1, JobIs DEF AfterScore
<1>3. GoodJob("credit", job[g]) /\ "credit" \in Steps
  BY <1>2 DEF GoodJob, Steps
<1>4. job' = [job EXCEPT ![g] = job[g]]
  BY <1>1, RowsAre
<1>5. row \in [mid : Nat, winner : Guests]
  BY <1>2 DEF Verdict
<1>. HIDE DEF row
<1>6. closed' \subseteq [mid : Nat, winner : Guests]
  BY <1>1, <1>5, RowsAre
<1>. QED
  BY <1>1, <1>2, <1>3, <1>4, <1>6, RowsAre, RowsTypes

LEMMA CreditTypes ==
  ASSUME LifeTypes, NEW g \in Procs, CreditPlayers(g) PROVE LifeTypes'
<1>. DEFINE row == [mid |-> job[g].mid, guests |-> Seated]
<1>1. /\ pc[g] = "credit" /\ pc' = [pc EXCEPT ![g] = "losers"] /\ UNCHANGED job
      /\ credited' = Append(credited, row)
      /\ UNCHANGED <<roomVars, matches, closed, rounds, wallet, settled, recorded, played>>
  BY DEF CreditPlayers, Goto
<1>2. job[g] \in Verdict
  BY <1>1, JobIs DEF AfterScore
<1>3. GoodJob("losers", job[g]) /\ "losers" \in Steps
  BY <1>2 DEF GoodJob, Steps
<1>4. job' = [job EXCEPT ![g] = job[g]]
  BY <1>1, RowsAre
<1>5. row \in [mid : Nat, guests : SUBSET Guests]
  BY <1>2, RowsAre DEF Verdict
<1>. HIDE DEF row
<1>6. credited' \in Seq([mid : Nat, guests : SUBSET Guests])
  BY <1>1, <1>5, RowsAre
<1>. QED
  BY <1>1, <1>2, <1>3, <1>4, <1>6, RowsAre, RowsTypes

LEMMA LosersTypes ==
  ASSUME LifeTypes, NEW g \in Procs, ReadLosers(g) PROVE LifeTypes'
<1>. DEFINE j == [job[g] EXCEPT !.losers = Seated \ {job[g].winner}]
<1>1. /\ pc[g] = "losers"
      /\ \/ pc' = [pc EXCEPT ![g] = "settle"] /\ job' = [job EXCEPT ![g] = j]
         \/ pc' = [pc EXCEPT ![g] = "idle"] /\ job' = [job EXCEPT ![g] = NoJob]
      /\ UNCHANGED <<roomVars, dbVars, played>>
  BY DEF ReadLosers, Return, Goto, With
<1>2. job[g] \in Verdict
  BY <1>1, JobIs DEF AfterScore
<1>3. j \in Verdict /\ j.losers = Seated \ {job[g].winner} /\ j.winner = job[g].winner
  BY <1>2, RowsAre DEF Verdict
<1>. HIDE DEF j
<1>4. GoodJob("settle", j) /\ "settle" \in Steps
  BY <1>3 DEF GoodJob, Steps
<1>. QED
  BY <1>1, <1>2, <1>4, ReturnJob, RowsAre, RowsTypes DEF dbVars

-----------------------------------------------------------------------------
(* The money.                                                              *)

Paid == [p \in Guests |-> Pays(p)]

(* The pot is what the losers pay.                                         *)
LEMMA PotIs ==
  ASSUME NEW L \in SUBSET Guests PROVE Pot(L) = Sum(Paid, L)
<1>. DEFINE adds(it) ==
       it = [s \in SUBSET L |-> IF s = {} THEN 0 ELSE Pays(Pick(s)) + it[s \ {Pick(s)}]]
            pot == CHOOSE it : adds(it)
<1>1. Pot(L) = pot[L]
  BY DEF Pot, MapThenSumSet, MapThenFoldSet, Pick
<1>2. \A s \in SUBSET L : s # {} => Paid[Pick(s)] = Pays(Pick(s))
  BY PickIs DEF Paid
<1>3. IsFiniteSet(L)
  BY Givens, FS_Subset
<1>4. PICK f : Adds(Paid, L, f)
  BY <1>3, SomeOne
<1>5. adds(f)
  <2>1. f = [s \in SUBSET L |-> IF s = {} THEN 0 ELSE Paid[Pick(s)] + f[s \ {Pick(s)}]]
    BY <1>4 DEF Adds
  <2>2. \A s \in SUBSET L : (IF s = {} THEN 0 ELSE Paid[Pick(s)] + f[s \ {Pick(s)}])
                          = (IF s = {} THEN 0 ELSE Pays(Pick(s)) + f[s \ {Pick(s)}])
    BY <1>2
  <2>. QED
    BY <2>1, <2>2
<1>6. adds(pot)
  BY <1>5
<1>. HIDE DEF pot
<1>7. Adds(Paid, L, pot)
  <2>1. \A s \in SUBSET L : (IF s = {} THEN 0 ELSE Paid[Pick(s)] + pot[s \ {Pick(s)}])
                          = (IF s = {} THEN 0 ELSE Pays(Pick(s)) + pot[s \ {Pick(s)}])
    BY <1>2
  <2>2. pot = [s \in SUBSET L |-> IF s = {} THEN 0 ELSE Paid[Pick(s)] + pot[s \ {Pick(s)}]]
    BY <1>6, <2>1
  <2>. QED
    BY <2>2 DEF Adds
<1>8. (CHOOSE it : Adds(Paid, L, it)) = pot
  BY <1>3, <1>7, OnlyOne
<1>. QED
  BY <1>1, <1>8, SumIs

Solvent ==
  /\ Sum(wallet, Guests) = StartingCoins * Cardinality(Guests)
  /\ \A g \in Guests : wallet[g] >= 0

MoneyInv == LifeTypes /\ Solvent

LEMMA SettleKeeps ==
  ASSUME MoneyInv, NEW g \in Procs, Settle(g) PROVE MoneyInv'
<1>. DEFINE L == job[g].losers
            w == job[g].winner
            pot == Pot(L)
            paid == [p \in Guests |->
                       CASE p \in L -> wallet[p] - Pays(p)
                         [] p = w -> wallet[p] + pot
                         [] OTHER -> wallet[p]]
            bill == [mid |-> job[g].mid, winner |-> w, losers |-> L]
<1>1. /\ pc[g] = "settle"
      /\ \/ /\ wallet' = paid /\ settled' = Append(settled, bill)
            /\ pc' = [pc EXCEPT ![g] = "record"] /\ UNCHANGED job
         \/ /\ pc' = [pc EXCEPT ![g] = "idle"] /\ job' = [job EXCEPT ![g] = NoJob]
            /\ UNCHANGED <<wallet, settled>>
      /\ UNCHANGED <<roomVars, matches, closed, rounds, recorded, credited, played>>
  BY DEF Settle, Return, Goto, With
<1>2. job[g] \in Verdict /\ w \notin L
  BY <1>1, JobIs DEF AfterScore, MoneyInv, LifeTypes, Jobs, GoodJob
<1>3. L \subseteq Guests /\ w \in Guests /\ bill \in Bill
  BY <1>2 DEF Verdict, Bill
<1>4. \A p \in Guests : wallet[p] \in Int /\ wallet[p] >= 0
  BY RowsAre DEF MoneyInv, Solvent
<1>5. \A p \in Guests : Pays(p) \in Nat /\ Pays(p) <= wallet[p]
  BY <1>4, Givens DEF Pays
<1>6. /\ IsFiniteSet(L) /\ IsFiniteSet(Guests) /\ \A p \in L : p \in Guests
      /\ \A p \in Guests : Paid[p] = Pays(p)
  BY <1>3, Givens, FS_Subset DEF Paid
<1>7. pot = Sum(Paid, L) /\ pot \in Nat
  BY <1>3, <1>5, <1>6, PotIs, SumNatural
<1>. HIDE DEF pot, L, w
<1>8. \A p \in Guests : paid[p] \in Int /\ paid[p] >= 0
  BY <1>4, <1>5, <1>7
<1>9. Sum(paid, Guests) = Sum(wallet, Guests)
  <2>. DEFINE rest == Guests \ (L \cup {w})
              LW == L \cup {w}
  <2>1. /\ Guests = LW \cup rest /\ LW \cap rest = {} /\ IsFiniteSet(LW) /\ IsFiniteSet(rest)
    BY <1>3, <1>6, FS_AddElement, FS_Subset
  <2>2. Sum(paid, rest) = Sum(wallet, rest)
    <3>1. \A p \in rest : paid[p] = wallet[p]
      OBVIOUS
    <3>. QED
      BY <2>1, <3>1, SumSame
  <2>3. paid[w] = wallet[w] + pot
    BY <1>2, <1>3 DEF w, L
  <2>4. Sum(wallet, L) = Sum(paid, L) + Sum(Paid, L)
    <3>1. \A p \in L : paid[p] = wallet[p] - Pays(p)
      BY <1>2, <1>3
    <3>2. \A p \in L : paid[p] \in Int /\ Paid[p] \in Int
      BY <1>5, <1>6, <1>8
    <3>. HIDE DEF paid
    <3>3. \A p \in L : wallet[p] = paid[p] + Paid[p]
      BY <1>4, <1>5, <1>6, <3>1
    <3>. QED
      BY <1>6, <3>2, <3>3, SumPlus
  <2>. HIDE DEF paid
  <2>5. Sum(paid, LW) = paid[w] + Sum(paid, L) /\ Sum(wallet, LW) = wallet[w] + Sum(wallet, L)
    BY <1>2, <1>3, <1>4, <1>6, <1>8, SumWith DEF w, L
  <2>6. Sum(paid, L) \in Int /\ Sum(wallet, L) \in Int /\ wallet[w] \in Int
    BY <1>3, <1>4, <1>6, <1>8, SumType
  <2>7. Sum(paid, LW) = Sum(wallet, LW)
    BY <1>7, <2>3, <2>4, <2>5, <2>6
  <2>. HIDE DEF rest, LW
  <2>8. Sum(paid, Guests) = Sum(paid, LW) + Sum(paid, rest)
    BY <1>8, <2>1, SumUnion
  <2>9. Sum(wallet, Guests) = Sum(wallet, LW) + Sum(wallet, rest)
    BY <1>4, <2>1, SumUnion
  <2>. QED
    BY <2>2, <2>7, <2>8, <2>9
<1>10. paid \in [Guests -> Int]
  BY <1>8
<1>. HIDE DEF paid, bill
<1>11. CASE /\ wallet' = paid /\ settled' = Append(settled, bill)
            /\ pc' = [pc EXCEPT ![g] = "record"] /\ UNCHANGED job
  <2>1. GoodJob("record", job[g]) /\ "record" \in Steps
    BY <1>2 DEF GoodJob, Steps
  <2>2. job' = [job EXCEPT ![g] = job[g]] /\ settled' \in Seq(Bill)
    BY <1>3, <1>11, RowsAre DEF MoneyInv
  <2>3. LifeTypes'
    BY <1>1, <1>2, <1>10, <1>11, <2>1, <2>2, RowsAre, RowsTypes DEF MoneyInv
  <2>4. Solvent'
    BY <1>8, <1>9, <1>11 DEF MoneyInv, Solvent
  <2>. QED
    BY <2>3, <2>4 DEF MoneyInv
<1>12. CASE /\ pc' = [pc EXCEPT ![g] = "idle"] /\ job' = [job EXCEPT ![g] = NoJob]
            /\ UNCHANGED <<wallet, settled>>
  <2>1. LifeTypes'
    BY <1>1, <1>2, <1>12, ReturnJob, RowsAre, RowsTypes DEF MoneyInv
  <2>. QED
    BY <1>12, <2>1 DEF MoneyInv, Solvent
<1>. QED
  BY <1>1, <1>11, <1>12

LEMMA RecordTypes ==
  ASSUME LifeTypes, NEW g \in Procs, RecordSettlement(g) PROVE LifeTypes'
<1>1. /\ pc[g] = "record" /\ recorded' \subseteq recorded \cup {job[g].mid}
      /\ pc' = [pc EXCEPT ![g] = "idle"] /\ job' = [job EXCEPT ![g] = NoJob]
      /\ UNCHANGED <<roomVars, matches, closed, rounds, wallet, settled, credited, played>>
  BY DEF RecordSettlement, Return, Goto, With, Tries
<1>2. job[g] \in Verdict
  BY <1>1, JobIs DEF AfterScore
<1>3. recorded' \subseteq Nat
  BY <1>1, <1>2, RowsAre DEF Verdict
<1>. QED
  BY <1>1, <1>2, <1>3, ReturnJob, RowsAre, RowsTypes

LEMMA LifeStart == Init => MoneyInv
<1>1. SUFFICES ASSUME Init PROVE MoneyInv
  OBVIOUS
<1>2. Seated = {} /\ Len(seats) = 0
  BY <1>1 DEF Init, Seated
<1>3. TypeOK
  <2>1. finished \in BOOLEAN /\ countdown \in BOOLEAN
    BY <1>1 DEF Init
  <2>2. seats \in Seq(Guests) /\ Len(seats) <= MaxPlayers
    BY <1>1, Givens DEF Init
  <2>3. scores \in [Guests -> Int] /\ wallet \in [Guests -> Int] /\ pc \in [Procs -> Steps]
    BY <1>1, Givens DEF Init, NoScores, Steps
  <2>. QED
    BY <1>1, <2>1, <2>2, <2>3 DEF Init, TypeOK
<1>4. GoodJob("idle", NoJob)
  BY ReturnJob
<1>5. Populated
  BY <1>1 DEF Init, Populated
<1>6. LifeTypes
  BY <1>1, <1>3, <1>4, <1>5 DEF Init, LifeTypes, Jobs
<1>7. \A g \in Guests : wallet[g] = StartingCoins /\ StartingCoins >= 0 /\ StartingCoins \in Int
  BY <1>1, Givens DEF Init
<1>8. Sum(wallet, Guests) = StartingCoins * Cardinality(Guests)
  BY <1>7, Givens, SumConstant
<1>. QED
  BY <1>6, <1>7, <1>8 DEF MoneyInv, Solvent

LEMMA LifeStep == ASSUME MoneyInv, [Next]_vars PROVE MoneyInv'
<1>. USE DEF MoneyInv
<1>1. ASSUME NEW g \in Guests, Join(g) \/ Attach(g) \/ Detach(g) \/ GetReady(g) PROVE LifeTypes'
  BY <1>1, JoinTypes, AttachTypes, DetachTypes, ReadyTypes
<1>2. Elapse => LifeTypes'
  BY ElapseTypes
<1>3. ASSUME NEW g \in Procs, Handler(g) \/ EndRound(g) PROVE LifeTypes'
  <2>1. CASE EvaluateCountdown(g) \/ ArmCountdown(g) \/ CancelCountdown(g)
    BY <2>1, CountdownTypes
  <2>2. CASE Start(g) \/ CreateMatch(g) \/ EndRound(g) \/ Score(g)
    BY <2>2, StartTypes, CreateTypes, EndTypes, ScoreTypes
  <2>3. CASE SaveRound(g) \/ FinishMatch(g) \/ CreditPlayers(g) \/ ReadLosers(g)
    BY <2>3, SaveTypes, FinishTypes, CreditTypes, LosersTypes
  <2>4. CASE Settle(g) \/ RecordSettlement(g)
    BY <2>4, SettleKeeps, RecordTypes
  <2>. QED
    BY <1>3, <2>1, <2>2, <2>3, <2>4 DEF Handler
<1>4. UNCHANGED vars => LifeTypes'
  BY DEF vars, roomVars, dbVars, LifeTypes, TypeOK, Jobs, Populated, Seated
<1>5. LifeTypes'
  BY <1>1, <1>2, <1>3, <1>4 DEF Next, Procs
<1>6. (\E g \in Procs : Settle(g)) \/ UNCHANGED wallet
  BY DEF Next, Handler, Join, Attach, Detach, GetReady, Elapse, EvaluateCountdown, ArmCountdown,
         CancelCountdown, EndRound, Start, OpenRound, Score, SaveRound, FinishMatch,
         CreditPlayers, ReadLosers, RecordSettlement, CreateMatch, vars, dbVars
<1>7. UNCHANGED wallet => Solvent'
  BY DEF Solvent
<1>. QED
  BY <1>5, <1>6, <1>7, SettleKeeps

Runs == Init /\ [][Next]_vars

LEMMA LifeAlways == Runs => []MoneyInv
BY LifeStart, LifeStep, PTL DEF Runs

(* The room, the rows and the goroutines keep their types (Room in         *)
(* room/hub.go and the tables it writes).                                  *)
THEOREM MatchTypeCorrect == Spec => []TypeOK
<1>1. MoneyInv => TypeOK
  BY DEF MoneyInv, LifeTypes
<1>. QED
  BY <1>1, LifeAlways, PTL DEF Spec, Runs

(* Settling moves coins and makes none, whatever the losers hold, and      *)
(* leaves nobody in debt (SettleMatch).                                    *)
THEOREM CoinsArePreserved == Spec => []MoneyIsSafe
<1>1. MoneyInv => MoneyIsSafe
  BY DEF MoneyInv, Solvent, MoneyIsSafe, Sum
<1>. QED
  BY <1>1, LifeAlways, PTL DEF Spec, Runs

-----------------------------------------------------------------------------
(* A match and its rounds. What follows holds as long as nobody takes a    *)
(* seat between two rounds once the first match has begun, and nobody arms *)
(* the countdown in a match that is over: a newcomer may pay for a match   *)
(* he did not play, and the countdown then starts a round of a match that  *)
(* is over. Players may get ready for the next match while the last one is *)
(* still being settled, and connections may drop and come back at any time *)
(* that does not arm the countdown late.                                   *)

Joins == matchID > 0 /\ round = "none" /\ seats' # seats
Disturbs == Joins \/ ArmsLate
QuietSpec == Init /\ [][Next /\ ~Disturbs]_vars

RoundsIn(p, m) == {i \in DOMAIN p : p[i].mid = m}
Brought(p, g) == [i \in DOMAIN p |-> IF g \in DOMAIN p[i].points THEN p[i].points[g] ELSE 0]
PointsOf(r, g) == IF g \in DOMAIN r.points THEN r.points[g] ELSE 0
InMatch(p, g, m) == Sum(Brought(p, g), RoundsIn(p, m))

LEMMA RoundsAre ==
  ASSUME NEW p \in Seq(RoundRow)
  PROVE  /\ DOMAIN p = 1..Len(p) /\ Len(p) \in Nat
         /\ \A m : RoundsIn(p, m) \subseteq DOMAIN p /\ IsFiniteSet(RoundsIn(p, m))
         /\ \A i \in DOMAIN p : p[i] \in RoundRow
         /\ \A i \in DOMAIN p : \A g : Brought(p, g)[i] \in Int
<1>1. DOMAIN p = 1..Len(p) /\ Len(p) \in Nat /\ \A i \in DOMAIN p : p[i] \in RoundRow
  OBVIOUS
<1>2. IsFiniteSet(DOMAIN p)
  BY <1>1, FS_Interval
<1>3. \A m : RoundsIn(p, m) \subseteq DOMAIN p /\ IsFiniteSet(RoundsIn(p, m))
  <2>1. \A m : RoundsIn(p, m) \subseteq DOMAIN p
    BY DEF RoundsIn
  <2>. QED
    BY <1>2, <2>1, FS_Subset
<1>4. ASSUME NEW i \in DOMAIN p, NEW g PROVE Brought(p, g)[i] \in Int
  <2>1. PICK S \in SUBSET Guests : p[i].points \in [S -> Points]
    BY <1>1 DEF RoundRow
  <2>2. DOMAIN p[i].points = S /\ (g \in S => p[i].points[g] \in Points)
    BY <2>1
  <2>3. Brought(p, g)[i] = IF g \in S THEN p[i].points[g] ELSE 0
    BY <2>2 DEF Brought
  <2>4. g \in S => p[i].points[g] \in Int
    BY <2>2, Givens
  <2>. QED
    BY <2>3, <2>4
<1>. QED
  BY <1>1, <1>3, <1>4

LEMMA TotalIs ==
  ASSUME played \in Seq(RoundRow), NEW g, NEW m
  PROVE  RoundsOf(m) = RoundsIn(played, m) /\ Total(g, m) = InMatch(played, g, m)
<1>. DEFINE R == RoundsIn(played, m)
            h == Brought(played, g)
            v(i) == IF g \in PlayersOf(i) THEN played[i].points[g] ELSE 0
            adds(it) ==
              it = [s \in SUBSET R |-> IF s = {} THEN 0 ELSE v(Pick(s)) + it[s \ {Pick(s)}]]
            total == CHOOSE it : adds(it)
<1>1. RoundsOf(m) = R
  BY DEF RoundsOf, RoundsIn
<1>2. Total(g, m) = total[R]
  BY <1>1 DEF Total, TotalOf, MapThenSumSet, MapThenFoldSet, Pick
<1>3. \A s \in SUBSET R : s # {} => h[Pick(s)] = v(Pick(s))
  BY PickIs, RoundsAre DEF Brought, PlayersOf
<1>4. IsFiniteSet(R)
  BY RoundsAre
<1>. HIDE DEF R, h, v
<1>5. PICK f : Adds(h, R, f)
  BY <1>4, SomeOne
<1>6. adds(f)
  <2>1. f = [s \in SUBSET R |-> IF s = {} THEN 0 ELSE h[Pick(s)] + f[s \ {Pick(s)}]]
    BY <1>5 DEF Adds
  <2>2. \A s \in SUBSET R : (IF s = {} THEN 0 ELSE h[Pick(s)] + f[s \ {Pick(s)}])
                          = (IF s = {} THEN 0 ELSE v(Pick(s)) + f[s \ {Pick(s)}])
    BY <1>3
  <2>. QED
    BY <2>1, <2>2
<1>7. adds(total)
  BY <1>6
<1>. HIDE DEF total
<1>8. Adds(h, R, total)
  <2>1. \A s \in SUBSET R : (IF s = {} THEN 0 ELSE h[Pick(s)] + total[s \ {Pick(s)}])
                          = (IF s = {} THEN 0 ELSE v(Pick(s)) + total[s \ {Pick(s)}])
    BY <1>3
  <2>2. total = [s \in SUBSET R |-> IF s = {} THEN 0 ELSE h[Pick(s)] + total[s \ {Pick(s)}]]
    BY <1>7, <2>1
  <2>. QED
    BY <2>2 DEF Adds
<1>9. (CHOOSE it : Adds(h, R, it)) = total
  BY <1>4, <1>8, OnlyOne
<1>. QED
  BY <1>1, <1>2, <1>9, SumIs DEF InMatch, R, h

(* One more round is scored.                                               *)
LEMMA OneMoreRound ==
  ASSUME NEW p \in Seq(RoundRow), NEW r \in RoundRow, NEW g, NEW m
  PROVE  /\ r.mid = m => /\ RoundsIn(Append(p, r), m) = RoundsIn(p, m) \cup {Len(p) + 1}
                         /\ InMatch(Append(p, r), g, m) = InMatch(p, g, m) + PointsOf(r, g)
         /\ r.mid # m => /\ RoundsIn(Append(p, r), m) = RoundsIn(p, m)
                         /\ InMatch(Append(p, r), g, m) = InMatch(p, g, m)
<1>. DEFINE q == Append(p, r)
            n == Len(p) + 1
<1>1. /\ q \in Seq(RoundRow) /\ DOMAIN q = DOMAIN p \cup {n} /\ n \notin DOMAIN p
      /\ q[n] = r /\ \A i \in DOMAIN p : q[i] = p[i]
  OBVIOUS
<1>. HIDE DEF q, n
<1>2. /\ r.mid = m => RoundsIn(q, m) = RoundsIn(p, m) \cup {n}
      /\ r.mid # m => RoundsIn(q, m) = RoundsIn(p, m)
  BY <1>1 DEF RoundsIn
<1>3. Brought(q, g)[n] = PointsOf(r, g) /\ \A i \in DOMAIN p : Brought(q, g)[i] = Brought(p, g)[i]
  BY <1>1 DEF Brought, PointsOf
<1>4. /\ IsFiniteSet(RoundsIn(p, m)) /\ RoundsIn(p, m) \subseteq DOMAIN p
      /\ \A i \in DOMAIN q : Brought(q, g)[i] \in Int
      /\ \A i \in DOMAIN p : Brought(p, g)[i] \in Int
  BY <1>1, RoundsAre
<1>5. Sum(Brought(q, g), RoundsIn(p, m)) = Sum(Brought(p, g), RoundsIn(p, m))
  BY <1>3, <1>4, SumSame
<1>6. Sum(Brought(q, g), RoundsIn(p, m) \cup {n})
        = Brought(q, g)[n] + Sum(Brought(q, g), RoundsIn(p, m))
  BY <1>1, <1>4, SumWith
<1>7. Sum(Brought(p, g), RoundsIn(p, m)) \in Int /\ Brought(q, g)[n] \in Int
  BY <1>1, <1>4, SumType
<1>8. Brought(q, g)[n] + Sum(Brought(p, g), RoundsIn(p, m))
        = Sum(Brought(p, g), RoundsIn(p, m)) + PointsOf(r, g)
  BY <1>3, <1>7
<1>. QED
  BY <1>1, <1>2, <1>5, <1>6, <1>8 DEF InMatch, q, n

(* A seat that is taken is taken before the first match.                   *)
LEMMA Arrivals ==
  ASSUME LifeTypes, NEW g \in Guests, Join(g) \/ Attach(g), ~Disturbs
  PROVE  /\ UNCHANGED <<round, matchID, roundNo, scores, finished, countdown, dbVars, job, played>>
         /\ UNCHANGED pc \/ pc' = [pc EXCEPT ![g] = "evaluate"]
         /\ matchID = 0 \/ UNCHANGED seats
<1>1. /\ UNCHANGED <<round, matchID, roundNo, scores, finished, countdown, dbVars, job, played>>
      /\ UNCHANGED pc \/ pc' = [pc EXCEPT ![g] = "evaluate"]
      /\ UNCHANGED seats \/ round = "none"
  BY DEF Join, Attach, Goto
<1>2. matchID = 0 \/ UNCHANGED seats
  BY <1>1 DEF Disturbs, Joins, LifeTypes, TypeOK
<1>. QED
  BY <1>1, <1>2

-----------------------------------------------------------------------------
(* Whose turn it is: the lobby's, the round's or finishRound's.            *)
TableInv ==
  /\ finished \/ round # "none" => ~countdown
  /\ matchID = 0 => round = "none" /\ roundNo = 0 /\ ~finished /\ played = <<>>
  /\ finished => round = "none"
  /\ round # "none" => roundNo > 0
  /\ \A g \in Procs : pc[g] = "start" => round # "over" /\ ~finished
  /\ \A g \in Procs : pc[g] = "score" => round = "over"
  /\ \A g, h \in Procs : pc[g] = "score" /\ pc[h] = "score" => g = h

(* A round opens only while no match is finished.                          *)
LEMMA OpensFresh ==
  ASSUME LifeTypes, TableInv, NEW x \in Procs, OpenRound(x), pc[x] = "start"
  PROVE  /\ ~finished /\ round = "none" /\ round' = "open" /\ roundNo' = roundNo + 1
         /\ matchID' = (IF roundNo = 0 THEN matchID + 1 ELSE matchID)
         /\ countdown' = FALSE
         /\ matchID' > 0 /\ roundNo' > 0 /\ (roundNo > 0 => matchID > 0)
         /\ \E s \in {"idle", "create"} : \E j : pc' = [pc EXCEPT ![x] = s] /\ job' = [job EXCEPT ![x] = j]
         /\ UNCHANGED <<seats, ready, online, scores, finished, latched, dbVars, played>>
<1>1. /\ round = "none" /\ round' = "open" /\ roundNo' = roundNo + 1
      /\ matchID' = (IF roundNo = 0 THEN matchID + 1 ELSE matchID)
      /\ countdown' = FALSE
      /\ \E s \in {"idle", "create"} : \E j : pc' = [pc EXCEPT ![x] = s] /\ job' = [job EXCEPT ![x] = j]
      /\ UNCHANGED <<seats, ready, online, scores, finished, latched, dbVars, played>>
  BY DEF OpenRound, Goto, With, Return
<1>2. matchID \in Nat /\ roundNo \in Nat
  BY DEF LifeTypes, TypeOK
<1>3. ~finished
  BY <1>2 DEF TableInv
<1>4. roundNo > 0 => matchID > 0
  BY <1>2 DEF TableInv
<1>5. matchID' > 0 /\ roundNo' > 0
  BY <1>1, <1>2, <1>4
<1>. QED
  BY <1>1, <1>3, <1>4, <1>5

(* What the steps do that leave the round alone.                           *)
Elsewhere(g, s) ==
  /\ pc' = [pc EXCEPT ![g] = s] /\ s \notin {"start", "score"}
  /\ UNCHANGED <<roomVars, played>>

LEMMA ElsewhereKeeps ==
  ASSUME LifeTypes, TableInv, NEW x \in Procs, NEW s, Elsewhere(x, s) PROVE TableInv'
<1>1. \A g \in Procs : pc'[g] \in {"start", "score"} => pc'[g] = pc[g]
  BY DEF Elsewhere, LifeTypes, TypeOK
<1>2. UNCHANGED <<round, matchID, roundNo, finished, countdown, played>>
  BY DEF Elsewhere, roomVars
<1>. QED
  BY <1>1, <1>2 DEF TableInv

(* The steps of a handler that work on the database, or look.              *)
Aside(g) ==
  \/ EvaluateCountdown(g) \/ CreateMatch(g)
  \/ SaveRound(g) \/ FinishMatch(g) \/ CreditPlayers(g) \/ ReadLosers(g) \/ Settle(g)
  \/ RecordSettlement(g)

LEMMA HandlersWorkElsewhere ==
  ASSUME NEW g \in Procs, Aside(g) PROVE \E s : Elsewhere(g, s)
<1>1. CASE EvaluateCountdown(g)
  <2>1. \E s \in {"arm", "cancel", "idle"} : pc' = [pc EXCEPT ![g] = s] /\ UNCHANGED <<roomVars, played>>
    BY <1>1 DEF EvaluateCountdown, Goto
  <2>. QED
    BY <2>1 DEF Elsewhere
<1>2. CASE CreateMatch(g) \/ RecordSettlement(g)
  <2>1. Elsewhere(g, "idle")
    BY <1>2 DEF CreateMatch, RecordSettlement, Goto, Return, Elsewhere
  <2>. QED
    BY <2>1
<1>3. CASE SaveRound(g)
  <2>1. \E s \in {"close", "idle"} : pc' = [pc EXCEPT ![g] = s] /\ UNCHANGED <<roomVars, played>>
    BY <1>3 DEF SaveRound, Goto, Return
  <2>. QED
    BY <2>1 DEF Elsewhere
<1>4. CASE FinishMatch(g)
  <2>1. Elsewhere(g, "credit")
    BY <1>4 DEF FinishMatch, Goto, Elsewhere
  <2>. QED
    BY <2>1
<1>5. CASE CreditPlayers(g)
  <2>1. Elsewhere(g, "losers")
    BY <1>5 DEF CreditPlayers, Goto, Elsewhere
  <2>. QED
    BY <2>1
<1>6. CASE ReadLosers(g)
  <2>1. \E s \in {"settle", "idle"} : pc' = [pc EXCEPT ![g] = s] /\ UNCHANGED <<roomVars, played>>
    BY <1>6 DEF ReadLosers, Goto, Return
  <2>. QED
    BY <2>1 DEF Elsewhere
<1>7. CASE Settle(g)
  <2>1. \E s \in {"record", "idle"} : pc' = [pc EXCEPT ![g] = s] /\ UNCHANGED <<roomVars, played>>
    BY <1>7 DEF Settle, Goto, Return
  <2>. QED
    BY <2>1 DEF Elsewhere
<1>. QED
  BY <1>1, <1>2, <1>3, <1>4, <1>5, <1>6, <1>7 DEF Aside

(* The steps that set the countdown and nothing else of the room.          *)
Counts(g) == ArmCountdown(g) \/ CancelCountdown(g)

LEMMA CountingIs ==
  ASSUME NEW g \in Procs, Counts(g)
  PROVE  /\ pc[g] \in {"arm", "cancel"} /\ pc' = [pc EXCEPT ![g] = "idle"]
         /\ countdown' = FALSE \/ countdown' = (countdown \/ round = "none")
         /\ UNCHANGED <<seats, ready, online, round, matchID, roundNo, scores, finished,
                        latched, dbVars, job, played>>
BY DEF Counts, ArmCountdown, CancelCountdown, Goto

(* A step is one of these.                                                 *)
LEMMA StepsAre ==
  ASSUME [Next]_vars
  PROVE  \/ \E g \in Guests : Join(g) \/ Attach(g) \/ Detach(g) \/ GetReady(g)
         \/ Elapse
         \/ \E g \in Procs : Start(g) \/ EndRound(g) \/ Score(g) \/ Aside(g) \/ Counts(g)
         \/ UNCHANGED vars
BY DEF Next, Handler, Aside, Counts, Procs

LEMMA TableStep ==
  ASSUME LifeTypes, TableInv, [Next]_vars, ~Disturbs PROVE TableInv'
<1>. USE DEF TableInv
<1>1. ASSUME NEW g \in Guests, Join(g) \/ Attach(g) PROVE TableInv'
  <2>1. UNCHANGED <<round, matchID, roundNo, finished, countdown, played>>
        /\ (UNCHANGED pc \/ pc' = [pc EXCEPT ![g] = "evaluate"])
    BY <1>1, Arrivals
  <2>2. \A h \in Procs : pc'[h] \in {"start", "score"} => pc'[h] = pc[h]
    BY <2>1 DEF LifeTypes, TypeOK
  <2>. QED
    BY <2>1, <2>2
<1>2. ASSUME NEW g \in Guests, Detach(g) PROVE TableInv'
  BY <1>2 DEF Detach
<1>3. ASSUME NEW g \in Guests, GetReady(g) PROVE TableInv'
  <2>1. /\ UNCHANGED <<round, matchID, countdown, played>>
        /\ \/ finished /\ roundNo' = 0 /\ finished' = FALSE
           \/ ~finished /\ UNCHANGED <<roundNo, finished>>
        /\ \E s \in {"start", "idle"} : /\ pc' = [pc EXCEPT ![g] = s]
                                        /\ s = "start" => round = "none"
    BY <1>3 DEF GetReady, ForgetMatch
  <2>2. ~finished'
    BY <2>1
  <2>3. \A h \in Procs : /\ pc'[h] = "start" => pc[h] = "start" \/ round = "none"
                         /\ pc'[h] = "score" => pc[h] = "score"
    BY <2>1 DEF LifeTypes, TypeOK
  <2>. QED
    BY <2>1, <2>2, <2>3
<1>4. ASSUME Elapse PROVE TableInv'
  <2>1. /\ round = "none" /\ countdown /\ pc' = [pc EXCEPT ![Timer] = "start"]
        /\ UNCHANGED <<round, matchID, roundNo, finished, countdown, played>>
    BY <1>4 DEF Elapse, Goto, roomVars
  <2>2. ~finished
    BY <2>1
  <2>3. \A h \in Procs : pc'[h] = "score" => pc[h] = "score"
    BY <2>1 DEF LifeTypes, TypeOK
  <2>. QED
    BY <2>1, <2>2, <2>3
<1>5. ASSUME NEW g \in Procs, Start(g) PROVE TableInv'
  <2>1. pc[g] = "start"
    BY <1>5 DEF Start
  <2>2. CASE OpenRound(g)
    <3>1. /\ ~finished /\ round = "none" /\ round' = "open" /\ countdown' = FALSE
          /\ matchID' > 0 /\ roundNo' > 0 /\ finished' = finished
          /\ \E s \in {"idle", "create"} : pc' = [pc EXCEPT ![g] = s]
      BY <2>1, <2>2, OpensFresh
    <3>2. matchID' # 0
      BY <3>1
    <3>3. \A h \in Procs : pc'[h] # "score"
      BY <3>1 DEF LifeTypes, TypeOK
    <3>. HIDE DEF TableInv
    <3>4. ~finished' /\ ~countdown'
      BY <3>1
    <3>. QED
      BY <3>1, <3>2, <3>3, <3>4 DEF TableInv
  <2>3. CASE Return(g) /\ UNCHANGED <<roomVars, dbVars, played>>
    <3>1. Elsewhere(g, "idle")
      BY <2>3 DEF Elsewhere, Return, Goto
    <3>. QED
      BY <3>1, ElsewhereKeeps
  <2>. QED
    BY <1>5, <2>2, <2>3 DEF Start
<1>6. ASSUME NEW g \in Procs, EndRound(g) PROVE TableInv'
  <2>1. /\ round = "open" /\ round' = "over" /\ pc' = [pc EXCEPT ![g] = "score"]
        /\ \A x \in Procs : pc[x] # "start"
        /\ UNCHANGED <<matchID, roundNo, finished, countdown, played>>
    BY <1>6 DEF EndRound, Goto
  <2>2. ~finished /\ \A h \in Procs : pc[h] # "score"
    BY <2>1
  <2>3. \A h \in Procs : pc'[h] # "start" /\ (pc'[h] = "score" => h = g)
    BY <2>1, <2>2 DEF LifeTypes, TypeOK
  <2>. QED
    BY <2>1, <2>2, <2>3
<1>7. ASSUME NEW g \in Procs, Score(g) PROVE TableInv'
  <2>1. /\ pc[g] = "score" /\ round' = "none" /\ pc' = [pc EXCEPT ![g] = "save"]
        /\ UNCHANGED <<matchID, roundNo, countdown>>
    BY <1>7 DEF Score, ClearTable, Goto
  <2>2. round = "over" /\ matchID # 0
    BY <2>1
  <2>3. \A h \in Procs : pc'[h] # "start" /\ pc'[h] # "score"
    BY <2>1, <2>2 DEF LifeTypes, TypeOK
  <2>. QED
    BY <2>1, <2>2, <2>3
<1>8. ASSUME NEW g \in Procs, Counts(g) PROVE TableInv'
  <2>1. /\ pc' = [pc EXCEPT ![g] = "idle"]
        /\ countdown' = FALSE \/ countdown' = (countdown \/ round = "none")
        /\ UNCHANGED <<round, matchID, roundNo, finished, played>>
    BY <1>8, CountingIs
  <2>2. \A h \in Procs : pc'[h] \in {"start", "score"} => pc'[h] = pc[h]
    BY <2>1 DEF LifeTypes, TypeOK
  <2>3. finished \/ round # "none" => ~countdown'
    BY <2>1 DEF Disturbs, ArmsLate
  <2>. QED
    BY <2>1, <2>2, <2>3
<1>9. UNCHANGED vars => TableInv'
  BY DEF vars, roomVars
<1>. HIDE DEF TableInv
<1>10. ASSUME NEW g \in Procs, Aside(g) PROVE TableInv'
  BY <1>10, HandlersWorkElsewhere, ElsewhereKeeps
<1>. QED
  BY <1>1, <1>2, <1>3, <1>4, <1>5, <1>6, <1>7, <1>8, <1>9, <1>10, StepsAre

-----------------------------------------------------------------------------
(* The rounds of a match, their numbers and the running scores.            *)
Numbered(p, m) == {p[i].no : i \in RoundsIn(p, m)} = 1..Cardinality(RoundsIn(p, m))

PlayedInv ==
  /\ \A i \in DOMAIN played : played[i].mid \in 1..matchID /\ DOMAIN played[i].points = Seated
  /\ \A m \in MatchIDs : Numbered(played, m)
  /\ roundNo > 0 => /\ Cardinality(RoundsIn(played, matchID))
                         = (IF round = "none" THEN roundNo ELSE roundNo - 1)
                    /\ \A g \in Guests : scores[g] = InMatch(played, g, matchID)
  /\ roundNo = 0 => scores = NoScores

LEMMA NoRoundsYet ==
  ASSUME NEW p \in Seq(RoundRow), NEW m, \A i \in DOMAIN p : p[i].mid # m
  PROVE  /\ RoundsIn(p, m) = {} /\ Cardinality(RoundsIn(p, m)) = 0 /\ Numbered(p, m)
         /\ \A g : InMatch(p, g, m) = 0
<1>1. RoundsIn(p, m) = {}
  BY DEF RoundsIn
<1>2. Cardinality({}) = 0
  BY FS_EmptySet
<1>. QED
  BY <1>1, <1>2, SumEmpty DEF InMatch, Numbered

LEMMA PlayedStays ==
  ASSUME PlayedInv, UNCHANGED <<roomVars, played>> PROVE PlayedInv'
BY DEF PlayedInv, roomVars, Seated, MatchIDs

LEMMA OpenKeepsPlayed ==
  ASSUME LifeTypes, TableInv, PlayedInv, NEW x \in Procs, OpenRound(x), pc[x] = "start"
  PROVE  PlayedInv'
<1>1. /\ round = "none" /\ round' = "open" /\ roundNo' = roundNo + 1
      /\ matchID' = (IF roundNo = 0 THEN matchID + 1 ELSE matchID)
      /\ scores' = scores /\ played' = played /\ seats' = seats
  BY OpensFresh
<1>2. matchID \in Nat /\ roundNo \in Nat /\ played \in Seq(RoundRow)
  BY DEF LifeTypes, TypeOK
<1>3. Seated' = Seated /\ roundNo' # 0
  BY <1>1, <1>2 DEF Seated
<1>4. CASE roundNo = 0
  <2>1. matchID' = matchID + 1 /\ roundNo' = 1
    BY <1>1, <1>4
  <2>2. \A i \in DOMAIN played : played[i].mid # matchID + 1 /\ played[i].mid \in 1..(matchID + 1)
    BY <1>2 DEF PlayedInv
  <2>3. /\ Cardinality(RoundsIn(played, matchID + 1)) = 0 /\ Numbered(played, matchID + 1)
        /\ \A g : InMatch(played, g, matchID + 1) = 0
    BY <1>2, <2>2, NoRoundsYet
  <2>4. \A g \in Guests : scores[g] = 0
    BY <1>4 DEF PlayedInv, NoScores
  <2>5. \A m \in 1..(matchID + 1) : Numbered(played, m)
    <3>1. \A m \in 1..(matchID + 1) : m \in 1..matchID \/ m = matchID + 1
      BY <1>2
    <3>. QED
      BY <2>3, <3>1 DEF PlayedInv, MatchIDs
  <2>. QED
    BY <1>1, <1>3, <2>1, <2>2, <2>3, <2>4, <2>5 DEF PlayedInv, MatchIDs
<1>5. CASE roundNo # 0
  <2>1. matchID' = matchID /\ roundNo > 0 /\ roundNo' - 1 = roundNo
    BY <1>1, <1>2, <1>5
  <2>. QED
    BY <1>1, <1>3, <2>1 DEF PlayedInv, MatchIDs
<1>. QED
  BY <1>4, <1>5

LEMMA ScoreKeepsPlayed ==
  ASSUME LifeTypes, TableInv, PlayedInv, NEW g \in Procs, Score(g) PROVE PlayedInv'
<1>1. PICK points \in [Seated -> Points] :
        /\ pc[g] = "score" /\ scores' = Added(points)
        /\ played' = Append(played, RowOf(points)) /\ RowOf(points) \in RoundRow
        /\ round' = "none"
        /\ UNCHANGED <<seats, matchID, roundNo>>
  BY ScoreIs
<1>. DEFINE r == RowOf(points)
            p == played
            q == Append(p, r)
            n == Len(p) + 1
<1>2. r.mid = matchID /\ r.no = roundNo /\ r.points = points /\ r \in RoundRow
      /\ DOMAIN r.points = Seated
  BY <1>1 DEF RowOf
<1>3. matchID \in Nat /\ roundNo \in Nat /\ p \in Seq(RoundRow) /\ scores \in [Guests -> Int]
  BY DEF LifeTypes, TypeOK
<1>4. round = "over" /\ roundNo > 0 /\ matchID > 0
  BY <1>1, <1>3 DEF TableInv
<1>5. /\ Cardinality(RoundsIn(p, matchID)) = roundNo - 1
      /\ \A h \in Guests : scores[h] = InMatch(p, h, matchID)
  BY <1>4 DEF PlayedInv
<1>. HIDE DEF r
<1>6. /\ RoundsIn(q, matchID) = RoundsIn(p, matchID) \cup {n}
      /\ \A h : InMatch(q, h, matchID) = InMatch(p, h, matchID) + PointsOf(r, h)
      /\ \A m : m # matchID => RoundsIn(q, m) = RoundsIn(p, m)
      /\ n \notin DOMAIN p /\ q[n] = r /\ \A i \in DOMAIN p : q[i] = p[i]
      /\ DOMAIN q = DOMAIN p \cup {n}
  <2>1. /\ n \notin DOMAIN p /\ q[n] = r /\ \A i \in DOMAIN p : q[i] = p[i]
        /\ DOMAIN q = DOMAIN p \cup {n}
    BY <1>3
  <2>. HIDE DEF p
  <2>2. RoundsIn(q, matchID) = RoundsIn(p, matchID) \cup {n}
        /\ \A h : InMatch(q, h, matchID) = InMatch(p, h, matchID) + PointsOf(r, h)
    BY <1>2, <1>3, OneMoreRound
  <2>3. \A m : m # matchID => RoundsIn(q, m) = RoundsIn(p, m)
    BY <1>2, <1>3, OneMoreRound
  <2>. QED
    BY <2>1, <2>2, <2>3
<1>. HIDE DEF p, q, n
<1>7. IsFiniteSet(RoundsIn(p, matchID)) /\ \A m : RoundsIn(p, m) \subseteq DOMAIN p
  BY <1>3, RoundsAre
<1>8. Cardinality(RoundsIn(q, matchID)) = roundNo
  <2>1. n \notin RoundsIn(p, matchID)
    BY <1>6, <1>7
  <2>2. Cardinality(RoundsIn(p, matchID) \cup {n}) = Cardinality(RoundsIn(p, matchID)) + 1
    BY <1>7, <2>1, FS_AddElement
  <2>. QED
    BY <1>3, <1>5, <1>6, <2>2
<1>9. Numbered(q, matchID)
  <2>1. {p[i].no : i \in RoundsIn(p, matchID)} = 1..(roundNo - 1)
    BY <1>3, <1>4, <1>5 DEF PlayedInv, MatchIDs, Numbered, p
  <2>2. {q[i].no : i \in RoundsIn(q, matchID)} = {p[i].no : i \in RoundsIn(p, matchID)} \cup {roundNo}
    BY <1>2, <1>6, <1>7
  <2>3. 1..(roundNo - 1) \cup {roundNo} = 1..roundNo
    BY <1>3, <1>4
  <2>. QED
    BY <1>8, <2>1, <2>2, <2>3 DEF Numbered
<1>10. \A m \in MatchIDs : Numbered(q, m)
  <2>1. ASSUME NEW m \in MatchIDs, m # matchID PROVE Numbered(q, m)
    <3>1. Numbered(p, m)
      BY <2>1 DEF PlayedInv, p
    <3>2. RoundsIn(q, m) = RoundsIn(p, m) /\ \A i \in RoundsIn(p, m) : q[i] = p[i]
      BY <1>6, <1>7, <2>1
    <3>3. {q[i].no : i \in RoundsIn(q, m)} = {p[i].no : i \in RoundsIn(p, m)}
      BY <3>2
    <3>. QED
      BY <3>1, <3>2, <3>3 DEF Numbered
  <2>. QED
    BY <1>9, <2>1
<1>11. \A h \in Guests : Added(points)[h] = InMatch(q, h, matchID)
  <2>1. ASSUME NEW h \in Guests PROVE Added(points)[h] = InMatch(q, h, matchID)
    <3>1. Added(points)[h] = IF h \in Seated THEN scores[h] + points[h] ELSE scores[h]
      BY DEF Added
    <3>2. PointsOf(r, h) = IF h \in Seated THEN points[h] ELSE 0
      BY <1>2 DEF PointsOf
    <3>3. InMatch(q, h, matchID) = scores[h] + PointsOf(r, h) /\ scores[h] \in Int
      BY <1>3, <1>5, <1>6
    <3>. QED
      BY <3>1, <3>2, <3>3
  <2>. QED
    BY <2>1
<1>12. \A i \in DOMAIN q : q[i].mid \in 1..matchID /\ DOMAIN q[i].points = Seated
  <2>1. r.mid \in 1..matchID
    BY <1>2, <1>3, <1>4
  <2>. QED
    BY <1>2, <1>6, <2>1 DEF PlayedInv, p
<1>13. played' = q /\ Seated' = Seated /\ roundNo' # 0 /\ scores' = Added(points)
       /\ matchID' = matchID /\ roundNo' = roundNo /\ round' = "none"
  BY <1>1, <1>4 DEF q, p, r, Seated
<1>. QED
  BY <1>8, <1>10, <1>11, <1>12, <1>13 DEF PlayedInv, MatchIDs

LEMMA PlayedStep ==
  ASSUME LifeTypes, TableInv, PlayedInv, [Next]_vars, ~Disturbs PROVE PlayedInv'
<1>1. ASSUME NEW g \in Guests, Join(g) \/ Attach(g) PROVE PlayedInv'
  <2>1. UNCHANGED <<round, matchID, roundNo, scores, played>>
        /\ (matchID = 0 \/ UNCHANGED seats)
    BY <1>1, Arrivals
  <2>2. CASE matchID = 0
    <3>1. played = <<>> /\ roundNo = 0
      BY <2>2 DEF TableInv
    <3>2. DOMAIN played' = {}
      BY <2>1, <3>1
    <3>. QED
      BY <2>1, <2>2, <3>1, <3>2 DEF PlayedInv, MatchIDs
  <2>3. CASE UNCHANGED seats
    BY <2>1, <2>3 DEF PlayedInv, MatchIDs, Seated
  <2>. QED
    BY <2>1, <2>2, <2>3
<1>2. ASSUME UNCHANGED <<seats, round, matchID, roundNo, scores, played>> PROVE PlayedInv'
  BY <1>2 DEF PlayedInv, Seated, MatchIDs
<1>3. ASSUME NEW g \in Guests, GetReady(g) PROVE PlayedInv'
  <2>1. UNCHANGED <<seats, round, matchID, played>>
        /\ \/ scores' = NoScores /\ roundNo' = 0
           \/ UNCHANGED <<scores, roundNo>>
    BY <1>3 DEF GetReady, ForgetMatch
  <2>. QED
    BY <2>1 DEF PlayedInv, Seated, MatchIDs
<1>4. ASSUME NEW g \in Procs, EndRound(g) PROVE PlayedInv'
  BY <1>4 DEF EndRound, PlayedInv, Seated, MatchIDs
<1>5. ASSUME NEW g \in Procs, Score(g) PROVE PlayedInv'
  BY <1>5, ScoreKeepsPlayed
<1>6. ASSUME NEW g \in Procs, Start(g) PROVE PlayedInv'
  <2>1. CASE OpenRound(g)
    BY <1>6, <2>1, OpenKeepsPlayed DEF Start
  <2>2. CASE UNCHANGED <<roomVars, dbVars, played>>
    BY <2>2, PlayedStays
  <2>. QED
    BY <1>6, <2>1, <2>2 DEF Start
<1>7. ASSUME NEW g \in Procs, Aside(g) PROVE PlayedInv'
  BY <1>7, HandlersWorkElsewhere, PlayedStays DEF Elsewhere
<1>8. ASSUME NEW g \in Procs, Counts(g) PROVE PlayedInv'
  BY <1>2, <1>8, CountingIs
<1>9. (\E g \in Guests : Detach(g)) \/ Elapse \/ UNCHANGED vars => PlayedInv'
  BY <1>2 DEF Detach, Elapse, vars, roomVars
<1>. QED
  BY <1>1, <1>3, <1>4, <1>5, <1>6, <1>7, <1>8, <1>9, StepsAre

-----------------------------------------------------------------------------
(* The bill of a match that somebody won.                                  *)
Paying == {"save", "close", "credit", "losers", "settle"}
Pending(s, j) == s \in Paying /\ j.reached

(* No round of match m is scored any more.                                 *)
Done(m) == m \in 1..matchID /\ (m = matchID => finished \/ roundNo = 0)

Best(p, S, w, m) ==
  /\ w \in S /\ RoundsIn(p, m) # {}
  /\ InMatch(p, w, m) >= TargetScore
  /\ \A g \in S : InMatch(p, g, m) <= InMatch(p, w, m)

Claims ==
  /\ \A g \in Procs : pc[g] \in Paying \ {"save"} => job[g].reached
  /\ \A g \in Procs : Pending(pc[g], job[g]) =>
       Done(job[g].mid) /\ Best(played, Seated, job[g].winner, job[g].mid)
  /\ \A g, h \in Procs : Pending(pc[g], job[g]) /\ Pending(pc[h], job[h]) /\ g # h =>
       job[g].mid # job[h].mid
  /\ \A g \in Procs : pc[g] = "settle" => job[g].losers = Seated \ {job[g].winner}

Bills ==
  /\ \A i \in DOMAIN settled :
       /\ Done(settled[i].mid) /\ Best(played, Seated, settled[i].winner, settled[i].mid)
       /\ settled[i].losers = Seated \ {settled[i].winner}
  /\ \A i, j \in DOMAIN settled : settled[i].mid = settled[j].mid => i = j
  /\ \A i \in DOMAIN settled, g \in Procs :
       Pending(pc[g], job[g]) => settled[i].mid # job[g].mid

Closed ==
  \A r \in closed :
    /\ Done(r.mid)
    /\ \A g \in Procs : Pending(pc[g], job[g]) /\ job[g].mid = r.mid => r.winner = job[g].winner
    /\ \A i \in DOMAIN settled : settled[i].mid = r.mid => r.winner = settled[i].winner

Credits ==
  \A i \in DOMAIN credited :
    credited[i].guests = Seated /\ RoundsIn(played, credited[i].mid) # {}

BillInv == Claims /\ Bills /\ Closed /\ Credits

(* What is done stays done.                                                *)
Kept ==
  /\ \A m : Done(m) => Done(m)'
  /\ \A w, m : Done(m) /\ Best(played, Seated, w, m) => Best(played', Seated', w, m)
  /\ Seated' = Seated \/ played = <<>>
  /\ \A m : RoundsIn(played, m) # {} => RoundsIn(played', m) # {}

LEMMA DoneKept ==
  ASSUME LifeTypes, TableInv, PlayedInv, [Next]_vars, ~Disturbs PROVE Kept
<1>1. matchID \in Nat /\ roundNo \in Nat /\ played \in Seq(RoundRow)
  BY DEF LifeTypes, TypeOK
<1>2. ASSUME UNCHANGED <<seats, played>>, matchID' = matchID,
             finished \/ roundNo = 0 => finished' \/ roundNo' = 0
      PROVE  Kept
  BY <1>2 DEF Kept, Done, Seated
<1>3. ASSUME NEW g \in Guests, Join(g) \/ Attach(g) PROVE Kept
  <2>1. UNCHANGED <<round, matchID, roundNo, finished, played>>
        /\ (matchID = 0 \/ UNCHANGED seats)
    BY <1>3, Arrivals
  <2>2. CASE matchID = 0
    <3>1. played = <<>> /\ \A m : ~Done(m)
      BY <2>2 DEF TableInv, Done
    <3>2. \A m : RoundsIn(played', m) = RoundsIn(played, m)
      BY <2>1
    <3>. QED
      BY <3>1, <3>2 DEF Kept
  <2>3. CASE UNCHANGED seats
    BY <1>2, <2>1, <2>3
  <2>. QED
    BY <2>1, <2>2, <2>3
<1>4. ASSUME NEW x \in Procs, OpenRound(x), pc[x] = "start"
      PROVE  Kept
  <2>1. /\ ~finished /\ roundNo' = roundNo + 1
        /\ matchID' = (IF roundNo = 0 THEN matchID + 1 ELSE matchID)
        /\ UNCHANGED <<seats, finished, played>>
    BY <1>4, OpensFresh
  <2>2. ASSUME NEW m, Done(m) PROVE Done(m)'
    <3>1. m \in 1..matchID /\ (m = matchID => roundNo = 0)
      BY <2>1, <2>2 DEF Done
    <3>2. m \in 1..matchID' /\ m # matchID'
      BY <1>1, <2>1, <3>1
    <3>. QED
      BY <3>2 DEF Done
  <2>. QED
    BY <2>1, <2>2 DEF Kept, Seated
<1>5. ASSUME NEW g \in Procs, Score(g) PROVE Kept
  <2>1. PICK points \in [Seated -> Points] :
          /\ pc[g] = "score" /\ finished' = (finished \/ Reached(Added(points)))
          /\ played' = Append(played, RowOf(points)) /\ RowOf(points) \in RoundRow
          /\ UNCHANGED <<seats, matchID, roundNo>>
    BY <1>5, ScoreIs
  <2>2. round = "over" /\ ~finished /\ roundNo # 0
    BY <1>1, <2>1 DEF TableInv
  <2>3. ~Done(matchID) /\ \A m : Done(m) => Done(m)'
    BY <2>1, <2>2 DEF Done
  <2>4. RowOf(points).mid = matchID
    BY DEF RowOf
  <2>5. \A m : m # matchID =>
          /\ RoundsIn(played', m) = RoundsIn(played, m)
          /\ \A h : InMatch(played', h, m) = InMatch(played, h, m)
    BY <1>1, <2>1, <2>4, OneMoreRound
  <2>6. RoundsIn(played', matchID) # {}
    BY <1>1, <2>1, <2>4, OneMoreRound
  <2>7. Seated' = Seated
    BY <2>1 DEF Seated
  <2>8. ASSUME NEW w, NEW m, Done(m), Best(played, Seated, w, m)
        PROVE  Best(played', Seated', w, m)
    <3>1. m # matchID
      BY <2>3, <2>8
    <3>. QED
      BY <2>5, <2>7, <2>8, <3>1 DEF Best
  <2>. QED
    BY <2>3, <2>5, <2>6, <2>7, <2>8 DEF Kept
<1>6. ASSUME NEW g \in Procs, Start(g) PROVE Kept
  <2>1. CASE OpenRound(g)
    BY <1>4, <1>6, <2>1 DEF Start
  <2>2. CASE UNCHANGED <<roomVars, dbVars, played>>
    BY <1>2, <2>2 DEF roomVars
  <2>. QED
    BY <1>6, <2>1, <2>2 DEF Start
<1>7. ASSUME NEW g \in Guests, Detach(g) \/ GetReady(g) PROVE Kept
  BY <1>2, <1>7 DEF Detach, GetReady, ForgetMatch
<1>8. ASSUME NEW g \in Procs, EndRound(g) \/ Counts(g) PROVE Kept
  BY <1>2, <1>8, CountingIs DEF EndRound
<1>9. ASSUME NEW g \in Procs, Aside(g) PROVE Kept
  BY <1>2, <1>9, HandlersWorkElsewhere DEF Elsewhere, roomVars
<1>10. Elapse \/ UNCHANGED vars => Kept
  BY <1>2 DEF Elapse, vars, roomVars
<1>. QED
  BY <1>3, <1>5, <1>6, <1>7, <1>8, <1>9, <1>10, StepsAre

(* One goroutine goes on, and takes on no claim.                           *)
GoesOn(x) ==
  /\ \A g \in Procs : g # x => pc'[g] = pc[g] /\ job'[g] = job[g]
  /\ x \in Procs =>
       /\ Pending(pc'[x], job'[x]) =>
            /\ Pending(pc[x], job[x])
            /\ job'[x].mid = job[x].mid /\ job'[x].winner = job[x].winner
       /\ pc'[x] \in Paying \ {"save"} => job'[x].reached
       /\ pc'[x] = "settle" => job'[x].losers = Seated' \ {job'[x].winner}

(* No seat changes once there is something to pay.                         *)
LEMMA SeatsStay ==
  ASSUME Kept
  PROVE  \A S, w, m : Best(played, S, w, m) => Seated' = Seated
<1>1. played = <<>> => \A m : RoundsIn(played, m) = {}
  BY DEF RoundsIn
<1>. QED
  BY <1>1 DEF Kept, Best

LEMMA ClaimsStay ==
  ASSUME Kept, Claims, NEW x, GoesOn(x) PROVE Claims'
<1>1. \A g \in Procs : Pending(pc'[g], job'[g]) =>
        /\ Pending(pc[g], job[g])
        /\ job'[g].mid = job[g].mid /\ job'[g].winner = job[g].winner
  BY DEF GoesOn
<1>2. \A g \in Procs : pc'[g] \in Paying \ {"save"} => job'[g].reached
  BY DEF GoesOn, Claims
<1>3. \A g \in Procs : pc'[g] = "settle" => job'[g].losers = Seated' \ {job'[g].winner}
  <2>1. ASSUME NEW g \in Procs, pc'[g] = "settle", g # x
        PROVE  job'[g].losers = Seated' \ {job'[g].winner}
    <3>1. pc[g] = "settle" /\ job'[g] = job[g] /\ job[g].losers = Seated \ {job[g].winner}
      BY <2>1 DEF GoesOn, Claims
    <3>2. Pending(pc[g], job[g])
      BY <3>1 DEF Claims, Pending, Paying
    <3>3. Seated' = Seated
      BY <3>2, SeatsStay DEF Claims
    <3>. QED
      BY <3>1, <3>3
  <2>. QED
    BY <2>1 DEF GoesOn
<1>4. ASSUME NEW g \in Procs, Pending(pc'[g], job'[g]), NEW m, m = job'[g].mid
      PROVE  Done(m)' /\ Best(played', Seated', job'[g].winner, m)
  <2>1. m = job[g].mid /\ job'[g].winner = job[g].winner /\ Pending(pc[g], job[g])
    BY <1>1, <1>4
  <2>2. Done(m) /\ Best(played, Seated, job[g].winner, m)
    BY <2>1 DEF Claims
  <2>. QED
    BY <2>1, <2>2 DEF Kept
<1>5. \A g, h \in Procs : Pending(pc'[g], job'[g]) /\ Pending(pc'[h], job'[h]) /\ g # h =>
        job'[g].mid # job'[h].mid
  BY <1>1 DEF Claims
<1>. QED
  BY <1>2, <1>3, <1>4, <1>5 DEF Claims, Done

LEMMA BillsStay ==
  ASSUME Kept, Bills, NEW x, GoesOn(x), settled' = settled PROVE Bills'
<1>1. \A g \in Procs : Pending(pc'[g], job'[g]) =>
        Pending(pc[g], job[g]) /\ job'[g].mid = job[g].mid
  BY DEF GoesOn
<1>2. ASSUME NEW i \in DOMAIN settled, NEW m, m = settled[i].mid
      PROVE  /\ Done(m)' /\ Best(played', Seated', settled[i].winner, m)
             /\ settled[i].losers = Seated' \ {settled[i].winner}
  <2>1. Done(m) /\ Best(played, Seated, settled[i].winner, m)
        /\ settled[i].losers = Seated \ {settled[i].winner}
    BY <1>2 DEF Bills
  <2>2. Seated' = Seated
    BY <2>1, SeatsStay
  <2>. QED
    BY <2>1, <2>2 DEF Kept
<1>. QED
  BY <1>1, <1>2 DEF Bills, Done

LEMMA ClosedStay ==
  ASSUME Kept, Closed, NEW x, GoesOn(x), settled' = settled, closed' = closed PROVE Closed'
<1>1. \A g \in Procs : Pending(pc'[g], job'[g]) =>
        Pending(pc[g], job[g]) /\ job'[g].mid = job[g].mid /\ job'[g].winner = job[g].winner
  BY DEF GoesOn
<1>2. ASSUME NEW r \in closed, NEW m, m = r.mid PROVE Done(m)'
  BY <1>2 DEF Closed, Kept
<1>. QED
  BY <1>1, <1>2 DEF Closed, Done

LEMMA CreditsStay ==
  ASSUME Kept, Credits, credited' = credited PROVE Credits'
<1>1. played = <<>> => \A m : RoundsIn(played, m) = {}
  BY DEF RoundsIn
<1>2. ASSUME NEW i \in DOMAIN credited
      PROVE  credited[i].guests = Seated' /\ RoundsIn(played', credited[i].mid) # {}
  <2>1. credited[i].guests = Seated /\ RoundsIn(played, credited[i].mid) # {}
    BY DEF Credits
  <2>. QED
    BY <1>1, <2>1 DEF Kept
<1>. QED
  BY <1>2 DEF Credits

LEMMA BillStays ==
  ASSUME Kept, BillInv, NEW x, GoesOn(x), UNCHANGED <<settled, closed, credited>>
  PROVE  BillInv'
BY ClaimsStay, BillsStay, ClosedStay, CreditsStay DEF BillInv

(* Whoever is not about to pay goes on.                                    *)
LEMMA Idles ==
  ASSUME LifeTypes, NEW x \in Procs, NEW s, NEW j, ~Pending(s, j), s \notin Paying \ {"save"},
         pc' = [pc EXCEPT ![x] = s], job' = [job EXCEPT ![x] = j]
  PROVE  GoesOn(x)
<1>1. /\ pc'[x] = s /\ job'[x] = j
      /\ \A g \in Procs : g # x => pc'[g] = pc[g] /\ job'[g] = job[g]
  BY DEF LifeTypes, TypeOK, Procs
<1>2. s # "settle"
  BY DEF Paying
<1>. QED
  BY <1>1, <1>2 DEF GoesOn

LEMMA Proceeds ==
  ASSUME LifeTypes, NEW x \in Procs, NEW s \in Paying, NEW j, Pending(pc[x], job[x]),
         j.reached, j.mid = job[x].mid, j.winner = job[x].winner,
         s = "settle" => j.losers = Seated' \ {j.winner},
         pc' = [pc EXCEPT ![x] = s], job' = [job EXCEPT ![x] = j]
  PROVE  GoesOn(x)
<1>1. /\ pc'[x] = s /\ job'[x] = j
      /\ \A g \in Procs : g # x => pc'[g] = pc[g] /\ job'[g] = job[g]
  BY DEF LifeTypes, TypeOK, Procs
<1>. QED
  BY <1>1 DEF GoesOn

(* A guest past the round's rows has a claim.                              *)
LEMMA HasClaim ==
  ASSUME BillInv, NEW g \in Procs, pc[g] \in Paying \ {"save"}
  PROVE  /\ Pending(pc[g], job[g]) /\ job[g].reached
         /\ Done(job[g].mid) /\ Best(played, Seated, job[g].winner, job[g].mid)
BY DEF BillInv, Claims, Pending

LEMMA RoundBills ==
  ASSUME LifeTypes, BillInv, Kept, NEW g \in Procs, Score(g),
         PlayedInv, PlayedInv', TableInv, LifeTypes'
  PROVE  BillInv'
<1>1. PICK points \in [Seated -> Points] :
        /\ pc[g] = "score" /\ scores' = Added(points)
        /\ finished' = (finished \/ Reached(Added(points)))
        /\ played' = Append(played, RowOf(points)) /\ RowOf(points) \in RoundRow
        /\ UNCHANGED <<seats, matchID, roundNo, dbVars>>
        /\ pc' = [pc EXCEPT ![g] = "save"]
        /\ job' = [job EXCEPT ![g] = VerdictOf(points)]
  BY ScoreIs
<1>. DEFINE v == VerdictOf(points)
            sc == Added(points)
<1>2. v.mid = matchID /\ v.reached = Reached(sc) /\ v.winner = Winner(sc)
  BY DEF VerdictOf
<1>. HIDE DEF v
<1>3. UNCHANGED <<settled, closed, credited>>
  BY <1>1 DEF dbVars
<1>4. CASE ~v.reached
  <2>1. ~Pending("save", v)
    BY <1>4 DEF Pending
  <2>2. GoesOn(g)
    BY <1>1, <2>1, Idles DEF v
  <2>. QED
    BY <1>3, <2>2, BillStays
<1>5. CASE v.reached
  <2>1. round = "over" /\ roundNo > 0 /\ matchID \in Nat /\ matchID > 0 /\ ~finished
    BY <1>1 DEF TableInv, LifeTypes, TypeOK
  <2>2. ~Done(matchID) /\ \A m : m = matchID => Done(m)'
    <3>1. finished' /\ matchID' = matchID /\ roundNo # 0
      <4>1. roundNo # 0 /\ matchID' = matchID
        BY <1>1, <2>1 DEF LifeTypes, TypeOK
      <4>2. Reached(sc)
        BY <1>2, <1>5
      <4>. QED
        BY <1>1, <4>1, <4>2
    <3>. QED
      BY <2>1, <3>1 DEF Done
  <2>3. Seated' = Seated /\ sc \in [Guests -> Int]
    BY <1>1 DEF Seated, LifeTypes, TypeOK
  <2>4. Best(played', Seated', v.winner, matchID)
    <3>1. PICK h \in Seated : sc[h] >= TargetScore
      BY <1>2, <1>5 DEF Reached
    <3>2. v.winner \in Seated /\ \A p \in Seated : sc[p] <= sc[v.winner]
      BY <1>2, <3>1, <2>3, RowsAre, WinnerIs
    <3>3. \A p \in Guests : sc[p] = InMatch(played', p, matchID)
      BY <1>1, <2>1 DEF PlayedInv
    <3>4. sc[v.winner] >= TargetScore
      BY <2>3, <3>1, <3>2, RowsAre, Givens
    <3>5. RoundsIn(played', matchID) # {}
      <4>1. RowOf(points).mid = matchID /\ played \in Seq(RoundRow)
        BY DEF RowOf, LifeTypes
      <4>. QED
        BY <1>1, <4>1, OneMoreRound
    <3>. QED
      BY <2>3, <3>2, <3>3, <3>4, <3>5, RowsAre DEF Best
  <2>5. /\ pc'[g] = "save" /\ job'[g] = v
        /\ \A h \in Procs : h # g => pc'[h] = pc[h] /\ job'[h] = job[h]
    BY <1>1 DEF LifeTypes, TypeOK, v
  <2>6. Claims'
    <3>1. ASSUME NEW h \in Procs, Pending(pc'[h], job'[h]), NEW m, m = job'[h].mid
          PROVE  Done(m)' /\ Best(played', Seated', job'[h].winner, m)
      <4>1. CASE h = g
        <5>1. m = matchID /\ job'[h].winner = v.winner
          BY <1>2, <2>5, <3>1, <4>1
        <5>. QED
          BY <2>2, <2>4, <5>1
      <4>2. CASE h # g
        <5>1. Done(m) /\ Best(played, Seated, job[h].winner, m)
          BY <2>5, <3>1, <4>2 DEF BillInv, Claims
        <5>. QED
          BY <2>5, <4>2, <5>1 DEF Kept
      <4>. QED
        BY <4>1, <4>2
    <3>2. \A h \in Procs : h # g /\ Pending(pc'[h], job'[h]) => job'[h].mid # matchID
      BY <2>2, <2>5 DEF BillInv, Claims
    <3>3. \A h \in Procs : pc'[h] \in Paying \ {"save"} => job'[h].reached
      BY <2>5 DEF BillInv, Claims
    <3>4. \A h \in Procs : pc'[h] = "settle" => job'[h].losers = Seated' \ {job'[h].winner}
      BY <2>3, <2>5 DEF BillInv, Claims
    <3>5. \A h, k \in Procs : Pending(pc'[h], job'[h]) /\ Pending(pc'[k], job'[k]) /\ h # k =>
            job'[h].mid # job'[k].mid
      BY <1>2, <2>5, <3>2 DEF BillInv, Claims
    <3>. QED
      BY <3>1, <3>3, <3>4, <3>5 DEF Claims, Done
  <2>7. Bills'
    <3>1. ASSUME NEW i \in DOMAIN settled, NEW m, m = settled[i].mid
          PROVE  /\ Done(m)' /\ Best(played', Seated', settled[i].winner, m)
                 /\ settled[i].losers = Seated' \ {settled[i].winner} /\ m # matchID
      BY <2>2, <2>3, <3>1 DEF BillInv, Bills, Kept
    <3>2. \A i \in DOMAIN settled, h \in Procs :
            Pending(pc'[h], job'[h]) => settled[i].mid # job'[h].mid
      BY <1>2, <2>5, <3>1 DEF BillInv, Bills
    <3>. QED
      BY <1>3, <3>1, <3>2 DEF BillInv, Bills, Done
  <2>8. Closed'
    <3>1. ASSUME NEW r \in closed, NEW m, m = r.mid PROVE Done(m)' /\ m # matchID
      BY <2>2, <3>1 DEF BillInv, Closed, Kept
    <3>2. \A r \in closed, h \in Procs :
            Pending(pc'[h], job'[h]) /\ job'[h].mid = r.mid => r.winner = job'[h].winner
      BY <1>2, <2>5, <3>1 DEF BillInv, Closed
    <3>. QED
      BY <1>3, <3>1, <3>2 DEF BillInv, Closed, Done
  <2>. QED
    BY <1>3, <2>6, <2>7, <2>8, CreditsStay DEF BillInv
<1>. QED
  BY <1>4, <1>5

LEMMA SaveBills ==
  ASSUME LifeTypes, BillInv, Kept, NEW g \in Procs, SaveRound(g) PROVE BillInv'
<1>1. /\ pc[g] = "save" /\ UNCHANGED <<settled, closed, credited>>
      /\ \/ /\ pc' = [pc EXCEPT ![g] = "close"] /\ UNCHANGED job /\ job[g].reached
         \/ pc' = [pc EXCEPT ![g] = "idle"] /\ job' = [job EXCEPT ![g] = NoJob]
  BY DEF SaveRound, Return, Goto, With
<1>2. CASE pc' = [pc EXCEPT ![g] = "close"] /\ UNCHANGED job /\ job[g].reached
  <2>1. Pending(pc[g], job[g]) /\ job' = [job EXCEPT ![g] = job[g]]
    BY <1>1, <1>2, RowsAre DEF Pending, Paying
  <2>2. GoesOn(g)
    BY <1>2, <2>1, Proceeds DEF Paying
  <2>. QED
    BY <1>1, <2>2, BillStays
<1>3. CASE pc' = [pc EXCEPT ![g] = "idle"] /\ job' = [job EXCEPT ![g] = NoJob]
  <2>1. GoesOn(g)
    BY <1>3, Idles DEF Pending, Paying, Procs
  <2>. QED
    BY <1>1, <2>1, BillStays
<1>. QED
  BY <1>1, <1>2, <1>3

LEMMA FinishBills ==
  ASSUME LifeTypes, BillInv, Kept, NEW g \in Procs, FinishMatch(g) PROVE BillInv'
<1>. DEFINE row == [mid |-> job[g].mid, winner |-> job[g].winner]
<1>1. /\ pc[g] = "close" /\ pc' = [pc EXCEPT ![g] = "credit"] /\ UNCHANGED job
      /\ closed' \in {closed, {r \in closed : r.mid # row.mid} \cup {row}}
      /\ UNCHANGED <<settled, credited>>
  BY DEF FinishMatch, Goto, Tries
<1>2. Pending(pc[g], job[g]) /\ job[g].reached /\ Done(job[g].mid)
  BY <1>1, HasClaim DEF Paying
<1>3. row.mid = job[g].mid /\ row.winner = job[g].winner /\ job' = [job EXCEPT ![g] = job[g]]
  BY <1>1, RowsAre
<1>. HIDE DEF row
<1>4. GoesOn(g)
  BY <1>1, <1>2, <1>3, Proceeds DEF Paying
<1>5. \A h \in Procs : Pending(pc'[h], job'[h]) => Pending(pc[h], job[h])
  BY <1>4 DEF GoesOn
<1>6. ASSUME NEW r \in closed', NEW m, m = r.mid
      PROVE  /\ Done(m)'
             /\ \A h \in Procs : Pending(pc'[h], job'[h]) /\ job'[h].mid = m => r.winner = job'[h].winner
             /\ \A i \in DOMAIN settled : settled[i].mid = m => r.winner = settled[i].winner
  <2>1. CASE r \in closed
    <3>1. /\ Done(m)
          /\ \A h \in Procs : Pending(pc[h], job[h]) /\ job[h].mid = m => r.winner = job[h].winner
          /\ \A i \in DOMAIN settled : settled[i].mid = m => r.winner = settled[i].winner
      BY <1>6, <2>1 DEF BillInv, Closed
    <3>. QED
      BY <1>1, <1>5, <3>1 DEF Kept
  <2>2. CASE r = row
    <3>1. m = job[g].mid /\ r.winner = job[g].winner
      BY <1>3, <1>6, <2>2
    <3>2. Done(m)'
      BY <1>2, <3>1 DEF Kept
    <3>3. \A h \in Procs : Pending(pc'[h], job'[h]) /\ job'[h].mid = m => h = g
      BY <1>1, <1>2, <1>5, <3>1 DEF BillInv, Claims
    <3>4. \A i \in DOMAIN settled : settled[i].mid # m
      BY <1>2, <3>1 DEF BillInv, Bills
    <3>. QED
      BY <1>1, <3>1, <3>2, <3>3, <3>4
  <2>. QED
    BY <1>1, <1>6, <2>1, <2>2
<1>7. Closed'
  BY <1>1, <1>6 DEF Closed, Done
<1>. QED
  BY <1>1, <1>4, <1>7, ClaimsStay, BillsStay, CreditsStay DEF BillInv

LEMMA CreditBills ==
  ASSUME LifeTypes, BillInv, Kept, NEW g \in Procs, CreditPlayers(g) PROVE BillInv'
<1>. DEFINE row == [mid |-> job[g].mid, guests |-> Seated]
<1>1. /\ pc[g] = "credit" /\ pc' = [pc EXCEPT ![g] = "losers"] /\ UNCHANGED job
      /\ credited' = Append(credited, row)
      /\ UNCHANGED <<seats, played, settled, closed>>
  BY DEF CreditPlayers, Goto, roomVars
<1>2. /\ Pending(pc[g], job[g]) /\ job[g].reached
      /\ RoundsIn(played, job[g].mid) # {}
  BY <1>1, HasClaim DEF Paying, Best
<1>3. row.mid = job[g].mid /\ row.guests = Seated /\ job' = [job EXCEPT ![g] = job[g]]
  BY <1>1, RowsAre
<1>. HIDE DEF row
<1>4. GoesOn(g)
  BY <1>1, <1>2, <1>3, Proceeds DEF Paying
<1>5. Seated' = Seated /\ played' = played
  BY <1>1 DEF Seated
<1>6. Credits'
  <2>1. \A i \in DOMAIN credited' : (i \in DOMAIN credited /\ credited'[i] = credited[i]) \/ credited'[i] = row
    BY <1>1, RowsAre
  <2>2. ASSUME NEW i \in DOMAIN credited'
        PROVE  credited'[i].guests = Seated' /\ RoundsIn(played', credited'[i].mid) # {}
    BY <1>2, <1>3, <1>5, <2>1 DEF BillInv, Credits
  <2>. QED
    BY <2>2 DEF Credits
<1>. QED
  BY <1>1, <1>4, <1>6, ClaimsStay, BillsStay, ClosedStay DEF BillInv

LEMMA LosersBills ==
  ASSUME LifeTypes, BillInv, Kept, NEW g \in Procs, ReadLosers(g) PROVE BillInv'
<1>. DEFINE j == [job[g] EXCEPT !.losers = Seated \ {job[g].winner}]
<1>1. /\ pc[g] = "losers"
      /\ \/ pc' = [pc EXCEPT ![g] = "settle"] /\ job' = [job EXCEPT ![g] = j]
         \/ pc' = [pc EXCEPT ![g] = "idle"] /\ job' = [job EXCEPT ![g] = NoJob]
      /\ UNCHANGED <<roomVars, dbVars, played>>
  BY DEF ReadLosers, Return, Goto, With
<1>2. Pending(pc[g], job[g]) /\ job[g].reached /\ job[g] \in Verdict
  BY <1>1, HasClaim, JobIs DEF Paying, AfterScore
<1>3. /\ j.losers = Seated \ {job[g].winner} /\ j.winner = job[g].winner /\ j.mid = job[g].mid
      /\ j.reached = job[g].reached
  BY <1>2 DEF Verdict
<1>4. j.reached
  BY <1>2, <1>3
<1>. HIDE DEF j
<1>5. UNCHANGED <<settled, closed, credited>> /\ Seated' = Seated
  BY <1>1 DEF dbVars, roomVars, Seated
<1>6. GoesOn(g)
  <2>1. CASE pc' = [pc EXCEPT ![g] = "settle"] /\ job' = [job EXCEPT ![g] = j]
    BY <1>2, <1>3, <1>4, <1>5, <2>1, Proceeds DEF Paying
  <2>2. CASE pc' = [pc EXCEPT ![g] = "idle"] /\ job' = [job EXCEPT ![g] = NoJob]
    BY <2>2, Idles DEF Pending, Paying, Procs
  <2>. QED
    BY <1>1, <2>1, <2>2
<1>. QED
  BY <1>5, <1>6, BillStays

LEMMA SettleBills ==
  ASSUME LifeTypes, BillInv, Kept, NEW g \in Procs, Settle(g) PROVE BillInv'
<1>. DEFINE bill == [mid |-> job[g].mid, winner |-> job[g].winner, losers |-> job[g].losers]
<1>1. /\ pc[g] = "settle"
      /\ \/ /\ settled' = Append(settled, bill) /\ pc' = [pc EXCEPT ![g] = "record"]
            /\ UNCHANGED job
         \/ /\ pc' = [pc EXCEPT ![g] = "idle"] /\ job' = [job EXCEPT ![g] = NoJob]
            /\ UNCHANGED settled
      /\ UNCHANGED <<seats, closed, credited>>
  BY DEF Settle, Return, Goto, With, roomVars
<1>2. /\ Pending(pc[g], job[g]) /\ Done(job[g].mid)
      /\ Best(played, Seated, job[g].winner, job[g].mid)
      /\ job[g].losers = Seated \ {job[g].winner}
  BY <1>1, HasClaim DEF Paying, BillInv, Claims
<1>3. /\ bill.mid = job[g].mid /\ bill.winner = job[g].winner /\ bill.losers = job[g].losers
      /\ job = [job EXCEPT ![g] = job[g]] /\ Seated' = Seated
  BY <1>1, RowsAre DEF Seated
<1>. HIDE DEF bill
<1>4. CASE /\ pc' = [pc EXCEPT ![g] = "idle"] /\ job' = [job EXCEPT ![g] = NoJob]
           /\ UNCHANGED settled
  <2>1. GoesOn(g)
    BY <1>4, Idles DEF Pending, Paying, Procs
  <2>. QED
    BY <1>1, <1>4, <2>1, BillStays
<1>5. CASE /\ settled' = Append(settled, bill) /\ pc' = [pc EXCEPT ![g] = "record"]
           /\ UNCHANGED job
  <2>1. job' = [job EXCEPT ![g] = job[g]]
    BY <1>3, <1>5
  <2>2. GoesOn(g)
    BY <1>5, <2>1, Idles DEF Pending, Paying, Procs
  <2>. DEFINE n == Len(settled) + 1
  <2>3. /\ DOMAIN settled' = DOMAIN settled \cup {n} /\ n \notin DOMAIN settled
        /\ settled'[n] = bill /\ \A i \in DOMAIN settled : settled'[i] = settled[i]
    BY <1>5, RowsAre
  <2>. HIDE DEF n
  <2>4. pc'[g] = "record" /\ ~Pending(pc'[g], job'[g])
    BY <1>5, RowsAre DEF Pending, Paying, Procs
  <2>5. \A h \in Procs : Pending(pc'[h], job'[h]) =>
          /\ h # g /\ Pending(pc[h], job[h])
          /\ job'[h].mid = job[h].mid /\ job'[h].winner = job[h].winner
    BY <2>2, <2>4 DEF GoesOn
  <2>6. /\ \A i \in DOMAIN settled : settled[i].mid # bill.mid
        /\ \A h \in Procs : Pending(pc'[h], job'[h]) => job'[h].mid # bill.mid
    BY <1>2, <1>3, <2>5 DEF BillInv, Bills, Claims
  <2>7. Bills'
    <3>1. ASSUME NEW i \in DOMAIN settled', NEW m, m = settled'[i].mid
          PROVE  /\ Done(m)' /\ Best(played', Seated', settled'[i].winner, m)
                 /\ settled'[i].losers = Seated' \ {settled'[i].winner}
                 /\ \A h \in Procs : Pending(pc'[h], job'[h]) => m # job'[h].mid
      <4>1. CASE i = n
        BY <1>2, <1>3, <2>3, <2>6, <3>1, <4>1 DEF Kept
      <4>2. CASE i # n
        <5>1. i \in DOMAIN settled /\ settled'[i] = settled[i]
          BY <2>3, <4>2
        <5>2. /\ Done(m) /\ Best(played, Seated, settled[i].winner, m)
              /\ settled[i].losers = Seated \ {settled[i].winner}
              /\ \A h \in Procs : Pending(pc[h], job[h]) => m # job[h].mid
          BY <3>1, <5>1 DEF BillInv, Bills
        <5>. QED
          BY <1>3, <2>5, <5>1, <5>2 DEF Kept
      <4>. QED
        BY <4>1, <4>2
    <3>2. \A i, k \in DOMAIN settled' : settled'[i].mid = settled'[k].mid => i = k
      BY <2>3, <2>6 DEF BillInv, Bills
    <3>. QED
      BY <3>1, <3>2 DEF Bills, Done
  <2>8. Closed'
    <3>1. ASSUME NEW r \in closed, NEW m, m = r.mid
          PROVE  /\ Done(m)'
                 /\ \A h \in Procs : Pending(pc'[h], job'[h]) /\ job'[h].mid = m
                      => r.winner = job'[h].winner
                 /\ \A i \in DOMAIN settled' : settled'[i].mid = m => r.winner = settled'[i].winner
      <4>1. /\ Done(m)
            /\ \A h \in Procs : Pending(pc[h], job[h]) /\ job[h].mid = m => r.winner = job[h].winner
            /\ \A i \in DOMAIN settled : settled[i].mid = m => r.winner = settled[i].winner
        BY <3>1 DEF BillInv, Closed
      <4>2. bill.mid = m => r.winner = bill.winner
        BY <1>2, <1>3, <4>1
      <4>. QED
        BY <2>3, <2>5, <4>1, <4>2 DEF Kept
    <3>. QED
      BY <1>1, <3>1 DEF Closed, Done
  <2>. QED
    BY <1>1, <2>2, <2>7, <2>8, ClaimsStay, CreditsStay DEF BillInv
<1>. QED
  BY <1>1, <1>4, <1>5

LEMMA BillStep ==
  ASSUME LifeTypes, LifeTypes', TableInv, PlayedInv, PlayedInv', BillInv, [Next]_vars, ~Disturbs
  PROVE  BillInv'
<1>1. Kept
  BY DoneKept
<1>2. ASSUME UNCHANGED <<pc, job, settled, closed, credited>> PROVE BillInv'
  <2>1. PICK x : x \notin Procs
    BY NoSetContainsEverything
  <2>2. GoesOn(x)
    BY <1>2, <2>1 DEF GoesOn
  <2>. QED
    BY <1>1, <1>2, <2>2, BillStays
<1>3. ASSUME NEW x \in Procs,
             NEW s \in {"idle", "evaluate", "arm", "cancel", "start", "score", "create"}, NEW j,
             pc' = [pc EXCEPT ![x] = s], job' = [job EXCEPT ![x] = j],
             UNCHANGED <<settled, closed, credited>>
      PROVE  BillInv'
  <2>1. GoesOn(x)
    BY <1>3, Idles DEF Pending, Paying
  <2>. QED
    BY <1>1, <1>3, <2>1, BillStays
<1>4. ASSUME NEW x \in Procs,
             NEW s \in {"idle", "evaluate", "arm", "cancel", "start", "score", "create"},
             pc' = [pc EXCEPT ![x] = s], UNCHANGED <<job, settled, closed, credited>>
      PROVE  BillInv'
  <2>1. job' = [job EXCEPT ![x] = job[x]]
    BY <1>4, RowsAre
  <2>. QED
    BY <1>3, <1>4, <2>1
<1>5. ASSUME NEW g \in Guests, Join(g) \/ Attach(g) PROVE BillInv'
  <2>1. /\ UNCHANGED <<job, settled, closed, credited>>
        /\ UNCHANGED pc \/ pc' = [pc EXCEPT ![g] = "evaluate"]
    BY <1>5 DEF Join, Attach, Goto, dbVars
  <2>. QED
    BY <1>2, <1>4, <2>1 DEF Procs, Movers
<1>6. ASSUME NEW g \in Guests, GetReady(g) PROVE BillInv'
  <2>1. PICK s \in {"idle", "start"} :
          UNCHANGED <<job, settled, closed, credited>> /\ pc' = [pc EXCEPT ![g] = s]
    BY <1>6 DEF GetReady, dbVars
  <2>. QED
    BY <1>4, <2>1 DEF Procs, Movers
<1>7. Elapse => BillInv'
  BY <1>4 DEF Elapse, Goto, dbVars, Procs
<1>8. ASSUME NEW g \in Procs, EndRound(g) \/ Counts(g) \/ EvaluateCountdown(g) PROVE BillInv'
  <2>1. /\ UNCHANGED <<job, settled, closed, credited>>
        /\ \E s \in {"score", "idle", "arm", "cancel"} : pc' = [pc EXCEPT ![g] = s]
    BY <1>8 DEF EndRound, Counts, ArmCountdown, CancelCountdown, EvaluateCountdown, Goto, dbVars
  <2>. QED
    BY <1>4, <2>1
<1>9. ASSUME NEW g \in Procs, Start(g) PROVE BillInv'
  <2>1. CASE OpenRound(g)
    <3>1. /\ UNCHANGED <<settled, closed, credited>>
          /\ \E s \in {"idle", "create"} : \E j :
               pc' = [pc EXCEPT ![g] = s] /\ job' = [job EXCEPT ![g] = j]
      BY <1>9, <2>1, OpensFresh DEF dbVars, Start
    <3>. QED
      BY <1>3, <3>1
  <2>2. CASE Return(g) /\ UNCHANGED <<roomVars, dbVars, played>>
    BY <1>3, <2>2 DEF Return, Goto, With, dbVars
  <2>. QED
    BY <1>9, <2>1, <2>2 DEF Start
<1>10. ASSUME NEW g \in Procs, CreateMatch(g) \/ RecordSettlement(g) PROVE BillInv'
  BY <1>3, <1>10 DEF CreateMatch, RecordSettlement, Return, Goto, With
<1>11. ASSUME NEW g \in Procs,
              Score(g) \/ SaveRound(g) \/ FinishMatch(g) \/ CreditPlayers(g) \/ ReadLosers(g)
                \/ Settle(g)
       PROVE  BillInv'
  BY <1>1, <1>11, RoundBills, SaveBills, FinishBills, CreditBills, LosersBills, SettleBills
<1>12. (\E g \in Guests : Detach(g)) \/ UNCHANGED vars => BillInv'
  BY <1>2 DEF Detach, vars, dbVars
<1>. QED
  BY <1>5, <1>6, <1>7, <1>8, <1>9, <1>10, <1>11, <1>12, StepsAre DEF Aside

-----------------------------------------------------------------------------
(* A quiet room.                                                           *)
QuietInv == MoneyInv /\ TableInv /\ PlayedInv /\ BillInv

LEMMA QuietStart == Init => QuietInv
<1>1. SUFFICES ASSUME Init PROVE QuietInv
  OBVIOUS
<1>2. MoneyInv
  BY <1>1, LifeStart
<1>3. TableInv
  BY <1>1 DEF Init, TableInv, Procs
<1>4. PlayedInv
  <2>1. played = <<>> /\ matchID = 0 /\ roundNo = 0 /\ scores = NoScores
    BY <1>1 DEF Init
  <2>2. DOMAIN played = {} /\ MatchIDs = {}
    BY <2>1 DEF MatchIDs
  <2>. QED
    BY <2>1, <2>2 DEF PlayedInv
<1>5. BillInv
  <2>1. /\ closed = {} /\ settled = <<>> /\ credited = <<>>
        /\ \A g \in Procs : pc[g] = "idle"
    BY <1>1 DEF Init
  <2>2. DOMAIN settled = {} /\ DOMAIN credited = {}
    BY <2>1
  <2>3. \A g \in Procs : pc[g] \notin Paying /\ pc[g] # "settle"
    BY <2>1 DEF Paying
  <2>. QED
    BY <2>1, <2>2, <2>3 DEF BillInv, Claims, Bills, Closed, Credits, Pending
<1>. QED
  BY <1>2, <1>3, <1>4, <1>5 DEF QuietInv

LEMMA QuietStep ==
  ASSUME QuietInv, [Next]_vars, ~Disturbs PROVE QuietInv'
<1>1. MoneyInv' /\ LifeTypes /\ LifeTypes'
  BY LifeStep DEF QuietInv, MoneyInv
<1>2. TableInv' /\ PlayedInv'
  BY <1>1, TableStep, PlayedStep DEF QuietInv
<1>. QED
  BY <1>1, <1>2, BillStep DEF QuietInv

(* A step of a quiet room disturbs nothing, nor does a stutter.            *)
LEMMA QuietSteps == ASSUME [Next /\ ~Disturbs]_vars PROVE [Next]_vars /\ ~Disturbs
BY DEF Disturbs, Joins, ArmsLate, vars, roomVars

LEMMA QuietAlways == QuietSpec => []QuietInv
<1>1. QuietInv /\ [Next /\ ~Disturbs]_vars => QuietInv'
  BY QuietStep, QuietSteps
<1>. QED
  BY <1>1, QuietStart, PTL DEF QuietSpec

LEMMA LastIs ==
  ASSUME NEW n \in Nat, NEW S, S \subseteq 1..n, S # {}
  PROVE  \E i \in S : \A j \in S : j <= i
<1>. DEFINE F == {T \in SUBSET S : T = {} \/ \E i \in T : \A j \in T : j <= i}
<1>1. IsFiniteSet(S)
  <2>1. IsFiniteSet(1..n)
    BY FS_Interval
  <2>. QED
    BY <2>1, FS_Subset
<1>2. {} \in F
  OBVIOUS
<1>3. ASSUME NEW T \in SUBSET S, T # {}, T \ {Pick(T)} \in F PROVE T \in F
  <2>. DEFINE p == Pick(T)
              R == T \ {p}
  <2>1. p \in T /\ \A i \in T : i \in Int
    BY <1>3, PickIs
  <2>. HIDE DEF p
  <2>2. CASE R = {}
    <3>1. \A j \in T : j <= p
      BY <2>1, <2>2
    <3>. QED
      BY <2>1, <3>1
  <2>3. CASE R # {}
    <3>1. PICK i \in R : \A j \in R : j <= i
      BY <1>3, <2>3 DEF p
    <3>2. \A j \in T : j <= (IF p <= i THEN i ELSE p)
      BY <2>1, <3>1
    <3>. QED
      BY <2>1, <3>1, <3>2
  <2>. QED
    BY <2>2, <2>3
<1>. HIDE DEF F
<1>4. S \in F
  BY <1>1, <1>2, <1>3, Grows
<1>. QED
  BY <1>4 DEF F

(* A match that somebody won was played by everybody seated.               *)
LEMMA PlayedToIs ==
  ASSUME LifeTypes, PlayedInv, NEW m, RoundsIn(played, m) # {} PROVE PlayedTo(m) = Seated
<1>1. played \in Seq(RoundRow)
  BY DEF LifeTypes
<1>2. RoundsOf(m) = RoundsIn(played, m) /\ RoundsOf(m) \subseteq 1..Len(played) /\ Len(played) \in Nat
  BY <1>1, RoundsAre DEF RoundsOf, RoundsIn
<1>3. \E i \in RoundsOf(m) : \A j \in RoundsOf(m) : j <= i
  BY <1>2, LastIs
<1>. DEFINE last == CHOOSE i \in RoundsOf(m) : \A j \in RoundsOf(m) : j <= i
<1>4. last \in DOMAIN played
  BY <1>1, <1>2, <1>3, RoundsAre
<1>. QED
  BY <1>4 DEF PlayedInv, PlayedTo, PlayersOf

(* The running scores of the room are the sums of the rounds of its match: *)
(* nothing of an earlier match, nothing lost (handleReady, startRound,     *)
(* finishRound).                                                           *)
THEOREM RoundsAddUp == QuietSpec => []ScoresAddUp
<1>1. QuietInv => ScoresAddUp
  <2>1. SUFFICES ASSUME QuietInv, roundNo > 0, NEW g \in Seated
                 PROVE  scores[g] = Total(g, matchID)
    BY DEF ScoresAddUp
  <2>2. g \in Guests /\ played \in Seq(RoundRow)
    BY <2>1, RowsAre DEF QuietInv, MoneyInv, LifeTypes
  <2>. QED
    BY <2>1, <2>2, TotalIs DEF QuietInv, PlayedInv
<1>. QED
  BY <1>1, QuietAlways, PTL

(* The rounds of every match are numbered from 1 without a gap, each once  *)
(* (startRound).                                                           *)
THEOREM RoundsCountUp == QuietSpec => []RoundsNumbered
<1>1. QuietInv => RoundsNumbered
  <2>1. SUFFICES ASSUME QuietInv, NEW m \in MatchIDs
                 PROVE  {played[i].no : i \in RoundsOf(m)} = 1..Cardinality(RoundsOf(m))
    BY DEF RoundsNumbered
  <2>. QED
    BY <2>1, TotalIs DEF QuietInv, MoneyInv, LifeTypes, PlayedInv, Numbered
<1>. QED
  BY <1>1, QuietAlways, PTL

(* No match is settled twice, whichever handlers run at once (finishRound, *)
(* SettleMatch).                                                           *)
THEOREM MatchesPayOnce == QuietSpec => []SettledOnce
<1>1. QuietInv => SettledOnce
  BY DEF QuietInv, BillInv, Bills, SettledOnce
<1>. QED
  BY <1>1, QuietAlways, PTL

(* Whoever is paid reached the target and did best, and is the winner in   *)
(* the match's row (finishRound, FinishMatch).                             *)
THEOREM TheBestIsPaid == QuietSpec => []WinnerIsBest
<1>1. QuietInv => WinnerIsBest
  <2>1. SUFFICES ASSUME QuietInv, NEW i \in DOMAIN settled, NEW s, s = settled[i]
                 PROVE  /\ Total(s.winner, s.mid) >= TargetScore
                        /\ \A l \in s.losers : Total(l, s.mid) <= Total(s.winner, s.mid)
                        /\ \A r \in closed : r.mid = s.mid => r.winner = s.winner
    BY DEF WinnerIsBest
  <2>2. Best(played, Seated, s.winner, s.mid) /\ s.losers = Seated \ {s.winner}
    BY <2>1 DEF QuietInv, BillInv, Bills
  <2>3. played \in Seq(RoundRow) /\ \A g, m : Total(g, m) = InMatch(played, g, m)
    BY <2>1, TotalIs DEF QuietInv, MoneyInv, LifeTypes
  <2>. QED
    BY <2>1, <2>2, <2>3 DEF QuietInv, BillInv, Closed, Best
<1>. QED
  BY <1>1, QuietAlways, PTL

(* A match is paid by, and credited to, those who played it (finishRound,  *)
(* IncrementMissions, SettleMatch).                                        *)
THEOREM ThePlayersPay == QuietSpec => []OnlyPlayersSettle
<1>1. QuietInv => OnlyPlayersSettle
  <2>1. SUFFICES ASSUME QuietInv PROVE OnlyPlayersSettle
    OBVIOUS
  <2>2. \A m : RoundsIn(played, m) # {} => PlayedTo(m) = Seated
    BY <2>1, PlayedToIs DEF QuietInv, MoneyInv
  <2>3. \A i \in DOMAIN settled :
          settled[i].losers \cup {settled[i].winner} = PlayedTo(settled[i].mid)
    BY <2>1, <2>2 DEF QuietInv, BillInv, Bills, Best
  <2>4. \A i \in DOMAIN credited : credited[i].guests = PlayedTo(credited[i].mid)
    BY <2>1, <2>2 DEF QuietInv, BillInv, Credits
  <2>. QED
    BY <2>3, <2>4 DEF OnlyPlayersSettle
<1>. QED
  BY <1>1, QuietAlways, PTL

-----------------------------------------------------------------------------
(* A match is played by at least as many as it takes to start one, and     *)
(* nobody takes two seats.                                                 *)
EnoughInv ==
  /\ \A i, k \in DOMAIN seats : seats[i] = seats[k] => i = k
  /\ matchID > 0 => Len(seats) >= MinPlayers
  /\ \A g \in Procs : pc[g] = "start" => Len(seats) >= MinPlayers

LEMMA SeatTypes ==
  ASSUME LifeTypes
  PROVE  /\ seats \in Seq(Guests) /\ Len(seats) \in Nat /\ matchID \in Nat
         /\ Len(seats) <= MaxPlayers /\ pc \in [Procs -> Steps] /\ Guests \subseteq Procs
BY SeatsAre DEF LifeTypes, TypeOK, Procs, Movers

(* Seats and connections change by Join, Attach and Detach alone.          *)
LEMMA OthersStay ==
  ASSUME [Next]_vars
  PROVE  \/ \E g \in Guests : Join(g) \/ Attach(g) \/ Detach(g)
         \/ UNCHANGED <<seats, online>>
<1>1. ASSUME NEW g \in Procs, Start(g) PROVE UNCHANGED <<seats, online>>
  BY <1>1 DEF Start, OpenRound, roomVars
<1>2. ASSUME NEW g \in Procs, EndRound(g) \/ Score(g) \/ Counts(g)
      PROVE  UNCHANGED <<seats, online>>
  BY <1>2, CountingIs DEF EndRound, Score
<1>3. ASSUME NEW g \in Procs, Aside(g) PROVE UNCHANGED <<seats, online>>
  BY <1>3, HandlersWorkElsewhere DEF Elsewhere, roomVars
<1>4. (\E g \in Guests : GetReady(g)) \/ Elapse \/ UNCHANGED vars => UNCHANGED <<seats, online>>
  BY DEF GetReady, Elapse, vars, roomVars
<1>. QED
  BY <1>1, <1>2, <1>3, <1>4, StepsAre

LEMMA EnoughElsewhere ==
  ASSUME LifeTypes, EnoughInv, NEW x \in Procs, NEW s, Elsewhere(x, s)
  PROVE  EnoughInv'
<1>1. \A h \in Procs : pc'[h] = "start" => pc[h] = "start"
  BY SeatTypes DEF Elsewhere
<1>. QED
  BY <1>1 DEF Elsewhere, EnoughInv, roomVars

LEMMA EnoughStep ==
  ASSUME LifeTypes, EnoughInv, [Next]_vars PROVE EnoughInv'
<1>. DEFINE full == Len(seats) >= MinPlayers
<1>1. ASSUME NEW g \in Guests, Join(g) \/ Attach(g) PROVE EnoughInv'
  <2>1. matchID' = matchID /\ (UNCHANGED pc \/ pc' = [pc EXCEPT ![g] = "evaluate"])
    BY <1>1 DEF Join, Attach, Goto
  <2>0. \A h \in Procs : pc'[h] = "start" => pc[h] = "start"
    BY <2>1, SeatTypes
  <2>2. CASE UNCHANGED seats
    BY <2>0, <2>1, <2>2 DEF EnoughInv
  <2>3. CASE g \notin Seated /\ seats' = Append(seats, g)
    <3>1. /\ Len(seats') = Len(seats) + 1 /\ DOMAIN seats' = DOMAIN seats \cup {Len(seats) + 1}
          /\ seats'[Len(seats) + 1] = g /\ \A i \in DOMAIN seats : seats'[i] = seats[i]
      BY <2>3, SeatTypes
    <3>2. full => Len(seats') >= MinPlayers
      BY <3>1, SeatTypes, Givens
    <3>3. \A i, k \in DOMAIN seats' : seats'[i] = seats'[k] => i = k
      BY <2>3, <3>1 DEF EnoughInv, Seated
    <3>. QED
      BY <2>0, <2>1, <3>2, <3>3 DEF EnoughInv
  <2>. QED
    BY <1>1, <2>2, <2>3 DEF Join, Attach
<1>2. ASSUME NEW g \in Guests, Detach(g) PROVE EnoughInv'
  BY <1>2 DEF Detach, EnoughInv
<1>3. ASSUME UNCHANGED seats, matchID' > 0 => matchID > 0 \/ full,
             \A h \in Procs : pc'[h] = "start" => pc[h] = "start" \/ full
      PROVE  EnoughInv'
  BY <1>3 DEF EnoughInv
<1>4. ASSUME NEW x \in Procs, NEW s, pc' = [pc EXCEPT ![x] = s], s = "start" => full,
             UNCHANGED seats, matchID' > 0 => matchID > 0 \/ full
      PROVE  EnoughInv'
  <2>1. \A h \in Procs : pc'[h] = "start" => pc[h] = "start" \/ full
    BY <1>4, SeatTypes
  <2>. QED
    BY <1>3, <1>4, <2>1
<1>5. ASSUME NEW g \in Guests, GetReady(g) PROVE EnoughInv'
  <2>1. PICK s \in {"start", "idle"} : pc' = [pc EXCEPT ![g] = s] /\ (s = "start" => full)
    BY <1>5 DEF GetReady
  <2>2. UNCHANGED <<seats, matchID>>
    BY <1>5 DEF GetReady
  <2>. QED
    BY <1>4, <2>1, <2>2, SeatTypes
<1>6. ASSUME NEW x \in Procs, OpenRound(x), full PROVE EnoughInv'
  <2>1. UNCHANGED seats /\ \E s \in {"idle", "create"} : pc' = [pc EXCEPT ![x] = s]
    BY <1>6 DEF OpenRound, Goto, Return
  <2>. QED
    BY <1>4, <1>6, <2>1
<1>8. ASSUME NEW g \in Procs, Start(g) PROVE EnoughInv'
  <2>1. full /\ g \in Procs
    BY <1>8, SeatTypes DEF Start, EnoughInv
  <2>2. CASE OpenRound(g)
    BY <1>6, <2>1, <2>2
  <2>3. CASE Return(g) /\ UNCHANGED <<roomVars, dbVars, played>>
    <3>1. Elsewhere(g, "idle")
      BY <2>3 DEF Elsewhere, Return, Goto
    <3>. QED
      BY <2>1, <3>1, EnoughElsewhere
  <2>. QED
    BY <1>8, <2>2, <2>3 DEF Start
<1>9. Elapse => EnoughInv'
  BY <1>4 DEF Elapse, Goto, roomVars, Procs
<1>10. ASSUME NEW g \in Procs, EndRound(g) \/ Score(g) \/ Counts(g) PROVE EnoughInv'
  <2>1. /\ \E s \in {"score", "save", "idle"} : pc' = [pc EXCEPT ![g] = s]
        /\ UNCHANGED <<seats, matchID>>
    BY <1>10, CountingIs DEF EndRound, Score, Goto
  <2>. QED
    BY <1>4, <2>1
<1>11. ASSUME NEW g \in Procs, Aside(g) PROVE EnoughInv'
  BY <1>11, HandlersWorkElsewhere, EnoughElsewhere
<1>12. UNCHANGED vars => EnoughInv'
  BY <1>3 DEF vars, roomVars
<1>. QED
  BY <1>1, <1>2, <1>5, <1>8, <1>9, <1>10, <1>11, <1>12, StepsAre

LEMMA EnoughStart == Init => EnoughInv
BY DEF Init, EnoughInv, Procs

-----------------------------------------------------------------------------
(* Rooms that nobody can join between rounds: those that start only when   *)
(* they are full, because at least as many must be seated as can be.       *)
StartsFull == MaxPlayers <= MinPlayers

LEMMA NobodyJoins ==
  ASSUME StartsFull, LifeTypes, EnoughInv, [Next]_vars PROVE ~Joins
<1>1. ASSUME NEW g \in Guests, Join(g) \/ Attach(g), seats' # seats PROVE ~(matchID > 0)
  <2>1. Len(seats) < MaxPlayers
    BY <1>1 DEF Join, Attach
  <2>. QED
    BY <2>1, SeatTypes, Givens DEF StartsFull, EnoughInv
<1>2. ASSUME NEW g \in Guests, Detach(g) PROVE UNCHANGED seats
  BY <1>2 DEF Detach
<1>. QED
  BY <1>1, <1>2, OthersStay DEF Joins

(* A room whose matches begin with every seat taken is quiet as long as    *)
(* nobody arms the countdown in a match that is over: Join and Attach find *)
(* no seat to fill.                                                        *)
THEOREM FullRoomsAreQuiet ==
  ASSUME StartsFull PROVE OnTimeSpec => QuietSpec
<1>1. MoneyInv /\ EnoughInv /\ [Next /\ ~ArmsLate]_vars
        => EnoughInv' /\ [Next]_vars /\ [Next /\ ~Disturbs]_vars
  BY EnoughStep, NobodyJoins DEF MoneyInv, Disturbs
<1>2. OnTimeSpec => Runs
  <2>1. [Next /\ ~ArmsLate]_vars => [Next]_vars
    OBVIOUS
  <2>. QED
    BY <2>1, PTL DEF OnTimeSpec, Runs
<1>. QED
  BY <1>1, <1>2, EnoughStart, LifeAlways, PTL DEF OnTimeSpec, QuietSpec

(* The guests of such a room may leave and return, get ready while the     *)
(* last match is being settled and have a clock play for them: the rounds  *)
(* add up, are numbered and paid for as they should, for any number of     *)
(* guests and of clocks' goroutines.                                       *)
COROLLARY FullRoomsAreFair ==
  ASSUME StartsFull
  PROVE  OnTimeSpec =>
           [](ScoresAddUp /\ RoundsNumbered /\ SettledOnce /\ WinnerIsBest /\ OnlyPlayersSettle)
BY FullRoomsAreQuiet, RoundsAddUp, RoundsCountUp, MatchesPayOnce, TheBestIsPaid, ThePlayersPay, PTL

-----------------------------------------------------------------------------
(* What EveryMatchIsPaid needs besides fairness: a match that somebody won *)
(* is paid for, or a goroutine is on its way to do it.                     *)
Won(m) == RoundsIn(played, m) # {} /\ \E g \in Seated : InMatch(played, g, m) >= TargetScore

PaidFor(m) == \E i \in DOMAIN settled : settled[i].mid = m
OnItsWay(m) == \E g \in Procs : Pending(pc[g], job[g]) /\ job[g].mid = m

WonIsOwed == \A m : Won(m) => PaidFor(m) \/ OnItsWay(m)

(* One goroutine goes on, which gives up its claim only when it is paid.   *)
LEMMA ClaimsLast ==
  ASSUME LifeTypes, NEW x \in Procs, NEW s, NEW j,
         pc' = [pc EXCEPT ![x] = s], job' = [job EXCEPT ![x] = j],
         \A i \in DOMAIN settled : i \in DOMAIN settled' /\ settled'[i] = settled[i],
         Pending(pc[x], job[x]) =>
           \/ Pending(s, j) /\ j.mid = job[x].mid
           \/ \E i \in DOMAIN settled' : settled'[i].mid = job[x].mid,
         NEW m, PaidFor(m) \/ OnItsWay(m)
  PROVE  (PaidFor(m) \/ OnItsWay(m))'
<1>1. /\ pc'[x] = s /\ job'[x] = j
      /\ \A g \in Procs : g # x => pc'[g] = pc[g] /\ job'[g] = job[g]
  BY DEF LifeTypes, TypeOK
<1>2. CASE PaidFor(m)
  BY <1>2 DEF PaidFor
<1>3. ASSUME NEW g \in Procs, Pending(pc[g], job[g]), job[g].mid = m
      PROVE  (PaidFor(m) \/ OnItsWay(m))'
  <2>1. CASE g # x
    BY <1>1, <1>3, <2>1 DEF OnItsWay
  <2>2. CASE g = x
    BY <1>1, <1>3, <2>2 DEF OnItsWay, PaidFor
  <2>. QED
    BY <2>1, <2>2
<1>. QED
  BY <1>2, <1>3 DEF OnItsWay

(* Whoever wins a match has a loser to pay him.                            *)
LEMMA SomeoneLoses ==
  ASSUME LifeTypes, EnoughInv, matchID > 0, NEW w PROVE Seated \ {w} # {}
<1>1. Len(seats) >= 2 /\ DOMAIN seats = 1..Len(seats)
  BY SeatTypes, Givens DEF EnoughInv
<1>2. seats[1] \in Seated /\ seats[2] \in Seated /\ seats[1] # seats[2]
  BY <1>1, SeatTypes DEF EnoughInv, Seated
<1>. QED
  BY <1>2

(* A round is scored: who wins a match by it has a claim.                  *)
LEMMA ScoreOwes ==
  ASSUME LifeTypes, TableInv, PlayedInv, NEW g \in Procs, Score(g), NEW m, Won(m)'
  PROVE  Won(m) \/ OnItsWay(m)'
<1>1. PICK points \in [Seated -> Points] :
        /\ pc[g] = "score"
        /\ played' = Append(played, RowOf(points)) /\ RowOf(points) \in RoundRow
        /\ UNCHANGED seats
        /\ pc' = [pc EXCEPT ![g] = "save"]
        /\ job' = [job EXCEPT ![g] = VerdictOf(points)]
  BY ScoreIs
<1>2. /\ matchID \in Nat /\ roundNo \in Nat /\ played \in Seq(RoundRow)
      /\ scores \in [Guests -> Int] /\ Seated \subseteq Guests /\ Seated' = Seated
  BY <1>1, SeatedType DEF LifeTypes, TypeOK, Seated
<1>3. RowOf(points).mid = matchID /\ \A h \in Seated : PointsOf(RowOf(points), h) = points[h]
  BY DEF RowOf, PointsOf
<1>4. CASE m # matchID
  <2>1. /\ RoundsIn(played', m) = RoundsIn(played, m)
        /\ \A h : InMatch(played', h, m) = InMatch(played, h, m)
    BY <1>1, <1>2, <1>3, <1>4, OneMoreRound
  <2>. QED
    BY <1>2, <2>1 DEF Won
<1>5. CASE m = matchID
  <2>1. \A h : InMatch(played', h, m) = InMatch(played, h, m) + PointsOf(RowOf(points), h)
    BY <1>1, <1>2, <1>3, <1>5, OneMoreRound
  <2>2. round = "over" /\ roundNo > 0
    BY <1>1, <1>2 DEF TableInv
  <2>3. \A h \in Guests : scores[h] = InMatch(played, h, m)
    BY <1>5, <2>2 DEF PlayedInv
  <2>4. PICK h \in Seated : InMatch(played', h, m) >= TargetScore
    BY <1>2 DEF Won
  <2>5. Added(points)[h] = scores[h] + points[h]
    BY <1>2 DEF Added
  <2>6. Added(points)[h] >= TargetScore
    BY <1>2, <1>3, <2>1, <2>3, <2>4, <2>5
  <2>7. Reached(Added(points))
    BY <2>6 DEF Reached
  <2>8. pc'[g] = "save" /\ job'[g] = VerdictOf(points)
    BY <1>1, SeatTypes DEF LifeTypes
  <2>. QED
    BY <1>5, <2>7, <2>8 DEF OnItsWay, Pending, Paying, VerdictOf
<1>. QED
  BY <1>4, <1>5

(* A bill is settled whenever the database does not fail.                  *)
LEMMA PaysOff ==
  ASSUME LifeTypes, BillInv, EnoughInv, ~DbMayFail, Bet > 0, NEW g \in Procs,
         SaveRound(g) \/ FinishMatch(g) \/ CreditPlayers(g) \/ ReadLosers(g) \/ Settle(g),
         NEW m, PaidFor(m) \/ OnItsWay(m)
  PROVE  (PaidFor(m) \/ OnItsWay(m))'
<1>1. settled \in Seq(Bill) /\ job = [x \in Procs |-> job[x]]
  BY RowsAre DEF LifeTypes
<1>2. ASSUME NEW s, pc' = [pc EXCEPT ![g] = s], UNCHANGED <<settled, job>>,
             Pending(pc[g], job[g]) => Pending(s, job[g])
      PROVE  (PaidFor(m) \/ OnItsWay(m))'
  <2>1. job' = [job EXCEPT ![g] = job[g]]
    BY <1>1, <1>2
  <2>. QED
    BY <1>1, <1>2, <2>1, ClaimsLast
<1>3. CASE SaveRound(g)
  <2>1. /\ pc[g] = "save" /\ UNCHANGED settled
        /\ IF job[g].reached THEN Goto(g, "close") /\ UNCHANGED job ELSE Return(g)
    BY <1>3 DEF SaveRound
  <2>2. CASE job[g].reached
    BY <1>2, <2>1, <2>2 DEF Goto, Pending, Paying
  <2>3. CASE ~job[g].reached
    BY <1>1, <2>1, <2>3, ClaimsLast DEF Return, Goto, With, Pending
  <2>. QED
    BY <2>2, <2>3
<1>4. CASE FinishMatch(g)
  BY <1>2, <1>4 DEF FinishMatch, Goto, Pending, Paying
<1>5. CASE CreditPlayers(g)
  BY <1>2, <1>5 DEF CreditPlayers, Goto, Pending, Paying
<1>6. CASE ReadLosers(g)
  <2>1. pc[g] = "losers" /\ pc[g] \in Paying \ {"save"} /\ UNCHANGED settled
    BY <1>6 DEF ReadLosers, Paying, dbVars
  <2>2. Pending(pc[g], job[g]) /\ Done(job[g].mid)
    BY <2>1, HasClaim
  <2>3. matchID > 0
    BY <2>2, SeatTypes DEF Done
  <2>4. Seated \ {job[g].winner} # {}
    BY <2>3, SomeoneLoses
  <2>5. /\ pc' = [pc EXCEPT ![g] = "settle"]
        /\ job' = [job EXCEPT ![g] = [job[g] EXCEPT !.losers = Seated \ {job[g].winner}]]
    BY <1>6, <2>4 DEF ReadLosers, Goto, With
  <2>6. PICK j : j = [job[g] EXCEPT !.losers = Seated \ {job[g].winner}]
    OBVIOUS
  <2>7. job[g] \in Verdict
    BY <1>1, <2>1 DEF LifeTypes, Jobs, GoodJob, AfterScore
  <2>8. j.mid = job[g].mid /\ j.reached = job[g].reached
    BY <2>6, <2>7 DEF Verdict
  <2>9. Pending("settle", j)
    BY <2>2, <2>8 DEF Pending, Paying
  <2>. QED
    BY <1>1, <2>1, <2>5, <2>6, <2>8, <2>9, ClaimsLast
<1>7. CASE Settle(g)
  <2>1. PICK b : b = [mid |-> job[g].mid, winner |-> job[g].winner, losers |-> job[g].losers]
    OBVIOUS
  <2>2. settled' = Append(settled, b) /\ pc' = [pc EXCEPT ![g] = "record"] /\ UNCHANGED job
    BY <1>7, <2>1 DEF Settle, Goto
  <2>3. /\ \A i \in DOMAIN settled : i \in DOMAIN settled' /\ settled'[i] = settled[i]
        /\ Len(settled) + 1 \in DOMAIN settled' /\ settled'[Len(settled) + 1] = b
    BY <1>1, <2>2
  <2>4. \E i \in DOMAIN settled' : settled'[i].mid = job[g].mid
    BY <2>1, <2>3
  <2>5. job' = [job EXCEPT ![g] = job[g]]
    BY <1>1, <2>2
  <2>. QED
    BY <1>1, <2>2, <2>3, <2>4, <2>5, ClaimsLast
<1>. QED
  BY <1>3, <1>4, <1>5, <1>6, <1>7

(* Whoever has no claim leaves the others theirs.                          *)
LEMMA OthersOwe ==
  ASSUME LifeTypes, [Next]_vars, NEW m, PaidFor(m) \/ OnItsWay(m)
  PROVE  \/ (PaidFor(m) \/ OnItsWay(m))'
         \/ \E g \in Procs : SaveRound(g) \/ FinishMatch(g) \/ CreditPlayers(g)
                              \/ ReadLosers(g) \/ Settle(g)
<1>. DEFINE goal == (PaidFor(m) \/ OnItsWay(m))'
<1>1. job = [x \in Procs |-> job[x]] /\ Guests \subseteq Procs /\ Timer \in Procs
  BY RowsAre DEF Procs, Movers
<1>2. ASSUME NEW x \in Procs, pc[x] \notin Paying, NEW s, NEW j,
             pc' = [pc EXCEPT ![x] = s], job' = [job EXCEPT ![x] = j], UNCHANGED settled
      PROVE  goal
  <2>1. ~Pending(pc[x], job[x])
    BY <1>2 DEF Pending
  <2>. QED
    BY <1>2, <2>1, ClaimsLast
<1>3. ASSUME NEW g \in Procs, pc[g] \notin Paying, NEW s, pc' = [pc EXCEPT ![g] = s],
             UNCHANGED <<job, settled>>
      PROVE  goal
  <2>1. job' = [job EXCEPT ![g] = job[g]]
    BY <1>1, <1>3
  <2>. QED
    BY <1>2, <1>3, <2>1
<1>4. UNCHANGED <<pc, job, settled>> => goal
  BY DEF PaidFor, OnItsWay
<1>5. ASSUME NEW g \in Guests, Join(g) \/ Attach(g) \/ Detach(g) \/ GetReady(g) PROVE goal
  <2>1. CASE Join(g) \/ Detach(g)
    BY <1>4, <2>1 DEF Join, Detach, dbVars
  <2>2. CASE Attach(g) \/ GetReady(g)
    <3>1. /\ pc[g] = "idle" /\ UNCHANGED <<job, settled>>
          /\ \E s : pc' = [pc EXCEPT ![g] = s]
      BY <2>2 DEF Attach, GetReady, Goto, dbVars
    <3>. QED
      BY <1>1, <1>3, <3>1 DEF Paying
  <2>. QED
    BY <1>5, <2>1, <2>2
<1>6. Elapse => goal
  BY <1>1, <1>3 DEF Elapse, Goto, dbVars, Paying
<1>7. ASSUME NEW g \in Procs, EndRound(g) \/ Counts(g) \/ EvaluateCountdown(g) PROVE goal
  <2>1. /\ pc[g] \in {"idle", "arm", "cancel", "evaluate"} /\ UNCHANGED <<job, settled>>
        /\ \E s : pc' = [pc EXCEPT ![g] = s]
    BY <1>7 DEF EndRound, Counts, ArmCountdown, CancelCountdown, EvaluateCountdown, Goto, dbVars
  <2>. QED
    BY <1>3, <2>1 DEF Paying
<1>8. ASSUME NEW g \in Procs, Start(g) PROVE goal
  <2>1. pc[g] \notin Paying
    BY <1>8 DEF Start, Paying
  <2>2. /\ UNCHANGED settled
        /\ \E s, j : pc' = [pc EXCEPT ![g] = s] /\ job' = [job EXCEPT ![g] = j]
    BY <1>8 DEF Start, OpenRound, Goto, With, Return, dbVars
  <2>. QED
    BY <1>2, <2>1, <2>2
<1>9. ASSUME NEW g \in Procs, CreateMatch(g) \/ RecordSettlement(g) PROVE goal
  <2>1. pc[g] \notin Paying /\ UNCHANGED settled /\ Return(g)
    BY <1>9 DEF CreateMatch, RecordSettlement, Paying
  <2>. QED
    BY <1>2, <2>1 DEF Return, Goto, With
<1>10. ASSUME NEW g \in Procs, Score(g) PROVE goal
  <2>1. /\ pc[g] \notin Paying /\ UNCHANGED settled
        /\ \E j : pc' = [pc EXCEPT ![g] = "save"] /\ job' = [job EXCEPT ![g] = j]
    BY <1>10 DEF Score, Goto, With, Paying, dbVars
  <2>. QED
    BY <1>2, <2>1
<1>11. UNCHANGED vars => goal
  BY <1>4 DEF vars, dbVars
<1>. QED
  BY <1>5, <1>6, <1>7, <1>8, <1>9, <1>10, <1>11, StepsAre DEF Aside

(* Nobody wins a match but by a round that is scored.                      *)
LEMMA OthersWinNothing ==
  ASSUME LifeTypes, Kept, [Next]_vars, NEW m, Won(m)'
  PROVE  Won(m) \/ \E g \in Procs : Score(g)
<1>1. ASSUME UNCHANGED played PROVE Won(m)
  <2>1. RoundsIn(played, m) # {}
    BY <1>1 DEF Won
  <2>2. Seated' = Seated
    BY <2>1 DEF Kept, RoundsIn
  <2>. QED
    BY <1>1, <2>2 DEF Won
<1>2. ASSUME NEW g \in Guests, Join(g) \/ Attach(g) \/ Detach(g) \/ GetReady(g) PROVE Won(m)
  BY <1>1, <1>2 DEF Join, Attach, Detach, GetReady
<1>3. ASSUME NEW g \in Procs, Start(g) \/ EndRound(g) \/ Counts(g) PROVE Won(m)
  BY <1>1, <1>3, CountingIs DEF Start, OpenRound, EndRound
<1>4. ASSUME NEW g \in Procs, Aside(g) PROVE Won(m)
  BY <1>1, <1>4, HandlersWorkElsewhere DEF Elsewhere
<1>5. Elapse \/ UNCHANGED vars => Won(m)
  BY <1>1 DEF Elapse, vars
<1>. QED
  BY <1>2, <1>3, <1>4, <1>5, StepsAre

LEMMA OwedStep ==
  ASSUME ~DbMayFail, Bet > 0, QuietInv, EnoughInv, WonIsOwed, [Next]_vars, ~Disturbs
  PROVE  WonIsOwed'
<1>1. LifeTypes /\ TableInv /\ PlayedInv /\ BillInv
  BY DEF QuietInv, MoneyInv
<1>2. Kept
  BY <1>1, DoneKept
<1>. SUFFICES ASSUME NEW m, Won(m)' PROVE (PaidFor(m) \/ OnItsWay(m))'
  BY DEF WonIsOwed
<1>3. CASE Won(m)
  <2>1. PaidFor(m) \/ OnItsWay(m)
    BY <1>3 DEF WonIsOwed
  <2>. QED
    BY <1>1, <2>1, OthersOwe, PaysOff
<1>4. CASE ~Won(m)
  <2>1. PICK g \in Procs : Score(g)
    BY <1>1, <1>2, <1>4, OthersWinNothing
  <2>. QED
    BY <1>1, <1>4, <2>1, ScoreOwes
<1>. QED
  BY <1>3, <1>4

(* No won match is forgotten: as long as the database does not fail and a  *)
(* bet is set, at any time a match in which somebody reached the target is *)
(* settled, or a goroutine carries its bill (finishRound), whoever drops   *)
(* out and whatever runs at the same time.                                 *)
THEOREM NoMatchIsForgotten ==
  ASSUME ~DbMayFail, Bet > 0
  PROVE  QuietSpec =>
           [](\A m \in MatchIDs :
                RoundsOf(m) # {} /\ (\E g \in PlayedTo(m) : Total(g, m) >= TargetScore)
                  => PaidFor(m) \/ OnItsWay(m))
<1>. DEFINE Goal == \A m \in MatchIDs :
                      RoundsOf(m) # {} /\ (\E g \in PlayedTo(m) : Total(g, m) >= TargetScore)
                        => PaidFor(m) \/ OnItsWay(m)
            OwedInv == QuietInv /\ EnoughInv /\ WonIsOwed
<1>1. Init => OwedInv
  <2>1. Init => WonIsOwed
    BY DEF Init, WonIsOwed, Won, RoundsIn
  <2>. QED
    BY <2>1, QuietStart, EnoughStart
<1>2. OwedInv /\ [Next /\ ~Disturbs]_vars => OwedInv'
  <2>. SUFFICES ASSUME OwedInv, [Next /\ ~Disturbs]_vars PROVE OwedInv'
    OBVIOUS
  <2>1. [Next]_vars /\ ~Disturbs
    BY QuietSteps
  <2>2. LifeTypes
    BY DEF QuietInv, MoneyInv
  <2>. QED
    BY <2>1, <2>2, QuietStep, EnoughStep, OwedStep
<1>3. OwedInv => Goal
  <2>. SUFFICES ASSUME OwedInv, NEW m \in MatchIDs, RoundsOf(m) # {},
                       NEW g \in PlayedTo(m), Total(g, m) >= TargetScore
                PROVE  PaidFor(m) \/ OnItsWay(m)
    OBVIOUS
  <2>1. LifeTypes /\ PlayedInv /\ played \in Seq(RoundRow)
    BY DEF QuietInv, MoneyInv, LifeTypes
  <2>2. RoundsIn(played, m) # {} /\ Total(g, m) = InMatch(played, g, m)
    BY <2>1, TotalIs
  <2>3. PlayedTo(m) = Seated
    BY <2>1, <2>2, PlayedToIs
  <2>. QED
    BY <2>2, <2>3 DEF WonIsOwed, Won
<1>. HIDE DEF OwedInv, Goal
<1>4. QuietSpec => []Goal
  BY <1>1, <1>2, <1>3, PTL DEF QuietSpec
<1>. QED
  BY <1>4 DEF Goal
==================================================================================
