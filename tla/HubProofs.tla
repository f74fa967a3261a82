-------------------------------- MODULE HubProofs --------------------------------
(***************************************************************************)
(* Proofs about the parts around a table: sessions, friendships, the lobby *)
(* and a room's connections, for any number of guests, calls, rooms,       *)
(* stakes, sizes and connections.                                          *)
(***************************************************************************)
EXTENDS MCHub, FiniteSetTheorems, TLAPS

(* Only the chosen part moves.                                             *)
LEMMA OnePartMoves ==
  ASSUME [MCNext]_hubVars
  PROVE  /\ ConnStep \/ UNCHANGED <<connVars, entitled>>
         /\ LobbyNext \/ UNCHANGED lobbyVars
         /\ FriendsNext \/ UNCHANGED friendVars
         /\ SessionsNext \/ UNCHANGED sessionVars
BY DEF MCNext, hubVars

-----------------------------------------------------------------------------
(* Sessions.                                                               *)

(* The copy in Redis outlives the row by less than a lifetime.             *)
SessionInv ==
  /\ day \in Nat \ {0} /\ expires \in Nat /\ cachedUntil \in Nat /\ admitted \in Nat
  /\ resolving \in BOOLEAN
  /\ expires = 0 => cachedUntil = 0 /\ admitted = 0 /\ ~resolving
  /\ expires # 0 => cachedUntil < expires + SessionTTL /\ admitted < expires + SessionTTL
  /\ resolving => day < expires

LEMMA SessionsStep ==
  ASSUME SessionInv, SessionsNext \/ UNCHANGED sessionVars PROVE SessionInv'
<1>. USE SessionsAssumption
<1>1. CASE NextDay
  BY <1>1 DEF NextDay, SessionInv
<1>2. CASE CreateGuest
  BY <1>2 DEF CreateGuest, Cache, SessionInv
<1>3. CASE ResolveCached
  BY <1>3 DEF ResolveCached, SessionInv
<1>4. CASE ResolveStored
  BY <1>4 DEF ResolveStored, SessionInv
<1>5. CASE Repopulate
  <2>1. day < expires /\ resolving' = FALSE /\ UNCHANGED <<day, expires, admitted>>
    BY <1>5 DEF Repopulate, SessionInv
  <2>2. cachedUntil' = cachedUntil \/ cachedUntil' = day + SessionTTL
    BY <1>5 DEF Repopulate, Cache
  <2>3. CASE cachedUntil' = cachedUntil
    BY <2>1, <2>3 DEF SessionInv
  <2>4. CASE cachedUntil' = day + SessionTTL
    <3>1. expires # 0 /\ cachedUntil' \in Nat /\ cachedUntil' < expires + SessionTTL
      BY <2>1, <2>4 DEF SessionInv
    <3>2. resolving' \in BOOLEAN /\ ~resolving'
      BY <2>1, Zenon
    <3>. QED
      BY <2>1, <3>1, <3>2 DEF SessionInv
  <2>. QED
    BY <2>2, <2>3, <2>4
<1>6. CASE LoseCopy
  BY <1>6 DEF LoseCopy, SessionInv
<1>7. CASE UNCHANGED sessionVars
  BY <1>7 DEF sessionVars, SessionInv
<1>. QED
  BY <1>1, <1>2, <1>3, <1>4, <1>5, <1>6, <1>7 DEF SessionsNext

(* A token stops being accepted within one lifetime after its row expired, *)
(* although Redis is asked first and its copy may be written on the row's  *)
(* last day (session.go).                                                  *)
THEOREM SessionsComeToAnEnd == MCSpec => []SessionsEnd
<1>1. MCInit => SessionInv
  <2>1. MCInit => SessionsInit
    BY DEF MCInit
  <2>2. ASSUME SessionsInit PROVE SessionInv
    <3>1. resolving \in BOOLEAN /\ ~resolving
      BY <2>2, Zenon DEF SessionsInit
    <3>. QED
      BY <2>2, <3>1 DEF SessionsInit, SessionInv
  <2>. QED
    BY <2>1, <2>2
<1>2. SessionInv /\ [MCNext]_hubVars => SessionInv'
  BY OnePartMoves, SessionsStep
<1>3. SessionInv => SessionsEnd
  BY DEF SessionInv, SessionsEnd
<1>. QED
  BY <1>1, <1>2, <1>3, PTL DEF MCSpec, hubVars

-----------------------------------------------------------------------------
(* Friendships.                                                            *)

Call == {NoCall} \cup
  [at: {"friends?", "reverse?", "insert", "accept"}, from: Guests, to: Guests]

(* A call acts for somebody who consented; one that accepts, for two.      *)
ConsentInv ==
  /\ call \in [Callers -> Call]
  /\ pending \subseteq Guests \X Guests /\ pending \subseteq consented
  /\ friends \subseteq Guests \X Guests /\ friends \subseteq consented
  /\ \A g, h \in Guests : <<g, h>> \in friends => <<h, g>> \in friends
  /\ \A k \in Callers :
       /\ call[k].at # "none" => <<call[k].from, call[k].to>> \in consented
       /\ call[k].at = "accept" => <<call[k].to, call[k].from>> \in consented

LEMMA FriendsStep ==
  ASSUME ConsentInv, FriendsNext \/ UNCHANGED friendVars PROVE ConsentInv'
<1>1. NoCall \in Call /\ NoCall.at = "none"
  BY DEF Call, NoCall
<1>2. ASSUME NEW k \in Callers, NEW g \in Guests, NEW h \in Guests, SendFriendRequest(k, g, h)
      PROVE  ConsentInv'
  BY <1>2 DEF SendFriendRequest, ConsentInv, Call
<1>3. ASSUME NEW k \in Callers, NEW g \in Guests, NEW h \in Guests, AcceptFriendRequest(k, g, h)
      PROVE  ConsentInv'
  BY <1>3 DEF AcceptFriendRequest, ConsentInv, Call
<1>4. ASSUME NEW k \in Callers, call[k].at # "none", call' = [call EXCEPT ![k] = NoCall],
             UNCHANGED consented, pending' \subseteq pending \cup Pair(k),
             \/ friends' = friends
             \/ friends' = friends \cup Pair(k) /\ call[k].at = "accept",
             pending' \subseteq consented
      PROVE  ConsentInv'
  <2>1. call[k] \in Call /\ call[k] # NoCall
    BY <1>1, <1>4 DEF ConsentInv
  <2>2. call[k].from \in Guests /\ call[k].to \in Guests
    BY <2>1 DEF Call
  <2>3. call' \in [Callers -> Call]
    BY <1>1, <1>4 DEF ConsentInv
  <2>4. pending' \subseteq Guests \X Guests /\ friends' \subseteq Guests \X Guests
    BY <1>4, <2>2 DEF ConsentInv, Pair
  <2>5. friends' \subseteq consented
    BY <1>4 DEF ConsentInv, Pair
  <2>6. \A g, h \in Guests : <<g, h>> \in friends' => <<h, g>> \in friends'
    BY <1>4, <2>2 DEF ConsentInv, Pair
  <2>7. ASSUME NEW j \in Callers
        PROVE  /\ call'[j].at # "none" => <<call'[j].from, call'[j].to>> \in consented
               /\ call'[j].at = "accept" => <<call'[j].to, call'[j].from>> \in consented
    BY <1>1, <1>4 DEF ConsentInv
  <2>. QED
    BY <1>4, <2>3, <2>4, <2>5, <2>6, <2>7 DEF ConsentInv
<1>5. ASSUME NEW k \in Callers, NEW at \in {"reverse?", "insert", "accept"},
             call[k].at \in {"friends?", "reverse?"}, Continue(k, at),
             UNCHANGED <<pending, friends, consented>>,
             at = "accept" => ReverseRequest(k)
      PROVE  ConsentInv'
  BY <1>1, <1>5 DEF Continue, ConsentInv, Call, ReverseRequest
<1>6. ASSUME NEW k \in Callers, AlreadyFriends(k) PROVE ConsentInv'
  BY <1>4, <1>5, <1>6 DEF AlreadyFriends, Answer, ConsentInv
<1>7. ASSUME NEW k \in Callers, LookForReverse(k) PROVE ConsentInv'
  BY <1>5, <1>7 DEF LookForReverse
<1>8. ASSUME NEW k \in Callers, InsertRequest(k) PROVE ConsentInv'
  BY <1>4, <1>8 DEF InsertRequest, Answer, ConsentInv, Pair
<1>9. ASSUME NEW k \in Callers, AcceptFriend(k) PROVE ConsentInv'
  BY <1>4, <1>9 DEF AcceptFriend, Answer, ConsentInv
<1>10. CASE UNCHANGED friendVars
  BY <1>10 DEF friendVars, ConsentInv
<1>. QED
  BY <1>2, <1>3, <1>6, <1>7, <1>8, <1>9, <1>10 DEF FriendsNext

LEMMA FriendsAlways == MCSpec => []ConsentInv
<1>1. MCInit => ConsentInv
  BY DEF MCInit, FriendsInit, ConsentInv, Call, NoCall
<1>2. ConsentInv /\ [MCNext]_hubVars => ConsentInv'
  BY OnePartMoves, FriendsStep
<1>. QED
  BY <1>1, <1>2, PTL DEF MCSpec, hubVars

(* However the calls of two guests interleave, a friendship goes both ways *)
(* and both have asked for it or accepted it (friends.go).                 *)
THEOREM FriendshipsAreMutual == MCSpec => []FriendsByConsent
<1>1. ConsentInv => FriendsByConsent
  BY DEF ConsentInv, FriendsByConsent
<1>. QED
  BY <1>1, FriendsAlways, PTL

-----------------------------------------------------------------------------
(* The lobby.                                                              *)

Seating == UNION {[S -> Tiers \cup {NotQuick}] : S \in SUBSET Guests}
Room == [size : Sizes \cup {FullSize}, bet : Tiers \cup {0, DefaultBet},
         locked : BOOLEAN, practice : BOOLEAN, seats : Seating, bots : Nat,
         running : BOOLEAN]
Request ==
  {NoRequest} \cup [at : {"scan"}, bet : Tiers, left : SUBSET Nat]
  \cup [at : {"open"}, bet : Tiers] \cup [at : {"take"}, room : Nat, bet : Tiers]
  \cup [at : {"host", "mark", "practice"}, room : Nat]
  \cup [at : {"bot", "seatBot"}, room : Nat, left : Nat]

(* A table where somebody who asked for this stake may play.               *)
TakesBet(m, asked) == ~m.locked /\ m.bet = (IF m.practice THEN 0 ELSE asked)

SeatsHeld(m) == Cardinality(DOMAIN m.seats) + m.bots

GoodRoom(m, w) ==
  /\ m \in Room
  /\ IsFiniteSet(DOMAIN m.seats)
  /\ SeatsHeld(m) <= m.size
  /\ m.running => SeatsHeld(m) > 1
  /\ \A g \in DOMAIN m.seats :
       m.seats[g] # NotQuick => m.seats[g] <= w[g] /\ TakesBet(m, m.seats[g])

GoodRooms(R, w) ==
  \E n \in Nat : /\ R = [r \in 1..n |-> R[r]]
                 /\ \A r \in 1..n : GoodRoom(R[r], w)

(* What a request remembers from its earlier steps is still so: the wallet *)
(* covers the stake, the rooms exist, and the table it chose suits it or   *)
(* has already seated the guest.                                           *)
GoodRequest(g, q, R, w) ==
  /\ q \in Request
  /\ q.at \in {"scan", "open", "take"} => q.bet <= w[g]
  /\ q.at = "scan" => q.left \subseteq DOMAIN R
  /\ q.at \in {"take", "host", "mark", "practice", "bot", "seatBot"} => q.room \in DOMAIN R
  /\ q.at = "take" => g \in DOMAIN R[q.room].seats \/ TakesBet(R[q.room], q.bet)

LobbyInv ==
  /\ wallet \in [Guests -> Tiers]
  /\ GoodRooms(rooms, wallet)
  /\ request \in [Guests -> Request]
  /\ \A g \in Guests : GoodRequest(g, request[g], rooms, wallet)

(* No step takes a table away, or a guest from it, or makes it unsuitable. *)
Evolves(R, S) ==
  /\ DOMAIN R \subseteq DOMAIN S
  /\ \A r \in DOMAIN R :
       /\ DOMAIN R[r].seats \subseteq DOMAIN S[r].seats
       /\ \A asked \in Tiers : TakesBet(R[r], asked) => TakesBet(S[r], asked)

LEMMA SeatingFacts ==
  /\ \A f \in Seating : /\ DOMAIN f \subseteq Guests
                        /\ f \in [DOMAIN f -> Tiers \cup {NotQuick}]
  /\ \A S \in SUBSET Guests : [S -> Tiers \cup {NotQuick}] \subseteq Seating
BY DEF Seating

LEMMA RequestKept ==
  ASSUME NEW g, NEW q, NEW R, NEW S, NEW w, GoodRequest(g, q, R, w), Evolves(R, S)
  PROVE  GoodRequest(g, q, S, w)
<1>1. q.at = "take" => q.bet \in Tiers
  BY DEF GoodRequest, Request, NoRequest
<1>. QED
  BY <1>1 DEF GoodRequest, Evolves

LEMMA LobbyKept ==
  ASSUME LobbyInv, GoodRooms(rooms', wallet), Evolves(rooms, rooms'), UNCHANGED wallet,
         \/ UNCHANGED request
         \/ \E g \in Guests : \E q : GoodRequest(g, q, rooms', wallet) /\ Proceed(g, q)
  PROVE  LobbyInv'
<1>1. \A g \in Guests : GoodRequest(g, request[g], rooms', wallet)
  BY RequestKept DEF LobbyInv
<1>2. CASE UNCHANGED request
  BY <1>1, <1>2 DEF LobbyInv
<1>3. ASSUME NEW g \in Guests, NEW q, GoodRequest(g, q, rooms', wallet), Proceed(g, q)
      PROVE  LobbyInv'
  <2>1. q \in Request
    BY <1>3 DEF GoodRequest
  <2>2. request' \in [Guests -> Request] /\ request'[g] = q
    BY <1>3, <2>1 DEF LobbyInv, Proceed
  <2>3. \A h \in Guests : h # g => request'[h] = request[h]
    BY <1>3 DEF LobbyInv, Proceed
  <2>. QED
    BY <1>1, <1>3, <2>2, <2>3 DEF LobbyInv
<1>. QED
  BY <1>2, <1>3

LEMMA SameRooms == ASSUME LobbyInv, UNCHANGED <<rooms, wallet>>
                   PROVE  GoodRooms(rooms', wallet) /\ Evolves(rooms, rooms')
BY DEF LobbyInv, Evolves

(* One room changes.                                                       *)
LEMMA RoomChanged ==
  ASSUME LobbyInv, NEW r \in DOMAIN rooms, NEW m, rooms' = [rooms EXCEPT ![r] = m],
         GoodRoom(m, wallet),
         DOMAIN rooms[r].seats \subseteq DOMAIN m.seats,
         \A asked \in Tiers : TakesBet(rooms[r], asked) => TakesBet(m, asked)
  PROVE  GoodRooms(rooms', wallet) /\ Evolves(rooms, rooms')
<1>1. PICK n \in Nat : /\ rooms = [s \in 1..n |-> rooms[s]]
                       /\ \A s \in 1..n : GoodRoom(rooms[s], wallet)
  BY DEF LobbyInv, GoodRooms
<1>2. DOMAIN rooms = 1..n /\ DOMAIN rooms' = 1..n
  BY <1>1
<1>3. rooms'[r] = m /\ \A s \in DOMAIN rooms : s # r => rooms'[s] = rooms[s]
  BY <1>2
<1>4. rooms' = [s \in 1..n |-> rooms'[s]]
  BY <1>2
<1>5. \A s \in 1..n : GoodRoom(rooms'[s], wallet)
  BY <1>1, <1>2, <1>3
<1>. QED
  BY <1>2, <1>3, <1>4, <1>5 DEF GoodRooms, Evolves

LEMMA RoomIsGood == ASSUME LobbyInv, NEW r \in DOMAIN rooms PROVE GoodRoom(rooms[r], wallet)
BY DEF LobbyInv, GoodRooms

(* A guest who sits down suits the table, and there was a place.           *)
LEMMA JoinKeeps ==
  ASSUME LobbyInv, NEW g \in Guests, NEW r \in DOMAIN rooms, NEW knows,
         NEW asked \in Tiers \cup {NotQuick}, JoinWith(g, r, knows, asked),
         asked # NotQuick => /\ asked <= wallet[g]
                             /\ g \in Sitting(r) \/ TakesBet(rooms[r], asked)
  PROVE  GoodRooms(rooms', wallet) /\ Evolves(rooms, rooms')
<1>1. CASE UNCHANGED rooms
  BY <1>1 DEF LobbyInv, Evolves
<1>2. CASE g \notin Sitting(r) /\ HasPlace(r) /\
           rooms' = [rooms EXCEPT ![r].seats =
                       [h \in Sitting(r) \cup {g} |-> IF h = g THEN asked ELSE @[h]]]
  <2>. DEFINE old == rooms[r].seats
              new == [h \in DOMAIN old \cup {g} |-> IF h = g THEN asked ELSE old[h]]
              m == [rooms[r] EXCEPT !.seats = new]
  <2>1. rooms' = [rooms EXCEPT ![r] = m]
    BY <1>2 DEF Sitting
  <2>2. GoodRoom(rooms[r], wallet)
    BY RoomIsGood
  <2>3. rooms[r] \in Room /\ old \in Seating
    BY <2>2 DEF GoodRoom, Room
  <2>4. DOMAIN new = DOMAIN old \cup {g} /\ new \in Seating
    <3>1. DOMAIN old \subseteq Guests /\ old \in [DOMAIN old -> Tiers \cup {NotQuick}]
      BY <2>3, SeatingFacts
    <3>2. new \in [DOMAIN old \cup {g} -> Tiers \cup {NotQuick}]
      BY <3>1
    <3>. QED
      BY <3>1, <3>2, SeatingFacts
  <2>5. m \in Room /\ m.seats = new /\ m.size = rooms[r].size /\ m.bet = rooms[r].bet
        /\ m.bots = rooms[r].bots
    <3>. HIDE DEF new
    <3>. QED
      BY <2>3, <2>4 DEF Room
  <2>6. m.locked = rooms[r].locked /\ m.practice = rooms[r].practice
        /\ m.running = rooms[r].running
    <3>. HIDE DEF new
    <3>. QED
      BY <2>3, <2>4 DEF Room
  <2>7. IsFiniteSet(DOMAIN m.seats) /\ SeatsHeld(m) = SeatsHeld(rooms[r]) + 1 /\ SeatsHeld(rooms[r]) \in Nat
    <3>1. IsFiniteSet(DOMAIN old) /\ g \notin DOMAIN old
      BY <1>2, <2>2 DEF GoodRoom, Sitting
    <3>2. /\ IsFiniteSet(DOMAIN old \cup {g}) /\ Cardinality(DOMAIN old) \in Nat
          /\ Cardinality(DOMAIN old \cup {g}) = Cardinality(DOMAIN old) + 1
      BY <3>1, FS_AddElement, FS_CardinalityType
    <3>3. rooms[r].bots \in Nat
      BY <2>3 DEF Room
    <3>. HIDE DEF m, new
    <3>. QED
      BY <2>4, <2>5, <3>2, <3>3 DEF SeatsHeld
  <2>8. SeatsHeld(rooms[r]) < rooms[r].size /\ ~rooms[r].running
    BY <1>2 DEF HasPlace, Taken, SeatsHeld, Sitting
  <2>9. \A a : TakesBet(m, a) <=> TakesBet(rooms[r], a)
    <3>. HIDE DEF m
    <3>. QED
      BY <2>5, <2>6 DEF TakesBet
  <2>10. ASSUME NEW h \in DOMAIN new, new[h] # NotQuick
         PROVE  new[h] <= wallet[h] /\ TakesBet(m, new[h])
    <3>. HIDE DEF m
    <3>1. CASE h = g
      BY <1>2, <2>9, <2>10, <3>1
    <3>2. CASE h # g
      BY <2>2, <2>9, <2>10, <3>2 DEF GoodRoom
    <3>. QED
      BY <3>1, <3>2
  <2>11. GoodRoom(m, wallet)
    <3>1. rooms[r].size \in Nat
      BY <2>3, LobbyAssumption DEF Room
    <3>. HIDE DEF m, new
    <3>2. SeatsHeld(m) <= m.size /\ ~m.running
      BY <2>5, <2>6, <2>7, <2>8, <3>1
    <3>. QED
      BY <2>5, <2>7, <2>10, <3>2 DEF GoodRoom
  <2>12. DOMAIN old \subseteq DOMAIN m.seats
    BY <2>4, <2>5
  <2>. HIDE DEF m, new
  <2>. QED
    BY <2>1, <2>9, <2>11, <2>12, RoomChanged
<1>. QED
  BY <1>1, <1>2 DEF JoinWith

LEMMA NewRoomIsGood ==
  ASSUME LobbyInv, NEW size \in Sizes \cup {FullSize}, NEW bet \in Tiers \cup {DefaultBet},
         NEW locked \in BOOLEAN
  PROVE  /\ GoodRoom(NewRoom(size, bet, locked), wallet)
         /\ ~locked => TakesBet(NewRoom(size, bet, locked), bet)
<1>. DEFINE m == NewRoom(size, bet, locked)
<1>1. DOMAIN m.seats = {} /\ m.seats \in Seating
  <2>1. [h \in {} |-> NotQuick] \in [{} -> Tiers \cup {NotQuick}]
    OBVIOUS
  <2>. QED
    BY <2>1, SeatingFacts DEF NewRoom
<1>2. m \in Room
  BY <1>1 DEF NewRoom, Room
<1>3. SeatsHeld(m) = 0
  BY <1>1, FS_EmptySet DEF SeatsHeld, NewRoom
<1>4. m.size \in Nat /\ m.size = size
  BY LobbyAssumption DEF NewRoom
<1>5. m.running = FALSE /\ m.practice = FALSE /\ m.locked = locked /\ m.bet = bet
  BY DEF NewRoom
<1>. HIDE DEF m
<1>6. GoodRoom(m, wallet)
  BY <1>1, <1>2, <1>3, <1>4, <1>5, FS_EmptySet DEF GoodRoom
<1>7. ~locked => TakesBet(m, bet)
  BY <1>5 DEF TakesBet
<1>. QED
  BY <1>6, <1>7 DEF m

(* The new room is the last one.                                           *)
LEMMA RegisterKeeps ==
  ASSUME LobbyInv, NEW g \in Guests, NEW room, GoodRoom(room, wallet), NEW next,
         Register(g, room, next)
  PROVE  /\ GoodRooms(rooms', wallet) /\ Evolves(rooms, rooms')
         /\ \E r \in DOMAIN rooms' : /\ r \in Nat /\ rooms'[r] = room
                                     /\ Proceed(g, [next EXCEPT !.room = r])
<1>1. PICK n \in Nat : /\ rooms = [s \in 1..n |-> rooms[s]]
                       /\ \A s \in 1..n : GoodRoom(rooms[s], wallet)
  BY DEF LobbyInv, GoodRooms
<1>2. DOMAIN rooms = 1..n
  BY <1>1
<1>3. Cardinality(DOMAIN rooms) = n
  <2>1. IsFiniteSet(1..n) /\ Cardinality(1..n) = n
    BY FS_Interval
  <2>. QED
    BY <1>2, <2>1
<1>4. /\ rooms' = [s \in 1..(n + 1) |-> IF s = n + 1 THEN room ELSE rooms[s]]
      /\ Proceed(g, [next EXCEPT !.room = n + 1])
  BY <1>3 DEF Register
<1>5. /\ DOMAIN rooms' = 1..(n + 1) /\ rooms'[n + 1] = room
      /\ \A s \in 1..n : s \in DOMAIN rooms' /\ rooms'[s] = rooms[s]
  BY <1>4
<1>6. \A s \in 1..(n + 1) : s = n + 1 \/ s \in 1..n
  OBVIOUS
<1>7. GoodRooms(rooms', wallet)
  <2>1. \A s \in 1..(n + 1) : GoodRoom(rooms'[s], wallet)
    BY <1>1, <1>5, <1>6
  <2>2. rooms' = [s \in 1..(n + 1) |-> rooms'[s]]
    BY <1>4
  <2>3. n + 1 \in Nat
    OBVIOUS
  <2>. QED
    BY <2>1, <2>2, <2>3 DEF GoodRooms
<1>8. Evolves(rooms, rooms')
  BY <1>2, <1>5 DEF Evolves
<1>9. n + 1 \in DOMAIN rooms' /\ n + 1 \in Nat
  BY <1>5
<1>. QED
  BY <1>4, <1>5, <1>7, <1>8, <1>9

LEMMA RequestTyped ==
  ASSUME LobbyInv, NEW g \in Guests
  PROVE  /\ GoodRequest(g, request[g], rooms, wallet)
         /\ request[g] \in Request
         /\ wallet[g] \in Nat
         /\ \A r \in DOMAIN rooms : r \in Nat
         /\ GoodRequest(g, NoRequest, rooms', wallet)
<1>1. \A r \in DOMAIN rooms : r \in Nat
  BY DEF LobbyInv, GoodRooms
<1>2. GoodRequest(g, NoRequest, rooms', wallet)
  BY DEF GoodRequest, Request, NoRequest
<1>. QED
  BY <1>1, <1>2, LobbyAssumption DEF LobbyInv

LEMMA QuickPlaySteps ==
  ASSUME LobbyInv, NEW g \in Guests,
         QuickPlay(g) \/ Scan(g) \/ NoneOpen(g) \/ OpenTable(g) \/ TakeSeat(g)
  PROVE  LobbyInv'
<1>1. CASE QuickPlay(g)
  <2>1. PICK bet \in Tiers : /\ bet <= wallet[g]
                             /\ Proceed(g, [at |-> "scan", bet |-> bet, left |-> DOMAIN rooms])
    BY <1>1 DEF QuickPlay
  <2>2. UNCHANGED <<rooms, wallet>>
    BY <1>1 DEF QuickPlay
  <2>3. GoodRequest(g, [at |-> "scan", bet |-> bet, left |-> DOMAIN rooms], rooms', wallet)
    BY <2>1, <2>2, RequestTyped DEF GoodRequest, Request
  <2>. QED
    BY <2>1, <2>2, <2>3, SameRooms, LobbyKept
<1>2. CASE Scan(g)
  <2>1. UNCHANGED <<rooms, wallet>> /\ request[g].at = "scan"
    BY <1>2 DEF Scan
  <2>2. /\ request[g].bet \in Tiers /\ request[g].left \subseteq DOMAIN rooms
        /\ request[g].left \subseteq Nat
        /\ request[g].bet <= wallet[g]
        /\ request[g] \in [at : {"scan"}, bet : Tiers, left : SUBSET Nat]
    BY <2>1, RequestTyped DEF GoodRequest, Request, NoRequest
  <2>3. PICK r \in request[g].left :
          IF OpenAt(r, request[g].bet) \/ g \in Sitting(r)
          THEN Proceed(g, [at |-> "take", room |-> r, bet |-> request[g].bet])
          ELSE Proceed(g, [request[g] EXCEPT !.left = @ \ {r}])
    BY <1>2 DEF Scan
  <2>4. CASE OpenAt(r, request[g].bet) \/ g \in Sitting(r)
    <3>1. OpenAt(r, request[g].bet) => TakesBet(rooms[r], request[g].bet)
      BY DEF OpenAt, TakesBet
    <3>. DEFINE q == [at |-> "take", room |-> r, bet |-> request[g].bet]
    <3>2. q \in Request
      BY <2>2 DEF Request
    <3>3. GoodRequest(g, q, rooms', wallet)
      BY <2>1, <2>2, <2>4, <3>1, <3>2 DEF GoodRequest, Sitting
    <3>. QED
      BY <2>1, <2>3, <2>4, <3>3, SameRooms, LobbyKept
  <2>5. CASE ~(OpenAt(r, request[g].bet) \/ g \in Sitting(r))
    <3>. DEFINE q == [request[g] EXCEPT !.left = @ \ {r}]
    <3>1. q \in [at : {"scan"}, bet : Tiers, left : SUBSET Nat]
          /\ q.bet = request[g].bet /\ q.left = request[g].left \ {r}
      BY <2>2
    <3>2. GoodRequest(g, q, rooms', wallet)
      BY <2>1, <2>2, <3>1 DEF GoodRequest, Request
    <3>. QED
      BY <2>1, <2>3, <2>5, <3>2, SameRooms, LobbyKept
  <2>. QED
    BY <2>4, <2>5
<1>3. CASE NoneOpen(g)
  <2>1. UNCHANGED <<rooms, wallet>> /\ request[g].at = "scan"
        /\ Proceed(g, [at |-> "open", bet |-> request[g].bet])
    BY <1>3 DEF NoneOpen
  <2>2. GoodRequest(g, [at |-> "open", bet |-> request[g].bet], rooms', wallet)
    BY <2>1, RequestTyped DEF GoodRequest, Request, NoRequest
  <2>. QED
    BY <2>1, <2>2, SameRooms, LobbyKept
<1>4. CASE OpenTable(g)
  <2>. DEFINE room == NewRoom(FullSize, request[g].bet, FALSE)
              next == [at |-> "take", room |-> 0, bet |-> request[g].bet]
  <2>1. UNCHANGED wallet /\ request[g].at = "open" /\ Register(g, room, next)
    BY <1>4 DEF OpenTable
  <2>2. request[g].bet \in Tiers /\ request[g].bet <= wallet[g]
    BY <2>1, RequestTyped DEF GoodRequest, Request, NoRequest
  <2>3. GoodRoom(room, wallet) /\ TakesBet(room, request[g].bet)
    BY <2>2, NewRoomIsGood
  <2>. HIDE DEF room
  <2>4. /\ GoodRooms(rooms', wallet) /\ Evolves(rooms, rooms')
        /\ \E r \in DOMAIN rooms' : /\ r \in Nat /\ rooms'[r] = room
                                    /\ Proceed(g, [next EXCEPT !.room = r])
    BY <2>1, <2>3, RegisterKeeps
  <2>5. PICK r \in DOMAIN rooms' : /\ r \in Nat /\ rooms'[r] = room
                                   /\ Proceed(g, [next EXCEPT !.room = r])
    BY <2>4
  <2>6. [next EXCEPT !.room = r] = [at |-> "take", room |-> r, bet |-> request[g].bet]
    OBVIOUS
  <2>7. GoodRequest(g, [at |-> "take", room |-> r, bet |-> request[g].bet], rooms', wallet)
    BY <2>2, <2>3, <2>5 DEF GoodRequest, Request
  <2>. QED
    BY <2>1, <2>4, <2>5, <2>6, <2>7, LobbyKept
<1>5. CASE TakeSeat(g)
  <2>1. /\ UNCHANGED wallet /\ request[g].at = "take" /\ Proceed(g, NoRequest)
        /\ JoinWith(g, request[g].room, FALSE, request[g].bet)
    BY <1>5 DEF TakeSeat
  <2>2. /\ request[g].bet \in Tiers /\ request[g].bet <= wallet[g]
        /\ request[g].room \in DOMAIN rooms
        /\ g \in Sitting(request[g].room) \/ TakesBet(rooms[request[g].room], request[g].bet)
    BY <2>1, RequestTyped DEF GoodRequest, Request, NoRequest, Sitting
  <2>3. GoodRooms(rooms', wallet) /\ Evolves(rooms, rooms')
    BY <2>1, <2>2, JoinKeeps
  <2>. QED
    BY <2>1, <2>3, RequestTyped, LobbyKept
<1>. QED
  BY <1>1, <1>2, <1>3, <1>4, <1>5

LEMMA HostSteps ==
  ASSUME LobbyInv, NEW g \in Guests,
         Create(g) \/ SeatHost(g) \/ JoinRoom(g) \/ AttachSeat(g)
  PROVE  LobbyInv'
<1>1. CASE Create(g)
  <2>1. PICK bet \in Tiers \cup {0}, size \in Sizes, locked \in BOOLEAN :
          Register(g, NewRoom(size, IF bet = 0 THEN DefaultBet ELSE bet, locked),
                   [at |-> "host", room |-> 0])
    BY <1>1 DEF Create
  <2>. DEFINE room == NewRoom(size, IF bet = 0 THEN DefaultBet ELSE bet, locked)
  <2>2. GoodRoom(room, wallet)
    BY NewRoomIsGood
  <2>. HIDE DEF room
  <2>3. Register(g, room, [at |-> "host", room |-> 0]) /\ UNCHANGED wallet
    BY <1>1, <2>1 DEF room, Create
  <2>4. /\ GoodRooms(rooms', wallet) /\ Evolves(rooms, rooms')
        /\ \E r \in DOMAIN rooms' :
             /\ r \in Nat /\ rooms'[r] = room
             /\ Proceed(g, [[at |-> "host", room |-> 0] EXCEPT !.room = r])
    BY <2>2, <2>3, RegisterKeeps
  <2>5. PICK r \in DOMAIN rooms' :
          r \in Nat /\ Proceed(g, [[at |-> "host", room |-> 0] EXCEPT !.room = r])
    BY <2>4
  <2>6. [[at |-> "host", room |-> 0] EXCEPT !.room = r] = [at |-> "host", room |-> r]
    OBVIOUS
  <2>7. GoodRequest(g, [at |-> "host", room |-> r], rooms', wallet)
    BY <2>5 DEF GoodRequest, Request
  <2>. QED
    BY <2>3, <2>4, <2>5, <2>6, <2>7, LobbyKept
<1>2. CASE SeatHost(g)
  <2>1. /\ UNCHANGED wallet /\ request[g].at = "host" /\ Proceed(g, NoRequest)
        /\ JoinWith(g, request[g].room, TRUE, NotQuick)
    BY <1>2 DEF SeatHost
  <2>2. request[g].room \in DOMAIN rooms
    BY <2>1, RequestTyped DEF GoodRequest
  <2>3. GoodRooms(rooms', wallet) /\ Evolves(rooms, rooms')
    BY <2>1, <2>2, JoinKeeps
  <2>. QED
    BY <2>1, <2>3, RequestTyped, LobbyKept
<1>3. CASE JoinRoom(g)
  <2>1. PICK r \in DOMAIN rooms, knows \in BOOLEAN : JoinWith(g, r, knows, NotQuick)
    BY <1>3 DEF JoinRoom
  <2>2. GoodRooms(rooms', wallet) /\ Evolves(rooms, rooms')
    BY <2>1, JoinKeeps
  <2>. QED
    BY <1>3, <2>2, LobbyKept DEF JoinRoom
<1>4. CASE AttachSeat(g)
  <2>1. PICK r \in DOMAIN rooms : JoinWith(g, r, TRUE, NotQuick)
    BY <1>4 DEF AttachSeat
  <2>2. GoodRooms(rooms', wallet) /\ Evolves(rooms, rooms')
    BY <2>1, JoinKeeps
  <2>. QED
    BY <1>4, <2>2, LobbyKept DEF AttachSeat
<1>. QED
  BY <1>1, <1>2, <1>3, <1>4

LEMMA PracticeSteps ==
  ASSUME LobbyInv, NEW g \in Guests, OpenPractice(g) \/ MarkPractice(g) \/ SeatPractice(g)
  PROVE  LobbyInv'
<1>1. CASE OpenPractice(g)
  <2>. DEFINE room == NewRoom(FullSize, DefaultBet, FALSE)
  <2>1. Register(g, room, [at |-> "mark", room |-> 0]) /\ UNCHANGED wallet
    BY <1>1 DEF OpenPractice
  <2>2. GoodRoom(room, wallet)
    BY NewRoomIsGood
  <2>. HIDE DEF room
  <2>3. /\ GoodRooms(rooms', wallet) /\ Evolves(rooms, rooms')
        /\ \E r \in DOMAIN rooms' :
             /\ r \in Nat /\ rooms'[r] = room
             /\ Proceed(g, [[at |-> "mark", room |-> 0] EXCEPT !.room = r])
    BY <2>1, <2>2, RegisterKeeps
  <2>4. PICK r \in DOMAIN rooms' :
          r \in Nat /\ Proceed(g, [[at |-> "mark", room |-> 0] EXCEPT !.room = r])
    BY <2>3
  <2>5. [[at |-> "mark", room |-> 0] EXCEPT !.room = r] = [at |-> "mark", room |-> r]
    OBVIOUS
  <2>6. GoodRequest(g, [at |-> "mark", room |-> r], rooms', wallet)
    BY <2>4 DEF GoodRequest, Request
  <2>. QED
    BY <2>1, <2>3, <2>4, <2>5, <2>6, LobbyKept
<1>2. CASE MarkPractice(g)
  <2>. DEFINE r == request[g].room
              m == [rooms[r] EXCEPT !.practice = TRUE, !.bet = 0]
              q == [request[g] EXCEPT !.at = "practice"]
  <2>1. /\ UNCHANGED wallet /\ request[g].at = "mark" /\ Proceed(g, q)
        /\ rooms' = [rooms EXCEPT ![r].practice = TRUE, ![r].bet = 0]
    BY <1>2 DEF MarkPractice
  <2>2. /\ r \in DOMAIN rooms
        /\ request[g] \in [at : {"host", "mark", "practice"}, room : Nat]
    BY <2>1, RequestTyped DEF GoodRequest, Request, NoRequest
  <2>3. GoodRoom(rooms[r], wallet) /\ rooms[r] \in Room
    BY <2>2, RoomIsGood DEF GoodRoom
  <2>4. rooms' = [rooms EXCEPT ![r] = m]
    BY <2>1, <2>2
  <2>5. m \in Room /\ m.practice = TRUE /\ m.bet = 0 /\ m.seats = rooms[r].seats
        /\ m.size = rooms[r].size /\ m.bots = rooms[r].bots
    BY <2>3 DEF Room
  <2>6. m.locked = rooms[r].locked /\ m.running = rooms[r].running
    BY <2>3 DEF Room
  <2>. HIDE DEF m
  <2>7. \A asked : TakesBet(rooms[r], asked) => TakesBet(m, asked)
    BY <2>5, <2>6 DEF TakesBet
  <2>8. SeatsHeld(m) = SeatsHeld(rooms[r])
    BY <2>5 DEF SeatsHeld
  <2>9. GoodRoom(m, wallet)
    BY <2>3, <2>5, <2>6, <2>7, <2>8 DEF GoodRoom
  <2>10. GoodRooms(rooms', wallet) /\ Evolves(rooms, rooms')
    BY <2>2, <2>4, <2>5, <2>7, <2>9, RoomChanged
  <2>11. q \in [at : {"host", "mark", "practice"}, room : Nat] /\ q.at = "practice" /\ q.room = r
    BY <2>2
  <2>12. GoodRequest(g, q, rooms', wallet)
    BY <2>2, <2>10, <2>11 DEF GoodRequest, Request, Evolves
  <2>. QED
    BY <2>1, <2>10, <2>12, LobbyKept
<1>3. CASE SeatPractice(g)
  <2>. DEFINE r == request[g].room
              q == [at |-> "bot", room |-> r, left |-> PracticeBots]
  <2>1. /\ UNCHANGED wallet /\ request[g].at = "practice"
        /\ JoinWith(g, r, FALSE, NotQuick)
        /\ Proceed(g, q) \/ Proceed(g, NoRequest)
    BY <1>3 DEF SeatPractice
  <2>2. r \in DOMAIN rooms
    BY <2>1, RequestTyped DEF GoodRequest
  <2>3. GoodRooms(rooms', wallet) /\ Evolves(rooms, rooms')
    BY <2>1, <2>2, JoinKeeps
  <2>4. GoodRequest(g, q, rooms', wallet)
    BY <2>2, <2>3, RequestTyped, LobbyAssumption DEF GoodRequest, Request, Evolves
  <2>. QED
    BY <2>1, <2>3, <2>4, RequestTyped, LobbyKept
<1>. QED
  BY <1>1, <1>2, <1>3

(* A bot takes a place only if there is one then.                          *)
LEMMA BotSteps ==
  ASSUME LobbyInv, NEW g \in Guests, AskForBot(g) \/ LookForPlace(g) \/ SeatBot(g)
  PROVE  LobbyInv'
<1>1. CASE AskForBot(g)
  <2>1. PICK r \in DOMAIN rooms : Proceed(g, [at |-> "bot", room |-> r, left |-> 1])
    BY <1>1 DEF AskForBot
  <2>2. UNCHANGED <<rooms, wallet>>
    BY <1>1 DEF AskForBot
  <2>3. GoodRequest(g, [at |-> "bot", room |-> r, left |-> 1], rooms', wallet)
    BY <2>2, RequestTyped DEF GoodRequest, Request
  <2>. QED
    BY <2>1, <2>2, <2>3, SameRooms, LobbyKept
<1>2. CASE LookForPlace(g)
  <2>. DEFINE q == [request[g] EXCEPT !.at = "seatBot", !.left = @ - 1]
  <2>1. UNCHANGED <<rooms, wallet>> /\ request[g].at = "bot"
    BY <1>2 DEF LookForPlace
  <2>2. /\ request[g] \in [at : {"bot", "seatBot"}, room : Nat, left : Nat]
        /\ request[g].room \in DOMAIN rooms
    BY <2>1, RequestTyped DEF GoodRequest, Request, NoRequest
  <2>3. CASE request[g].left > 0 /\ Proceed(g, q)
    <3>1. /\ q \in [at : {"bot", "seatBot"}, room : Nat, left : Nat]
          /\ q.at = "seatBot" /\ q.room = request[g].room
      <4>1. request[g].left \in Nat
        BY <2>2
      <4>2. request[g].left - 1 \in Nat
        BY <2>3, <4>1
      <4>. QED
        BY <2>2, <4>2
    <3>2. GoodRequest(g, q, rooms', wallet)
      BY <2>1, <2>2, <3>1 DEF GoodRequest, Request
    <3>. QED
      BY <2>1, <2>3, <3>2, SameRooms, LobbyKept
  <2>4. CASE Proceed(g, NoRequest)
    BY <2>1, <2>4, RequestTyped, SameRooms, LobbyKept
  <2>. QED
    BY <1>2, <2>3, <2>4 DEF LookForPlace
<1>3. CASE SeatBot(g)
  <2>. DEFINE r == request[g].room
              m == [rooms[r] EXCEPT !.bots = @ + 1]
              q == [request[g] EXCEPT !.at = "bot"]
  <2>1. /\ UNCHANGED wallet /\ request[g].at = "seatBot" /\ Proceed(g, q)
        /\ rooms' = IF HasPlace(r) THEN [rooms EXCEPT ![r].bots = @ + 1] ELSE rooms
    BY <1>3 DEF SeatBot
  <2>2. /\ request[g] \in [at : {"bot", "seatBot"}, room : Nat, left : Nat]
        /\ r \in DOMAIN rooms
    BY <2>1, RequestTyped DEF GoodRequest, Request, NoRequest
  <2>3. GoodRooms(rooms', wallet) /\ Evolves(rooms, rooms')
    <3>1. CASE ~HasPlace(r)
      BY <2>1, <3>1, SameRooms
    <3>2. CASE HasPlace(r)
      <4>1. GoodRoom(rooms[r], wallet) /\ rooms[r] \in Room
        BY <2>2, RoomIsGood DEF GoodRoom
      <4>2. rooms' = [rooms EXCEPT ![r] = m]
        BY <2>1, <2>2, <3>2
      <4>3. m \in Room /\ m.bet = rooms[r].bet /\ m.seats = rooms[r].seats
            /\ m.size = rooms[r].size /\ m.bots = rooms[r].bots + 1
        BY <4>1 DEF Room
      <4>4. m.locked = rooms[r].locked /\ m.running = rooms[r].running
            /\ m.practice = rooms[r].practice
        BY <4>1 DEF Room
      <4>. HIDE DEF m
      <4>5. \A asked : TakesBet(rooms[r], asked) <=> TakesBet(m, asked)
        BY <4>3, <4>4 DEF TakesBet
      <4>6. SeatsHeld(m) = SeatsHeld(rooms[r]) + 1 /\ SeatsHeld(rooms[r]) \in Nat
        <5>1. Cardinality(DOMAIN rooms[r].seats) \in Nat /\ rooms[r].bots \in Nat
          BY <4>1, FS_CardinalityType DEF GoodRoom, Room
        <5>. QED
          BY <4>3, <5>1 DEF SeatsHeld
      <4>7. SeatsHeld(rooms[r]) < rooms[r].size /\ ~rooms[r].running
        BY <3>2 DEF HasPlace, Taken, SeatsHeld, Sitting
      <4>8. SeatsHeld(m) <= m.size /\ ~m.running
        <5>1. rooms[r].size \in Nat
          BY <4>1, LobbyAssumption DEF Room
        <5>. QED
          BY <4>3, <4>4, <4>6, <4>7, <5>1
      <4>9. GoodRoom(m, wallet)
        BY <4>1, <4>3, <4>5, <4>8 DEF GoodRoom
      <4>. QED
        BY <2>2, <4>2, <4>3, <4>5, <4>9, RoomChanged
    <3>. QED
      BY <3>1, <3>2
  <2>4. /\ q \in [at : {"bot", "seatBot"}, room : Nat, left : Nat]
        /\ q.at = "bot" /\ q.room = r
    BY <2>2
  <2>5. GoodRequest(g, q, rooms', wallet)
    BY <2>2, <2>3, <2>4 DEF GoodRequest, Request, Evolves
  <2>. QED
    BY <2>1, <2>3, <2>5, LobbyKept
<1>. QED
  BY <1>1, <1>2, <1>3

LEMMA RoundSteps ==
  ASSUME LobbyInv, NEW r \in DOMAIN rooms, PlayRound(r) PROVE LobbyInv'
<1>. DEFINE m == [rooms[r] EXCEPT !.running = ~@]
<1>1. GoodRoom(rooms[r], wallet) /\ rooms[r] \in Room
  BY RoomIsGood DEF GoodRoom
<1>2. rooms' = [rooms EXCEPT ![r] = m] /\ UNCHANGED <<wallet, request>>
  BY DEF PlayRound
<1>3. m \in Room /\ m.bet = rooms[r].bet /\ m.seats = rooms[r].seats
      /\ m.size = rooms[r].size /\ m.bots = rooms[r].bots
  BY <1>1 DEF Room
<1>4. m.locked = rooms[r].locked /\ m.practice = rooms[r].practice
      /\ m.running = ~rooms[r].running
  BY <1>1 DEF Room
<1>. HIDE DEF m
<1>5. \A asked : TakesBet(rooms[r], asked) <=> TakesBet(m, asked)
  BY <1>3, <1>4 DEF TakesBet
<1>6. SeatsHeld(m) = SeatsHeld(rooms[r])
  BY <1>3 DEF SeatsHeld
<1>7. m.running => SeatsHeld(m) > 1
  BY <1>4, <1>6 DEF PlayRound, Taken, SeatsHeld, Sitting
<1>8. GoodRoom(m, wallet)
  BY <1>1, <1>3, <1>5, <1>6, <1>7 DEF GoodRoom
<1>. QED
  BY <1>2, <1>3, <1>5, <1>8, RoomChanged, LobbyKept

LEMMA LobbyStep ==
  ASSUME LobbyInv, LobbyNext \/ UNCHANGED lobbyVars PROVE LobbyInv'
<1>1. CASE UNCHANGED lobbyVars
  BY <1>1 DEF lobbyVars, LobbyInv
<1>2. CASE LobbyNext
  BY <1>2, QuickPlaySteps, HostSteps, PracticeSteps, BotSteps, RoundSteps DEF LobbyNext
<1>. QED
  BY <1>1, <1>2

LEMMA LobbyStart == MCInit => LobbyInv
<1>1. MCInit => LobbyInit
  BY DEF MCInit
<1>2. ASSUME LobbyInit PROVE LobbyInv
  <2>1. GoodRooms(rooms, wallet)
    BY <1>2 DEF LobbyInit, GoodRooms
  <2>2. wallet \in [Guests -> Tiers] /\ request \in [Guests -> Request]
        /\ \A g \in Guests : request[g] = NoRequest
    BY <1>2 DEF LobbyInit, Request
  <2>. QED
    BY <2>1, <2>2 DEF LobbyInv, GoodRequest, Request, NoRequest
<1>. QED
  BY <1>1, <1>2

LEMMA LobbyAlways == MCSpec => []LobbyInv
<1>1. LobbyInv /\ [MCNext]_hubVars => LobbyInv'
  BY OnePartMoves, LobbyStep
<1>. QED
  BY <1>1, LobbyStart, PTL DEF MCSpec, hubVars

(* Whoever quick play seats plays for no more than a stake asked for that  *)
(* the wallet covers, and in no locked room, although the room is looked   *)
(* up in one step and the seat taken in a later one (Hub.QuickJoin and     *)
(* JoinWith, hub.go).                                                      *)
THEOREM QuickPlayersCanPay == MCSpec => []QuickPlayIsCovered
<1>1. ASSUME LobbyInv PROVE QuickPlayIsCovered
  <2>1. ASSUME NEW r \in DOMAIN rooms, NEW g \in Sitting(r),
               rooms[r].seats[g] # NotQuick
        PROVE  /\ rooms[r].seats[g] <= wallet[g]
               /\ rooms[r].seats[g] \in Nat
               /\ TakesBet(rooms[r], rooms[r].seats[g])
    <3>1. GoodRoom(rooms[r], wallet) /\ g \in DOMAIN rooms[r].seats
      BY <1>1, RoomIsGood DEF Sitting
    <3>2. rooms[r].seats[g] \in Tiers
      BY <2>1, <3>1 DEF GoodRoom, Room, Seating
    <3>. QED
      BY <2>1, <3>1, <3>2, LobbyAssumption DEF GoodRoom
  <2>. QED
    BY <2>1 DEF QuickPlayIsCovered, TakesBet
<1>. QED
  BY <1>1, LobbyAlways, PTL

(* No room ever holds more players than its size, although a free seat is  *)
(* seen in one step and taken in another by guests, hosts, sockets and     *)
(* bots alike, and a round runs with at least two (JoinWith, AddBot and    *)
(* Attach, hub.go).                                                        *)
THEOREM RoomsNeverOverflow == MCSpec => []LobbyTypeOK
<1>1. ASSUME LobbyInv PROVE LobbyTypeOK
  <2>1. wallet \in [Guests -> Tiers] /\ DOMAIN request = Guests
    BY <1>1 DEF LobbyInv
  <2>2. ASSUME NEW r \in DOMAIN rooms
        PROVE  /\ rooms[r] \in Room
               /\ Taken(r) <= rooms[r].size
               /\ rooms[r].running => Taken(r) > 1
    BY <1>1, RoomIsGood DEF GoodRoom, Taken, SeatsHeld, Sitting
  <2>. QED
    BY <2>1, <2>2, Zenon DEF LobbyTypeOK, Room, Seating
<1>. QED
  BY <1>1, LobbyAlways, PTL

-----------------------------------------------------------------------------
(* Connections: who sits at the table, what is sent to whom, and the bot.  *)

Stages == {"free", "idle", "reading", "telling", "copying", "relaying", "detaching",
           "closed", "finishing", "starting", "readying", "moving"}
Afters == {"reading", "idle", "telling", "finishing", "closed"}

LinkTypes ==
  /\ stage \in [Routines -> Stages] /\ after \in [Routines -> Afters]
  /\ relay \in [Routines -> SUBSET Conns]
  /\ owner \in [Conns -> Guests \cup {Nobody}]
  /\ watching \subseteq Conns /\ spectators \subseteq watching
  /\ client \in [Seated -> Conns \cup {Robot, Nobody}]
  /\ Robot \in Seated /\ Seated \subseteq Guests \cup {Robot}
  /\ IsFiniteSet(Seated) /\ Cardinality(Seated) <= TableSize
SightTypes ==
  /\ round \in {"none", "on", "over"} /\ turn \in Seated
  /\ fetching \in {"none", "coins", "telling"}
  /\ plan \in {"none", "ready", "move", "wait"}
  /\ shown \subseteq Conns /\ latest \subseteq Acts \cup {Robot}

(* What a watching connection does, and what it does next.                 *)
WatchStages == {"reading", "copying", "relaying", "detaching", "closed"}

LinkInv ==
  /\ \A c \in Conns : stage[c] = "free" => c \notin watching /\ after[c] = "reading"
  /\ \A c \in watching : stage[c] \in WatchStages /\ after[c] = "reading"
  /\ \A c \in spectators : stage[c] # "closed"
  /\ \A g \in Seated : client[g] \in Conns =>
       /\ owner[client[g]] = g /\ client[g] \notin watching
       /\ stage[client[g]] \notin {"free", "closed"} /\ after[client[g]] # "closed"

EntitledInv ==
  \A c \in entitled :
    /\ c \in Conns /\ owner[c] \in Seated /\ client[owner[c]] = c
    /\ MayDetach(owner[c]) = {c} /\ stage[c] # "detaching"

(* p has still to tell the clients of a change.                            *)
Owes(p) ==
  \/ stage[p] = "telling"
  \/ stage[p] \in {"copying", "relaying"} /\ after[p] = "telling"
  \/ stage[p] = "detaching" /\ p \notin watching
  \/ stage[p] = "starting" /\ round = "none"
Owed == fetching = "telling" \/ \E p \in Routines : Owes(p)

(* Everybody has seen the table as it is.                                  *)
Settled ==
  /\ Players \subseteq shown
  /\ Robot \in latest
  /\ MyMove => plan = "move" \/ \E a \in Acts : stage[a] = "moving" /\ a \in latest
SightInv == up => Owed \/ Settled

ConnInv == LinkTypes /\ SightTypes /\ LinkInv /\ EntitledInv /\ SightInv

-----------------------------------------------------------------------------
(* What a step does to the goroutine that takes it.                        *)
Moves(p, s, t) ==
  /\ s \in Stages /\ t \in Afters
  /\ stage' = [stage EXCEPT ![p] = s]
  /\ after' = [after EXCEPT ![p] = t]

LEMMA Goes ==
  ASSUME LinkTypes, NEW p \in Routines, NEW s, NEW t, Moves(p, s, t)
  PROVE  /\ stage' \in [Routines -> Stages] /\ after' \in [Routines -> Afters]
         /\ stage'[p] = s /\ after'[p] = t
         /\ \A q \in Routines : q # p => stage'[q] = stage[q] /\ after'[q] = after[q]
BY DEF LinkTypes, Moves

LEMMA Tells ==
  ASSUME LinkTypes, NEW p \in Routines, NEW s \in Afters, TellThen(p, s)
  PROVE  Moves(p, "telling", s) /\ relay' = relay
BY DEF LinkTypes, TellThen, Moves, Stages

LEMMA GoesTo ==
  ASSUME LinkTypes, NEW p \in Routines, NEW s \in Stages, Goto(p, s)
  PROVE  Moves(p, s, after[p]) /\ relay' = relay
BY DEF LinkTypes, Goto, Moves

LEMMA Kinds ==
  /\ Conns \subseteq Routines /\ Acts \subseteq Routines /\ Clock \in Routines
  /\ \A a \in Acts : a \notin Conns
  /\ Clock \notin Conns /\ Robot \notin Conns /\ Nobody \notin Conns
  /\ \A p \in Routines : Home(p) \in Afters /\ Home(p) \in Stages /\ Home(p) # "closed"
  /\ \A p \in Conns : Home(p) = "reading"
  /\ \A p \in Routines : p \notin Conns => Home(p) = "idle"
  /\ Afters \subseteq Stages /\ "free" \notin Afters
BY ConnAssumption DEF Routines, Home, Afters, Stages

-----------------------------------------------------------------------------
(* The seats and the spectators.                                           *)

(* A goroutine goes on and no link changes.                                *)
LEMMA LinksKept ==
  ASSUME LinkTypes, LinkInv, NEW p \in Routines, NEW s, NEW t, Moves(p, s, t),
         UNCHANGED links, relay' \in [Routines -> SUBSET Conns],
         p \in Conns => /\ stage[p] # "free" /\ s # "free"
                        /\ s = "closed" => after[p] = "closed"
                        /\ t = "closed" => after[p] = "closed",
         p \in watching => s \in WatchStages /\ t = "reading"
  PROVE  LinkTypes' /\ LinkInv'
<1>1. LinkTypes'
  BY Goes DEF LinkTypes, links, Seated
<1>2. \A c \in Conns : stage'[c] = "free" => c \notin watching' /\ after'[c] = "reading"
  BY Goes, Kinds DEF LinkInv, links
<1>3. \A c \in watching' : stage'[c] \in WatchStages /\ after'[c] = "reading"
  BY Goes, Kinds DEF LinkInv, links, LinkTypes
<1>4. \A c \in spectators' : stage'[c] # "closed"
  BY Goes, Kinds DEF LinkInv, links, LinkTypes
<1>5. ASSUME NEW g \in Seated, client[g] \in Conns
      PROVE  stage'[client[g]] \notin {"free", "closed"} /\ after'[client[g]] # "closed"
  BY <1>5, Goes, Kinds DEF LinkInv
<1>. QED
  BY <1>1, <1>2, <1>3, <1>4, <1>5 DEF LinkInv, links, Seated

LEMMA LinksSame ==
  ASSUME LinkTypes, LinkInv, UNCHANGED <<stage, after, relay, links>>
  PROVE  LinkTypes' /\ LinkInv'
BY DEF LinkTypes, LinkInv, links, Seated

(* A seat's client is cleared by the guest's own connection.               *)
LEMMA SeatCleared ==
  ASSUME LinkTypes, LinkInv, NEW c \in Conns, NEW s, NEW t, Moves(c, s, t),
         c \notin watching, stage[c] # "free", s \notin {"free", "closed"},
         ClearClient(owner[c]), UNCHANGED <<relay, owner, watching, spectators>>
  PROVE  LinkTypes' /\ LinkInv' /\ Seated' = Seated
<1>. DEFINE g == owner[c]
<1>1. client' = IF g \in Seated THEN [client EXCEPT ![g] = Nobody] ELSE client
  BY DEF ClearClient
<1>2. /\ DOMAIN client' = Seated /\ client' \in [Seated -> Conns \cup {Robot, Nobody}]
      /\ \A h \in Seated : h # g => client'[h] = client[h]
      /\ g \in Seated => client'[g] = Nobody
  BY <1>1 DEF LinkTypes
<1>3. Seated' = Seated
  BY <1>2 DEF Seated
<1>4. LinkTypes'
  BY <1>2, <1>3, Goes, Kinds DEF LinkTypes
<1>5. \A d \in Conns : stage'[d] = "free" => d \notin watching' /\ after'[d] = "reading"
  BY Goes, Kinds DEF LinkInv
<1>6. \A d \in watching' : stage'[d] \in WatchStages /\ after'[d] = "reading"
  BY Goes, Kinds DEF LinkInv, LinkTypes
<1>7. \A d \in spectators' : stage'[d] # "closed"
  BY Goes, Kinds DEF LinkInv, LinkTypes
<1>8. ASSUME NEW h \in Seated, client'[h] \in Conns
      PROVE  /\ owner'[client'[h]] = h /\ client'[h] \notin watching'
             /\ stage'[client'[h]] \notin {"free", "closed"} /\ after'[client'[h]] # "closed"
  <2>1. h # g /\ client'[h] = client[h]
    BY <1>2, <1>8, Kinds
  <2>2. client[h] # c
    BY <1>8, <2>1 DEF LinkInv
  <2>. QED
    BY <1>8, <2>1, <2>2, Goes, Kinds DEF LinkInv
<1>. QED
  BY <1>3, <1>4, <1>5, <1>6, <1>7, <1>8 DEF LinkInv

LEMMA AttachLinks ==
  ASSUME LinkTypes, LinkInv, NEW c \in Conns, NEW g \in Guests, Attach(c, g)
  PROVE  LinkTypes' /\ LinkInv' /\ Seated' = Seated \cup {g} /\ Moves(c, "telling", "reading")
<1>1. /\ stage[c] = "free" /\ owner' = [owner EXCEPT ![c] = g] /\ MayAttach(g)
      /\ client' = [h \in Seated \cup {g} |-> IF h = g THEN c ELSE client[h]]
      /\ TellThen(c, "reading") /\ UNCHANGED <<watching, spectators>>
  BY DEF Attach, Opened
<1>2. Moves(c, "telling", "reading") /\ relay' = relay
  BY <1>1, Tells, Kinds DEF Afters
<1>3. /\ Seated' = Seated \cup {g} /\ client' \in [Seated' -> Conns \cup {Robot, Nobody}]
      /\ client'[g] = c /\ \A h \in Seated : h # g => client'[h] = client[h]
  BY <1>1 DEF Seated, LinkTypes
<1>4. IsFiniteSet(Seated') /\ Cardinality(Seated') <= TableSize
  <2>1. CASE g \in Seated
    <3>1. Seated' = Seated
      BY <1>3, <2>1
    <3>. QED
      BY <3>1 DEF LinkTypes
  <2>2. CASE g \notin Seated
    <3>1. Cardinality(Seated) < TableSize /\ IsFiniteSet(Seated)
      BY <1>1, <2>2 DEF MayAttach, LinkTypes
    <3>2. IsFiniteSet(Seated \cup {g}) /\ Cardinality(Seated \cup {g}) = Cardinality(Seated) + 1
      BY <2>2, <3>1, FS_AddElement
    <3>3. Cardinality(Seated) \in Nat
      BY <3>1, FS_CardinalityType
    <3>. QED
      BY <1>3, <3>1, <3>2, <3>3, ConnAssumption
  <2>. QED
    BY <2>1, <2>2
<1>5. owner' \in [Conns -> Guests \cup {Nobody}] /\ owner'[c] = g
      /\ \A d \in Conns : d # c => owner'[d] = owner[d]
  BY <1>1 DEF LinkTypes
<1>6. LinkTypes'
  BY <1>1, <1>2, <1>3, <1>4, <1>5, Goes, Kinds DEF LinkTypes
<1>7. c \notin watching
  BY <1>1 DEF LinkInv
<1>8. \A d \in Conns : stage'[d] = "free" => d \notin watching' /\ after'[d] = "reading"
  BY <1>1, <1>2, Goes, Kinds DEF LinkInv
<1>9. \A d \in watching' : stage'[d] \in WatchStages /\ after'[d] = "reading"
  BY <1>1, <1>2, <1>7, Goes, Kinds DEF LinkInv, LinkTypes
<1>10. \A d \in spectators' : stage'[d] # "closed"
  BY <1>1, <1>2, Goes, Kinds DEF LinkInv, LinkTypes
<1>11. ASSUME NEW h \in Seated', client'[h] \in Conns
       PROVE  /\ owner'[client'[h]] = h /\ client'[h] \notin watching'
              /\ stage'[client'[h]] \notin {"free", "closed"} /\ after'[client'[h]] # "closed"
  <2>1. CASE h = g
    BY <1>1, <1>2, <1>3, <1>5, <1>7, <2>1, Goes, Kinds
  <2>2. CASE h # g
    <3>1. client'[h] = client[h] /\ h \in Seated
      BY <1>3, <2>2
    <3>2. client[h] # c
      BY <1>1, <1>11, <3>1 DEF LinkInv
    <3>. QED
      BY <1>1, <1>2, <1>5, <1>11, <3>1, <3>2, Goes, Kinds DEF LinkInv
  <2>. QED
    BY <2>1, <2>2
<1>. QED
  BY <1>2, <1>3, <1>6, <1>8, <1>9, <1>10, <1>11 DEF LinkInv

(* The new connection is free, so that nobody's seat has it.               *)
LEMMA OpenedLinks ==
  ASSUME LinkTypes, LinkInv, NEW c \in Conns, NEW g \in Guests, Opened(c, g),
         Moves(c, "reading", after[c]), UNCHANGED <<relay, client>>,
         \/ UNCHANGED <<watching, spectators>>
         \/ /\ watching' = watching \cup {c}
            /\ spectators' = {d \in spectators : owner[d] # g} \cup {c}
  PROVE  LinkTypes' /\ LinkInv' /\ Seated' = Seated
<1>1. stage[c] = "free" /\ owner' = [owner EXCEPT ![c] = g] /\ after[c] = "reading"
      /\ c \notin watching
  BY DEF Opened, LinkInv
<1>2. owner' \in [Conns -> Guests \cup {Nobody}] /\ owner'[c] = g
      /\ \A d \in Conns : d # c => owner'[d] = owner[d]
  BY <1>1 DEF LinkTypes
<1>3. watching' \subseteq Conns /\ spectators' \subseteq watching'
      /\ watching' \subseteq watching \cup {c} /\ spectators' \subseteq spectators \cup {c}
      /\ watching \subseteq watching'
  BY DEF LinkTypes
<1>4. Seated' = Seated
  BY DEF Seated
<1>5. LinkTypes'
  BY <1>2, <1>3, <1>4, Goes, Kinds DEF LinkTypes
<1>6. \A d \in Conns : stage'[d] = "free" => d \notin watching' /\ after'[d] = "reading"
  BY <1>1, <1>3, Goes, Kinds DEF LinkInv
<1>7. \A d \in watching' : stage'[d] \in WatchStages /\ after'[d] = "reading"
  BY <1>1, <1>3, Goes, Kinds DEF LinkInv, LinkTypes, WatchStages
<1>8. \A d \in spectators' : stage'[d] # "closed"
  BY <1>1, <1>3, Goes, Kinds DEF LinkInv, LinkTypes
<1>9. ASSUME NEW h \in Seated, client[h] \in Conns
      PROVE  /\ owner'[client[h]] = h /\ client[h] \notin watching'
             /\ stage'[client[h]] \notin {"free", "closed"} /\ after'[client[h]] # "closed"
  <2>1. client[h] # c
    BY <1>1, <1>9 DEF LinkInv
  <2>. QED
    BY <1>2, <1>3, <1>9, <2>1, Goes, Kinds DEF LinkInv
<1>. QED
  BY <1>4, <1>5, <1>6, <1>7, <1>8, <1>9 DEF LinkInv

(* A spectator's connection closes once it was taken off the list.         *)
LEMMA SpectatorLeft ==
  ASSUME LinkTypes, LinkInv, NEW c \in watching, Moves(c, "closed", after[c]),
         spectators' = {d \in spectators : owner[d] # owner[c]},
         UNCHANGED <<relay, client, owner, watching>>
  PROVE  LinkTypes' /\ LinkInv' /\ Seated' = Seated
<1>1. Seated' = Seated
  BY DEF Seated
<1>2. LinkTypes'
  BY <1>1, Goes, Kinds DEF LinkTypes
<1>3. \A d \in Conns : stage'[d] = "free" => d \notin watching' /\ after'[d] = "reading"
  BY Goes, Kinds DEF LinkInv, LinkTypes
<1>4. \A d \in watching' : stage'[d] \in WatchStages /\ after'[d] = "reading"
  BY Goes, Kinds DEF LinkInv, LinkTypes, WatchStages
<1>5. \A d \in spectators' : stage'[d] # "closed"
  BY Goes, Kinds DEF LinkInv, LinkTypes
<1>6. ASSUME NEW h \in Seated, client[h] \in Conns
      PROVE  stage'[client[h]] \notin {"free", "closed"} /\ after'[client[h]] # "closed"
  BY <1>6, Goes, Kinds DEF LinkInv, LinkTypes
<1>. QED
  BY <1>1, <1>2, <1>3, <1>4, <1>5, <1>6 DEF LinkInv

-----------------------------------------------------------------------------
(* What was shown.                                                         *)

LEMMA NowOwed ==
  ASSUME LinkTypes, NEW p \in Routines, NEW s, NEW t, Moves(p, s, t),
         \/ s = "telling"
         \/ s = "copying" /\ t = "telling"
         \/ s = "starting" /\ round' = "none"
  PROVE  SightInv'
BY Goes DEF SightInv, Owed, Owes

(* A step that changes nothing of what is to be seen.                      *)
LEMMA NothingNew ==
  ASSUME LinkTypes, SightInv, NEW p \in Routines, NEW s, NEW t, Moves(p, s, t),
         UNCHANGED <<client, roundVars, sights, fetching, up>>,
         watching \subseteq watching', watching' \subseteq watching \cup {p},
         Owes(p) => Owes(p)', stage[p] = "moving" => p \notin latest
  PROVE  SightInv'
<1>1. UNCHANGED <<client, round, turn, shown, plan, latest, fetching, up>>
  BY DEF roundVars, sights
<1>2. ASSUME NEW q \in Routines, Owes(q) PROVE Owes(q)'
  BY <1>1, <1>2, Goes DEF Owes
<1>3. Owed => Owed'
  BY <1>1, <1>2 DEF Owed
<1>4. Settled => Settled'
  <2>1. Players' = Players /\ MyMove' = MyMove
    BY <1>1 DEF Players, Seated, MyMove
  <2>2. ASSUME NEW a \in Acts, stage[a] = "moving", a \in latest PROVE stage'[a] = "moving"
    BY <2>2, Goes, Kinds
  <2>. QED
    BY <1>1, <2>1, <2>2 DEF Settled
<1>. QED
  BY <1>1, <1>3, <1>4 DEF SightInv

LEMMA AllTold ==
  ASSUME StateFrames, UNCHANGED <<client, round, turn>>
  PROVE  SightInv'
<1>1. Players' = Players /\ MyMove' = MyMove
  BY DEF Players, Seated, MyMove
<1>2. MyMove => plan' = "move"
  BY DEF StateFrames, BotFrame
<1>. QED
  BY <1>1, <1>2 DEF SightInv, Settled, StateFrames

LEMMA TypesTold ==
  ASSUME LinkTypes, SightTypes, StateFrames
  PROVE  /\ shown' \subseteq Conns /\ latest' \subseteq Acts \cup {Robot}
         /\ plan' \in {"none", "ready", "move", "wait"}
BY DEF StateFrames, BotFrame, SightTypes, Players

LEMMA TypesChanged ==
  ASSUME SightTypes, Change
  PROVE  /\ shown' \subseteq Conns /\ latest' \subseteq Acts \cup {Robot}
         /\ plan' \in {"none", "ready", "move", "wait"}
BY DEF Change, SightTypes

-----------------------------------------------------------------------------
(* One step of each kind.                                                  *)
Kept == LinkTypes' /\ SightTypes' /\ LinkInv' /\ SightInv'
Sound == LinkTypes /\ SightTypes /\ LinkInv /\ SightInv

LEMMA TellKeeps ==
  ASSUME Sound, NEW p \in Routines, Tell(p)
  PROVE  Kept /\ UNCHANGED <<client, owner>>
<1>1. /\ stage[p] = "telling" /\ StateFrames /\ UNCHANGED <<relay, links, roundVars, fetching>>
      /\ Moves(p, after[p], Home(p))
  BY Kinds DEF Tell, Moves, Sound, LinkTypes
<1>2. p \notin watching
  BY <1>1 DEF Sound, LinkInv, WatchStages
<1>3. LinkTypes' /\ LinkInv'
  BY <1>1, <1>2, Kinds, LinksKept DEF Sound, LinkTypes
<1>4. SightTypes'
  BY <1>1, TypesTold DEF Sound, SightTypes, roundVars, links, Seated
<1>. QED
  BY <1>1, <1>3, <1>4, AllTold DEF Kept, links, roundVars

LEMMA CopyKeeps ==
  ASSUME Sound, NEW p \in Routines, CopyClients(p)
  PROVE  Kept /\ UNCHANGED <<client, owner>>
<1>1. /\ stage[p] = "copying" /\ UNCHANGED <<after, links, roundVars, sights, fetching, up>>
      /\ Moves(p, "relaying", after[p])
  BY DEF CopyClients, Moves, Sound, LinkTypes, Stages
<1>2. relay' \in [Routines -> SUBSET Conns]
  BY DEF CopyClients, Sound, LinkTypes, Players
<1>3. LinkTypes' /\ LinkInv'
  BY <1>1, <1>2, Kinds, LinksKept DEF Sound, LinkInv, WatchStages
<1>4. SightTypes'
  BY <1>1 DEF Sound, SightTypes, roundVars, sights, links, Seated
<1>5. Owes(p) => Owes(p)'
  BY <1>1, Goes DEF Owes, Sound
<1>. QED
  BY <1>1, <1>3, <1>4, <1>5, NothingNew DEF Kept, Sound, links

LEMMA RelayKeeps ==
  ASSUME Sound, NEW p \in Routines, Relay(p)
  PROVE  Kept /\ UNCHANGED <<client, owner>>
<1>1. /\ stage[p] = "relaying" /\ UNCHANGED <<links, roundVars, sights, fetching, up>>
      /\ Moves(p, after[p], Home(p))
  BY Kinds DEF Relay, Moves, Sound, LinkTypes
<1>2. relay' \in [Routines -> SUBSET Conns]
  BY DEF Relay, Sound, LinkTypes
<1>3. LinkTypes' /\ LinkInv'
  BY <1>1, <1>2, Kinds, LinksKept DEF Sound, LinkTypes, LinkInv, WatchStages
<1>4. SightTypes'
  BY <1>1 DEF Sound, SightTypes, roundVars, sights, links, Seated
<1>5. Owes(p) => Owes(p)'
  BY <1>1, Goes DEF Owes, Sound
<1>. QED
  BY <1>1, <1>3, <1>4, <1>5, NothingNew DEF Kept, Sound, links

LEMMA PanicKeeps ==
  ASSUME Sound, NEW p \in Routines, Panic(p)
  PROVE  Kept /\ UNCHANGED <<client, owner>>
<1>1. /\ stage[p] = "relaying" /\ UNCHANGED <<after, links, roundVars, sights, fetching>>
      /\ relay' \in [Routines -> SUBSET Conns]
  BY DEF Panic, Sound, LinkTypes
<1>2. SightTypes'
  BY <1>1 DEF Sound, SightTypes, roundVars, sights, links, Seated
<1>3. CASE p \in Conns
  <2>1. Moves(p, "detaching", after[p]) /\ UNCHANGED up
    BY <1>3 DEF Panic, Moves, Sound, LinkTypes, Stages
  <2>2. LinkTypes' /\ LinkInv'
    BY <1>1, <2>1, Kinds, LinksKept DEF Sound, LinkInv, WatchStages
  <2>3. Owes(p) => Owes(p)'
    BY <1>1, <2>1, Goes DEF Owes, Sound, LinkInv, links
  <2>. QED
    BY <1>1, <1>2, <2>1, <2>2, <2>3, NothingNew DEF Kept, Sound, links
<1>4. CASE p \notin Conns
  <2>1. up' = FALSE /\ UNCHANGED stage
    BY <1>4 DEF Panic
  <2>2. LinkTypes' /\ LinkInv'
    BY <1>1, <2>1 DEF Sound, LinkTypes, LinkInv, links, Seated
  <2>. QED
    BY <1>1, <1>2, <2>1, <2>2 DEF Kept, SightInv, links
<1>. QED
  BY <1>3, <1>4

LEMMA AcceptedKeeps ==
  ASSUME Sound, NEW p \in Routines, NEW g, Accepted(p, g),
         p \notin watching, p \in Conns => stage[p] = "reading"
  PROVE  Kept /\ UNCHANGED <<client, owner>>
<1>1. /\ Change /\ UNCHANGED <<links, fetching>>
      /\ round' \in {"none", "on", "over"} /\ turn' \in Seated
      /\ \E s \in {Home(p), "finishing"} : TellThen(p, s)
  BY DEF Accepted, roundVars, Sound, SightTypes
<1>2. PICK s \in {Home(p), "finishing"} : TellThen(p, s)
  BY <1>1
<1>3. Moves(p, "telling", s) /\ relay' = relay /\ s # "closed"
  BY <1>2, Tells, Kinds DEF Sound, Afters
<1>4. LinkTypes' /\ LinkInv'
  BY <1>1, <1>3, LinksKept DEF Sound, LinkTypes
<1>5. SightTypes'
  BY <1>1, TypesChanged DEF Sound, SightTypes, links, Seated
<1>6. SightInv'
  BY <1>3, NowOwed DEF Sound
<1>. QED
  BY <1>1, <1>4, <1>5, <1>6 DEF Kept, links

LEMMA ReadyKeeps ==
  ASSUME Sound, NEW p \in Routines, Ready(p),
         p \notin watching, p \in Conns => stage[p] = "reading"
  PROVE  Kept /\ UNCHANGED <<client, owner>>
<1>1. Change /\ UNCHANGED <<links, roundVars, fetching>>
  BY DEF Ready
<1>2. SightTypes'
  BY <1>1, TypesChanged DEF Sound, SightTypes, links, Seated, roundVars
<1>3. CASE TellThen(p, Home(p))
  <2>1. Moves(p, "telling", Home(p)) /\ relay' = relay
    BY <1>3, Tells, Kinds DEF Sound
  <2>2. LinkTypes' /\ LinkInv'
    BY <1>1, <2>1, Kinds, LinksKept DEF Sound, LinkTypes
  <2>3. SightInv'
    BY <2>1, NowOwed DEF Sound
  <2>. QED
    BY <1>1, <1>2, <2>2, <2>3 DEF Kept, links
<1>4. CASE round = "none" /\ Goto(p, "starting")
  <2>1. Moves(p, "starting", after[p]) /\ relay' = relay
    BY <1>4, GoesTo DEF Sound, Stages
  <2>2. LinkTypes' /\ LinkInv'
    BY <1>1, <2>1, LinksKept DEF Sound, LinkTypes
  <2>3. SightInv'
    BY <1>1, <1>4, <2>1, NowOwed DEF Sound, roundVars
  <2>. QED
    BY <1>1, <1>2, <2>2, <2>3 DEF Kept, links
<1>. QED
  BY <1>3, <1>4 DEF Ready

LEMMA StartKeeps ==
  ASSUME Sound, NEW p \in Routines, StartRound(p)
  PROVE  Kept /\ UNCHANGED <<client, owner>>
<1>1. stage[p] = "starting" /\ UNCHANGED <<links, fetching, up>> /\ p \notin watching
  BY DEF StartRound, Sound, LinkInv, WatchStages
<1>2. CASE round = "none" /\ round' = "on" /\ turn' \in Seated /\ Change /\ TellThen(p, Home(p))
  <2>1. Moves(p, "telling", Home(p)) /\ relay' = relay
    BY <1>2, Tells, Kinds DEF Sound
  <2>2. LinkTypes' /\ LinkInv'
    BY <1>1, <2>1, Kinds, LinksKept DEF Sound, LinkTypes
  <2>3. SightTypes'
    BY <1>1, <1>2, TypesChanged DEF Sound, SightTypes, links, Seated
  <2>4. SightInv'
    BY <2>1, NowOwed DEF Sound
  <2>. QED
    BY <1>1, <2>2, <2>3, <2>4 DEF Kept, links
<1>3. CASE round # "none" /\ Goto(p, Home(p)) /\ UNCHANGED <<roundVars, sights>>
  <2>1. Moves(p, Home(p), after[p]) /\ relay' = relay
    BY <1>3, GoesTo, Kinds DEF Sound
  <2>2. LinkTypes' /\ LinkInv'
    BY <1>1, <2>1, Kinds, LinksKept DEF Sound, LinkTypes
  <2>3. SightTypes'
    BY <1>1, <1>3 DEF Sound, SightTypes, roundVars, sights, links, Seated
  <2>4. SightInv'
    BY <1>1, <1>3, <2>1, NothingNew DEF Sound, links, Owes
  <2>. QED
    BY <1>1, <2>2, <2>3, <2>4 DEF Kept, links
<1>. QED
  BY <1>2, <1>3 DEF StartRound

LEMMA FinishKeeps ==
  ASSUME Sound, NEW p \in Routines, Finish(p)
  PROVE  Kept /\ UNCHANGED <<client, owner>>
<1>1. /\ stage[p] = "finishing" /\ UNCHANGED <<relay, links, fetching, up>>
      /\ Change /\ round' = "none" /\ turn' = turn /\ Moves(p, "copying", "telling")
  BY DEF Finish, Moves, Stages, Afters
<1>2. p \notin watching
  BY <1>1 DEF Sound, LinkInv, WatchStages
<1>3. LinkTypes' /\ LinkInv'
  BY <1>1, <1>2, LinksKept DEF Sound, LinkTypes
<1>4. SightTypes'
  BY <1>1, TypesChanged DEF Sound, SightTypes, links, Seated
<1>5. SightInv'
  BY <1>1, NowOwed DEF Sound
<1>. QED
  BY <1>1, <1>3, <1>4, <1>5 DEF Kept, links

LEMMA FetchKeeps ==
  ASSUME Sound, Fetched \/ TellFetched
  PROVE  Kept /\ UNCHANGED <<client, owner>>
<1>1. UNCHANGED <<stage, after, relay, links, roundVars>>
  BY DEF Fetched, TellFetched, calls
<1>2. LinkTypes' /\ LinkInv'
  BY <1>1, LinksSame DEF Sound
<1>3. CASE Fetched
  <2>1. Change /\ fetching' = "telling"
    BY <1>3 DEF Fetched
  <2>2. SightTypes'
    BY <1>1, <2>1, TypesChanged DEF Sound, SightTypes, links, Seated, roundVars
  <2>. QED
    BY <1>1, <1>2, <2>1, <2>2 DEF Kept, SightInv, Owed, links
<1>4. CASE TellFetched
  <2>1. StateFrames /\ fetching' = "none"
    BY <1>4 DEF TellFetched
  <2>2. SightTypes'
    BY <1>1, <2>1, TypesTold DEF Sound, SightTypes, links, Seated, roundVars
  <2>. QED
    BY <1>1, <1>2, <2>1, <2>2, AllTold DEF Kept, links, roundVars
<1>. QED
  BY <1>3, <1>4

LEMMA MessageKeeps ==
  ASSUME Sound, NEW c \in Conns, Message(c)
  PROVE  Kept /\ UNCHANGED <<client, owner>>
<1>1. stage[c] = "reading" /\ c \in Routines
  BY Kinds DEF Message
<1>2. CASE c \notin watching /\ Accepted(c, owner[c])
  BY <1>1, <1>2, AcceptedKeeps
<1>3. CASE c \notin watching /\ Ready(c)
  BY <1>1, <1>3, ReadyKeeps
<1>4. CASE Goto(c, "copying") /\ UNCHANGED <<links, roundVars, sights, fetching, readied, up>>
  <2>1. Moves(c, "copying", after[c]) /\ relay' = relay
    BY <1>1, <1>4, GoesTo DEF Sound, Stages
  <2>2. LinkTypes' /\ LinkInv'
    BY <1>1, <1>4, <2>1, LinksKept DEF Sound, LinkTypes, LinkInv, WatchStages
  <2>3. SightTypes'
    BY <1>4 DEF Sound, SightTypes, roundVars, sights, links, Seated
  <2>4. SightInv'
    BY <1>1, <1>4, <2>1, NothingNew DEF Sound, links, Owes
  <2>. QED
    BY <1>4, <2>2, <2>3, <2>4 DEF Kept, links
<1>. QED
  BY <1>2, <1>3, <1>4 DEF Message

LEMMA ExpireKeeps ==
  ASSUME Sound, Expire
  PROVE  Kept /\ UNCHANGED <<client, owner>>
<1>1. stage[Clock] = "idle" /\ Clock \in Routines /\ Clock \notin Conns /\ Clock \notin watching
  BY Kinds DEF Expire, Sound, LinkTypes
<1>2. CASE Accepted(Clock, turn)
  BY <1>1, <1>2, AcceptedKeeps
<1>3. CASE Goto(Clock, "starting") /\ UNCHANGED <<links, roundVars, sights, fetching, readied, up>>
  <2>1. Moves(Clock, "starting", after[Clock]) /\ relay' = relay
    BY <1>1, <1>3, GoesTo DEF Sound, Stages
  <2>2. LinkTypes' /\ LinkInv'
    BY <1>1, <1>3, <2>1, LinksKept DEF Sound, LinkTypes
  <2>3. SightTypes'
    BY <1>3 DEF Sound, SightTypes, roundVars, sights, links, Seated
  <2>4. SightInv'
    BY <1>1, <1>3, <2>1, NothingNew DEF Sound, links, Owes
  <2>. QED
    BY <1>3, <2>2, <2>3, <2>4 DEF Kept, links
<1>. QED
  BY <1>2, <1>3 DEF Expire

LEMMA ActKeeps ==
  ASSUME Sound, NEW a \in Acts, Act(a)
  PROVE  Kept /\ UNCHANGED <<client, owner>>
<1>1. /\ stage[a] = "idle" /\ a \in Routines /\ a \notin Conns /\ a \notin watching
      /\ UNCHANGED <<shown, links, roundVars, fetching, up>> /\ plan' = "none"
  BY Kinds DEF Act, Sound, LinkTypes
<1>2. PICK s \in {"readying", "moving", "idle"} : Moves(a, s, after[a])
  <2>1. CASE UNCHANGED calls
    <3>1. Moves(a, "idle", after[a])
      BY <1>1, <2>1 DEF Moves, Sound, LinkTypes, calls, Stages
    <3>. QED
      BY <3>1
  <2>2. CASE \E s \in {"readying", "moving"} : Goto(a, s)
    BY <1>1, <2>2, GoesTo DEF Sound, Stages
  <2>. QED
    BY <2>1, <2>2 DEF Act
<1>3. relay' = relay
  BY DEF Act, Goto, calls
<1>4. LinkTypes' /\ LinkInv'
  BY <1>1, <1>2, <1>3, LinksKept DEF Sound, LinkTypes
<1>5. latest \subseteq latest' /\ latest' \subseteq latest \cup {a}
  BY DEF Act
<1>6. SightTypes'
  BY <1>1, <1>5 DEF Sound, SightTypes, roundVars, links, Seated
<1>7. Owed => Owed'
  <2>1. ASSUME NEW q \in Routines, Owes(q) PROVE Owes(q)'
    BY <1>1, <1>2, <2>1, Goes DEF Owes, Sound, links, roundVars
  <2>. QED
    BY <1>1, <2>1 DEF Owed
<1>8. Settled => Settled'
  <2>1. Players' = Players /\ MyMove' = MyMove /\ shown' = shown
    BY <1>1 DEF Players, Seated, MyMove, links, roundVars
  <2>2. ASSUME Settled, plan = "move" PROVE stage'[a] = "moving" /\ a \in latest'
    <3>1. Goto(a, "moving") /\ a \in latest'
      BY <2>2 DEF Act, Settled
    <3>. QED
      BY <1>1, <3>1 DEF Goto, Sound, LinkTypes
  <2>3. ASSUME NEW b \in Acts, stage[b] = "moving", b \in latest
        PROVE  stage'[b] = "moving" /\ b \in latest'
    BY <1>1, <1>2, <1>5, <2>3, Goes, Kinds DEF Sound
  <2>. QED
    BY <1>5, <2>1, <2>2, <2>3 DEF Settled
<1>. QED
  BY <1>1, <1>4, <1>6, <1>7, <1>8 DEF Kept, Sound, SightInv, links

LEMMA BotMoveKeeps ==
  ASSUME Sound, NEW a \in Acts, BotMove(a) \/ BotReady(a)
  PROVE  Kept /\ UNCHANGED <<client, owner>>
<1>1. a \in Routines /\ a \notin Conns /\ a \notin watching
  BY Kinds DEF Sound, LinkTypes
<1>2. CASE Accepted(a, Robot)
  BY <1>1, <1>2, AcceptedKeeps
<1>3. CASE Ready(a)
  BY <1>1, <1>3, ReadyKeeps
<1>4. CASE /\ stage[a] = "moving" /\ a \notin latest /\ Goto(a, "idle")
           /\ UNCHANGED <<links, roundVars, sights, fetching, readied, up>>
  <2>1. Moves(a, "idle", after[a]) /\ relay' = relay
    BY <1>1, <1>4, GoesTo DEF Sound, Stages
  <2>2. LinkTypes' /\ LinkInv'
    BY <1>1, <1>4, <2>1, LinksKept DEF Sound, LinkTypes
  <2>3. SightTypes'
    BY <1>4 DEF Sound, SightTypes, roundVars, sights, links, Seated
  <2>4. SightInv'
    BY <1>1, <1>4, <2>1, NothingNew DEF Sound, links, Owes
  <2>. QED
    BY <1>4, <2>2, <2>3, <2>4 DEF Kept, links
<1>. QED
  BY <1>2, <1>3, <1>4 DEF BotMove, BotReady

-----------------------------------------------------------------------------
(* The life of a connection.                                               *)

(* A connection that has already opened, and keeps its owner.              *)
LEMMA SeatedSights ==
  ASSUME Sound, Change, UNCHANGED <<round, turn>>, Seated \subseteq Seated',
         fetching' \in {"none", "coins", "telling"}
  PROVE  SightTypes'
BY TypesChanged DEF Sound, SightTypes

LEMMA AttachKeeps ==
  ASSUME Sound, NEW c \in Conns, NEW g \in Guests, Attach(c, g)
  PROVE  Kept
<1>1. LinkTypes' /\ LinkInv' /\ Seated' = Seated \cup {g} /\ Moves(c, "telling", "reading")
  BY AttachLinks DEF Sound
<1>2. Change /\ UNCHANGED <<round, turn>> /\ fetching' \in {"none", "coins", "telling"}
  BY DEF Attach, roundVars, Sound, SightTypes
<1>3. SightTypes'
  BY <1>1, <1>2, SeatedSights
<1>4. SightInv'
  BY <1>1, NowOwed, Kinds DEF Sound
<1>. QED
  BY <1>1, <1>3, <1>4 DEF Kept

LEMMA OpenKeeps ==
  ASSUME Sound, NEW c \in Conns, NEW g \in Guests,
         AttachRefused(c, g) \/ AttachSpectator(c, g)
  PROVE  Kept
<1>1. /\ Opened(c, g) /\ Goto(c, "reading")
      /\ UNCHANGED <<client, roundVars, sights, fetching, readied, up>>
      /\ \/ UNCHANGED <<watching, spectators>>
         \/ /\ watching' = watching \cup {c}
            /\ spectators' = {d \in spectators : owner[d] # g} \cup {c}
  BY DEF AttachRefused, AttachSpectator
<1>2. Moves(c, "reading", after[c]) /\ relay' = relay
  BY <1>1, GoesTo, Kinds DEF Sound, Stages
<1>3. LinkTypes' /\ LinkInv' /\ Seated' = Seated
  BY <1>1, <1>2, OpenedLinks DEF Sound
<1>4. SightTypes'
  BY <1>1, <1>3 DEF Sound, SightTypes, roundVars, sights
<1>5. watching \subseteq watching' /\ watching' \subseteq watching \cup {c}
  BY <1>1
<1>6. ~Owes(c) /\ stage[c] = "free"
  BY <1>1 DEF Owes, Opened
<1>7. SightInv'
  BY <1>1, <1>2, <1>5, <1>6, NothingNew, Kinds DEF Sound
<1>. QED
  BY <1>3, <1>4, <1>7 DEF Kept

LEMMA LeaveKeeps ==
  ASSUME Sound, NEW c \in Conns, c \notin watching,
         \/ Leave(c)
         \/ /\ stage[c] = "detaching" /\ ClearClient(owner[c]) /\ UNCHANGED spectators
            /\ TellThen(c, "closed")
            /\ UNCHANGED <<owner, watching, roundVars, fetching, readied, up>>
  PROVE  Kept
<1>1. /\ stage[c] # "free" /\ ClearClient(owner[c])
      /\ UNCHANGED <<owner, watching, spectators, roundVars, fetching>>
      /\ \E s \in {"reading", "closed"} : TellThen(c, s)
  BY DEF Leave
<1>2. PICK s \in {"reading", "closed"} : TellThen(c, s)
  BY <1>1
<1>3. Moves(c, "telling", s) /\ relay' = relay
  BY <1>2, Tells, Kinds DEF Sound, Afters
<1>4. LinkTypes' /\ LinkInv' /\ Seated' = Seated
  BY <1>1, <1>3, SeatCleared DEF Sound
<1>5. SightTypes'
  BY <1>1, <1>4, SeatedSights DEF ClearClient, roundVars, Sound, SightTypes
<1>6. SightInv'
  BY <1>3, NowOwed, Kinds DEF Sound
<1>. QED
  BY <1>4, <1>5, <1>6 DEF Kept

LEMMA ReadErrorKeeps ==
  ASSUME Sound, NEW c \in Conns, ReadError(c)
  PROVE  Kept /\ UNCHANGED <<client, owner>>
<1>1. /\ stage[c] = "reading" /\ Goto(c, "detaching") /\ c \in Routines
      /\ UNCHANGED <<links, roundVars, sights, fetching, readied, up>>
  BY Kinds DEF ReadError
<1>2. Moves(c, "detaching", after[c]) /\ relay' = relay
  BY <1>1, GoesTo DEF Sound, Stages
<1>3. LinkTypes' /\ LinkInv'
  BY <1>1, <1>2, LinksKept DEF Sound, LinkTypes, LinkInv, WatchStages
<1>4. SightTypes'
  BY <1>1 DEF Sound, SightTypes, roundVars, sights, links, Seated
<1>5. SightInv'
  BY <1>1, <1>2, NothingNew DEF Sound, links, Owes
<1>. QED
  BY <1>1, <1>3, <1>4, <1>5 DEF Kept, links

LEMMA SpectatorKeeps ==
  ASSUME Sound, NEW c \in watching, stage[c] = "detaching", Goto(c, "closed"),
         spectators' = {d \in spectators : owner[d] # owner[c]},
         UNCHANGED <<client, sights, owner, watching, roundVars, fetching, readied, up>>
  PROVE  Kept
<1>1. c \in Conns /\ c \in Routines
  BY Kinds DEF Sound, LinkTypes
<1>2. Moves(c, "closed", after[c]) /\ relay' = relay
  BY <1>1, GoesTo DEF Sound, Stages
<1>3. LinkTypes' /\ LinkInv' /\ Seated' = Seated
  BY <1>2, SpectatorLeft DEF Sound
<1>4. SightTypes'
  BY <1>3 DEF Sound, SightTypes, roundVars, sights
<1>5. SightInv'
  BY <1>1, <1>2, NothingNew DEF Sound, Owes
<1>. QED
  BY <1>3, <1>4, <1>5 DEF Kept

-----------------------------------------------------------------------------
(* A guest's only connection keeps the seat until it gives it up: nobody   *)
(* else clears the seat.                                                   *)
LEMMA SeatHeld ==
  ASSUME Sound, Kept, EntitledInv, NEW c \in entitled, ConnNext,
         MayDetach(owner[c])' = {c}, ~GivesUp(c)
  PROVE  UNCHANGED <<client[owner[c]], owner[c]>> /\ owner[c] \in Seated'
<1>. DEFINE g == owner[c]
<1>1. /\ c \in Conns /\ g \in Seated /\ client[g] = c /\ MayDetach(g) = {c}
      /\ stage[c] # "detaching" /\ stage[c] # "free" /\ c \notin watching
  BY DEF EntitledInv, Sound, LinkInv
<1>2. owner \in [Conns -> Guests \cup {Nobody}] /\ client \in [Seated -> Conns \cup {Robot, Nobody}]
  BY DEF Sound, LinkTypes
<1>3. CASE UNCHANGED <<client, owner>>
  BY <1>1, <1>3 DEF Seated
<1>4. ASSUME NEW d \in Conns, NEW h \in Guests, Attach(d, h)
      PROVE  UNCHANGED <<client[g], owner[c]>> /\ g \in Seated'
  <2>1. /\ stage[d] = "free" /\ owner' = [owner EXCEPT ![d] = h] /\ d # c
        /\ client' = [i \in Seated \cup {h} |-> IF i = h THEN d ELSE client[i]]
    BY <1>1, <1>4 DEF Attach, Opened
  <2>2. owner'[c] = g /\ owner'[d] = h
    BY <1>1, <1>2, <2>1
  <2>3. d \notin watching' /\ stage'[d] = "telling" /\ after'[d] = "reading"
    <3>1. d \notin watching /\ watching' = watching
      BY <1>4, <2>1 DEF Sound, LinkInv, Attach
    <3>2. Moves(d, "telling", "reading")
      BY <1>4, AttachLinks DEF Sound
    <3>. QED
      BY <3>1, <3>2, Goes, Kinds DEF Sound
  <2>4. h # g
    <3>1. SUFFICES ASSUME h = g PROVE FALSE
      OBVIOUS
    <3>2. d \in MayDetach(owner[c])'
      BY <2>2, <2>3, <3>1 DEF MayDetach
    <3>. QED
      BY <2>1, <3>2
  <2>. QED
    BY <1>1, <2>1, <2>2, <2>4 DEF Seated
<1>5. ASSUME NEW d \in Conns, NEW h \in Guests, AttachRefused(d, h) \/ AttachSpectator(d, h)
      PROVE  UNCHANGED <<client[g], owner[c]>> /\ g \in Seated'
  <2>1. stage[d] = "free" /\ owner' = [owner EXCEPT ![d] = h] /\ d # c /\ client' = client
    BY <1>1, <1>5 DEF AttachRefused, AttachSpectator, Opened
  <2>. QED
    BY <1>1, <1>2, <2>1 DEF Seated
<1>6. ASSUME NEW d \in Conns, d \notin watching, ClearClient(owner[d]), owner' = owner,
             \/ stage[d] = "reading" /\ TellThen(d, "reading")
             \/ stage[d] = "detaching"
      PROVE  UNCHANGED <<client[g], owner[c]>> /\ g \in Seated'
  <2>1. client' = IF owner[d] \in Seated THEN [client EXCEPT ![owner[d]] = Nobody] ELSE client
    BY <1>6 DEF ClearClient
  <2>2. owner[d] # g
    <3>1. SUFFICES ASSUME owner[d] = g PROVE FALSE
      OBVIOUS
    <3>2. d \in MayDetach(g)
      BY <1>6, <3>1 DEF MayDetach
    <3>3. d = c /\ stage[c] = "reading" /\ TellThen(c, "reading")
      BY <1>1, <1>6, <3>2
    <3>4. stage'[c] = "telling" /\ client'[g] = Nobody
      BY <1>1, <1>2, <2>1, <3>1, <3>3, Kinds DEF TellThen, Sound, LinkTypes
    <3>. QED
      BY <1>6, <3>3, <3>4 DEF GivesUp
  <2>. QED
    BY <1>1, <1>2, <1>6, <2>1, <2>2 DEF Seated
<1>7. ASSUME NEW d \in Conns, Leaving(d)
      PROVE  UNCHANGED <<client[g], owner[c]>> /\ g \in Seated'
  <2>1. CASE Leave(d)
    BY <1>6, <2>1 DEF Leave
  <2>2. CASE ReadError(d)
    BY <1>3, <2>2 DEF ReadError, links
  <2>3. CASE Detach(d)
    BY <1>3, <1>6, <2>3 DEF Detach
  <2>. QED
    BY <1>7, <2>1, <2>2, <2>3 DEF Leaving
<1>8. ASSUME NEW d \in Conns, Message(d) PROVE UNCHANGED <<client, owner>>
  BY <1>8, MessageKeeps
<1>9. ASSUME NEW a \in Acts, Act(a) \/ BotMove(a) \/ BotReady(a)
      PROVE  UNCHANGED <<client, owner>>
  BY <1>9, ActKeeps, BotMoveKeeps
<1>10. ASSUME NEW p \in Routines, Sending(p) \/ StartRound(p) \/ Finish(p)
       PROVE  UNCHANGED <<client, owner>>
  BY <1>10, TellKeeps, CopyKeeps, RelayKeeps, PanicKeeps, StartKeeps, FinishKeeps DEF Sending
<1>11. ASSUME Fetched \/ TellFetched \/ Expire PROVE UNCHANGED <<client, owner>>
  BY <1>11, FetchKeeps, ExpireKeeps
<1>. QED
  BY <1>3, <1>4, <1>5, <1>7, <1>8, <1>9, <1>10, <1>11 DEF ConnNext, Attaching

LEMMA ConnKeeps == ASSUME Sound, ConnNext PROVE Kept
<1>1. ASSUME NEW c \in Conns, Attaching(c) PROVE Kept
  BY <1>1, AttachKeeps, OpenKeeps DEF Attaching
<1>2. ASSUME NEW c \in Conns, Leaving(c) PROVE Kept
  <2>1. CASE Leave(c)
    BY <2>1, LeaveKeeps DEF Leave
  <2>2. CASE ReadError(c)
    BY <2>2, ReadErrorKeeps
  <2>3. CASE Detach(c)
    BY <2>3, LeaveKeeps, SpectatorKeeps DEF Detach
  <2>. QED
    BY <1>2, <2>1, <2>2, <2>3 DEF Leaving
<1>3. ASSUME NEW c \in Conns, Message(c) PROVE Kept
  BY <1>3, MessageKeeps
<1>4. ASSUME NEW a \in Acts, Act(a) \/ BotMove(a) \/ BotReady(a) PROVE Kept
  BY <1>4, ActKeeps, BotMoveKeeps
<1>5. ASSUME NEW p \in Routines, Sending(p) \/ StartRound(p) \/ Finish(p) PROVE Kept
  BY <1>5, TellKeeps, CopyKeeps, RelayKeeps, PanicKeeps, StartKeeps, FinishKeeps DEF Sending
<1>6. ASSUME Fetched \/ TellFetched \/ Expire PROVE Kept
  BY <1>6, FetchKeeps, ExpireKeeps
<1>. QED
  BY <1>1, <1>2, <1>3, <1>4, <1>5, <1>6 DEF ConnNext

LEMMA ConnInvStep ==
  ASSUME ConnInv, ConnStep \/ UNCHANGED <<connVars, entitled>>
  PROVE  ConnInv'
<1>1. Sound
  BY DEF ConnInv, Sound
<1>2. CASE ConnStep
  <2>1. Kept
    BY <1>1, <1>2, ConnKeeps DEF ConnStep
  <2>2. ASSUME NEW c \in entitled'
        PROVE  /\ c \in Conns /\ owner'[c] \in Seated' /\ client'[owner'[c]] = c
               /\ MayDetach(owner[c])' = {c} /\ stage'[c] # "detaching"
    <3>1. /\ c \in Conns /\ MayDetach(owner[c])' = {c} /\ stage'[c] # "detaching"
          /\ \/ \E g \in DOMAIN client' : client'[g] = c
             \/ c \in entitled /\ ~GivesUp(c)
      BY <1>2, <2>2 DEF ConnStep
    <3>2. CASE \E g \in DOMAIN client' : client'[g] = c
      <4>1. PICK g \in Seated' : client'[g] = c
        BY <3>2 DEF Seated
      <4>2. owner'[c] = g
        BY <2>1, <3>1, <4>1 DEF Kept, LinkInv
      <4>. QED
        BY <3>1, <4>1, <4>2
    <3>3. CASE c \in entitled /\ ~GivesUp(c)
      <4>1. UNCHANGED <<client[owner[c]], owner[c]>> /\ owner[c] \in Seated'
        BY <1>1, <1>2, <2>1, <3>1, <3>3, SeatHeld DEF ConnInv, ConnStep
      <4>2. client[owner[c]] = c
        BY <3>3 DEF ConnInv, EntitledInv
      <4>. QED
        BY <3>1, <4>1, <4>2
    <3>. QED
      BY <3>1, <3>2, <3>3
  <2>. QED
    BY <2>1, <2>2 DEF ConnInv, Kept, EntitledInv
<1>3. CASE UNCHANGED <<connVars, entitled>>
  <2>1. /\ UNCHANGED <<stage, after, relay, links, round, turn, shown, plan, latest>>
        /\ UNCHANGED <<fetching, up, entitled, client, owner, watching>>
    BY <1>3 DEF connVars, calls, links, roundVars, sights
  <2>2. LinkTypes' /\ LinkInv'
    BY <1>1, <2>1, LinksSame DEF Sound
  <2>3. SightTypes' /\ SightInv'
    BY <2>1 DEF ConnInv, SightTypes, SightInv, Owed, Owes, Settled, Players, Seated, MyMove
  <2>4. EntitledInv'
    BY <2>1 DEF ConnInv, EntitledInv, MayDetach, Seated
  <2>. QED
    BY <2>2, <2>3, <2>4 DEF ConnInv
<1>. QED
  BY <1>2, <1>3

LEMMA ConnStart == MCInit => ConnInv
<1>1. SUFFICES ASSUME ConnInit, entitled = {} PROVE ConnInv
  BY DEF MCInit
<1>2. Seated = {Robot} /\ client[Robot] = Robot
  BY <1>1 DEF ConnInit, Seated
<1>3. IsFiniteSet({Robot}) /\ Cardinality({Robot}) = 1
  BY FS_Singleton
<1>4. LinkTypes
  BY <1>1, <1>2, <1>3, ConnAssumption, Kinds DEF ConnInit, LinkTypes, Stages, Home, Afters
<1>5. SightTypes
  BY <1>1, <1>2 DEF ConnInit, SightTypes
<1>6. LinkInv
  BY <1>1, <1>2, Kinds DEF ConnInit, LinkInv
<1>7. SightInv
  <2>1. Players = {} /\ ~MyMove
    BY <1>1, <1>2, Kinds DEF ConnInit, Players, MyMove
  <2>. QED
    BY <1>1, <2>1 DEF ConnInit, SightInv, Settled
<1>. QED
  BY <1>1, <1>4, <1>5, <1>6, <1>7 DEF ConnInv, EntitledInv

LEMMA ConnAlways == MCSpec => []ConnInv
<1>1. ConnInv /\ [MCNext]_hubVars => ConnInv'
  BY OnePartMoves, ConnInvStep
<1>. QED
  BY <1>1, ConnStart, PTL DEF MCSpec, hubVars

-----------------------------------------------------------------------------
(* Once every broadcast was made, each connected player was sent the room  *)
(* as it is, whatever raced with whatever: a change made by one goroutine  *)
(* is told by it, or by a later one (broadcastState, hub.go).              *)
THEOREM PlayersSeeTheTable == MCSpec => []PlayersAreShown
<1>1. ConnInv => PlayersAreShown
  BY DEF ConnInv, SightInv, Owed, Owes, Settled, PlayersAreShown, SomebodyTells
<1>. QED
  BY <1>1, ConnAlways, PTL

(* The bot does not sleep through its turn: a frame that comes while it    *)
(* thinks is kept for the next call (bot.go).                              *)
THEOREM BotWakesForItsTurn == MCSpec => []BotIsAwake
<1>1. ConnInv => BotIsAwake
  BY DEF ConnInv, SightInv, Owed, Owes, Settled, BotIsAwake, SomebodyTells
<1>. QED
  BY <1>1, ConnAlways, PTL

(* The room never holds a closed connection, and a guest's only connection *)
(* keeps the guest's seat until it gives it up (Attach and Detach, hub.go; *)
(* the deferred end of ServeWS, ws/handler.go).                            *)
THEOREM SeatsHoldLiveClients == MCSpec => []ClientsAreLive
<1>1. ConnInv => ClientsAreLive
  <2>1. SUFFICES ASSUME ConnInv PROVE ClientsAreLive
    OBVIOUS
  <2>2. \A g \in Seated : client[g] \in Conns =>
          owner[client[g]] = g /\ client[g] \notin watching /\ stage[client[g]] # "closed"
    BY <2>1 DEF ConnInv, LinkInv
  <2>. QED
    BY <2>1, <2>2 DEF ConnInv, LinkInv, EntitledInv, ClientsAreLive
<1>. QED
  BY <1>1, ConnAlways, PTL

(* Every part around a table keeps its types: in particular no more guests *)
(* sit at a table than it has seats, in the lobby and as connections come  *)
(* and go.                                                                 *)
THEOREM HubTypeCorrect == MCSpec => []TypeOK
<1>1. ConnInv => ConnTypeOK
  <2>1. ConnInv => LinkTypes /\ SightTypes
    BY DEF ConnInv
  <2>. QED
    BY <2>1, Zenon DEF LinkTypes, SightTypes, ConnTypeOK
<1>2. ConsentInv => FriendsTypeOK
  BY DEF ConsentInv, FriendsTypeOK, Call, NoCall
<1>. QED
  BY <1>1, <1>2, ConnAlways, FriendsAlways, RoomsNeverOverflow, PTL DEF TypeOK
==================================================================================
