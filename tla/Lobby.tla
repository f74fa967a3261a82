---------------------------------- MODULE Lobby ----------------------------------
(***************************************************************************)
(* How guests come to tables (room/hub.go: CreateRoomFull, QuickJoin,      *)
(* CreatePractice, JoinWith, AddBot, the seating part of Attach; the REST  *)
(* handlers of room/rest.go that call them). Each guest's request is a     *)
(* goroutine; a step is what it does under the hub's lock or a room's.     *)
(* While a quick-play request looks through the rooms it reads each under  *)
(* the room's lock, and the hub's read lock keeps new rooms out.           *)
(***************************************************************************)
EXTENDS Integers, FiniteSets, Accounts

CONSTANTS
  MaxRooms,       (* bound: the rooms that are opened, numbered in order   *)
  Tiers,          (* AllowedBets                                           *)
  DefaultBet,     (* the stake of a room that names none                   *)
  Sizes,          (* MaxPlayers a guest may ask for                        *)
  FullSize,       (* MaxPlayers of a room that names none                  *)
  PracticeBots    (* the bots of a practice room                           *)

ASSUME LobbyAssumption ==
  /\ Tiers \subseteq Nat /\ DefaultBet \in Nat
  /\ Sizes \subseteq Nat /\ FullSize \in Nat /\ PracticeBots \in Nat

VARIABLES
  rooms,          (* Hub.rooms                                             *)
  wallet,         (* every guest's coins                                   *)
  request         (* what each guest's request is at                       *)

lobbyVars == <<rooms, wallet, request>>

NoRequest == [at |-> "none"]
NotQuick == 0

(* A room's seats: who sits there, with the stake asked for if quick play  *)
(* put the guest there. Bots are counted.                                  *)
NewRoom(size, bet, locked) ==
  [size |-> size, bet |-> bet, locked |-> locked, practice |-> FALSE,
   seats |-> [g \in {} |-> NotQuick], bots |-> 0, running |-> FALSE]

Sitting(r) == DOMAIN rooms[r].seats
Taken(r) == Cardinality(Sitting(r)) + rooms[r].bots
HasPlace(r) == ~rooms[r].running /\ Taken(r) < rooms[r].size

LobbyInit ==
  /\ rooms = [r \in 1..0 |-> NewRoom(FullSize, DefaultBet, FALSE)]
  /\ wallet \in [Guests -> Tiers]
  /\ request = [g \in Guests |-> NoRequest]

Proceed(g, next) == request' = [request EXCEPT ![g] = next]

(* JoinWith: a guest who sits keeps the seat, others need the password, a  *)
(* table without a round and a free seat.                                  *)
JoinWith(g, r, knowsPassword, asked) ==
  IF g \notin Sitting(r) /\ (rooms[r].locked => knowsPassword) /\ HasPlace(r)
  THEN rooms' = [rooms EXCEPT ![r].seats =
                   [h \in Sitting(r) \cup {g} |-> IF h = g THEN asked ELSE @[h]]]
  ELSE UNCHANGED rooms

(* Hub.rooms gains a room: nobody may be looking through them.             *)
Register(g, room, next) ==
  /\ \A h \in Guests : request[h].at # "scan"
  /\ Cardinality(DOMAIN rooms) < MaxRooms
  /\ LET r == Cardinality(DOMAIN rooms) + 1 IN
       /\ rooms' = [s \in 1..r |-> IF s = r THEN room ELSE rooms[s]]
       /\ Proceed(g, [next EXCEPT !.room = r])

-----------------------------------------------------------------------------
(* POST /quickplay.                                                        *)
QuickPlay(g) ==
  /\ request[g].at = "none"
  /\ \E bet \in Tiers :
       /\ bet <= wallet[g]
       /\ Proceed(g, [at |-> "scan", bet |-> bet, left |-> DOMAIN rooms])
  /\ UNCHANGED <<rooms, wallet>>

(* Mutant: any table with a free seat will do.                             *)
OpenToAll(r, bet) == ~rooms[r].practice /\ ~rooms[r].locked /\ HasPlace(r)

OpenAt(r, bet) ==
  /\ ~rooms[r].practice /\ ~rooms[r].locked
  /\ rooms[r].bet = bet
  /\ HasPlace(r)

Scan(g) ==
  /\ request[g].at = "scan"
  /\ \E r \in request[g].left :
       IF OpenAt(r, request[g].bet) \/ g \in Sitting(r)
       THEN Proceed(g, [at |-> "take", room |-> r, bet |-> request[g].bet])
       ELSE Proceed(g, [request[g] EXCEPT !.left = @ \ {r}])
  /\ UNCHANGED <<rooms, wallet>>

NoneOpen(g) ==
  /\ request[g].at = "scan" /\ request[g].left = {}
  /\ Proceed(g, [at |-> "open", bet |-> request[g].bet])
  /\ UNCHANGED <<rooms, wallet>>

OpenTable(g) ==
  /\ request[g].at = "open"
  /\ Register(g, NewRoom(FullSize, request[g].bet, FALSE),
              [at |-> "take", room |-> 0, bet |-> request[g].bet])
  /\ UNCHANGED wallet

TakeSeat(g) ==
  /\ request[g].at = "take"
  /\ JoinWith(g, request[g].room, FALSE, request[g].bet)
  /\ Proceed(g, NoRequest)
  /\ UNCHANGED wallet

-----------------------------------------------------------------------------
(* POST /rooms: no stake is the default one. A stake the wallet does not   *)
(* cover is refused, but only if the wallet could be read (rest.go:77), so *)
(* that any may get through. The host is seated in a second step.          *)
Create(g) ==
  /\ request[g].at = "none"
  /\ \E bet \in Tiers \cup {0}, size \in Sizes, locked \in BOOLEAN :
       Register(g, NewRoom(size, IF bet = 0 THEN DefaultBet ELSE bet, locked),
                [at |-> "host", room |-> 0])
  /\ UNCHANGED wallet

SeatHost(g) ==
  /\ request[g].at = "host"
  /\ JoinWith(g, request[g].room, TRUE, NotQuick)
  /\ Proceed(g, NoRequest)
  /\ UNCHANGED wallet

(* POST /rooms/:id/join, with the password or without.                     *)
JoinRoom(g) ==
  /\ request[g].at = "none"
  /\ \E r \in DOMAIN rooms, knows \in BOOLEAN : JoinWith(g, r, knows, NotQuick)
  /\ UNCHANGED <<wallet, request>>

(* A WebSocket seats its guest too.                                        *)
AttachSeat(g) ==
  /\ \E r \in DOMAIN rooms : JoinWith(g, r, TRUE, NotQuick)
  /\ UNCHANGED <<wallet, request>>

-----------------------------------------------------------------------------
(* POST /practice: a public room first, then marked as practice, then the  *)
(* host and the bots.                                                      *)
OpenPractice(g) ==
  /\ request[g].at = "none"
  /\ Register(g, NewRoom(FullSize, DefaultBet, FALSE), [at |-> "mark", room |-> 0])
  /\ UNCHANGED wallet

MarkPractice(g) ==
  /\ request[g].at = "mark"
  /\ rooms' = [rooms EXCEPT ![request[g].room].practice = TRUE, ![request[g].room].bet = 0]
  /\ Proceed(g, [request[g] EXCEPT !.at = "practice"])
  /\ UNCHANGED wallet

SeatPractice(g) ==
  LET r == request[g].room IN
  /\ request[g].at = "practice"
  /\ JoinWith(g, r, FALSE, NotQuick)
  /\ Proceed(g, IF g \in DOMAIN rooms'[r].seats
                THEN [at |-> "bot", room |-> r, left |-> PracticeBots] ELSE NoRequest)
  /\ UNCHANGED wallet

(* POST /rooms/:id/bots, one at a time.                                    *)
AskForBot(g) ==
  /\ request[g].at = "none"
  /\ \E r \in DOMAIN rooms : Proceed(g, [at |-> "bot", room |-> r, left |-> 1])
  /\ UNCHANGED <<rooms, wallet>>

(* AddBot looks for a free seat, makes the bot's guest, and attaches it,   *)
(* which takes a seat if there still is one. The request ends with its     *)
(* last bot, with no seat free, or when the database makes no guest.       *)
LookForPlace(g) ==
  /\ request[g].at = "bot"
  /\ \/ /\ request[g].left > 0 /\ HasPlace(request[g].room)
        /\ Proceed(g, [request[g] EXCEPT !.at = "seatBot", !.left = @ - 1])
     \/ Proceed(g, NoRequest)
  /\ UNCHANGED <<rooms, wallet>>

(* Mutant: the bot takes the seat that was seen free.                      *)
SeatBotAsSeen(g) ==
  /\ request[g].at = "seatBot"
  /\ rooms' = [rooms EXCEPT ![request[g].room].bots = @ + 1]
  /\ Proceed(g, [request[g] EXCEPT !.at = "bot"])
  /\ UNCHANGED wallet

SeatBot(g) ==
  LET r == request[g].room IN
  /\ request[g].at = "seatBot"
  /\ rooms' = IF HasPlace(r) THEN [rooms EXCEPT ![r].bots = @ + 1] ELSE rooms
  /\ Proceed(g, [request[g] EXCEPT !.at = "bot"])
  /\ UNCHANGED wallet

-----------------------------------------------------------------------------
(* The rounds of a table (MatchLife).                                      *)
PlayRound(r) ==
  /\ \/ ~rooms[r].running /\ Taken(r) > 1
     \/ rooms[r].running
  /\ rooms' = [rooms EXCEPT ![r].running = ~@]
  /\ UNCHANGED <<wallet, request>>

LobbyNext ==
  \/ \E g \in Guests :
       \/ QuickPlay(g) \/ Scan(g) \/ NoneOpen(g) \/ OpenTable(g) \/ TakeSeat(g)
       \/ Create(g) \/ SeatHost(g) \/ JoinRoom(g) \/ AttachSeat(g)
       \/ OpenPractice(g) \/ MarkPractice(g) \/ SeatPractice(g)
       \/ AskForBot(g) \/ LookForPlace(g) \/ SeatBot(g)
  \/ \E r \in DOMAIN rooms : PlayRound(r)

-----------------------------------------------------------------------------
(* No room holds more players than its size, although a free seat is seen  *)
(* in one step and taken in another.                                       *)
LobbyTypeOK ==
  /\ wallet \in [Guests -> Tiers] /\ DOMAIN request = Guests
  /\ \A r \in DOMAIN rooms :
       /\ rooms[r] \in [size : Sizes \cup {FullSize}, bet : Tiers \cup {0, DefaultBet},
                        locked : BOOLEAN, practice : BOOLEAN,
                        seats : UNION {[S -> Tiers \cup {NotQuick}] : S \in SUBSET Guests},
                        bots : Nat, running : BOOLEAN]
       /\ Taken(r) <= rooms[r].size
       /\ rooms[r].running => Taken(r) > 1

(* Whoever quick play seats plays for no more than the stake asked for,    *)
(* which the wallet covered then, and never in a locked room               *)
(* (hub.go:201-204, rest.go:168-170), although the room is chosen in one   *)
(* step and the seat taken in a later one.                                 *)
QuickPlayIsCovered ==
  \A r \in DOMAIN rooms : \A g \in Sitting(r) : LET asked == rooms[r].seats[g] IN
    asked # NotQuick =>
      /\ asked <= wallet[g] /\ rooms[r].bet <= asked
      /\ ~rooms[r].locked

(* Practice rooms "are not surfaced to QuickJoin (private to their         *)
(* creator)" (hub.go:55-57) and "never matched through QuickJoin"          *)
(* (hub.go:214-215): quick play seats nobody there.                        *)
PracticeIsPrivate ==
  \A r \in DOMAIN rooms :
    rooms[r].practice => \A g \in Sitting(r) : rooms[r].seats[g] = NotQuick
================================================================================
