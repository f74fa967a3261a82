------------------------------ MODULE Connections ------------------------------
(***************************************************************************)
(* A room's connections (ws/handler.go; Attach, Detach, broadcast and      *)
(* broadcastState of room/hub.go; bot/bot.go). A connection's goroutine    *)
(* attaches it, handles its messages one by one, and detaches it when      *)
(* reading fails. Expired clocks run in goroutines of their own, and so    *)
(* does each move of the bot, which is a client like any other. A step is  *)
(* what a goroutine does under one lock; a change of the room is broadcast *)
(* after unlocking, in a later step.                                       *)
(*                                                                         *)
(* A frame is modelled by whether it shows the room as it is; whether the  *)
(* send buffer takes it, or drops it because it is full, is not told apart.*)
(* Deadlines are left out, and so are the bot flag that an expired clock   *)
(* sets, who must be ready for a round (MatchLife), which moves the rules  *)
(* allow (DummyEngine) and whose turn is next.                             *)
(***************************************************************************)
EXTENDS Naturals, FiniteSets, Accounts

CONSTANTS
  Robot,         (* the guest a bot plays for                              *)
  Nobody,
  Conns,         (* connections; each is opened once                       *)
  Acts,          (* calls of Bot.act that may overlap                      *)
  Clock,         (* the goroutine of expired countdowns and shot clocks    *)
  TableSize      (* Room.MaxPlayers                                        *)

ASSUME ConnAssumption ==
  /\ Conns \cap (Acts \cup {Clock, Robot, Nobody}) = {}
  /\ TableSize \in Nat \ {0}

VARIABLES
  stage,         (* where each goroutine is                                *)
  after,         (* what it does once it has sent its frames               *)
  relay,         (* the clients broadcast still has to send to             *)
  owner,         (* conn.guestID, once open                                *)
  watching,      (* the connections opened to spectate                     *)
  client,        (* seat.client of every seated guest                      *)
  spectators,    (* Room.spectators                                        *)
  round,         (* Room.state: "none", "on" or "over"                     *)
  turn,
  shown,         (* the players' connections sent the state as it is       *)
  fetching,      (* the goroutine Attach left to fetch a guest's coins     *)
  plan,          (* what the scheduled call of Bot.act will do: "none" is  *)
                 (* scheduled, "ready", "move" or "wait"                   *)
  readied,       (* Bot.readied                                            *)
  latest,        (* plan, and the moves under way, that rest on the latest *)
                 (* state                                                  *)
  up             (* the server runs                                        *)

calls == <<stage, after, relay>>
links == <<owner, watching, client, spectators>>
roundVars == <<round, turn>>
sights == <<shown, plan, latest>>
connVars == <<calls, links, roundVars, sights, fetching, readied, up>>

Routines == Conns \cup Acts \cup {Clock}
Home(p) == IF p \in Conns THEN "reading" ELSE "idle"
Seated == DOMAIN client

ConnInit ==
  /\ stage = [p \in Routines |-> IF p \in Conns THEN "free" ELSE "idle"]
  /\ after = [p \in Routines |-> Home(p)] /\ relay = [p \in Routines |-> {}]
  /\ owner = [c \in Conns |-> Nobody] /\ watching = {} /\ spectators = {}
  /\ client = [g \in {Robot} |-> Robot]
  /\ round = "none" /\ turn = Robot
  /\ shown = {} /\ plan = "ready" /\ latest = {Robot}
  /\ fetching = "none" /\ readied = FALSE /\ up = TRUE

Goto(p, s) == stage' = [stage EXCEPT ![p] = s] /\ UNCHANGED <<after, relay>>

(* p broadcasts the state next and then goes on.                           *)
TellThen(p, s) ==
  /\ stage' = [stage EXCEPT ![p] = "telling"]
  /\ after' = [after EXCEPT ![p] = s]
  /\ UNCHANGED relay

-----------------------------------------------------------------------------
(* Frames.                                                                 *)

(* The state changed: nobody was shown it yet.                             *)
Change == shown' = {} /\ latest' = {} /\ UNCHANGED plan

Players == {client[g] : g \in Seated} \cap Conns
MyMove == round = "on" /\ turn = Robot
NeedReady == round = "none" /\ ~readied

(* Mutant: a frame that comes while a move is being made schedules none.   *)
BotFrameOnce ==
  plan' = IF MyMove /\ "moving" \notin {stage[a] : a \in Acts} THEN "move"
          ELSE IF NeedReady THEN "ready"
          ELSE IF plan = "none" THEN "none" ELSE "wait"

(* Bot.Send: the frame is noted; a call of act is scheduled if there is    *)
(* something to do and none is.                                            *)
BotFrame ==
  plan' = IF MyMove THEN "move"
          ELSE IF NeedReady THEN "ready"
          ELSE IF plan = "none" THEN "none" ELSE "wait"

(* broadcastState: under the lock, to every client its view.               *)
StateFrames ==
  /\ shown' = shown \cup Players
  /\ BotFrame
  /\ latest' = latest \cup {Robot}

Tell(p) ==
  /\ stage[p] = "telling"
  /\ StateFrames
  /\ stage' = [stage EXCEPT ![p] = after[p]]
  /\ after' = [after EXCEPT ![p] = Home(p)]
  /\ UNCHANGED <<relay, links, roundVars, fetching, readied, up>>

(* broadcast copies the list of clients and sends to them after unlocking. *)
CopyClients(p) ==
  /\ stage[p] = "copying"
  /\ relay' = [relay EXCEPT ![p] = Players \cup spectators]
  /\ stage' = [stage EXCEPT ![p] = "relaying"]
  /\ UNCHANGED <<after, links, roundVars, sights, fetching, readied, up>>

Relay(p) ==
  /\ stage[p] = "relaying"
  /\ \A c \in relay[p] : stage[c] # "closed"
  /\ stage' = [stage EXCEPT ![p] = after[p]]
  /\ after' = [after EXCEPT ![p] = Home(p)]
  /\ relay' = [relay EXCEPT ![p] = {}]
  /\ UNCHANGED <<links, roundVars, sights, fetching, readied, up>>

(* A send on a channel that is closed meanwhile panics. A connection's     *)
(* goroutine unwinds through the deferred Detach and is recovered by the   *)
(* HTTP server; in the goroutine of a timer the panic ends the program.    *)
Panic(p) ==
  /\ stage[p] = "relaying"
  /\ \E c \in relay[p] : stage[c] = "closed"
  /\ relay' = [relay EXCEPT ![p] = {}] /\ UNCHANGED after
  /\ IF p \in Conns THEN stage' = [stage EXCEPT ![p] = "detaching"] /\ UNCHANGED up
                    ELSE up' = FALSE /\ UNCHANGED stage
  /\ UNCHANGED <<links, roundVars, sights, fetching, readied>>

-----------------------------------------------------------------------------
(* The life of a connection.                                               *)

(* Upgrade: a guest's socket is open, to play or to watch.                 *)
Opened(c, g) == stage[c] = "free" /\ owner' = [owner EXCEPT ![c] = g]

MayAttach(g) == g \in Seated \/ (round = "none" /\ Cardinality(Seated) < TableSize)

(* Bound: one goroutine at a time fetches coins for the room.              *)
Attach(c, g) ==
  /\ Opened(c, g) /\ MayAttach(g)
  /\ client' = [h \in Seated \cup {g} |-> IF h = g THEN c ELSE client[h]]
  /\ Change
  /\ TellThen(c, "reading")
  /\ fetching' = IF fetching = "none" THEN "coins" ELSE fetching
  /\ UNCHANGED <<watching, spectators, roundVars, readied, up>>

(* "cannot join room": the connection stays open.                          *)
AttachRefused(c, g) ==
  /\ Opened(c, g) /\ ~MayAttach(g)
  /\ Goto(c, "reading")
  /\ UNCHANGED <<watching, client, spectators, roundVars, sights, fetching, readied, up>>

(* A spectator's older connection is replaced. The state is sent to the    *)
(* new one after unlocking.                                                *)
AttachSpectator(c, g) ==
  /\ Opened(c, g)
  /\ watching' = watching \cup {c}
  /\ spectators' = {d \in spectators : owner[d] # g} \cup {c}
  /\ Goto(c, "reading")
  /\ UNCHANGED <<client, roundVars, sights, fetching, readied, up>>

(* Mutant: nobody is told of the coins that were fetched.                  *)
FetchedQuietly ==
  /\ fetching = "coins" /\ fetching' = "none"
  /\ Change
  /\ UNCHANGED <<calls, links, roundVars, readied, up>>

(* ensureCoins and ensureAvatar, then a broadcast of their own.            *)
Fetched ==
  /\ fetching = "coins" /\ fetching' = "telling"
  /\ Change
  /\ UNCHANGED <<calls, links, roundVars, readied, up>>

TellFetched ==
  /\ fetching = "telling" /\ fetching' = "none"
  /\ StateFrames
  /\ UNCHANGED <<calls, links, roundVars, readied, up>>

(* Room.Detach, of the guest, whichever connection asks for it.            *)
ClearClient(g) ==
  /\ client' = IF g \in Seated THEN [client EXCEPT ![g] = Nobody] ELSE client
  /\ Change

Leave(c) ==
  /\ stage[c] = "reading" /\ c \notin watching
  /\ ClearClient(owner[c])
  /\ TellThen(c, "reading")
  /\ UNCHANGED <<owner, watching, spectators, roundVars, fetching, readied, up>>

(* Reading fails: the peer or the write pump closed the socket.            *)
ReadError(c) ==
  /\ stage[c] = "reading"
  /\ Goto(c, "detaching")
  /\ UNCHANGED <<links, roundVars, sights, fetching, readied, up>>

(* Mutant: a spectator is detached like a player.                          *)
DetachAnyhow(c) ==
  /\ stage[c] = "detaching"
  /\ ClearClient(owner[c])
  /\ TellThen(c, "closed")
  /\ UNCHANGED <<owner, watching, spectators, roundVars, fetching, readied, up>>

(* The deferred end of the goroutine: detach, then close conn.send.        *)
Detach(c) ==
  /\ stage[c] = "detaching"
  /\ \/ /\ c \notin watching
        /\ ClearClient(owner[c]) /\ UNCHANGED spectators
        /\ TellThen(c, "closed")
     \/ /\ c \in watching
        /\ spectators' = {d \in spectators : owner[d] # owner[c]}
        /\ Goto(c, "closed")
        /\ UNCHANGED <<client, sights>>
  /\ UNCHANGED <<owner, watching, roundVars, fetching, readied, up>>

-----------------------------------------------------------------------------
(* What a message, a clock or the bot does to the table.                   *)

(* handleGameAction with an action the engine takes: the turn goes on, is  *)
(* passed on, or the round is over.                                        *)
Accepted(p, g) ==
  /\ round = "on" /\ turn = g
  /\ \/ UNCHANGED roundVars /\ TellThen(p, Home(p))
     \/ UNCHANGED round /\ turn' \in Seated \ {g} /\ TellThen(p, Home(p))
     \/ round' = "over" /\ UNCHANGED turn /\ TellThen(p, "finishing")
  /\ Change
  /\ UNCHANGED <<links, fetching, readied, up>>

(* finishRound: the table is cleared, the result relayed to a copy of the  *)
(* clients (round_result, and match_result after a match), the state told. *)
Finish(p) ==
  /\ stage[p] = "finishing"
  /\ round' = "none" /\ UNCHANGED turn
  /\ Change
  /\ stage' = [stage EXCEPT ![p] = "copying"]
  /\ after' = [after EXCEPT ![p] = "telling"]
  /\ UNCHANGED <<relay, links, fetching, readied, up>>

(* handleReady, with the others ready or not; handleBotTakeover notes its  *)
(* flag as the former does.                                                *)
Ready(p) ==
  /\ Change
  /\ \/ TellThen(p, Home(p))
     \/ round = "none" /\ Cardinality(Seated) > 1 /\ Goto(p, "starting")
  /\ UNCHANGED <<links, roundVars, fetching, readied, up>>

StartRound(p) ==
  /\ stage[p] = "starting"
  /\ \/ /\ round = "none" /\ round' = "on" /\ turn' \in Seated
        /\ Change /\ TellThen(p, Home(p))
     \/ round # "none" /\ Goto(p, Home(p)) /\ UNCHANGED <<roundVars, sights>>
  /\ UNCHANGED <<links, fetching, readied, up>>

(* HandleMessage of a connection: spectators may only chat, and a chat     *)
(* line is relayed for a seated guest alone. What is refused, or asked, is *)
(* answered and changes nothing.                                           *)
Message(c) ==
  /\ stage[c] = "reading"
  /\ \/ c \notin watching /\ (Accepted(c, owner[c]) \/ Ready(c))
     \/ /\ owner[c] \in Seated
        /\ Goto(c, "copying")
        /\ UNCHANGED <<links, roundVars, sights, fetching, readied, up>>

(* tryAutoStart, or autoPlay for the guest on turn.                        *)
Expire ==
  /\ stage[Clock] = "idle"
  /\ \/ /\ round = "none" /\ Cardinality(Seated) > 1
        /\ Goto(Clock, "starting")
        /\ UNCHANGED <<links, roundVars, sights, fetching, readied, up>>
     \/ Accepted(Clock, turn)

-----------------------------------------------------------------------------
(* The bot.                                                                *)

(* Bot.act: what is decided on the last frame is sent after unlocking.     *)
Act(a) ==
  /\ stage[a] = "idle" /\ plan # "none"
  /\ plan' = "none"
  /\ readied' = (readied \/ plan = "ready")
  /\ \/ plan = "ready" /\ Goto(a, "readying") /\ UNCHANGED latest
     \/ /\ plan = "move" /\ Goto(a, "moving")
        /\ latest' = IF Robot \in latest THEN latest \cup {a} ELSE latest
     \/ plan = "wait" /\ UNCHANGED <<calls, latest>>
  /\ UNCHANGED <<shown, links, roundVars, fetching, up>>

(* A move decided on the latest state is legal (MoveAdvisor); another one  *)
(* may be refused.                                                         *)
BotMove(a) ==
  /\ stage[a] = "moving"
  /\ \/ Accepted(a, Robot)
     \/ /\ a \notin latest /\ Goto(a, "idle")
        /\ UNCHANGED <<links, roundVars, sights, fetching, readied, up>>

BotReady(a) == stage[a] = "readying" /\ Ready(a)

-----------------------------------------------------------------------------
Attaching(c) ==
  \E g \in Guests : Attach(c, g) \/ AttachRefused(c, g) \/ AttachSpectator(c, g)
Leaving(c) == Leave(c) \/ ReadError(c) \/ Detach(c)
Sending(p) == Tell(p) \/ CopyClients(p) \/ Relay(p) \/ Panic(p)

ConnNext ==
  /\ up
  /\ \/ \E c \in Conns : Attaching(c) \/ Leaving(c) \/ Message(c)
     \/ \E a \in Acts : Act(a) \/ BotMove(a) \/ BotReady(a)
     \/ \E p \in Routines : Sending(p) \/ StartRound(p) \/ Finish(p)
     \/ Fetched \/ TellFetched \/ Expire

-----------------------------------------------------------------------------
ConnTypeOK ==
  /\ DOMAIN stage = Routines /\ DOMAIN after = Routines
  /\ owner \in [Conns -> Guests \cup {Nobody}]
  /\ spectators \subseteq watching /\ watching \subseteq Conns
  /\ Robot \in Seated /\ Seated \subseteq Guests \cup {Robot}
  /\ Cardinality(Seated) <= TableSize
  /\ \A g \in Seated : client[g] \in Conns \cup {Robot, Nobody}
  /\ \A p \in Routines : relay[p] \subseteq Conns
  /\ round \in {"none", "on", "over"} /\ turn \in Seated
  /\ fetching \in {"none", "coins", "telling"}
  /\ plan \in {"none", "ready", "move", "wait"}
  /\ shown \subseteq Conns /\ latest \subseteq Acts \cup {Robot}

(* Goroutines that have still to tell a change to the clients.             *)
SomebodyTells ==
  \/ fetching = "telling"
  \/ \E p \in Routines :
       \/ stage[p] \in {"telling", "starting", "detaching"}
       \/ stage[p] \in {"copying", "relaying"} /\ after[p] = "telling"

(* Once every broadcast was made, a connected player has been sent the     *)
(* room as it is, whatever raced with whatever: nothing but a frame lost   *)
(* to a full buffer (ws/handler.go:61-66) makes a player look at an old    *)
(* table. (Of a spectator this is not so: his first view is sent after     *)
(* unlocking, hub.go:398-400.)                                             *)
PlayersAreShown == up /\ ~SomebodyTells => Players \subseteq shown

(* The bot never sleeps through its turn: with every change told, its move *)
(* is on the way or scheduled (bot.go:75-97 coalesces the frames that      *)
(* arrive while it thinks).                                                *)
BotIsAwake ==
  up /\ ~SomebodyTells /\ MyMove =>
    plan = "move" \/ \E a \in Acts : stage[a] = "moving"
================================================================================
