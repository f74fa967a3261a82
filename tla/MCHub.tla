--------------------------------- MODULE MCHub ---------------------------------
(***************************************************************************)
(* Model checking the parts around a table: its connections, the lobby,    *)
(* friendships, sessions and the advice its players are given. They share  *)
(* no state, so a behaviour exercises one of them, chosen at the start:    *)
(* the states of the parts add up and do not multiply. One history of the  *)
(* connections is kept, which no step reads.                               *)
(***************************************************************************)
EXTENDS Connections, Lobby, Friends, Sessions, MCAutoKnockSearch, TLC

VARIABLES
  part,          (* the part that moves                                    *)
  entitled       (* connections that took their guest's seat while he had  *)
                 (* no other, and neither left nor were joined since       *)

GivesUp(c) ==
  stage[c] = "reading" /\ stage'[c] = "telling" /\ client'[owner[c]] = Nobody
MayDetach(g) ==
  {c \in Conns \ watching : /\ owner[c] = g /\ stage[c] \notin {"free", "closed"}
                           /\ ~(stage[c] = "telling" /\ after[c] = "closed")}

ConnStep ==
  /\ ConnNext
  /\ entitled' = {c \in Conns :
       /\ MayDetach(owner[c])' = {c} /\ stage'[c] # "detaching"
       /\ \/ \E g \in DOMAIN client' : client'[g] = c
          \/ c \in entitled /\ ~GivesUp(c)}

NothingAsked == hand = <<>> /\ table = <<>> /\ answer = NotAsked

MCInit ==
  /\ part \in {"connections", "lobby", "friends", "sessions", "advice"}
  /\ ConnInit /\ entitled = {}
  /\ LobbyInit /\ FriendsInit /\ SessionsInit
  /\ IF part = "lobby" THEN \A bet \in Tiers : \E g \in Guests : wallet[g] = bet
                       ELSE \A g \in Guests : wallet[g] = DefaultBet
  /\ IF part = "advice" THEN SearchInit ELSE NothingAsked

MCNext ==
  /\ UNCHANGED part
  /\ \/ /\ part = "connections" /\ ConnStep
        /\ UNCHANGED <<lobbyVars, friendVars, sessionVars, searchVars>>
     \/ /\ part = "lobby" /\ LobbyNext
        /\ UNCHANGED <<connVars, entitled, friendVars, sessionVars, searchVars>>
     \/ /\ part = "friends" /\ FriendsNext
        /\ UNCHANGED <<connVars, entitled, lobbyVars, sessionVars, searchVars>>
     \/ /\ part = "sessions" /\ SessionsNext
        /\ UNCHANGED <<connVars, entitled, lobbyVars, friendVars, searchVars>>
     \/ /\ part = "advice" /\ SearchNext
        /\ UNCHANGED <<connVars, entitled, lobbyVars, friendVars, sessionVars>>

hubVars ==
  <<part, connVars, entitled, lobbyVars, friendVars, sessionVars, searchVars>>
MCSpec == MCInit /\ [][MCNext]_hubVars

TypeOK == ConnTypeOK /\ LobbyTypeOK /\ FriendsTypeOK

(* The room holds no closed connection, so that nothing it sends under its *)
(* lock can panic; and a guest with one connection is not taken for gone   *)
(* (hub.go:43: client is "nil when disconnected"). Of a guest with two,    *)
(* the old one's late Detach clears the new one's seat.                    *)
ClientsAreLive ==
  /\ \A g \in Seated : LET c == client[g] IN
       c \in Conns => owner[c] = g /\ c \notin watching /\ stage[c] # "closed"
  /\ \A c \in spectators : stage[c] # "closed"
  /\ \A c \in entitled : client[owner[c]] = c

Interchangeable == Permutations(Conns) \cup Permutations(Guests)
================================================================================
