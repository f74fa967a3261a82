--------------------------------- MODULE Friends ---------------------------------
(***************************************************************************)
(* Friend requests and friendships (db/friends.go). Sending a request is   *)
(* four statements, each its own transaction, so that two guests' calls    *)
(* may interleave; a query that fails counts as a no. Accepting a request  *)
(* writes both edges and clears the requests of the pair in one            *)
(* transaction, which may fail.                                            *)
(***************************************************************************)
EXTENDS Accounts

CONSTANT Callers      (* calls that may overlap                            *)

VARIABLES
  pending,      (* friend_requests: <<from, to>>                           *)
  friends,      (* friendships: <<guest, friend>>                          *)
  call,         (* where each call is                                      *)
  consented     (* history: who has asked, or accepted, whom               *)

friendVars == <<pending, friends, call, consented>>

NoCall == [at |-> "none"]
FriendsInit ==
  /\ pending = {} /\ friends = {} /\ consented = {}
  /\ call = [k \in Callers |-> NoCall]

Continue(k, at) == call' = [call EXCEPT ![k].at = at]
Answer(k) == call' = [call EXCEPT ![k] = NoCall]

(* SendFriendRequest, for somebody else's code.                            *)
SendFriendRequest(k, from, to) ==
  /\ call[k] = NoCall /\ from # to
  /\ call' = [call EXCEPT ![k] = [at |-> "friends?", from |-> from, to |-> to]]
  /\ consented' = consented \cup {<<from, to>>}
  /\ UNCHANGED <<pending, friends>>

AlreadyFriends(k) ==
  /\ call[k].at = "friends?"
  /\ \/ <<call[k].from, call[k].to>> \in friends /\ Answer(k)
     \/ Continue(k, "reverse?")
  /\ UNCHANGED <<pending, friends, consented>>

(* Mutant: the request looked for is the sender's own.                     *)
RequestedAlready(k) == <<call[k].from, call[k].to>> \in pending

ReverseRequest(k) == <<call[k].to, call[k].from>> \in pending

LookForReverse(k) ==
  /\ call[k].at = "reverse?"
  /\ \/ ReverseRequest(k) /\ Continue(k, "accept")
     \/ Continue(k, "insert")
  /\ UNCHANGED <<pending, friends, consented>>

InsertRequest(k) ==
  /\ call[k].at = "insert"
  /\ pending' \in {pending, pending \cup {<<call[k].from, call[k].to>>}}
  /\ Answer(k)
  /\ UNCHANGED <<friends, consented>>

(* AcceptFriendRequest: me accepts the request of from.                    *)
AcceptFriendRequest(k, me, from) ==
  /\ call[k] = NoCall /\ me # from
  /\ <<from, me>> \in pending
  /\ call' = [call EXCEPT ![k] = [at |-> "accept", from |-> me, to |-> from]]
  /\ consented' = consented \cup {<<me, from>>}
  /\ UNCHANGED <<pending, friends>>

(* acceptFriend.                                                           *)
Pair(k) == {<<call[k].from, call[k].to>>, <<call[k].to, call[k].from>>}
AcceptFriend(k) ==
  /\ call[k].at = "accept"
  /\ \/ friends' = friends \cup Pair(k) /\ pending' = pending \ Pair(k)
     \/ UNCHANGED <<friends, pending>>
  /\ Answer(k)
  /\ UNCHANGED consented

FriendsNext ==
  \E k \in Callers :
    \/ \E g, h \in Guests : SendFriendRequest(k, g, h) \/ AcceptFriendRequest(k, g, h)
    \/ AlreadyFriends(k) \/ LookForReverse(k) \/ InsertRequest(k) \/ AcceptFriend(k)

-----------------------------------------------------------------------------
FriendsTypeOK ==
  /\ pending \subseteq Guests \X Guests /\ friends \subseteq Guests \X Guests
  /\ \A k \in Callers :
       call[k].at \in {"none", "friends?", "reverse?", "insert", "accept"}

(* Two guests are friends, each of the other, only if each has asked for   *)
(* it or accepted: no interleaving of their calls makes a request into a   *)
(* friendship that the other did not want (friends.go:26-28: "auto-accepted*)
(* (mutual)").                                                             *)
FriendsByConsent ==
  \A e \in friends : LET back == <<e[2], e[1]>> IN
    back \in friends /\ {e, back} \subseteq consented
================================================================================
