--------------------------------- MODULE Sessions --------------------------------
(***************************************************************************)
(* One session token (session/session.go): a row with an expiry in         *)
(* Postgres, and a copy in Redis that lives for the same time from when it *)
(* was written. Redis is asked first; it may fail or lose the copy at any  *)
(* time. Days stand for time; a call is over before the day is.            *)
(***************************************************************************)
EXTENDS Integers

CONSTANTS
  SessionTTL,     (* config.SessionTTL, in days                            *)
  LastDay         (* bound on the days                                     *)

ASSUME SessionsAssumption == SessionTTL \in Nat \ {0} /\ LastDay \in Nat

VARIABLES
  day,
  expires,        (* sessions.expires_at, 0 before there is a row          *)
  cachedUntil,    (* when Redis forgets its copy                           *)
  resolving,      (* a call has found the row and has still to cache it    *)
  admitted        (* history: the last day the token was resolved          *)

sessionVars == <<day, expires, cachedUntil, resolving, admitted>>

SessionsInit ==
  day = 1 /\ expires = 0 /\ cachedUntil = 0 /\ resolving = FALSE /\ admitted = 0

NextDay ==
  /\ day < LastDay /\ ~resolving
  /\ day' = day + 1
  /\ UNCHANGED <<expires, cachedUntil, resolving, admitted>>

(* The write to Redis is best effort.                                      *)
Cache == cachedUntil' \in {cachedUntil, day + SessionTTL}

CreateGuest ==
  /\ expires = 0
  /\ expires' = day + SessionTTL
  /\ Cache
  /\ UNCHANGED <<day, resolving, admitted>>

(* Mutant: every hit keeps the copy for another lifetime.                  *)
ResolveSliding ==
  /\ expires # 0 /\ day < cachedUntil
  /\ admitted' = day
  /\ cachedUntil' = day + SessionTTL
  /\ UNCHANGED <<day, expires, resolving>>

ResolveCached ==
  /\ expires # 0 /\ day < cachedUntil
  /\ admitted' = day
  /\ UNCHANGED <<day, expires, cachedUntil, resolving>>

(* LookupSession, when Redis has no copy or fails; then the copy is made.  *)
ResolveStored ==
  /\ ~resolving /\ day < expires
  /\ resolving' = TRUE
  /\ admitted' = day
  /\ UNCHANGED <<day, expires, cachedUntil>>

Repopulate ==
  /\ resolving /\ resolving' = FALSE
  /\ Cache
  /\ UNCHANGED <<day, expires, admitted>>

LoseCopy ==
  /\ cachedUntil > day /\ cachedUntil' = 0
  /\ UNCHANGED <<day, expires, resolving, admitted>>

SessionsNext ==
  NextDay \/ CreateGuest \/ ResolveCached \/ ResolveStored \/ Repopulate \/ LoseCopy

-----------------------------------------------------------------------------
(* A session comes to an end: no token is accepted more than one lifetime  *)
(* after its row expired, although the copy in Redis may be written on the *)
(* row's last day and is not checked against the row (session.go:75-79).   *)
SessionsEnd == expires # 0 => admitted < expires + SessionTTL
================================================================================
