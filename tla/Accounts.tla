-------------------------------- MODULE Accounts --------------------------------
(* The guest accounts of the server, which its parts around a table share. *)
CONSTANT Guests
================================================================================
