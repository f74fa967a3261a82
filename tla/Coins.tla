---------------------------------- MODULE Coins ----------------------------------
(* The coins that the matches of a room and the wallets in the database agree on. *)
CONSTANTS
  StartingCoins,     (* of a new guest                                    *)
  Bet                (* of every player of a match                        *)
================================================================================
