---------------------------- MODULE MCMatchAndWallet ----------------------------
(***************************************************************************)
(* Model checking the matches and the wallets with the same guests. A      *)
(* match settles in one step of MatchLife, which Wallet takes apart into   *)
(* the statements of SettleMatch. They share no state, so a behaviour      *)
(* exercises one of them: their states add up and do not multiply.         *)
(***************************************************************************)
EXTENDS MCMatchLife, MCWallet

VARIABLE part      (* the part that moves *)

MCInit == part \in {"matches", "wallets"} /\ Init /\ WalletInit

MCNext ==
  /\ UNCHANGED part
  /\ \/ part = "matches" /\ Next /\ ~ArmsLate /\ UNCHANGED walletVars
     \/ part = "wallets" /\ WalletNext /\ UNCHANGED vars

MCSpec == MCInit /\ [][MCNext]_<<part, vars, walletVars>>

AllInterchangeable == Symmetry \cup Interchangeable
================================================================================
