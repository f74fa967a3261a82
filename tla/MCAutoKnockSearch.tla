--------------------------- MODULE MCAutoKnockSearch ---------------------------
(***************************************************************************)
(* Model checking the going-out search and the two advisors on the same    *)
(* hands and tables.                                                       *)
(***************************************************************************)
EXTENDS AutoKnockSearch, MoveAdvisor
===============================================================================
