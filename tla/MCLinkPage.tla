----------------------------- MODULE MCLinkPage -----------------------------
(* LinkPage in two tabs, one of which links again. *)
EXTENDS LinkPage, TLC

CONSTANTS left, right     \* tabs

Twice == (left :> 2) @@ (right :> 1)
=============================================================================
