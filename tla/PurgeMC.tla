------------------------------- MODULE PurgeMC -------------------------------
(* Instances of Purge for TLC. *)
EXTENDS Purge, TLC

CONSTANTS b1, b2, c1, c2, c3

\* Two codes of one batch, and one of another.
TwoAndOne == c1 :> b1 @@ c2 :> b1 @@ c3 :> b2
OneBatch == c1 :> b1 @@ c2 :> b1

\* Unset, unlimited, and a cap that a chunk reaches.
AllCaps == {{}, {-1}, {1}}
Unlimited == {{-1}}
=============================================================================
