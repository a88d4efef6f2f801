--------------------------- MODULE AttemptGuardMC ---------------------------
(* Small instances of AttemptGuard. *)
EXTENDS AttemptGuard, TLC

CONSTANTS alice, bob, r1, r2, w1, w2

\* One process with two threads, or two processes.
Threads   == r1 :> w1 @@ r2 :> w1
Processes == r1 :> w1 @@ r2 :> w2
Alone     == r1 :> w1
=============================================================================
