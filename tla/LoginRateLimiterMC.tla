-------------------------- MODULE LoginRateLimiterMC --------------------------
(* Small instances of LoginRateLimiter. *)
EXTENDS LoginRateLimiter, TLC

CONSTANTS alice, bob, r1, r2, w1, w2

\* One browser of one user, or a browser each of two users on one process.
OneProcess == r1 :> w1
OneUser    == r1 :> alice
Threads    == r1 :> w1 @@ r2 :> w1
TwoUsers   == r1 :> alice @@ r2 :> bob
=============================================================================
