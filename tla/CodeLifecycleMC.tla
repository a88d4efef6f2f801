--------------------------- MODULE CodeLifecycleMC ---------------------------
(* Instances of CodeLifecycle for TLC: batch k owns the codes listed below. *)
EXTENDS CodeLifecycle, TLC

CONSTANTS b1, b2, c1, c2, c3

\* One batch of two codes.
OneBatch   == {b1}
TwoCodes   == {c1, c2}
OneBatchOf == (c1 :> b1) @@ (c2 :> b1)

\* Two batches of one code each.
TwoBatches  == {b1, b2}
TwoBatchOf  == (c1 :> b1) @@ (c2 :> b2)

\* Two batches, of two codes and of one.
ThreeCodes  == {c1, c2, c3}
MoreBatchOf == (c1 :> b1) @@ (c2 :> b1) @@ (c3 :> b2)

Symmetry == Permutations(Requests)
=============================================================================
