--------------------------- MODULE BatchDeliveryMC ---------------------------
(* Instances of BatchDelivery for TLC. *)
EXTENDS BatchDelivery, TLC

AllValues == [flags: SUBSET {"downloaded", "emailed"},
              setup: {"absent", "no", "yes"}]

Tabs == Permutations(Callers)
=============================================================================
