----------------------------- MODULE CodePromise -----------------------------
(***************************************************************************)
(* What the recovery codes of a user promise, whatever requests overlap:   *)
(* a code is issued once, is usable until it is spent, and is collected    *)
(* only after that.  No step goes back.                                    *)
(***************************************************************************)
CONSTANT Codes

VARIABLE life

Lives == {"unborn", "usable", "spent", "gone"}

InLife(stage) == {c \in Codes : life[c] = stage}

Init == life = [c \in Codes |-> "unborn"]

Move(S, stage) == life' = [c \in Codes |-> IF c \in S THEN stage ELSE life[c]]

\* Codes of one user are looked up with flags and without a lock, so several
\* codes may be spent by one step: a discarded or a replaced batch.
Spend(S) == S \subseteq InLife("usable") /\ Move(S, "spent")

\* A new batch is issued and replaces usable codes in the same step.
Issue(new, replaced) ==
    /\ new \subseteq InLife("unborn")
    /\ replaced \subseteq InLife("usable")
    /\ life' = [c \in Codes |-> IF c \in new THEN "usable"
                                ELSE IF c \in replaced THEN "spent" ELSE life[c]]

Collect(S) == S \subseteq InLife("spent") /\ Move(S, "gone")

Next == \/ \E S \in SUBSET Codes : Spend(S) \/ Collect(S)
        \/ \E new, replaced \in SUBSET Codes : Issue(new, replaced)

Spec == Init /\ [][Next]_life
=============================================================================
