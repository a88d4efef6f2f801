-------------------------------- MODULE Purge --------------------------------
(***************************************************************************)
(* The scheduled purge: purge_all_expired_batches, run by django-q for the  *)
(* schedules of a RecoveryCodeCleanUpScheduler.                             *)
(*                                                                         *)
(* Two schedules run the purge of one scheduler: the one its post_save      *)
(* signal keeps (purge_recovery_codes_<pk>) and the one that post_migrate   *)
(* adds under another name (purge_codes_<id>) and nobody changes again.     *)
(* Nothing keeps their runs apart, so a step is one statement on the        *)
(* database.  Only the life of the codes after the users gave them up is    *)
(* modelled; CodeLifecycle has what users do.                               *)
(***************************************************************************)
EXTENDS Integers, FiniteSets

CONSTANTS Batches, Codes,
          BatchOf,        \* the batch of each code
          Chunk,          \* batch_size: codes deleted by one statement
          CapSettings,    \* MAX_DELETIONS_PER_RUN: {} unset, {-1} unlimited, {n}
          DeleteEmpty,    \* delete_empty_batch
          MaxRetention, MaxDay   \* bounds

ASSUME PurgeAssumption ==
    /\ IsFiniteSet(Codes)
    /\ BatchOf \in [Codes -> Batches]
    /\ Chunk \in Nat \ {0}
    /\ CapSettings \subseteq SUBSET Int
    /\ DeleteEmpty \in BOOLEAN
    /\ MaxRetention \in Nat /\ MaxDay \in Nat

VARIABLES day,
          code,        \* each code: its state, when its row was last saved, when it was given up
          batches,     \* the rows of RecoveryCodesBatch
          scheduler,   \* the RecoveryCodeCleanUpScheduler row
          schedules,   \* the django-q rows of its two schedules: {} or {retention_days}
          cap,         \* the setting
          run,         \* the run of each schedule
          audited,     \* number_deleted in the audit rows of each batch
          recorded,    \* total_codes_purged in the RecoveryCodePurgeHistory rows
          disturbed    \* history: a run has died or a statement has failed

settingVars == <<scheduler, schedules, cap>>
ledgerVars == <<audited, recorded>>
vars == <<day, code, batches, settingVars, run, ledgerVars, disturbed>>

Tasks == {"signal", "migrate"}
States == {"usable", "retired", "purged", "cascaded"}
Pcs == {"idle", "next", "count", "pick", "delete", "audit", "finish"}

CodeRow == [state: States, modified: 0 .. MaxDay, retired: 0 .. MaxDay]
Run == [pc: Pcs, retention: 0 .. MaxRetention, todo: SUBSET Batches,
        batch: SUBSET Batches, ids: SUBSET Codes, deleted: Nat, total: Nat]
Idle == [pc |-> "idle", retention |-> 0, todo |-> {}, batch |-> {}, ids |-> {},
         deleted |-> 0, total |-> 0]

CodesOf(b) == {c \in Codes : BatchOf[c] = b}
In(state, b) == {c \in CodesOf(b) : code[c].state = state}
Issued(b) == Cardinality(CodesOf(b))

At(p, pc) == run[p].pc = pc
Goes(p, pc) == run' = [run EXCEPT ![p].pc = pc]

PurgeInit ==
    /\ day = 0
    /\ code = [c \in Codes |-> [state |-> "usable", modified |-> 0, retired |-> 0]]
    /\ batches = Batches
    /\ scheduler = [enabled |-> FALSE, retention |-> 0]
    /\ schedules = [p \in Tasks |-> {}]
    /\ cap \in CapSettings
    /\ run = [p \in Tasks |-> Idle]
    /\ audited = [b \in Batches |-> 0]
    /\ recorded = 0
    /\ disturbed = FALSE

Unledgered == UNCHANGED <<ledgerVars, settingVars, disturbed, day>>
-----------------------------------------------------------------------------
(* Users and the administrator. *)

\* Bound: codes are given up while there is time left to purge them.
InTime == day + MaxRetention < MaxDay

\* One code is given up, and its row says that it was last saved on the given day.
GiveUp(c, saved) ==
    /\ InTime
    /\ code[c].state = "usable"
    /\ code' = [code EXCEPT ![c] = [state |-> "retired", modified |-> saved, retired |-> day]]
    /\ UNCHANGED <<batches, run>> /\ Unledgered

\* A code is used or deleted: modified_at (auto_now) is among the fields that are saved.
DeleteCode(c) == GiveUp(c, day)

\* A code is deactivated: modified_at is not among them, and stays what it was.
InvalidateCode(c) == GiveUp(c, code[c].modified)

\* A batch is discarded or replaced: QuerySet.update leaves modified_at alone.
RetireBatch(b) ==
    /\ InTime
    /\ In("usable", b) # {}
    /\ code' = [c \in Codes |-> IF c \in In("usable", b)
                    THEN [code[c] EXCEPT !.state = "retired", !.retired = day] ELSE code[c]]
    /\ UNCHANGED <<batches, run>> /\ Unledgered

\* Mutant: a day of the retention is lost.
SaveSchedulerShort(enabled, retention) ==
    /\ scheduler' = [enabled |-> enabled, retention |-> retention]
    /\ schedules' = [schedules EXCEPT !["signal"] = IF enabled THEN {retention - 1} ELSE {}]
    /\ UNCHANGED <<day, code, batches, cap, run, ledgerVars, disturbed>>

\* post_save of the scheduler: its schedule is written or deleted.
SaveScheduler(enabled, retention) ==
    /\ scheduler' = [enabled |-> enabled, retention |-> retention]
    /\ schedules' = [schedules EXCEPT !["signal"] = IF enabled THEN {retention} ELSE {}]
    /\ UNCHANGED <<day, code, batches, cap, run, ledgerVars, disturbed>>

\* post_migrate: an enabled scheduler gets a second schedule, once.
Migrate ==
    /\ scheduler.enabled
    /\ schedules["migrate"] = {}
    /\ schedules' = [schedules EXCEPT !["migrate"] = {scheduler.retention}]
    /\ UNCHANGED <<day, code, batches, scheduler, cap, run, ledgerVars, disturbed>>

Tick ==
    /\ day < MaxDay
    /\ day' = day + 1
    /\ UNCHANGED <<code, batches, settingVars, run, ledgerVars, disturbed>>
-----------------------------------------------------------------------------
(* A run of the purge. *)

\* purge_all_expired_batches reads the batches.
StartRun(p) ==
    /\ At(p, "idle")
    /\ \E retention \in schedules[p] :
         run' = [run EXCEPT ![p] = [Idle EXCEPT !.pc = "next", !.retention = retention,
                                                !.todo = batches]]
    /\ UNCHANGED <<code, batches>> /\ Unledgered

\* Mutant: the comparison is turned round.
ExpiredSwapped(b, retention) ==
    {c \in In("retired", b) : retention > 0 => code[c].modified + retention > day}

\* _get_expired_recovery_codes_qs
Expired(b, retention) ==
    {c \in In("retired", b) : retention > 0 => code[c].modified + retention < day}

Chosen(b, pc) == IF pc = "next" THEN {} ELSE {b}
TakeBatch(p, b, pc) ==
    run' = [run EXCEPT ![p] = [@ EXCEPT !.pc = pc, !.todo = run[p].todo \ {b}, !.deleted = 0,
                                        !.ids = {}, !.batch = Chosen(b, pc)]]

\* purge_expired_codes returns (0, True) for a batch without expired codes, and the
\* caller, who expects three values, skips the batch.
NextBatch(p) ==
    /\ At(p, "next")
    /\ \E b \in run[p].todo :
         TakeBatch(p, b, IF Expired(b, run[p].retention) = {} THEN "next" ELSE "count")
    /\ UNCHANGED <<code, batches>> /\ Unledgered

\* number_to_delete; nothing is audited when another run was faster.
CountCodes(p) ==
    /\ At(p, "count")
    /\ \E b \in run[p].batch :
         Goes(p, IF Expired(b, run[p].retention) = {} THEN "finish" ELSE "pick")
    /\ UNCHANGED <<code, batches>> /\ Unledgered

\* The ids of the next chunk, or the end of the loop.
PickChunk(p) ==
    /\ At(p, "pick")
    /\ \E b \in run[p].batch :
         LET expired == Expired(b, run[p].retention) IN
         \/ expired = {} /\ Goes(p, "audit")
         \/ expired # {} /\ \E ids \in SUBSET expired :
              /\ Cardinality(ids) = IF Cardinality(expired) < Chunk
                                    THEN Cardinality(expired) ELSE Chunk
              /\ run' = [run EXCEPT ![p] = [@ EXCEPT !.pc = "delete", !.ids = ids]]
    /\ UNCHANGED <<code, batches>> /\ Unledgered

\* Mutant: the cap is taken for the size of a chunk.
CappedByChunk(deleted) ==
    CASE cap = {} -> "next"
      [] cap = {-1} -> "pick"
      [] OTHER -> IF \E n \in cap : deleted >= n + Chunk THEN "audit" ELSE "pick"

\* The cap is compared after a chunk; comparing with a setting that is not there raises,
\* and the batch is left without an audit row.
Capped(deleted) ==
    CASE cap = {} -> "next"
      [] cap = {-1} -> "pick"
      [] OTHER -> IF \E n \in cap : deleted >= n THEN "audit" ELSE "pick"

\* A row that is gone has no columns left.
Gone(state) == [state |-> state, modified |-> 0, retired |-> 0]

Purged(ids) == [c \in Codes |-> IF c \in ids THEN Gone("purged") ELSE code[c]]

\* Mutant: what was picked is counted, not what was deleted.
DeletePicked(p) ==
    /\ At(p, "delete")
    /\ \E b \in run[p].batch :
         LET gone == run[p].ids \cap Expired(b, run[p].retention)
             deleted == run[p].deleted + Cardinality(run[p].ids)
         IN /\ code' = Purged(gone)
            /\ run' = [run EXCEPT ![p] = [@ EXCEPT !.pc = Capped(deleted), !.ids = {},
                                                   !.deleted = deleted]]
    /\ UNCHANGED batches /\ Unledgered

\* expired_codes.filter(id__in=...).delete() counts what it has deleted.
DeleteChunk(p) ==
    /\ At(p, "delete")
    /\ \E b \in run[p].batch :
         LET gone == run[p].ids \cap Expired(b, run[p].retention)
             deleted == run[p].deleted + Cardinality(gone)
         IN /\ code' = Purged(gone)
            /\ run' = [run EXCEPT ![p] = [@ EXCEPT !.pc = Capped(deleted), !.ids = {},
                                                   !.deleted = deleted]]
    /\ UNCHANGED batches /\ Unledgered

\* The audit row needs the row of the batch; without one the batch is skipped.
AuditPurge(p) ==
    /\ At(p, "audit")
    /\ \E b \in run[p].batch :
         IF b \in batches
         THEN /\ audited' = [audited EXCEPT ![b] = @ + run[p].deleted]
              /\ Goes(p, "finish")
         ELSE /\ TakeBatch(p, b, "next")
              /\ UNCHANGED audited
    /\ UNCHANGED <<day, code, batches, settingVars, recorded, disturbed>>

\* Mutant: a batch is empty when no code of it is left to purge.
EmptyOfExpired(p, b) == Expired(b, run[p].retention) = {}

\* is_empty: this very run has deleted as many codes as were issued.
IsEmpty(p, b) == Issued(b) - run[p].deleted = 0

\* The batch is deleted if it is empty, and with it what is left of its codes; the
\* run's totals count the purged codes.
FinishBatch(p) ==
    /\ At(p, "finish")
    /\ \E b \in run[p].batch :
         /\ IF DeleteEmpty /\ IsEmpty(p, b)
            THEN /\ batches' = batches \ {b}
                 /\ code' = [c \in Codes |->
                       IF c \in CodesOf(b) /\ code[c].state # "purged"
                       THEN Gone("cascaded") ELSE code[c]]
            ELSE UNCHANGED <<batches, code>>
         /\ run' = [run EXCEPT ![p] = [@ EXCEPT !.pc = "next", !.batch = {}, !.deleted = 0,
                                                !.total = run[p].total + run[p].deleted]]
    /\ Unledgered

\* Mutant: the totals are kept for the next run.
RecordKept(p) ==
    /\ At(p, "next")
    /\ run[p].todo = {}
    /\ recorded' = recorded + run[p].total
    /\ Goes(p, "idle")
    /\ UNCHANGED <<day, code, batches, settingVars, audited, disturbed>>

\* The history row of the run.  The hook then e-mails the report, and looks for a
\* scheduler under the name of the schedule, which none has.
RecordRun(p) ==
    /\ At(p, "next")
    /\ run[p].todo = {}
    /\ recorded' = recorded + run[p].total
    /\ run' = [run EXCEPT ![p] = Idle]
    /\ UNCHANGED <<day, code, batches, settingVars, audited, disturbed>>

\* A statement fails and its batch is skipped, or the worker dies.  Bound: once.
FailBatch(p) ==
    /\ ~disturbed
    /\ disturbed' = TRUE
    /\ \E b \in run[p].batch : TakeBatch(p, b, "next")
    /\ UNCHANGED <<day, code, batches, settingVars, ledgerVars>>

PurgeCrash(p) ==
    /\ ~disturbed
    /\ disturbed' = TRUE
    /\ run[p].pc # "idle"
    /\ run' = [run EXCEPT ![p] = Idle]
    /\ UNCHANGED <<day, code, batches, settingVars, ledgerVars>>

RunStep(p) ==
    \/ NextBatch(p) \/ CountCodes(p) \/ PickChunk(p) \/ DeleteChunk(p)
    \/ AuditPurge(p) \/ FinishBatch(p) \/ RecordRun(p)

PurgeNext ==
    \/ \E p \in Tasks : StartRun(p) \/ RunStep(p) \/ FailBatch(p) \/ PurgeCrash(p)
    \/ \E c \in Codes : DeleteCode(c) \/ InvalidateCode(c)
    \/ \E b \in Batches : RetireBatch(b)
    \/ \E enabled \in BOOLEAN, retention \in 0 .. MaxRetention :
         SaveScheduler(enabled, retention)
    \/ Migrate
    \/ Tick

PurgeSpec == PurgeInit /\ [][PurgeNext]_vars

\* django-q runs the signal's schedule again and again, its workers go on, and time passes.
FairPurgeSpec ==
    /\ PurgeSpec
    /\ WF_vars(StartRun("signal"))
    /\ WF_vars(RunStep("signal"))
    /\ WF_vars(Tick)
-----------------------------------------------------------------------------
(* Properties. *)

PurgeTypeOK ==
    /\ day \in 0 .. MaxDay
    /\ code \in [Codes -> CodeRow]
    /\ batches \in SUBSET Batches
    /\ scheduler \in [enabled: BOOLEAN, retention: 0 .. MaxRetention]
    /\ schedules \in [Tasks -> SUBSET (0 .. MaxRetention)]
    /\ cap \in CapSettings
    /\ run \in [Tasks -> Run]
    /\ audited \in [Batches -> Nat]
    /\ recorded \in Nat
    /\ disturbed \in BOOLEAN

\* Deleting a batch never takes a code with it, usable or not: each was purged by the
\* run that deletes the batch.
NothingCascades == \A c \in Codes : code[c].state # "cascaded"

\* What a run has deleted of a batch and not yet audited.
Unaudited(p, b) ==
    IF run[p].batch = {b} /\ run[p].pc \in {"pick", "delete", "audit"}
    THEN run[p].deleted ELSE 0

\* However two runs get into each other's way, the audit rows of a batch say how many of
\* its codes were purged, unless a run was cut short or the cap is not set.
AuditsMatch == ~disturbed /\ cap # {} =>
    \A b \in Batches : Cardinality(In("purged", b))
        = audited[b] + Unaudited("signal", b) + Unaudited("migrate", b)

\* What a run has deleted and not yet recorded.
Unrecorded(p) == run[p].total + run[p].deleted

\* The history rows, too, add up to the codes that were purged.
HistoryMatches == ~disturbed /\ cap # {} =>
    Cardinality({c \in Codes : code[c].state = "purged"})
        = recorded + Unrecorded("signal") + Unrecorded("migrate")

\* A run deletes no more of a batch than the cap and the rest of a chunk.
CapHolds == \A p \in Tasks, n \in cap : n > 0 => run[p].deleted <= n + Chunk - 1

\* "It will always be processed": a code that was given up is purged in the end, unless
\* the administrator disables the scheduler.
PurgedEventually == \A c \in Codes :
    code[c].state = "retired" ~> (code[c].state = "purged" \/ ~scheduler.enabled)
-----------------------------------------------------------------------------
(* What the documentation says and the code does not do. *)

\* "If a code is marked for deletion or invalidation on 30th August 2025 and
\* retention_days is set to 30, the code will not be returned before 29th September":
\* a code that is picked has been given up for as many days as the retention has.
RetentionKept == \A p \in Tasks : \A c \in run[p].ids :
    run[p].retention > 0 => code[c].retired + run[p].retention <= day

\* "Delete empty batch: remove batch if no codes remain."
EmptyBatchesGone ==
    DeleteEmpty /\ ~disturbed /\ (\A p \in Tasks : At(p, "idle"))
        => \A b \in batches : \E c \in CodesOf(b) : code[c].state # "purged"
=============================================================================
