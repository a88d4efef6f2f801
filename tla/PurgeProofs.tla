------------------------------ MODULE PurgeProofs ------------------------------
(* Proofs about Purge, for any batches, codes, chunks, caps and clocks. *)
EXTENDS Purge, FiniteSetTheorems, TLAPS

PurgedCodes == {c \in Codes : code[c].state = "purged"}

\* A run works on one batch, of which it has deleted no more than is purged.
RunOK(p) ==
    /\ \A b, other \in run[p].batch : b = other
    /\ \A b \in run[p].batch : run[p].deleted <= Cardinality(In("purged", b))

\* A run that goes on deleting is below the cap, and a chunk is no larger than Chunk.
CapOK(p) ==
    /\ At(p, "count") => run[p].deleted = 0
    /\ run[p].pc \in {"pick", "delete"} => \A n \in cap : n > 0 => run[p].deleted < n
    /\ At(p, "delete") => Cardinality(run[p].ids) <= Chunk
    /\ \A n \in cap : n > 0 => run[p].deleted <= n + Chunk - 1

\* What a run has deleted and audited nowhere is being audited, or nothing.
LedgerOK(p) ==
    /\ run[p].pc \in {"idle", "next", "count"} => run[p].deleted = 0
    /\ At(p, "idle") => run[p].total = 0
    /\ At(p, "finish") => \A b \in run[p].batch : run[p].deleted <= audited[b]

\* A batch that is gone has every code it was issued with in its audit rows.
GoneAudited == \A b \in Batches \ batches : Issued(b) <= audited[b]

BooksKept == ~disturbed /\ cap # {}
Books == BooksKept => GoneAudited /\ (\A p \in Tasks : LedgerOK(p))

PurgeInv ==
    /\ PurgeTypeOK
    /\ NothingCascades
    /\ \A p \in Tasks : RunOK(p) /\ CapOK(p)
    /\ Books
    /\ AuditsMatch
    /\ HistoryMatches

LEMMA IdleIsRun == Idle \in Run
  BY PurgeAssumption DEF Idle, Run, Pcs

\* Sets of codes are finite, and so is what is counted of them.
LEMMA CodesCounted ==
    ASSUME NEW S \in SUBSET Codes
    PROVE  IsFiniteSet(S) /\ Cardinality(S) \in Nat
  BY FS_Subset, FS_CardinalityType, PurgeAssumption

LEMMA InCounted ==
    ASSUME NEW state, NEW b
    PROVE  /\ In(state, b) \in SUBSET Codes
           /\ Cardinality(In(state, b)) \in Nat
           /\ CodesOf(b) \in SUBSET Codes
           /\ Issued(b) \in Nat
           /\ Cardinality(In(state, b)) <= Issued(b)
           /\ Cardinality(In(state, b)) = Issued(b) => In(state, b) = CodesOf(b)
<1>1. CodesOf(b) \in SUBSET Codes /\ In(state, b) \in SUBSET CodesOf(b)
  BY DEF CodesOf, In
<1>2. IsFiniteSet(CodesOf(b))
  BY <1>1, CodesCounted
<1> QED
  BY <1>1, <1>2, CodesCounted, FS_Subset DEF Issued
-----------------------------------------------------------------------------
(***************************************************************************)
(* Types.                                                                   *)
(***************************************************************************)

LEMMA InitPurgeType == PurgeInit => PurgeTypeOK
<1> SUFFICES ASSUME PurgeInit PROVE PurgeTypeOK
  OBVIOUS
<1> USE PurgeAssumption DEF PurgeInit
<1>1. day \in 0 .. MaxDay /\ batches \in SUBSET Batches /\ cap \in CapSettings
  OBVIOUS
<1>2. code \in [Codes -> CodeRow]
  BY DEF CodeRow, States
<1>3. scheduler \in [enabled: BOOLEAN, retention: 0 .. MaxRetention]
  OBVIOUS
<1>4. schedules \in [Tasks -> SUBSET (0 .. MaxRetention)]
  OBVIOUS
<1>5. run \in [Tasks -> Run]
  BY IdleIsRun
<1>6. audited \in [Batches -> Nat] /\ recorded \in Nat
  OBVIOUS
<1>7. disturbed \in BOOLEAN
  BY Zenon
<1> QED
  BY <1>1, <1>2, <1>3, <1>4, <1>5, <1>6, <1>7, Zenon DEF PurgeTypeOK

\* A step that a run takes by itself, and that saves neither the batches nor a ledger.
LEMMA RunType ==
    ASSUME PurgeTypeOK, NEW p \in Tasks, NEW new \in Run,
           run' = [run EXCEPT ![p] = new]
    PROVE  run' \in [Tasks -> Run]
  BY DEF PurgeTypeOK


\* A step of a run that leaves the ledgers alone.
LEMMA RunStepType ==
    ASSUME PurgeTypeOK, NEW p \in Tasks, NEW new \in Run,
           run' = [run EXCEPT ![p] = new],
           code' \in [Codes -> CodeRow], batches' \in SUBSET Batches, Unledgered
    PROVE  PurgeTypeOK'
  BY RunType DEF PurgeTypeOK, Unledgered, ledgerVars, settingVars

LEMMA TakeBatchType ==
    ASSUME PurgeTypeOK, NEW p \in Tasks, NEW b \in Batches,
           NEW pc \in Pcs, TakeBatch(p, b, pc)
    PROVE  \E new \in Run : run' = [run EXCEPT ![p] = new]
<1>1. Chosen(b, pc) \in SUBSET Batches
  BY DEF Chosen
<1>2. run[p] \in Run
  BY DEF PurgeTypeOK
<1> DEFINE new == [run[p] EXCEPT !.pc = pc, !.todo = run[p].todo \ {b}, !.deleted = 0,
                                 !.ids = {}, !.batch = Chosen(b, pc)]
<1>3. new \in Run
  BY <1>1, <1>2 DEF Run
<1>4. run' = [run EXCEPT ![p] = new]
  BY DEF TakeBatch
<1> HIDE DEF new
<1> QED
  BY <1>3, <1>4

LEMMA GoesType ==
    ASSUME PurgeTypeOK, NEW p \in Tasks, NEW pc \in Pcs, Goes(p, pc)
    PROVE  \E new \in Run : run' = [run EXCEPT ![p] = new]
<1>1. run[p] \in Run
  BY DEF PurgeTypeOK
<1> QED
  BY <1>1 DEF Goes, Run

LEMMA ExpiredCodes ==
    ASSUME NEW b, NEW retention
    PROVE  /\ Expired(b, retention) \in SUBSET Codes
           /\ Expired(b, retention) \in SUBSET In("retired", b)
  BY DEF Expired, In, CodesOf

LEMMA CappedType == ASSUME NEW n PROVE Capped(n) \in {"next", "pick", "audit"}
  BY DEF Capped

\* The row of a code that is gone.
LEMMA GoneTyped ==
    ASSUME NEW state \in States
    PROVE  Gone(state) \in CodeRow /\ Gone(state).state = state
  BY PurgeAssumption DEF Gone, CodeRow

LEMMA PurgedType ==
    ASSUME PurgeTypeOK, NEW ids
    PROVE  Purged(ids) \in [Codes -> CodeRow]
<1>1. Gone("purged") \in CodeRow
  BY GoneTyped DEF States
<1> QED
  BY <1>1 DEF Purged, PurgeTypeOK

LEMMA ChunkType ==
    ASSUME PurgeTypeOK, NEW p \in Tasks, DeleteChunk(p)
    PROVE  PurgeTypeOK'
<1> PICK b \in run[p].batch :
      LET gone == run[p].ids \cap Expired(b, run[p].retention)
          deleted == run[p].deleted + Cardinality(gone)
      IN /\ code' = Purged(gone)
         /\ run' = [run EXCEPT ![p] = [@ EXCEPT !.pc = Capped(deleted), !.ids = {},
                                                !.deleted = deleted]]
  BY DEF DeleteChunk
<1> DEFINE gone == run[p].ids \cap Expired(b, run[p].retention)
           deleted == run[p].deleted + Cardinality(gone)
           new == [run[p] EXCEPT !.pc = Capped(deleted), !.ids = {}, !.deleted = deleted]
<1>1. run[p] \in Run
  BY DEF PurgeTypeOK
<1>2. Cardinality(gone) \in Nat
  BY ExpiredCodes, CodesCounted
<1>3. deleted \in Nat
  BY <1>1, <1>2 DEF Run
<1>4. Capped(deleted) \in Pcs
  BY CappedType DEF Pcs
<1> HIDE DEF gone, deleted
<1>5. new \in Run
  BY <1>1, <1>3, <1>4 DEF Run
<1> USE DEF gone, deleted
<1>6. code' \in [Codes -> CodeRow]
  BY PurgedType
<1>7. batches' \in SUBSET Batches /\ Unledgered
  BY DEF DeleteChunk, PurgeTypeOK
<1>8. run' = [run EXCEPT ![p] = new]
  BY DEF PurgeTypeOK
<1> QED
  BY <1>5, <1>6, <1>7, <1>8, RunStepType

LEMMA FinishType ==
    ASSUME PurgeTypeOK, NEW p \in Tasks, FinishBatch(p)
    PROVE  PurgeTypeOK'
<1> DEFINE total == run[p].total + run[p].deleted
           new == [run[p] EXCEPT !.pc = "next", !.batch = {}, !.deleted = 0, !.total = total]
<1>1. run[p] \in Run
  BY DEF PurgeTypeOK
<1>2. new \in Run
  <2>1. total \in Nat
    BY <1>1 DEF Run
  <2> HIDE DEF total
  <2> QED
    BY <1>1, <2>1 DEF Run, Pcs
<1>3. run' = [run EXCEPT ![p] = new]
  BY DEF FinishBatch
<1>4. batches' \in SUBSET Batches /\ Unledgered
  BY DEF FinishBatch, PurgeTypeOK
<1>5. Gone("cascaded") \in CodeRow
  BY GoneTyped DEF States
<1>6. code' \in [Codes -> CodeRow]
  BY <1>5 DEF FinishBatch, PurgeTypeOK
<1> HIDE DEF new
<1> QED
  BY <1>2, <1>3, <1>4, <1>6, RunStepType

LEMMA RunNextType ==
    ASSUME PurgeTypeOK, NEW p \in Tasks,
           StartRun(p) \/ RunStep(p) \/ FailBatch(p) \/ PurgeCrash(p)
    PROVE  PurgeTypeOK'
<1> USE DEF Unledgered, ledgerVars, settingVars
<1>0. run[p] \in Run /\ {"next", "count", "pick", "audit", "finish", "idle"} \subseteq Pcs
  BY DEF PurgeTypeOK, Pcs
<1>1. CASE StartRun(p)
  <2>1. PICK retention \in schedules[p] :
          run' = [run EXCEPT ![p] = [Idle EXCEPT !.pc = "next", !.retention = retention,
                                                 !.todo = batches]]
    BY <1>1 DEF StartRun
  <2>2. [Idle EXCEPT !.pc = "next", !.retention = retention, !.todo = batches] \in Run
    BY <1>0, IdleIsRun DEF PurgeTypeOK, Run
  <2> QED
    BY <1>1, <2>1, <2>2, RunStepType DEF StartRun, PurgeTypeOK
<1>2. CASE NextBatch(p)
  <2>1. \E b \in Batches, pc \in Pcs : TakeBatch(p, b, pc)
    BY <1>0, <1>2 DEF NextBatch, Run
  <2> QED
    BY <1>2, <2>1, TakeBatchType, RunStepType DEF NextBatch, PurgeTypeOK
<1>3. CASE CountCodes(p)
  <2>1. \E pc \in Pcs : Goes(p, pc)
    BY <1>0, <1>3 DEF CountCodes
  <2> QED
    BY <1>3, <2>1, GoesType, RunStepType DEF CountCodes, PurgeTypeOK
<1>4. CASE PickChunk(p)
  <2>1. CASE Goes(p, "audit")
    BY <1>0, <1>4, <2>1, GoesType, RunStepType DEF PickChunk, PurgeTypeOK
  <2>2. CASE \E ids \in SUBSET Codes :
               run' = [run EXCEPT ![p] = [@ EXCEPT !.pc = "delete", !.ids = ids]]
    <3>1. PICK ids \in SUBSET Codes :
            run' = [run EXCEPT ![p] = [run[p] EXCEPT !.pc = "delete", !.ids = ids]]
      BY <2>2
    <3>2. [run[p] EXCEPT !.pc = "delete", !.ids = ids] \in Run
      BY <1>0 DEF Run, Pcs
    <3> QED
      BY <1>4, <3>1, <3>2, RunStepType DEF PickChunk, PurgeTypeOK
  <2>3. Goes(p, "audit") \/ \E ids \in SUBSET Codes :
               run' = [run EXCEPT ![p] = [@ EXCEPT !.pc = "delete", !.ids = ids]]
    BY <1>4, ExpiredCodes DEF PickChunk
  <2> QED
    BY <2>1, <2>2, <2>3
<1>5. CASE DeleteChunk(p)
  BY <1>5, ChunkType
<1>6. CASE AuditPurge(p)
  <2>1. \E b \in Batches : Goes(p, "finish") \/ TakeBatch(p, b, "next")
    BY <1>0, <1>6 DEF AuditPurge, Run
  <2>2. run' \in [Tasks -> Run]
    BY <1>0, <2>1, GoesType, TakeBatchType, RunType
  <2>3. audited' \in [Batches -> Nat]
    <3>1. run[p].deleted \in Nat
      BY <1>0 DEF Run
    <3> QED
      BY <1>6, <3>1 DEF AuditPurge, PurgeTypeOK
  <2> QED
    BY <1>6, <2>2, <2>3 DEF AuditPurge, PurgeTypeOK
<1>7. CASE FinishBatch(p)
  BY <1>7, FinishType
<1>8. CASE RecordRun(p)
  <2>1. run' \in [Tasks -> Run] /\ recorded' \in Nat
    BY <1>0, <1>8, IdleIsRun DEF RecordRun, PurgeTypeOK, Run
  <2> QED
    BY <1>8, <2>1 DEF RecordRun, PurgeTypeOK
<1>9. CASE FailBatch(p)
  <2>1. \E b \in Batches : TakeBatch(p, b, "next")
    BY <1>0, <1>9 DEF FailBatch, Run
  <2>2. run' \in [Tasks -> Run]
    BY <1>0, <2>1, TakeBatchType, RunType
  <2>3. disturbed' \in BOOLEAN
    BY <1>9, Zenon DEF FailBatch
  <2> QED
    BY <1>9, <2>2, <2>3 DEF FailBatch, PurgeTypeOK
<1>10. CASE PurgeCrash(p)
  <2>1. run' \in [Tasks -> Run]
    BY <1>10, IdleIsRun, RunType DEF PurgeCrash
  <2>2. disturbed' \in BOOLEAN
    BY <1>10, Zenon DEF PurgeCrash
  <2> QED
    BY <1>10, <2>1, <2>2 DEF PurgeCrash, PurgeTypeOK
<1> QED
  BY <1>1, <1>2, <1>3, <1>4, <1>5, <1>6, <1>7, <1>8, <1>9, <1>10 DEF RunStep

LEMMA NextPurgeType == PurgeTypeOK /\ [PurgeNext]_vars => PurgeTypeOK'
<1> SUFFICES ASSUME PurgeTypeOK, [PurgeNext]_vars PROVE PurgeTypeOK'
  OBVIOUS
<1> USE DEF PurgeTypeOK, Unledgered, ledgerVars, settingVars
<1>1. ASSUME NEW c \in Codes, DeleteCode(c) \/ InvalidateCode(c) PROVE PurgeTypeOK'
  <2>1. PICK saved \in 0 .. MaxDay : GiveUp(c, saved)
    BY <1>1 DEF DeleteCode, InvalidateCode, CodeRow
  <2>2. [state |-> "retired", modified |-> saved, retired |-> day] \in CodeRow
    BY DEF CodeRow, States
  <2> QED
    BY <2>1, <2>2 DEF GiveUp
<1>2. ASSUME NEW b \in Batches, RetireBatch(b) PROVE PurgeTypeOK'
  <2>1. ASSUME NEW c \in Codes
        PROVE  [code[c] EXCEPT !.state = "retired", !.retired = day] \in CodeRow
    BY DEF CodeRow, States
  <2>2. code' \in [Codes -> CodeRow]
    BY <1>2, <2>1 DEF RetireBatch
  <2> QED
    BY <1>2, <2>2 DEF RetireBatch
<1>3. ASSUME NEW enabled \in BOOLEAN, NEW retention \in 0 .. MaxRetention,
             SaveScheduler(enabled, retention)
      PROVE  PurgeTypeOK'
  <2>1. scheduler' \in [enabled: BOOLEAN, retention: 0 .. MaxRetention]
    BY <1>3 DEF SaveScheduler
  <2>2. schedules' \in [Tasks -> SUBSET (0 .. MaxRetention)]
    BY <1>3 DEF SaveScheduler
  <2> QED
    BY <1>3, <2>1, <2>2 DEF SaveScheduler
<1>4. CASE Migrate
  <2>1. schedules' \in [Tasks -> SUBSET (0 .. MaxRetention)]
    BY <1>4 DEF Migrate
  <2> QED
    BY <1>4, <2>1 DEF Migrate
<1>5. CASE Tick
  BY <1>5, PurgeAssumption DEF Tick
<1>6. CASE UNCHANGED vars
  BY <1>6 DEF vars
<1> QED
  BY <1>1, <1>2, <1>3, <1>4, <1>5, <1>6, RunNextType DEF PurgeNext
-----------------------------------------------------------------------------
(***************************************************************************)
(* What a step leaves of the invariant, from what it does to one run.       *)
(***************************************************************************)

LEMMA InitPurgeInv == PurgeInit => PurgeInv
<1> SUFFICES ASSUME PurgeInit PROVE PurgeInv
  OBVIOUS
<1>1. PurgeTypeOK
  BY InitPurgeType
<1>2. NothingCascades
  BY DEF PurgeInit, NothingCascades
<1>3. ASSUME NEW p \in Tasks
      PROVE  RunOK(p) /\ CapOK(p) /\ LedgerOK(p) /\ run[p] = Idle
  <2>1. run[p] = Idle
    BY DEF PurgeInit
  <2>2. cap \in SUBSET Int /\ Chunk \in Nat \ {0}
    BY PurgeAssumption DEF PurgeInit
  <2> QED
    BY <2>1, <2>2 DEF RunOK, CapOK, LedgerOK, Idle, At
<1>4. \A b : In("purged", b) = {}
  BY DEF PurgeInit, In, CodesOf
<1>5. PurgedCodes = {}
  BY DEF PurgeInit, PurgedCodes
<1>6. Books
  BY <1>3 DEF Books, GoneAudited, PurgeInit
<1>7. AuditsMatch
  <2>1. SUFFICES ASSUME NEW b \in Batches
                 PROVE  Cardinality(In("purged", b))
                          = audited[b] + Unaudited("signal", b) + Unaudited("migrate", b)
    BY DEF AuditsMatch
  <2>2. \A p \in Tasks : Unaudited(p, b) = 0
    BY <1>3 DEF Unaudited, Idle
  <2>3. audited[b] = 0 /\ Cardinality(In("purged", b)) = 0
    BY <1>4, FS_EmptySet DEF PurgeInit
  <2> QED
    BY <2>2, <2>3 DEF Tasks
<1>8. HistoryMatches
  BY <1>3, <1>5, FS_EmptySet DEF HistoryMatches, Unrecorded, PurgeInit, Idle, Tasks, PurgedCodes
<1> QED
  BY <1>1, <1>2, <1>3, <1>6, <1>7, <1>8 DEF PurgeInv

\* What runs have deleted is counted in natural numbers, and stays as it is for a run
\* that does not move.
LEMMA RunsCounted ==
    ASSUME PurgeTypeOK, NEW p \in Tasks, NEW b
    PROVE  /\ Unaudited(p, b) \in Nat /\ Unrecorded(p) \in Nat
           /\ run'[p] = run[p] => Unaudited(p, b)' = Unaudited(p, b)
                                  /\ Unrecorded(p)' = Unrecorded(p)
<1>1. run[p].deleted \in Nat /\ run[p].total \in Nat
  BY DEF PurgeTypeOK, Run
<1> QED
  BY <1>1 DEF Unaudited, Unrecorded

\* Of the other runs the invariant says what it said before: batches only gain purged
\* codes and audit rows.
LEMMA OtherRuns ==
    ASSUME PurgeInv, NEW q \in Tasks, run'[q] = run[q], cap' = cap,
           \A b : In("purged", b) \subseteq In("purged", b)',
           \A b \in Batches : audited[b] <= audited'[b],
           PurgeTypeOK'
    PROVE  RunOK(q)' /\ CapOK(q)' /\ (LedgerOK(q) => LedgerOK(q)')
<1>1. ASSUME NEW b PROVE Cardinality(In("purged", b)) <= Cardinality(In("purged", b)')
  <2>1. In("purged", b)' \in SUBSET Codes
    BY DEF In, CodesOf
  <2> QED
    BY <2>1, CodesCounted, FS_Subset
<1>2. ASSUME NEW b
      PROVE  Cardinality(In("purged", b)) \in Nat /\ Cardinality(In("purged", b)') \in Nat
  <2>1. In("purged", b)' \in SUBSET Codes
    BY DEF In, CodesOf
  <2> QED
    BY <2>1, CodesCounted, InCounted
<1>3. run[q] \in Run
  BY DEF PurgeInv, PurgeTypeOK
<1>4. run[q].deleted \in Nat /\ run[q].batch \in SUBSET Batches
  BY <1>3 DEF Run
<1>5. RunOK(q)'
  <2>1. RunOK(q)
    BY DEF PurgeInv
  <2>2. ASSUME NEW b \in run[q].batch
        PROVE  run[q].deleted <= Cardinality(In("purged", b)')
    BY <1>1, <1>2, <1>4, <2>1 DEF RunOK
  <2> QED
    BY <2>1, <2>2 DEF RunOK
<1>6. CapOK(q)'
  BY DEF PurgeInv, CapOK, At
<1>7. ASSUME LedgerOK(q) PROVE LedgerOK(q)'
  <2>1. ASSUME NEW b \in run[q].batch PROVE audited[b] \in Nat /\ audited'[b] \in Nat
                                            /\ audited[b] <= audited'[b]
    BY <1>4 DEF PurgeInv, PurgeTypeOK
  <2> QED
    BY <1>4, <1>7, <2>1 DEF LedgerOK, At
<1> QED
  BY <1>5, <1>6, <1>7

\* A step of run p: the codes it purges, the audit rows and the history rows it adds are
\* what it owes less or more than before.
LEMMA RunMoves ==
    ASSUME PurgeInv, PurgeTypeOK', NEW p \in Tasks,
           \A q \in Tasks \ {p} : run'[q] = run[q],
           cap' = cap, disturbed' = disturbed, NothingCascades',
           \A b : In("purged", b) \subseteq In("purged", b)',
           \A b \in Batches : audited[b] <= audited'[b],
           RunOK(p)', CapOK(p)',
           BooksKept => LedgerOK(p)' /\ GoneAudited',
           BooksKept => \A b \in Batches :
               Cardinality(In("purged", b)') + audited[b] + Unaudited(p, b)
                 = Cardinality(In("purged", b)) + audited'[b] + Unaudited(p, b)',
           BooksKept =>
               Cardinality(PurgedCodes') + recorded + Unrecorded(p)
                 = Cardinality(PurgedCodes) + recorded' + Unrecorded(p)'
    PROVE  PurgeInv'
<1>0. PurgeTypeOK /\ BooksKept' = BooksKept
  BY DEF PurgeInv, BooksKept
<1>1. ASSUME NEW q \in Tasks PROVE RunOK(q)' /\ CapOK(q)'
  <2>1. CASE q = p
    BY <2>1
  <2>2. CASE q # p
    <3>1. run'[q] = run[q]
      BY <2>2
    <3> QED
      BY <3>1, OtherRuns
  <2> QED
    BY <2>1, <2>2
<1>2. Books'
  <2>1. SUFFICES ASSUME BooksKept PROVE GoneAudited' /\ \A q \in Tasks : LedgerOK(q)'
    BY <1>0 DEF Books
  <2>2. \A q \in Tasks : LedgerOK(q)
    BY <2>1 DEF PurgeInv, Books
  <2> QED
    BY <2>1, <2>2, OtherRuns
<1>3. AuditsMatch'
  <2>1. SUFFICES ASSUME BooksKept, NEW b \in Batches
                 PROVE  Cardinality(In("purged", b)')
                          = audited'[b] + Unaudited("signal", b)' + Unaudited("migrate", b)'
    BY <1>0 DEF AuditsMatch, BooksKept
  <2>2. Cardinality(In("purged", b))
          = audited[b] + Unaudited("signal", b) + Unaudited("migrate", b)
    BY <2>1 DEF PurgeInv, AuditsMatch, BooksKept
  <2>3. Cardinality(In("purged", b)') + audited[b] + Unaudited(p, b)
          = Cardinality(In("purged", b)) + audited'[b] + Unaudited(p, b)'
    BY <2>1
  <2>4. /\ Cardinality(In("purged", b)) \in Nat /\ Cardinality(In("purged", b)') \in Nat
        /\ audited[b] \in Nat /\ audited'[b] \in Nat
    <3>1. In("purged", b)' \in SUBSET Codes
      BY DEF In, CodesOf
    <3> QED
      BY <1>0, <3>1, CodesCounted, InCounted DEF PurgeTypeOK
  <2>5. \A q \in Tasks : Unaudited(q, b) \in Nat
                         /\ (q # p => Unaudited(q, b)' = Unaudited(q, b))
    BY <1>0, RunsCounted
  <2>6. Unaudited(p, b)' \in Nat
    <3>1. run'[p].deleted \in Nat
      BY DEF PurgeTypeOK, Run
    <3> QED
      BY <3>1 DEF Unaudited
  <2>7. p = "signal" \/ p = "migrate"
    BY DEF Tasks
  <2> QED
    BY <2>2, <2>3, <2>4, <2>5, <2>6, <2>7 DEF Tasks
<1>4. HistoryMatches'
  <2>1. SUFFICES ASSUME BooksKept
                 PROVE  Cardinality(PurgedCodes')
                          = recorded' + Unrecorded("signal")' + Unrecorded("migrate")'
    BY <1>0 DEF HistoryMatches, BooksKept, PurgedCodes
  <2>2. Cardinality(PurgedCodes) = recorded + Unrecorded("signal") + Unrecorded("migrate")
    BY <2>1 DEF PurgeInv, HistoryMatches, BooksKept, PurgedCodes
  <2>3. Cardinality(PurgedCodes') + recorded + Unrecorded(p)
          = Cardinality(PurgedCodes) + recorded' + Unrecorded(p)'
    BY <2>1
  <2>4. /\ Cardinality(PurgedCodes) \in Nat /\ Cardinality(PurgedCodes') \in Nat
        /\ recorded \in Nat /\ recorded' \in Nat
    <3>1. PurgedCodes \in SUBSET Codes /\ PurgedCodes' \in SUBSET Codes
      BY DEF PurgedCodes
    <3> QED
      BY <1>0, <3>1, CodesCounted DEF PurgeTypeOK
  <2>5. \A q \in Tasks : Unrecorded(q) \in Nat
                         /\ (q # p => Unrecorded(q)' = Unrecorded(q))
    BY <1>0, RunsCounted
  <2>6. Unrecorded(p)' \in Nat
    <3>1. run'[p].deleted \in Nat /\ run'[p].total \in Nat
      BY DEF PurgeTypeOK, Run
    <3> QED
      BY <3>1 DEF Unrecorded
  <2>7. p = "signal" \/ p = "migrate"
    BY DEF Tasks
  <2> QED
    BY <2>2, <2>3, <2>4, <2>5, <2>6, <2>7 DEF Tasks
<1> QED
  BY <1>1, <1>2, <1>3, <1>4 DEF PurgeInv

\* The same for a step that changes nothing but the run.
LEMMA RunAlone ==
    ASSUME PurgeInv, PurgeTypeOK', NEW p \in Tasks, NEW new \in Run,
           run' = [run EXCEPT ![p] = new],
           UNCHANGED <<code, batches>>, Unledgered,
           RunOK(p)', CapOK(p)', BooksKept => LedgerOK(p)',
           BooksKept => \A b \in Batches : Unaudited(p, b)' = Unaudited(p, b),
           BooksKept => Unrecorded(p)' = Unrecorded(p)
    PROVE  PurgeInv'
<1>1. \A q \in Tasks \ {p} : run'[q] = run[q]
  BY DEF PurgeInv, PurgeTypeOK
<1>2. \A b : In("purged", b)' = In("purged", b)
  BY DEF In, CodesOf
<1>3. PurgedCodes' = PurgedCodes
  BY DEF PurgedCodes
<1>4. /\ cap' = cap /\ disturbed' = disturbed /\ audited' = audited
      /\ recorded' = recorded
  BY DEF Unledgered, ledgerVars, settingVars
<1>5. NothingCascades' /\ (BooksKept => GoneAudited')
  BY <1>4 DEF PurgeInv, NothingCascades, Books, GoneAudited, Issued, CodesOf
<1>6. \A b \in Batches : audited[b] \in Nat
  BY DEF PurgeInv, PurgeTypeOK
<1>7. \A b \in Batches : audited[b] <= audited'[b]
  BY <1>4, <1>6
<1> QED
  BY <1>1, <1>2, <1>3, <1>4, <1>5, <1>7, RunMoves

\* A run that is cut short: from then on the books need not match.
LEMMA RunCut ==
    ASSUME PurgeInv, PurgeTypeOK', NEW p \in Tasks, NEW new \in Run,
           run' = [run EXCEPT ![p] = new],
           UNCHANGED <<code, batches, settingVars, ledgerVars>>, disturbed' = TRUE,
           RunOK(p)', CapOK(p)'
    PROVE  PurgeInv'
<1>1. \A q \in Tasks \ {p} : run'[q] = run[q]
  BY DEF PurgeInv, PurgeTypeOK
<1>2. \A b : In("purged", b)' = In("purged", b)
  BY DEF In, CodesOf
<1>3. \A b \in Batches : audited[b] \in Nat /\ audited'[b] = audited[b]
  BY DEF PurgeInv, PurgeTypeOK, ledgerVars
<1>4. \A q \in Tasks : RunOK(q)' /\ CapOK(q)'
  BY <1>1, <1>2, <1>3, OtherRuns DEF settingVars
<1>5. NothingCascades'
  BY DEF PurgeInv, NothingCascades
<1>6. Books' /\ AuditsMatch' /\ HistoryMatches'
  BY DEF Books, BooksKept, AuditsMatch, HistoryMatches
<1> QED
  BY <1>4, <1>5, <1>6 DEF PurgeInv
-----------------------------------------------------------------------------
(***************************************************************************)
(* One lemma per step of a run.                                             *)
(***************************************************************************)

\* What the invariant says of a run that takes a step.
LEMMA RunFacts ==
    ASSUME PurgeInv, NEW p \in Tasks
    PROVE  /\ PurgeTypeOK /\ run[p] \in Run /\ run \in [Tasks -> Run]
           /\ run[p].deleted \in Nat /\ run[p].total \in Nat
           /\ run[p].batch \in SUBSET Batches
           /\ RunOK(p) /\ CapOK(p) /\ (BooksKept => LedgerOK(p))
           /\ cap \in SUBSET Int /\ Chunk \in Nat \ {0}
           /\ \A b \in Batches : audited[b] \in Nat
  BY PurgeAssumption DEF PurgeInv, PurgeTypeOK, Run, Books

LEMMA StartRunSafe ==
    ASSUME PurgeInv, PurgeTypeOK', NEW p \in Tasks, StartRun(p)
    PROVE  PurgeInv'
<1>1. PICK retention \in schedules[p] :
        run' = [run EXCEPT ![p] = [Idle EXCEPT !.pc = "next", !.retention = retention,
                                               !.todo = batches]]
  BY DEF StartRun
<1> DEFINE new == [Idle EXCEPT !.pc = "next", !.retention = retention, !.todo = batches]
<1>2. new \in Run
  BY IdleIsRun DEF PurgeInv, PurgeTypeOK, Run, Pcs
<1>3. run'[p] = new
  BY <1>1, RunFacts
<1>4. new.pc = "next" /\ new.deleted = 0 /\ new.total = 0 /\ new.batch = {}
  BY DEF Idle
<1> HIDE DEF new
<1>5. RunOK(p)'
  BY <1>3, <1>4 DEF RunOK
<1>6. CapOK(p)'
  <2>1. cap' = cap
    BY DEF StartRun, Unledgered, settingVars
  <2>2. \A n \in cap : n > 0 => 0 <= n + Chunk - 1
    BY RunFacts
  <2> QED
    BY <1>3, <1>4, <2>1, <2>2 DEF CapOK, At
<1>7. LedgerOK(p)'
  BY <1>3, <1>4 DEF LedgerOK, At
<1>8. ASSUME BooksKept
      PROVE  (\A b \in Batches : Unaudited(p, b)' = Unaudited(p, b))
             /\ Unrecorded(p)' = Unrecorded(p)
  BY <1>3, <1>4, <1>8, RunFacts DEF Unaudited, Unrecorded, LedgerOK, StartRun, At
<1>9. UNCHANGED <<code, batches>> /\ Unledgered
  BY DEF StartRun
<1>10. run' = [run EXCEPT ![p] = new]
  BY <1>1 DEF new
<1> QED
  BY <1>2, <1>5, <1>6, <1>7, <1>8, <1>9, <1>10, RunAlone

\* The fields of a run that turns to a batch, or away from it.
LEMMA TakeBatchFields ==
    ASSUME PurgeTypeOK, NEW p \in Tasks, NEW b, NEW pc, TakeBatch(p, b, pc)
    PROVE  /\ run'[p].pc = pc /\ run'[p].deleted = 0 /\ run'[p].total = run[p].total
           /\ run'[p].batch = Chosen(b, pc)
<1>1. run[p] \in Run /\ run \in [Tasks -> Run]
  BY DEF PurgeTypeOK
<1> QED
  BY <1>1 DEF TakeBatch, Run

LEMMA NextBatchSafe ==
    ASSUME PurgeInv, PurgeTypeOK', NEW p \in Tasks, NextBatch(p)
    PROVE  PurgeInv'
<1>1. PICK b \in Batches, pc \in {"next", "count"} : TakeBatch(p, b, pc)
  BY RunFacts DEF NextBatch, Run
<1>2. \E new \in Run : run' = [run EXCEPT ![p] = new]
  BY <1>1, TakeBatchType, RunFacts DEF Pcs
<1>3. /\ run'[p].pc = pc /\ run'[p].deleted = 0 /\ run'[p].total = run[p].total
      /\ run'[p].batch = Chosen(b, pc)
  BY <1>1, TakeBatchFields, RunFacts
<1>4. run'[p].batch \subseteq {b}
  BY <1>3 DEF Chosen
<1>5. UNCHANGED <<code, batches>> /\ Unledgered /\ cap' = cap
  BY DEF NextBatch, Unledgered, settingVars
<1>6. RunOK(p)'
  <2>1. \A c \in run'[p].batch : Cardinality(In("purged", c)') \in Nat
    <3>1. \A c : In("purged", c)' = In("purged", c)
      BY <1>5 DEF In, CodesOf
    <3> QED
      BY <3>1, InCounted
  <2> QED
    BY <1>3, <1>4, <2>1 DEF RunOK
<1>7. CapOK(p)'
  BY <1>3, <1>5, RunFacts DEF CapOK, At
<1>8. LedgerOK(p)'
  BY <1>3 DEF LedgerOK, At
<1>9. ASSUME BooksKept
      PROVE  (\A c \in Batches : Unaudited(p, c)' = Unaudited(p, c))
             /\ Unrecorded(p)' = Unrecorded(p)
  BY <1>3, <1>9, RunFacts DEF Unaudited, Unrecorded, LedgerOK, NextBatch, At
<1> QED
  BY <1>2, <1>5, <1>6, <1>7, <1>8, <1>9, RunAlone

LEMMA GoesFields ==
    ASSUME PurgeTypeOK, NEW p \in Tasks, NEW pc, Goes(p, pc)
    PROVE  /\ run'[p].pc = pc /\ run'[p].deleted = run[p].deleted
           /\ run'[p].total = run[p].total
           /\ run'[p].batch = run[p].batch /\ run'[p].ids = run[p].ids
<1>1. run[p] \in Run /\ run \in [Tasks -> Run]
  BY DEF PurgeTypeOK
<1> QED
  BY <1>1 DEF Goes, Run

\* A run that keeps its batch and what it has deleted of it is as well as before.
LEMMA RunOKKept ==
    ASSUME PurgeInv, NEW p \in Tasks, UNCHANGED <<code>>,
           run'[p].batch = run[p].batch, run'[p].deleted = run[p].deleted
    PROVE  RunOK(p)'
<1>1. \A b : In("purged", b)' = In("purged", b)
  BY DEF In, CodesOf
<1> QED
  BY <1>1, RunFacts DEF RunOK

LEMMA CountCodesSafe ==
    ASSUME PurgeInv, PurgeTypeOK', NEW p \in Tasks, CountCodes(p)
    PROVE  PurgeInv'
<1>1. PICK pc \in {"finish", "pick"} : Goes(p, pc)
  BY DEF CountCodes
<1>2. \E new \in Run : run' = [run EXCEPT ![p] = new]
  BY <1>1, GoesType, RunFacts DEF Pcs
<1>3. /\ run'[p].pc = pc /\ run'[p].deleted = run[p].deleted /\ run'[p].total = run[p].total
      /\ run'[p].batch = run[p].batch /\ run'[p].ids = run[p].ids
  BY <1>1, GoesFields, RunFacts
<1>4. run[p].deleted = 0
  BY RunFacts DEF CapOK, CountCodes
<1>5. UNCHANGED <<code, batches>> /\ Unledgered /\ cap' = cap /\ audited' = audited
  BY DEF CountCodes, Unledgered, settingVars, ledgerVars
<1>6. RunOK(p)'
  BY <1>3, <1>5, RunOKKept
<1>7. CapOK(p)'
  BY <1>3, <1>4, <1>5, RunFacts DEF CapOK, At
<1>8. LedgerOK(p)'
  BY <1>3, <1>4, <1>5, RunFacts DEF LedgerOK, At
<1>9. (\A c \in Batches : Unaudited(p, c)' = Unaudited(p, c)) /\ Unrecorded(p)' = Unrecorded(p)
  BY <1>3, <1>4, RunFacts DEF Unaudited, Unrecorded, CountCodes, At
<1> QED
  BY <1>2, <1>5, <1>6, <1>7, <1>8, <1>9, RunAlone

LEMMA PickChunkSafe ==
    ASSUME PurgeInv, PurgeTypeOK', NEW p \in Tasks, PickChunk(p)
    PROVE  PurgeInv'
<1>1. UNCHANGED <<code, batches>> /\ Unledgered /\ cap' = cap /\ audited' = audited
  BY DEF PickChunk, Unledgered, settingVars, ledgerVars
<1>2. /\ \E new \in Run : run' = [run EXCEPT ![p] = new]
      /\ run'[p].pc \in {"audit", "delete"}
      /\ run'[p].pc = "delete" => Cardinality(run'[p].ids) <= Chunk
      /\ run'[p].deleted = run[p].deleted /\ run'[p].total = run[p].total
      /\ run'[p].batch = run[p].batch
  <2>1. CASE Goes(p, "audit")
    BY <2>1, GoesFields, GoesType, RunFacts DEF Pcs
  <2>2. ASSUME NEW ids \in SUBSET Codes, NEW n \in Nat,
               Cardinality(ids) = IF n < Chunk THEN n ELSE Chunk,
               run' = [run EXCEPT ![p] = [run[p] EXCEPT !.pc = "delete", !.ids = ids]]
        PROVE  <1>2
    <3> DEFINE new == [run[p] EXCEPT !.pc = "delete", !.ids = ids]
    <3>1. new \in Run
      BY RunFacts DEF Run, Pcs
    <3>2. /\ new.pc = "delete" /\ new.ids = ids /\ new.deleted = run[p].deleted
          /\ new.total = run[p].total /\ new.batch = run[p].batch
      BY RunFacts DEF Run
    <3>3. run' = [run EXCEPT ![p] = new] /\ run'[p] = new
      BY <2>2, RunFacts
    <3>4. Cardinality(ids) <= Chunk
      BY <2>2, RunFacts
    <3> HIDE DEF new
    <3> QED
      BY <3>1, <3>2, <3>3, <3>4
  <2>3. PICK b \in run[p].batch :
          LET expired == Expired(b, run[p].retention) IN
          \/ expired = {} /\ Goes(p, "audit")
          \/ expired # {} /\ \E ids \in SUBSET expired :
               /\ Cardinality(ids) = IF Cardinality(expired) < Chunk
                                     THEN Cardinality(expired) ELSE Chunk
               /\ run' = [run EXCEPT ![p] = [@ EXCEPT !.pc = "delete", !.ids = ids]]
    BY DEF PickChunk
  <2>4. Cardinality(Expired(b, run[p].retention)) \in Nat
        /\ SUBSET Expired(b, run[p].retention) \subseteq SUBSET Codes
    BY ExpiredCodes, CodesCounted
  <2> QED
    BY <2>1, <2>2, <2>3, <2>4
<1>3. RunOK(p)'
  BY <1>1, <1>2, RunOKKept
<1>4. At(p, "pick")
  BY DEF PickChunk
<1>5. CapOK(p)'
  <2>1. CapOK(p) /\ run[p].pc = "pick"
    BY <1>4, RunFacts DEF At
  <2> QED
    BY <1>1, <1>2, <2>1 DEF CapOK, At
<1>6. LedgerOK(p)'
  BY <1>2 DEF LedgerOK, At
<1>7. (\A c \in Batches : Unaudited(p, c)' = Unaudited(p, c)) /\ Unrecorded(p)' = Unrecorded(p)
  BY <1>2, <1>4, RunFacts DEF Unaudited, Unrecorded, At
<1> QED
  BY <1>1, <1>2, <1>3, <1>5, <1>6, <1>7, RunAlone

\* What a chunk does to the codes of its batch and of others.
LEMMA ChunkGone ==
    ASSUME PurgeTypeOK, NEW b \in Batches, NEW gone \in SUBSET In("retired", b),
           code' = Purged(gone)
    PROVE  /\ In("purged", b)' = In("purged", b) \cup gone
           /\ In("purged", b) \cap gone = {}
           /\ \A c : c # b => In("purged", c)' = In("purged", c)
           /\ PurgedCodes' = PurgedCodes \cup gone
           /\ PurgedCodes \cap gone = {}
<1>1. \A c \in Codes : code'[c].state = IF c \in gone THEN "purged" ELSE code[c].state
  <2>1. Gone("purged").state = "purged"
    BY GoneTyped DEF States
  <2>2. \A c \in Codes : code'[c] = IF c \in gone THEN Gone("purged") ELSE code[c]
    BY DEF Purged
  <2> QED
    BY <2>1, <2>2
<1>2. \A c \in gone : c \in Codes /\ BatchOf[c] = b /\ code[c].state = "retired"
  BY DEF In, CodesOf
<1>3. In("purged", b)' = In("purged", b) \cup gone /\ In("purged", b) \cap gone = {}
  BY <1>1, <1>2 DEF In, CodesOf
<1>4. ASSUME NEW c, c # b PROVE In("purged", c)' = In("purged", c)
  BY <1>1, <1>2, <1>4 DEF In, CodesOf
<1>5. PurgedCodes' = PurgedCodes \cup gone /\ PurgedCodes \cap gone = {}
  BY <1>1, <1>2 DEF PurgedCodes
<1> QED
  BY <1>3, <1>4, <1>5

\* Disjoint sets of codes are counted apart.
LEMMA CountApart ==
    ASSUME NEW S \in SUBSET Codes, NEW T \in SUBSET Codes, S \cap T = {}
    PROVE  Cardinality(S \cup T) = Cardinality(S) + Cardinality(T)
<1>1. Cardinality(S \cup T) = Cardinality(S) + Cardinality(T) - Cardinality(S \cap T)
  BY CodesCounted, FS_Union
<1>2. Cardinality(S \cap T) = 0
  BY FS_EmptySet
<1> QED
  BY <1>1, <1>2, CodesCounted

\* After a chunk a run goes on only below the cap.
LEMMA CappedStops ==
    ASSUME NEW n \in Nat
    PROVE  /\ Capped(n) = "pick" => \A m \in cap : m > 0 => ~(n >= m)
           /\ cap # {} => Capped(n) # "next"
           /\ Capped(n) # "delete" /\ Capped(n) # "count" /\ Capped(n) # "finish"
           /\ Capped(n) # "idle"
<1>1. CASE cap = {}
  BY <1>1 DEF Capped
<1>2. CASE cap = {-1}
  BY <1>2 DEF Capped
<1>3. CASE cap # {} /\ cap # {-1}
  BY <1>3 DEF Capped
<1> QED
  BY <1>1, <1>2, <1>3

LEMMA DeleteChunkSafe ==
    ASSUME PurgeInv, PurgeTypeOK', NEW p \in Tasks, DeleteChunk(p)
    PROVE  PurgeInv'
<1>1. PICK b \in run[p].batch :
      LET gone == run[p].ids \cap Expired(b, run[p].retention)
          deleted == run[p].deleted + Cardinality(gone)
      IN /\ code' = Purged(gone)
         /\ run' = [run EXCEPT ![p] = [@ EXCEPT !.pc = Capped(deleted), !.ids = {},
                                                !.deleted = deleted]]
  BY DEF DeleteChunk
<1> DEFINE gone == run[p].ids \cap Expired(b, run[p].retention)
           deleted == run[p].deleted + Cardinality(gone)
<1>2. gone \in SUBSET In("retired", b) /\ gone \in SUBSET Codes
      /\ Cardinality(gone) \in Nat /\ deleted \in Nat
  BY ExpiredCodes, CodesCounted, RunFacts
<1>3. b \in Batches
  BY RunFacts
<1>4. /\ run'[p].pc = Capped(deleted) /\ run'[p].deleted = deleted
      /\ run'[p].total = run[p].total /\ run'[p].batch = run[p].batch /\ run'[p].ids = {}
  <2> HIDE DEF gone, deleted
  <2>1. run' = [run EXCEPT ![p] = [run[p] EXCEPT !.pc = Capped(deleted), !.ids = {},
                                                 !.deleted = deleted]]
    BY <1>1 DEF gone, deleted
  <2> QED
    BY <2>1, RunFacts DEF Run
<1>5. Cardinality(gone) <= Chunk
  <2>1. run[p].ids \in SUBSET Codes /\ Cardinality(run[p].ids) <= Chunk
    BY RunFacts DEF CapOK, DeleteChunk, Run
  <2>2. Cardinality(gone) <= Cardinality(run[p].ids)
    BY <2>1, CodesCounted, FS_Subset
  <2> QED
    BY <1>2, <2>1, <2>2, CodesCounted, RunFacts
<1>6. code' = Purged(gone)
  BY <1>1
<1>7. deleted = run[p].deleted + Cardinality(gone)
  OBVIOUS
<1>8. \A q \in Tasks \ {p} : run'[q] = run[q]
  BY <1>1, RunFacts
<1> HIDE DEF gone, deleted
<1>9. /\ In("purged", b)' = In("purged", b) \cup gone
      /\ In("purged", b) \cap gone = {}
      /\ \A c : c # b => In("purged", c)' = In("purged", c)
      /\ PurgedCodes' = PurgedCodes \cup gone
      /\ PurgedCodes \cap gone = {}
  BY <1>2, <1>3, <1>6, ChunkGone, RunFacts
<1>10. /\ Cardinality(In("purged", b)') = Cardinality(In("purged", b)) + Cardinality(gone)
       /\ Cardinality(PurgedCodes') = Cardinality(PurgedCodes) + Cardinality(gone)
       /\ Cardinality(PurgedCodes) \in Nat
  <2>1. PurgedCodes \in SUBSET Codes
    BY DEF PurgedCodes
  <2> QED
    BY <1>2, <1>9, <2>1, InCounted, CountApart, CodesCounted
<1>11. /\ cap' = cap /\ disturbed' = disturbed /\ audited' = audited /\ recorded' = recorded
       /\ batches' = batches
  BY DEF DeleteChunk, Unledgered, ledgerVars, settingVars
<1>12. \A c \in run[p].batch : c = b
  BY <1>1, RunFacts DEF RunOK
<1>13. RunOK(p)'
  <2>1. run[p].deleted <= Cardinality(In("purged", b))
    BY <1>1, RunFacts DEF RunOK
  <2>2. deleted <= Cardinality(In("purged", b)')
    BY <1>2, <1>7, <1>10, <2>1, InCounted, RunFacts
  <2> QED
    BY <1>4, <1>12, <2>2 DEF RunOK
<1>14. CapOK(p)'
  <2>1. \A n \in cap : n \in Int /\ (n > 0 => run[p].deleted < n)
    BY RunFacts DEF CapOK, DeleteChunk, At
  <2>2. \A n \in cap : n > 0 => deleted <= n + Chunk - 1
    BY <1>2, <1>5, <1>7, <2>1, RunFacts
  <2>3. Capped(deleted) = "pick" => \A n \in cap : n > 0 => deleted < n
    BY <1>2, <2>1, CappedStops
  <2>4. Capped(deleted) # "delete" /\ Capped(deleted) # "count"
    BY <1>2, CappedStops
  <2> QED
    BY <1>4, <1>11, <2>2, <2>3, <2>4 DEF CapOK, At
<1>15. ASSUME BooksKept
       PROVE  /\ LedgerOK(p)' /\ GoneAudited'
              /\ run'[p].pc \in {"pick", "audit"}
  <2>1. Capped(deleted) \in {"pick", "audit"}
    BY <1>2, <1>15, CappedStops, CappedType DEF BooksKept
  <2>2. GoneAudited'
    BY <1>11, <1>15 DEF PurgeInv, Books, GoneAudited, Issued, CodesOf
  <2> QED
    BY <1>4, <2>1, <2>2 DEF LedgerOK, At
<1>16. ASSUME BooksKept, NEW c \in Batches
       PROVE  Cardinality(In("purged", c)') + audited[c] + Unaudited(p, c)
                = Cardinality(In("purged", c)) + audited'[c] + Unaudited(p, c)'
  <2>1. CASE c = b
    <3>1. run[p].batch = {b}
      BY <1>1, <1>12
    <3>2. Unaudited(p, c) = run[p].deleted
      BY <2>1, <3>1 DEF Unaudited, DeleteChunk, At
    <3>3. Unaudited(p, c)' = deleted
      BY <1>4, <1>15, <1>16, <2>1, <3>1 DEF Unaudited
    <3> QED
      BY <1>2, <1>7, <1>10, <1>11, <2>1, <3>2, <3>3, InCounted, RunFacts
  <2>2. CASE c # b
    <3>1. run[p].batch # {c}
      BY <1>1, <2>2
    <3>2. Unaudited(p, c) = 0 /\ Unaudited(p, c)' = 0
      BY <1>4, <3>1 DEF Unaudited
    <3> QED
      BY <1>9, <1>11, <2>2, <3>2
  <2> QED
    BY <2>1, <2>2
<1>17. Cardinality(PurgedCodes') + recorded + Unrecorded(p)
         = Cardinality(PurgedCodes) + recorded' + Unrecorded(p)'
  <2>1. recorded \in Nat
    BY RunFacts DEF PurgeTypeOK
  <2> QED
    BY <1>2, <1>4, <1>7, <1>10, <1>11, <2>1, RunFacts DEF Unrecorded
<1>18. NothingCascades'
  <2>1. \A c \in Codes : code'[c] = IF c \in gone THEN Gone("purged") ELSE code[c]
    BY <1>6 DEF Purged
  <2>2. Gone("purged").state = "purged"
    BY GoneTyped DEF States
  <2> QED
    BY <2>1, <2>2 DEF PurgeInv, NothingCascades
<1>19. \A c : In("purged", c) \subseteq In("purged", c)'
  BY <1>9
<1>20. \A c \in Batches : audited[c] <= audited'[c]
  BY <1>11, RunFacts
<1> QED
  BY <1>8, <1>11, <1>13, <1>14, <1>15, <1>16, <1>17, <1>18, <1>19, <1>20, RunMoves

\* A batch that is gone has no purged code left that a run could owe an audit row.
LEMMA NothingOwed ==
    ASSUME PurgeInv, BooksKept, NEW p \in Tasks, At(p, "audit"),
           NEW b \in run[p].batch, b \notin batches
    PROVE  run[p].deleted = 0
<1>1. b \in Batches /\ run[p].batch = {b}
  BY RunFacts DEF RunOK
<1>2. Unaudited(p, b) = run[p].deleted
  BY <1>1 DEF Unaudited, At
<1>3. Issued(b) <= audited[b] /\ Cardinality(In("purged", b)) <= Issued(b)
  BY <1>1, InCounted DEF PurgeInv, Books, GoneAudited
<1>4. Cardinality(In("purged", b))
        = audited[b] + Unaudited("signal", b) + Unaudited("migrate", b)
  BY <1>1 DEF PurgeInv, AuditsMatch, BooksKept
<1>5. \A q \in Tasks : Unaudited(q, b) \in Nat
  BY RunFacts, RunsCounted
<1>6. p = "signal" \/ p = "migrate"
  BY DEF Tasks
<1>7. audited[b] \in Nat /\ Issued(b) \in Nat /\ Cardinality(In("purged", b)) \in Nat
  BY <1>1, InCounted, RunFacts
<1> QED
  BY <1>2, <1>3, <1>4, <1>5, <1>6, <1>7 DEF Tasks

LEMMA AuditPurgeSafe ==
    ASSUME PurgeInv, PurgeTypeOK', NEW p \in Tasks, AuditPurge(p)
    PROVE  PurgeInv'
<1>1. PICK b \in run[p].batch :
        IF b \in batches
        THEN /\ audited' = [audited EXCEPT ![b] = @ + run[p].deleted]
             /\ Goes(p, "finish")
        ELSE /\ TakeBatch(p, b, "next")
             /\ UNCHANGED audited
  BY DEF AuditPurge
<1>2. /\ cap' = cap /\ disturbed' = disturbed /\ recorded' = recorded /\ batches' = batches
      /\ code' = code
  BY DEF AuditPurge, settingVars
<1>3. b \in Batches /\ run[p].batch = {b} /\ At(p, "audit")
  BY <1>1, RunFacts DEF RunOK, AuditPurge
<1>4. \A c : In("purged", c)' = In("purged", c)
  BY <1>2 DEF In, CodesOf
<1>5. PurgedCodes' = PurgedCodes /\ NothingCascades'
  BY <1>2 DEF PurgedCodes, PurgeInv, NothingCascades
<1>6. audited \in [Batches -> Nat] /\ run[p].deleted \in Nat
  BY RunFacts DEF PurgeTypeOK
<1>7. CASE b \in batches
  <2>1. /\ audited' = [audited EXCEPT ![b] = audited[b] + run[p].deleted]
        /\ Goes(p, "finish")
    BY <1>1, <1>7
  <2>2. /\ run'[p].pc = "finish" /\ run'[p].deleted = run[p].deleted
        /\ run'[p].total = run[p].total /\ run'[p].batch = {b}
    BY <1>3, <2>1, GoesFields, RunFacts
  <2>3. audited'[b] = audited[b] + run[p].deleted
        /\ \A c \in Batches : c # b => audited'[c] = audited[c]
    BY <1>3, <1>6, <2>1
  <2>4. \A c \in Batches : audited[c] \in Nat /\ audited'[c] \in Nat
                           /\ audited[c] <= audited'[c]
    BY <1>6, <2>3
  <2>5. RunOK(p)'
    BY <1>2, <1>3, <2>2, RunOKKept
  <2>6. CapOK(p)'
    BY <1>2, <2>2, RunFacts DEF CapOK, At
  <2>7. LedgerOK(p)'
    BY <1>3, <1>6, <2>2, <2>3, <2>4 DEF LedgerOK, At
  <2>8. ASSUME BooksKept PROVE GoneAudited'
    <3>1. ASSUME NEW c \in Batches \ batches PROVE Issued(c) <= audited'[c]
      <4>1. Issued(c) <= audited[c] /\ Issued(c) \in Nat
        BY <2>8, InCounted DEF PurgeInv, Books, GoneAudited
      <4> QED
        BY <2>4, <4>1
    <3>2. \A c : Issued(c)' = Issued(c)
      BY DEF Issued, CodesOf
    <3> QED
      BY <1>2, <3>1, <3>2 DEF GoneAudited
  <2>9. ASSUME NEW c \in Batches
        PROVE  Cardinality(In("purged", c)') + audited[c] + Unaudited(p, c)
                 = Cardinality(In("purged", c)) + audited'[c] + Unaudited(p, c)'
    <3>1. Unaudited(p, c)' = 0
      BY <2>2 DEF Unaudited
    <3>2. CASE c = b
      <4>1. Unaudited(p, c) = run[p].deleted
        BY <1>3, <3>2 DEF Unaudited, At
      <4> QED
        BY <1>4, <1>6, <2>3, <2>4, <3>1, <3>2, <4>1, InCounted
    <3>3. CASE c # b
      <4>1. Unaudited(p, c) = 0
        BY <1>3, <3>3 DEF Unaudited
      <4> QED
        BY <1>4, <2>3, <3>1, <3>3, <4>1
    <3> QED
      BY <3>2, <3>3
  <2>10. Unrecorded(p)' = Unrecorded(p)
    BY <2>2 DEF Unrecorded
  <2>11. \A q \in Tasks \ {p} : run'[q] = run[q]
    BY <2>1, RunFacts DEF Goes
  <2> QED
    BY <1>2, <1>4, <1>5, <2>4, <2>5, <2>6, <2>7, <2>8, <2>9, <2>10, <2>11, RunMoves
<1>8. CASE b \notin batches
  <2>1. TakeBatch(p, b, "next") /\ audited' = audited
    BY <1>1, <1>8
  <2>2. /\ run'[p].pc = "next" /\ run'[p].deleted = 0 /\ run'[p].total = run[p].total
        /\ run'[p].batch = {}
    BY <2>1, TakeBatchFields, RunFacts DEF Chosen
  <2>3. \E new \in Run : run' = [run EXCEPT ![p] = new]
    BY <1>3, <2>1, TakeBatchType, RunFacts DEF Pcs
  <2>4. RunOK(p)'
    BY <2>2 DEF RunOK
  <2>5. CapOK(p)'
    BY <1>2, <2>2, RunFacts DEF CapOK, At
  <2>6. LedgerOK(p)'
    BY <2>2 DEF LedgerOK, At
  <2>7. ASSUME BooksKept
        PROVE  (\A c \in Batches : Unaudited(p, c)' = Unaudited(p, c))
               /\ Unrecorded(p)' = Unrecorded(p)
    <3>1. run[p].deleted = 0
      BY <1>1, <1>3, <1>8, <2>7, NothingOwed
    <3> QED
      BY <2>2, <3>1, RunFacts DEF Unaudited, Unrecorded
  <2>8. Unledgered /\ UNCHANGED <<code, batches>>
    BY <2>1, <1>2 DEF Unledgered, ledgerVars, AuditPurge
  <2> QED
    BY <2>3, <2>4, <2>5, <2>6, <2>7, <2>8, RunAlone
<1> QED
  BY <1>7, <1>8

LEMMA FinishBatchSafe ==
    ASSUME PurgeInv, PurgeTypeOK', NEW p \in Tasks, FinishBatch(p)
    PROVE  PurgeInv'
<1>1. PICK b \in run[p].batch :
        IF DeleteEmpty /\ IsEmpty(p, b)
        THEN /\ batches' = batches \ {b}
             /\ code' = [c \in Codes |->
                   IF c \in CodesOf(b) /\ code[c].state # "purged"
                   THEN Gone("cascaded") ELSE code[c]]
        ELSE UNCHANGED <<batches, code>>
  BY DEF FinishBatch
<1> DEFINE total == run[p].total + run[p].deleted
           new == [run[p] EXCEPT !.pc = "next", !.batch = {}, !.deleted = 0, !.total = total]
<1>2. run' = [run EXCEPT ![p] = new]
  BY DEF FinishBatch
<1>3. /\ run'[p].pc = "next" /\ run'[p].deleted = 0 /\ run'[p].batch = {}
      /\ run'[p].total = total
  <2> HIDE DEF total
  <2> QED
    BY <1>2, RunFacts DEF Run
<1>4. \A q \in Tasks \ {p} : run'[q] = run[q]
  BY <1>2, RunFacts
<1>5. b \in Batches /\ run[p].batch = {b} /\ At(p, "finish")
  BY <1>1, RunFacts DEF RunOK, FinishBatch
<1>6. IsEmpty(p, b) => In("purged", b) = CodesOf(b) /\ run[p].deleted = Issued(b)
  <2>1. run[p].deleted <= Cardinality(In("purged", b))
    BY <1>1, RunFacts DEF RunOK
  <2> QED
    BY <2>1, RunFacts, InCounted DEF IsEmpty
<1>7. code' = code
  <2>1. CASE DeleteEmpty /\ IsEmpty(p, b)
    <3>1. \A c \in CodesOf(b) : code[c].state = "purged"
      BY <1>6, <2>1 DEF In
    <3>2. code' = [c \in Codes |-> code[c]]
      BY <1>1, <2>1, <3>1
    <3> QED
      BY <3>2, RunFacts DEF PurgeTypeOK
  <2>2. CASE ~(DeleteEmpty /\ IsEmpty(p, b))
    BY <1>1, <2>2
  <2> QED
    BY <2>1, <2>2
<1>8. batches' = batches \/ (IsEmpty(p, b) /\ batches' = batches \ {b})
  BY <1>1
<1>9. /\ cap' = cap /\ disturbed' = disturbed /\ audited' = audited /\ recorded' = recorded
  BY DEF FinishBatch, Unledgered, ledgerVars, settingVars
<1>10. \A c : In("purged", c)' = In("purged", c)
  BY <1>7 DEF In, CodesOf
<1>11. PurgedCodes' = PurgedCodes /\ NothingCascades'
  BY <1>7 DEF PurgedCodes, PurgeInv, NothingCascades
<1>12. RunOK(p)'
  BY <1>3 DEF RunOK
<1>13. CapOK(p)'
  BY <1>3, <1>9, RunFacts DEF CapOK, At
<1>14. LedgerOK(p)'
  BY <1>3 DEF LedgerOK, At
<1>15. ASSUME BooksKept PROVE GoneAudited'
  <2>1. \A c : Issued(c)' = Issued(c)
    BY DEF Issued, CodesOf
  <2>2. \A c \in Batches \ batches : Issued(c) <= audited[c]
    BY <1>15 DEF PurgeInv, Books, GoneAudited
  <2>3. run[p].deleted <= audited[b]
    BY <1>1, <1>5, <1>15, RunFacts DEF LedgerOK
  <2>4. IsEmpty(p, b) => Issued(b) <= audited[b]
    BY <1>6, <2>3
  <2> QED
    BY <1>8, <1>9, <2>1, <2>2, <2>4 DEF GoneAudited
<1>16. \A c \in Batches : Unaudited(p, c)' = Unaudited(p, c)
  BY <1>3, <1>5 DEF Unaudited, At
<1>17. Unrecorded(p)' = Unrecorded(p)
  BY <1>3, RunFacts DEF Unrecorded
<1>18. \A c \in Batches : audited[c] <= audited'[c]
  BY <1>9, RunFacts
<1> QED
  BY <1>4, <1>9, <1>10, <1>11, <1>12, <1>13, <1>14, <1>15, <1>16, <1>17, <1>18, RunMoves

LEMMA RecordRunSafe ==
    ASSUME PurgeInv, PurgeTypeOK', NEW p \in Tasks, RecordRun(p)
    PROVE  PurgeInv'
<1>1. /\ run' = [run EXCEPT ![p] = Idle] /\ recorded' = recorded + run[p].total
      /\ At(p, "next")
  BY DEF RecordRun
<1>2. /\ run'[p] = Idle /\ \A q \in Tasks \ {p} : run'[q] = run[q]
  BY <1>1, RunFacts
<1>3. /\ cap' = cap /\ disturbed' = disturbed /\ audited' = audited /\ batches' = batches
      /\ code' = code
  BY DEF RecordRun, settingVars
<1>4. \A c : In("purged", c)' = In("purged", c)
  BY <1>3 DEF In, CodesOf
<1>5. PurgedCodes' = PurgedCodes /\ NothingCascades'
  BY <1>3 DEF PurgedCodes, PurgeInv, NothingCascades
<1>6. RunOK(p)' /\ LedgerOK(p)'
  BY <1>2 DEF RunOK, LedgerOK, Idle, At
<1>7. CapOK(p)'
  <2>1. \A n \in cap : n > 0 => 0 <= n + Chunk - 1
    BY RunFacts
  <2> QED
    BY <1>2, <1>3, <2>1 DEF CapOK, Idle, At
<1>8. ASSUME BooksKept PROVE GoneAudited'
  BY <1>3, <1>8 DEF PurgeInv, Books, GoneAudited, Issued, CodesOf
<1>9. \A c \in Batches : Unaudited(p, c)' = Unaudited(p, c)
  BY <1>1, <1>2 DEF Unaudited, Idle, At
<1>10. ASSUME BooksKept PROVE recorded + Unrecorded(p) = recorded' + Unrecorded(p)'
  <2>1. run[p].deleted = 0
    <3>1. LedgerOK(p) /\ run[p].pc = "next"
      BY <1>1, <1>10, RunFacts DEF At
    <3> QED
      BY <3>1 DEF LedgerOK
  <2>2. Unrecorded(p)' = 0
    <3>1. run'[p].deleted = 0 /\ run'[p].total = 0
      BY <1>2 DEF Idle
    <3> QED
      BY <3>1 DEF Unrecorded
  <2>3. recorded \in Nat
    BY RunFacts DEF PurgeTypeOK
  <2> QED
    BY <1>1, <2>1, <2>2, <2>3, RunFacts DEF Unrecorded
<1>11. ASSUME BooksKept
       PROVE  Cardinality(PurgedCodes') + recorded + Unrecorded(p)
                = Cardinality(PurgedCodes) + recorded' + Unrecorded(p)'
  <2>1. PurgedCodes \in SUBSET Codes
    BY DEF PurgedCodes
  <2>2. recorded \in Nat /\ recorded' \in Nat /\ Unrecorded(p) \in Nat
        /\ Unrecorded(p)' \in Nat /\ Cardinality(PurgedCodes) \in Nat
    BY <1>2, <2>1, CodesCounted, RunFacts, RunsCounted
       DEF PurgeTypeOK, Unrecorded, Idle
  <2> QED
    BY <1>5, <1>10, <1>11, <2>2
<1>12. \A c \in Batches : audited[c] <= audited'[c]
  BY <1>3, RunFacts
<1> QED
  BY <1>2, <1>3, <1>4, <1>5, <1>6, <1>7, <1>8, <1>9, <1>11, <1>12, RunMoves

LEMMA RunCutSafe ==
    ASSUME PurgeInv, PurgeTypeOK', NEW p \in Tasks, FailBatch(p) \/ PurgeCrash(p)
    PROVE  PurgeInv'
<1>1. CASE FailBatch(p)
  <2>1. PICK b \in Batches : TakeBatch(p, b, "next")
    BY <1>1, RunFacts DEF FailBatch
  <2>2. run'[p].pc = "next" /\ run'[p].deleted = 0 /\ run'[p].batch = {}
    BY <2>1, TakeBatchFields, RunFacts DEF Chosen
  <2>3. \E new \in Run : run' = [run EXCEPT ![p] = new]
    BY <2>1, TakeBatchType, RunFacts DEF Pcs
  <2>4. RunOK(p)'
    BY <2>2 DEF RunOK
  <2>5. CapOK(p)'
    BY <1>1, <2>2, RunFacts DEF CapOK, At, FailBatch, settingVars
  <2> QED
    BY <1>1, <2>3, <2>4, <2>5, RunCut DEF FailBatch
<1>2. CASE PurgeCrash(p)
  <2>1. run' = [run EXCEPT ![p] = Idle] /\ run'[p] = Idle /\ cap' = cap
    BY <1>2, RunFacts DEF PurgeCrash, settingVars
  <2>2. \A n \in cap : n > 0 => 0 <= n + Chunk - 1
    BY RunFacts
  <2>3. RunOK(p)' /\ CapOK(p)'
    BY <2>1, <2>2 DEF RunOK, CapOK, Idle, At
  <2> QED
    BY <1>2, <2>1, <2>3, IdleIsRun, RunCut DEF PurgeCrash
<1> QED
  BY <1>1, <1>2

\* Users, the administrator and the clock move no run, purge nothing and bring nothing back.
LEMMA OutsideSafe ==
    ASSUME PurgeInv, PurgeTypeOK', UNCHANGED <<batches, cap, run, ledgerVars, disturbed>>,
           \A c \in Codes : code'[c].state = code[c].state
                            \/ (code[c].state = "usable" /\ code'[c].state = "retired")
    PROVE  PurgeInv'
<1>1. \A c : In("purged", c)' = In("purged", c)
  BY DEF In, CodesOf
<1>2. PurgedCodes' = PurgedCodes /\ NothingCascades'
  BY DEF PurgedCodes, PurgeInv, NothingCascades
<1>3. audited' = audited /\ recorded' = recorded /\ cap' = cap /\ disturbed' = disturbed
  BY DEF ledgerVars
<1>4. ASSUME NEW q \in Tasks PROVE RunOK(q)' /\ CapOK(q)'
  BY <1>1, RunFacts DEF RunOK, CapOK, At
<1>5. Books'
  BY <1>3 DEF PurgeInv, Books, BooksKept, GoneAudited, LedgerOK, At, Issued, CodesOf
<1>6. AuditsMatch'
  <2>1. \A q \in Tasks, b \in Batches : Unaudited(q, b)' = Unaudited(q, b)
    BY DEF Unaudited
  <2>2. AuditsMatch /\ "signal" \in Tasks /\ "migrate" \in Tasks
    BY DEF PurgeInv, Tasks
  <2> QED
    BY <1>1, <1>3, <2>1, <2>2 DEF AuditsMatch
<1>7. HistoryMatches'
  <2>1. \A q \in Tasks : Unrecorded(q)' = Unrecorded(q)
    BY DEF Unrecorded
  <2>2. HistoryMatches /\ "signal" \in Tasks /\ "migrate" \in Tasks
    BY DEF PurgeInv, Tasks
  <2>3. SUFFICES ASSUME BooksKept
                 PROVE  Cardinality(PurgedCodes')
                          = recorded' + Unrecorded("signal")' + Unrecorded("migrate")'
    BY <1>3 DEF HistoryMatches, BooksKept, PurgedCodes
  <2>4. Cardinality(PurgedCodes) = recorded + Unrecorded("signal") + Unrecorded("migrate")
    BY <2>2, <2>3 DEF HistoryMatches, BooksKept, PurgedCodes
  <2> QED
    BY <1>2, <1>3, <2>1, <2>2, <2>4
<1> QED
  BY <1>2, <1>4, <1>5, <1>6, <1>7 DEF PurgeInv
-----------------------------------------------------------------------------
LEMMA NextPurgeInv == PurgeInv /\ [PurgeNext]_vars => PurgeInv'
<1> SUFFICES ASSUME PurgeInv, [PurgeNext]_vars PROVE PurgeInv'
  OBVIOUS
<1>0. PurgeTypeOK /\ PurgeTypeOK'
  BY NextPurgeType DEF PurgeInv
<1>1. ASSUME NEW p \in Tasks, StartRun(p) \/ RunStep(p) \/ FailBatch(p) \/ PurgeCrash(p)
      PROVE  PurgeInv'
  BY <1>0, <1>1, StartRunSafe, NextBatchSafe, CountCodesSafe, PickChunkSafe,
     DeleteChunkSafe, AuditPurgeSafe, FinishBatchSafe, RecordRunSafe, RunCutSafe
     DEF RunStep
<1>2. ASSUME NEW c \in Codes, DeleteCode(c) \/ InvalidateCode(c) PROVE PurgeInv'
  <2>0. PICK saved : GiveUp(c, saved)
    BY <1>2 DEF DeleteCode, InvalidateCode
  <2>1. code[c].state = "usable"
        /\ code' = [code EXCEPT ![c] = [state |-> "retired", modified |-> saved, retired |-> day]]
    BY <2>0 DEF GiveUp
  <2>2. \A d \in Codes : code'[d].state = code[d].state
                         \/ (code[d].state = "usable" /\ code'[d].state = "retired")
    BY <1>0, <2>1 DEF PurgeTypeOK
  <2> QED
    BY <1>0, <2>0, <2>2, OutsideSafe DEF GiveUp, Unledgered, settingVars
<1>3. ASSUME NEW b \in Batches, RetireBatch(b) PROVE PurgeInv'
  <2>1. \A d \in Codes : [code[d] EXCEPT !.state = "retired", !.retired = day].state = "retired"
    BY <1>0 DEF PurgeTypeOK, CodeRow
  <2>2. \A d \in Codes : code'[d] = IF d \in In("usable", b)
            THEN [code[d] EXCEPT !.state = "retired", !.retired = day] ELSE code[d]
    BY <1>3 DEF RetireBatch
  <2>3. \A d \in Codes : code'[d].state = code[d].state
                         \/ (code[d].state = "usable" /\ code'[d].state = "retired")
    BY <2>1, <2>2 DEF In
  <2> QED
    BY <1>0, <1>3, <2>3, OutsideSafe DEF RetireBatch, Unledgered, settingVars
<1>4. ASSUME NEW enabled \in BOOLEAN, NEW retention \in 0 .. MaxRetention,
             SaveScheduler(enabled, retention)
      PROVE  PurgeInv'
  BY <1>0, <1>4, OutsideSafe DEF SaveScheduler
<1>5. CASE Migrate \/ Tick
  BY <1>0, <1>5, OutsideSafe DEF Migrate, Tick, settingVars
<1>6. CASE UNCHANGED vars
  BY <1>0, <1>6, OutsideSafe DEF vars, settingVars
<1> QED
  BY <1>1, <1>2, <1>3, <1>4, <1>5, <1>6 DEF PurgeNext

LEMMA PurgeInvariant == PurgeSpec => []PurgeInv
  BY InitPurgeInv, NextPurgeInv, PTL DEF PurgeSpec

\* Type correctness of the purge.
THEOREM PurgeTypeCorrect == PurgeSpec => []PurgeTypeOK
<1>1. PurgeInv => PurgeTypeOK
  BY DEF PurgeInv
<1> QED
  BY PurgeInvariant, <1>1, PTL

\* batch.delete() cascades to the codes of the batch, and finds none: is_empty compares
\* what this run has deleted with what was issued, and that many codes are gone.
THEOREM CascadeSparesCodes == PurgeSpec => []NothingCascades
<1>1. PurgeInv => NothingCascades
  BY DEF PurgeInv
<1> QED
  BY PurgeInvariant, <1>1, PTL

\* Whichever codes the runs of the two schedules take from each other, the audit rows
\* that log_action creates for a batch add up to the purged codes of their batch, as long as
\* nothing fails and the cap is set.
THEOREM AuditsAddUp == PurgeSpec => []AuditsMatch
<1>1. PurgeInv => AuditsMatch
  BY DEF PurgeInv
<1> QED
  BY PurgeInvariant, <1>1, PTL

\* And so do the rows of RecoveryCodePurgeHistory.
THEOREM HistoryAddsUp == PurgeSpec => []HistoryMatches
<1>1. PurgeInv => HistoryMatches
  BY DEF PurgeInv
<1> QED
  BY PurgeInvariant, <1>1, PTL

\* max_deletions_per_run is exceeded by less than a chunk in any batch.
THEOREM CapIsKept == PurgeSpec => []CapHolds
<1>1. PurgeInv => CapHolds
  BY DEF PurgeInv, CapOK, CapHolds
<1> QED
  BY PurgeInvariant, <1>1, PTL
=============================================================================
