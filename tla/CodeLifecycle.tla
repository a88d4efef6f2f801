---------------------------- MODULE CodeLifecycle ----------------------------
(***************************************************************************)
(* One user's recovery codes: the rows of RecoveryCodesBatch, RecoveryCode *)
(* and RecoveryCodesBatchHistory, and the web requests and purge jobs that *)
(* read and write them concurrently.                                       *)
(*                                                                         *)
(* A step of a request is one SQL statement that the code commits on its   *)
(* own (there is no ATOMIC_REQUESTS), or one statement of a                *)
(* transaction.atomic block.  The database is READ COMMITTED with row      *)
(* locks: a statement sees what was committed when it started, a writer    *)
(* waits for the row's lock and re-evaluates its WHERE clause once it has  *)
(* it, and a transaction's writes become visible when it commits.          *)
(***************************************************************************)
EXTENDS Integers, FiniteSets, FiniteSetsExt

CONSTANTS Requests,    \* concurrent requests and purge jobs of one user
          Batches,     \* primary keys available to RecoveryCodesBatch
          Codes,       \* primary keys available to RecoveryCode
          BatchOf,     \* the foreign key RecoveryCode.batch, fixed at creation
          Operations,  \* the operations the environment may start
          MaxCrashes,  \* bound: workers that may die in the middle of a request
          NoBatch, NoCode

AllOperations == {"use", "delete", "invalidate", "discard", "generate",
                  "regenerate", "purge"}

ASSUME ConstantsAssumption ==
    /\ BatchOf \in [Codes -> Batches]
    /\ IsFiniteSet(Codes)
    /\ Operations \subseteq AllOperations
    /\ MaxCrashes \in Nat
    /\ NoBatch \notin Batches
    /\ NoCode \notin Codes

VARIABLES batch,     \* rows of RecoveryCodesBatch
          code,      \* rows of RecoveryCode
          history,   \* rows of RecoveryCodesBatchHistory
          request,   \* what each request has read and where it stands
          logins,    \* history variable: successful logins per code
          crashes    \* workers that died so far

vars == <<batch, code, history, request, logins, crashes>>

-----------------------------------------------------------------------------
(* Rows.  A row is "unborn" before its INSERT and "gone" after its DELETE. *)

Presence == {"unborn", "stored", "gone"}
Status   == {"ACTIVE", "INVALIDATE", "PENDING_DELETE", "DELETED"}

BatchRow == [row: Presence, status: Status,
             number_used: Nat, number_removed: Nat, number_invalidated: Nat]
CodeRow  == [row: Presence, status: Status, is_used: BOOLEAN,
             is_deactivated: BOOLEAN, mark_for_deletion: BOOLEAN]

NewBatch == [row |-> "stored", status |-> "ACTIVE", number_used |-> 0,
             number_removed |-> 0, number_invalidated |-> 0]
NewCode  == [row |-> "stored", status |-> "ACTIVE", is_used |-> FALSE,
             is_deactivated |-> FALSE, mark_for_deletion |-> FALSE]

NoBatchRow == [NewBatch EXCEPT !.row = "unborn"]
NoCodeRow  == [NewCode EXCEPT !.row = "unborn"]

CodesOf(b) == {c \in Codes : BatchOf[c] = b}
Issued(b)  == Cardinality(CodesOf(b))     \* number_issued

\* The filter of RecoveryCode.get_by_code_and_user.
Usable(c) == /\ code[c].row = "stored"
             /\ ~code[c].is_used
             /\ ~code[c].is_deactivated
             /\ ~code[c].mark_for_deletion

ActiveBatches == {b \in Batches : /\ batch[b].row = "stored"
                                  /\ batch[b].status = "ACTIVE"}
ActiveCodes   == {c \in Codes : /\ code[c].row = "stored"
                                /\ code[c].status = "ACTIVE"}
ActiveLedger  == {b \in Batches : /\ history[b].row = "stored"
                                  /\ history[b].status = "ACTIVE"}
TerminalStatuses == {"PENDING_DELETE", "INVALIDATE"}

-----------------------------------------------------------------------------
(* Requests. *)

CodeOperations == {"use", "delete", "invalidate"}
CreatePcs      == {"create_lock", "create_history", "create_codes", "create_commit"}
Pcs            == CreatePcs \cup
                  {"idle", "count_batch", "count_history", "save_code",
                   "guard_save", "guard_flush", "discard_lock",
                   "discard_commit", "purge"}

Request == [pc: Pcs,
            op: CodeOperations \cup {"none"},  \* operation on one code
            code: Codes \cup {NoCode},         \* its code
            batch: Batches \cup {NoBatch},     \* the batch read, or being purged
            copy: BatchRow,                    \* the row as read, kept in memory
            new: Batches \cup {NoBatch},       \* uuid of the batch being created
            rows: SUBSET Batches,              \* batch rows scanned, then locked
            ledger: SUBSET Batches,            \* history rows scanned
            codes: SUBSET Codes]               \* codes scanned, locked or purged

Idle == [pc |-> "idle", op |-> "none", code |-> NoCode, batch |-> NoBatch,
         copy |-> NoBatchRow, new |-> NoBatch, rows |-> {}, ledger |-> {},
         codes |-> {}]

At(p, pc) == request[p].pc = pc
Goto(p, pc) == request' = [request EXCEPT ![p].pc = pc]
End(p) == request' = [request EXCEPT ![p] = Idle]

\* Row locks held by a transaction that has not committed.
BatchLocked(p, b) == \E q \in Requests \ {p} :
    /\ request[q].pc \in {"create_history", "create_codes", "create_commit"}
    /\ b \in request[q].rows
CodeLocked(p, c) == \E q \in Requests \ {p} :
    /\ request[q].pc = "discard_commit"
    /\ c \in request[q].codes

\* uuid4 keys never collide: a key is free when no row and no INSERT has it.
FreshBatches == {b \in Batches : /\ batch[b].row = "unborn"
                                 /\ \A q \in Requests : request[q].new # b}

Init ==
    /\ batch = [b \in Batches |-> NoBatchRow]
    /\ code = [c \in Codes |-> NoCodeRow]
    /\ history = [b \in Batches |-> NoBatchRow]
    /\ request = [p \in Requests |-> Idle]
    /\ logins = [c \in Codes |-> 0]
    /\ crashes = 0

-----------------------------------------------------------------------------
(* Login, delete and deactivate: one code is looked up without a lock and  *)
(* kept in memory.  A lookup that finds nothing answers "invalid code" and *)
(* changes no row.                                                         *)

\* Mutant: a login marks the code first and counts it never.
LookupUncounted(p, op, c) ==
    /\ At(p, "idle")
    /\ op \in Operations
    /\ Usable(c)
    /\ request' = [request EXCEPT ![p] =
           [Idle EXCEPT !.pc = "save_code", !.op = op, !.code = c,
                        !.batch = BatchOf[c]]]
    /\ UNCHANGED <<batch, code, history, logins, crashes>>

Lookup(p, op, c) ==
    /\ At(p, "idle")
    /\ op \in Operations
    /\ Usable(c)
    /\ request' = [request EXCEPT ![p] =
           [Idle EXCEPT !.pc = IF op = "use" THEN "count_batch" ELSE "save_code",
                        !.op = op, !.code = c, !.batch = BatchOf[c]]]
    /\ UNCHANGED <<batch, code, history, logins, crashes>>

\* Mutant: the counter counts what is left, F() - 1.
IncrementDown(row, op) ==
    CASE op = "use"        -> [row EXCEPT !.number_used = @ - 1]
      [] op = "delete"     -> [row EXCEPT !.number_removed = @ - 1]
      [] op = "invalidate" -> [row EXCEPT !.number_invalidated = @ - 1]

\* The F() + 1 that _update_field_counter applies to a batch and its history.
Increment(row, op) ==
    CASE op = "use"        -> [row EXCEPT !.number_used = @ + 1]
      [] op = "delete"     -> [row EXCEPT !.number_removed = @ + 1]
      [] op = "invalidate" -> [row EXCEPT !.number_invalidated = @ + 1]

\* Mutant: only the batch is counted, not its history.
CountBatchOnly(p) ==
    LET b == request[p].batch IN
    /\ At(p, "count_batch")
    /\ ~BatchLocked(p, b)
    /\ batch' = IF batch[b].row = "stored"
                THEN [batch EXCEPT ![b] = Increment(@, request[p].op)]
                ELSE batch
    /\ IF request[p].op = "use" THEN Goto(p, "save_code") ELSE End(p)
    /\ UNCHANGED <<code, history, logins, crashes>>

\* An UPDATE of a row that is gone matches nothing.
CountBatch(p) ==
    LET b == request[p].batch IN
    /\ At(p, "count_batch")
    /\ ~BatchLocked(p, b)
    /\ batch' = IF batch[b].row = "stored"
                THEN [batch EXCEPT ![b] = Increment(@, request[p].op)]
                ELSE batch
    /\ Goto(p, "count_history")
    /\ UNCHANGED <<code, history, logins, crashes>>

\* refresh_from_db then raises DoesNotExist if the batch row is gone.
CountHistory(p) ==
    LET b == request[p].batch IN
    /\ At(p, "count_history")
    /\ history' = [history EXCEPT ![b] = Increment(@, request[p].op)]
    /\ IF request[p].op = "use" /\ batch[b].row = "stored"
       THEN Goto(p, "save_code")
       ELSE End(p)
    /\ UNCHANGED <<batch, code, logins, crashes>>

\* Mutant: update_fields holds nothing but the status of a used code.
SpentUseShort(row, op) ==
    CASE op = "use" -> [row EXCEPT !.status = "PENDING_DELETE"]
      [] op = "delete" ->
            [row EXCEPT !.status = "PENDING_DELETE", !.is_deactivated = TRUE,
                        !.mark_for_deletion = TRUE]
      [] op = "invalidate" ->
            [row EXCEPT !.status = "INVALIDATE", !.is_deactivated = TRUE]

\* The columns that the update_fields of each operation write.
Spent(row, op) ==
    CASE op = "use" ->
            [row EXCEPT !.status = "PENDING_DELETE", !.is_used = TRUE,
                        !.is_deactivated = TRUE, !.mark_for_deletion = TRUE]
      [] op = "delete" ->
            [row EXCEPT !.status = "PENDING_DELETE", !.is_deactivated = TRUE,
                        !.mark_for_deletion = TRUE]
      [] op = "invalidate" ->
            [row EXCEPT !.status = "INVALIDATE", !.is_deactivated = TRUE]

\* Mutant: the save is retried until the row is there.
SaveCodeRetried(p) ==
    LET c == request[p].code
        op == request[p].op IN
    /\ At(p, "save_code")
    /\ ~CodeLocked(p, c)
    /\ code[c].row = "stored"
    /\ code' = [code EXCEPT ![c] = Spent(@, op)]
    /\ logins' = IF op = "use" THEN [logins EXCEPT ![c] = @ + 1] ELSE logins
    /\ IF op = "use" THEN End(p) ELSE Goto(p, "count_batch")
    /\ UNCHANGED <<batch, history, crashes>>

\* save(update_fields) writes over whatever the row holds now and raises
\* DatabaseError when the row is gone.  A use ends with login(request, user).
SaveCode(p) ==
    LET c == request[p].code
        op == request[p].op IN
    /\ At(p, "save_code")
    /\ ~CodeLocked(p, c)
    /\ \/ /\ code[c].row # "stored"
          /\ End(p)
          /\ UNCHANGED <<code, logins>>
       \/ /\ code[c].row = "stored"
          /\ code' = [code EXCEPT ![c] = Spent(@, op)]
          /\ \/ /\ op = "use"
                /\ logins' = [logins EXCEPT ![c] = @ + 1]
                /\ End(p)
             \/ /\ op # "use"
                /\ Goto(p, "count_batch")
                /\ UNCHANGED logins
    /\ UNCHANGED <<batch, history, crashes>>

-----------------------------------------------------------------------------
(* delete_recovery_batch: the ACTIVE batch is read outside the transaction *)
(* and its whole row is saved inside it.                                   *)

\* objects.get: no ACTIVE batch answers "failed", several raise
\* MultipleObjectsReturned; neither changes a row.
DiscardRead(p, b) ==
    /\ At(p, "idle")
    /\ "discard" \in Operations
    /\ ActiveBatches = {b}
    /\ request' = [request EXCEPT ![p] =
           [Idle EXCEPT !.pc = "discard_lock", !.batch = b, !.copy = batch[b]]]
    /\ UNCHANGED <<batch, code, history, logins, crashes>>

\* Mutant: only codes that were touched already are marked for deletion.
DiscardLockTouched(p) ==
    LET found == {c \in CodesOf(request[p].batch) :
                     code[c].row = "stored" /\ code[c].status # "ACTIVE"} IN
    /\ At(p, "discard_lock")
    /\ \A c \in found : ~CodeLocked(p, c)
    /\ request' = [request EXCEPT ![p].pc = "discard_commit", ![p].codes = found]
    /\ UNCHANGED <<batch, code, history, logins, crashes>>

\* recovery_codes.update(...) locks every code row of the batch.
DiscardLock(p) ==
    LET found == {c \in CodesOf(request[p].batch) : code[c].row = "stored"} IN
    /\ At(p, "discard_lock")
    /\ \A c \in found : ~CodeLocked(p, c)
    /\ request' = [request EXCEPT ![p].pc = "discard_commit", ![p].codes = found]
    /\ UNCHANGED <<batch, code, history, logins, crashes>>

\* save() of the whole row as it was read: an UPDATE, or an INSERT if the row
\* is gone.  Then the transaction commits.
DiscardCommit(p) ==
    LET b == request[p].batch IN
    /\ At(p, "discard_commit")
    /\ ~BatchLocked(p, b)
    /\ batch' = [batch EXCEPT ![b] =
           [request[p].copy EXCEPT !.status = "PENDING_DELETE",
                                   !.number_removed = Issued(b)]]
    /\ code' = [c \in Codes |-> IF c \in request[p].codes
                                THEN Spent(code[c], "delete") ELSE code[c]]
    /\ End(p)
    /\ UNCHANGED <<history, logins, crashes>>

-----------------------------------------------------------------------------
(* Generating codes.  Regenerating first passes the attempt guard, which   *)
(* also saves the whole row of the ACTIVE batch it has read; generating    *)
(* for the first time does not.                                            *)

\* The guard's get_by_user.  Whether the cooldown is over is up to the clock,
\* which is not modelled here; without an ACTIVE batch the request may go on
\* (StartCreate), and several raise MultipleObjectsReturned.
GuardRead(p, b) ==
    /\ At(p, "idle")
    /\ "regenerate" \in Operations
    /\ ActiveBatches = {b}
    /\ \/ request' = [request EXCEPT ![p] =
              [Idle EXCEPT !.pc = "guard_save", !.batch = b, !.copy = batch[b]]]
       \/ \E n \in FreshBatches :
              request' = [request EXCEPT ![p] =
                  [Idle EXCEPT !.pc = "guard_flush", !.batch = b, !.new = n]]
    /\ UNCHANGED <<batch, code, history, logins, crashes>>

\* Still cooling down: _increment_attempts saves the whole row as it was read
\* (the attempt counter itself is not modelled here) and the request is refused.
GuardSave(p) ==
    LET b == request[p].batch IN
    /\ At(p, "guard_save")
    /\ ~BatchLocked(p, b)
    /\ batch' = [batch EXCEPT ![b] = request[p].copy]
    /\ End(p)
    /\ UNCHANGED <<code, history, logins, crashes>>

\* create_recovery_batch inserts the batch row, which nobody sees before the
\* commit, and starts the UPDATE of the other ACTIVE batches.
BeginCreate(p, n) ==
    request' = [request EXCEPT ![p] =
        [Idle EXCEPT !.pc = "create_lock", !.new = n, !.rows = ActiveBatches]]

\* Cooldown over: the guard saves last_attempt, which fails on a row that is
\* gone, and the creation begins.
GuardFlush(p) ==
    LET b == request[p].batch IN
    /\ At(p, "guard_flush")
    /\ ~BatchLocked(p, b)
    /\ IF batch[b].row = "stored" THEN BeginCreate(p, request[p].new) ELSE End(p)
    /\ UNCHANGED <<batch, code, history, logins, crashes>>

StartCreate(p, n) ==
    /\ At(p, "idle")
    /\ \/ "generate" \in Operations
       \/ "regenerate" \in Operations /\ ActiveBatches = {}
    /\ n \in FreshBatches
    /\ BeginCreate(p, n)
    /\ UNCHANGED <<batch, code, history, logins, crashes>>

\* Mutant: the other batches are left ACTIVE.
CreateLockNothing(p) ==
    /\ At(p, "create_lock")
    /\ request' = [request EXCEPT ![p].pc = "create_history", ![p].rows = {}]
    /\ UNCHANGED <<batch, code, history, logins, crashes>>

\* _deactivate_all_batches_except_current, first UPDATE: of the batches in its
\* snapshot it locks those still ACTIVE.  Both sides of a race take the rows in
\* the same order, so they wait here for all of them.
CreateLock(p) ==
    LET found == request[p].rows \cap ActiveBatches IN
    /\ At(p, "create_lock")
    /\ \A b \in request[p].rows : ~BatchLocked(p, b)
    /\ request' = [request EXCEPT ![p].pc = "create_history", ![p].rows = found]
    /\ UNCHANGED <<batch, code, history, logins, crashes>>

\* Second UPDATE: the other ACTIVE rows of the history.
CreateHistory(p) ==
    /\ At(p, "create_history")
    /\ request' = [request EXCEPT ![p].pc = "create_codes",
                                  ![p].ledger = ActiveLedger]
    /\ UNCHANGED <<batch, code, history, logins, crashes>>

\* Mutant: the codes of the other batches are forgotten.
CreateCodesNothing(p) ==
    /\ At(p, "create_codes")
    /\ request' = [request EXCEPT ![p].pc = "create_commit", ![p].codes = {}]
    /\ UNCHANGED <<batch, code, history, logins, crashes>>

\* Third UPDATE: every ACTIVE code of the user, whatever its batch.
CreateCodes(p) ==
    /\ At(p, "create_codes")
    /\ request' = [request EXCEPT ![p].pc = "create_commit",
                                  ![p].codes = ActiveCodes]
    /\ UNCHANGED <<batch, code, history, logins, crashes>>

\* The codes of the new batch are inserted and the transaction commits.
CreateCommit(p) ==
    LET r == request[p] IN
    /\ At(p, "create_commit")
    /\ \A c \in r.codes : ~CodeLocked(p, c)
    /\ batch' = [b \in Batches |->
           IF b = r.new THEN NewBatch
           ELSE IF b \in r.rows THEN [batch[b] EXCEPT !.status = "PENDING_DELETE"]
           ELSE batch[b]]
    /\ history' = [b \in Batches |->
           IF b = r.new THEN NewBatch
           ELSE IF b \in r.ledger THEN [history[b] EXCEPT !.status = "DELETED"]
           ELSE history[b]]
    /\ code' = [c \in Codes |->
           IF BatchOf[c] = r.new THEN NewCode
           ELSE IF c \in r.codes \cap ActiveCodes THEN Spent(code[c], "delete")
           ELSE code[c]]
    /\ End(p)
    /\ UNCHANGED <<logins, crashes>>

\* A creation holds batch rows and waits for codes, a discard holds those codes
\* and waits for one of the batches: the database aborts either of the two.
DeadlockAbort(p, q) ==
    /\ At(p, "discard_commit") /\ At(q, "create_commit")
    /\ request[p].batch \in request[q].rows
    /\ request[p].codes \cap request[q].codes # {}
    /\ End(p) \/ End(q)
    /\ UNCHANGED <<batch, code, history, logins, crashes>>

-----------------------------------------------------------------------------
(* purge_expired_codes, run by the scheduler for one batch row it has read. *)

PurgeStart(p, b) ==
    /\ At(p, "idle")
    /\ "purge" \in Operations
    /\ batch[b].row = "stored"
    /\ request' = [request EXCEPT ![p] = [Idle EXCEPT !.pc = "purge", !.batch = b]]
    /\ UNCHANGED <<batch, code, history, logins, crashes>>

\* Mutant: any code of the batch is eligible.
PurgeChunkAny(p, chunk) ==
    /\ At(p, "purge")
    /\ chunk # {}
    /\ chunk \subseteq CodesOf(request[p].batch)
    /\ \A c \in chunk : code[c].row = "stored" /\ ~CodeLocked(p, c)
    /\ code' = [c \in Codes |-> IF c \in chunk
                                THEN [code[c] EXCEPT !.row = "gone"] ELSE code[c]]
    /\ request' = [request EXCEPT ![p].codes = @ \cup chunk]
    /\ UNCHANGED <<batch, history, logins, crashes>>

\* One chunk: some terminal codes of the batch.  Chunk size and retention time
\* decide which; any non-empty choice is allowed here.
PurgeChunk(p, chunk) ==
    /\ At(p, "purge")
    /\ chunk # {}
    /\ chunk \subseteq CodesOf(request[p].batch)
    /\ \A c \in chunk : /\ code[c].row = "stored"
                        /\ code[c].status \in TerminalStatuses
                        /\ ~CodeLocked(p, c)
    /\ code' = [c \in Codes |-> IF c \in chunk
                                THEN [code[c] EXCEPT !.row = "gone"] ELSE code[c]]
    /\ request' = [request EXCEPT ![p].codes = @ \cup chunk]
    /\ UNCHANGED <<batch, history, logins, crashes>>

\* Mutant: the batch goes as soon as one of its codes was deleted.
PurgeFinishEarly(p) ==
    LET b == request[p].batch IN
    /\ At(p, "purge")
    /\ IF request[p].codes # {}
       THEN /\ ~BatchLocked(p, b)
            /\ batch' = [batch EXCEPT ![b].row = "gone"]
            /\ code' = [c \in Codes |-> IF BatchOf[c] = b
                                        THEN [code[c] EXCEPT !.row = "gone"]
                                        ELSE code[c]]
       ELSE UNCHANGED <<batch, code>>
    /\ End(p)
    /\ UNCHANGED <<history, logins, crashes>>

\* The run ends (nothing eligible is left, or the cap is reached).  The batch
\* row, and by cascade its codes, go if this run deleted as many codes as the
\* batch was issued.
PurgeFinish(p) ==
    LET b == request[p].batch IN
    /\ At(p, "purge")
    /\ IF Cardinality(request[p].codes) = Issued(b) /\ request[p].codes # {}
       THEN /\ ~BatchLocked(p, b)
            /\ batch' = [batch EXCEPT ![b].row = "gone"]
            /\ code' = [c \in Codes |-> IF BatchOf[c] = b
                                        THEN [code[c] EXCEPT !.row = "gone"]
                                        ELSE code[c]]
       ELSE UNCHANGED <<batch, code>>
    /\ End(p)
    /\ UNCHANGED <<history, logins, crashes>>

-----------------------------------------------------------------------------
\* A worker dies between two statements; an open transaction is rolled back.
Crash(p) ==
    /\ ~At(p, "idle")
    /\ crashes < MaxCrashes
    /\ crashes' = crashes + 1
    /\ End(p)
    /\ UNCHANGED <<batch, code, history, logins>>

\* With every key of Batches spent the user may simply stop.
Rest == (\A p \in Requests : At(p, "idle")) /\ UNCHANGED vars

Start(p) ==
    \/ \E op \in CodeOperations, c \in Codes : Lookup(p, op, c)
    \/ \E b \in Batches : \/ DiscardRead(p, b)
                          \/ GuardRead(p, b)
                          \/ StartCreate(p, b)
                          \/ PurgeStart(p, b)

Continue(p) ==
    \/ CountBatch(p) \/ CountHistory(p) \/ SaveCode(p)
    \/ DiscardLock(p) \/ DiscardCommit(p)
    \/ GuardSave(p) \/ GuardFlush(p)
    \/ CreateLock(p) \/ CreateHistory(p) \/ CreateCodes(p) \/ CreateCommit(p)
    \/ \E chunk \in SUBSET Codes : PurgeChunk(p, chunk)
    \/ PurgeFinish(p)

Next ==
    \/ \E p \in Requests : Start(p) \/ Continue(p) \/ Crash(p)
    \/ \E p, q \in Requests : DeadlockAbort(p, q)
    \/ Rest

Spec == Init /\ [][Next]_vars

\* Workers run the request they have started.  The fairness is strong because
\* row locks are queued: a statement whose lock is freed again and again is not
\* overtaken forever.  The database resolves deadlocks; nothing obliges a user
\* to start a request.
Fairness ==
    /\ \A p \in Requests : SF_vars(Continue(p))
    /\ WF_vars(\E p, q \in Requests : DeadlockAbort(p, q))

FairSpec == Spec /\ Fairness
-----------------------------------------------------------------------------
(* Properties. *)

TypeOK ==
    /\ batch \in [Batches -> BatchRow]
    /\ code \in [Codes -> CodeRow]
    /\ history \in [Batches -> BatchRow]
    /\ request \in [Requests -> Request]
    /\ logins \in [Codes -> Nat]
    /\ crashes \in 0 .. MaxCrashes

\* The lookup trusts three flags and the purge trusts the status column.  In
\* every interleaving of the writers, which save different subsets of these
\* columns from stale copies, both agree: a stored code is ACTIVE exactly when
\* it can be looked up.
ColumnsAgree == \A c \in Codes :
    code[c].row = "stored" => (code[c].status = "ACTIVE" <=> Usable(c))

\* A code with which a login succeeded is no longer usable, whatever stale row
\* was saved since.
LoginBurnsCode == \A c \in Codes : logins[c] > 0 => ~Usable(c)

\* Every usable code belongs to a stored ACTIVE batch: none outlives the
\* replacement, the discarding or the purge of its batch, although a creation
\* retires batches and codes in two statements with two snapshots.
RetiredBatchIsDead == \A c \in Codes :
    Usable(c) => /\ batch[BatchOf[c]].row = "stored"
                 /\ batch[BatchOf[c]].status = "ACTIVE"

LoginsWith(b) == MapThenSumSet(LAMBDA c : logins[c], CodesOf(b))

\* The history shows at least as many uses of a batch as there were logins with
\* its codes: a login is counted before it succeeds, crashes included, and no
\* stale save touches the history.
LoginsCounted == \A b \in Batches : LoginsWith(b) <= history[b].number_used

\* The user's codes keep CodePromise: issued once, usable until spent, removed
\* from the database (by a purge or its cascade) only after that, whichever
\* stale copies are saved in between.
Life == [c \in Codes |-> IF code[c].row # "stored" THEN code[c].row
                         ELSE IF Usable(c) THEN "usable" ELSE "spent"]
Promise == INSTANCE CodePromise WITH life <- Life
KeepsPromise == Promise!Spec

\* Every request that was started is answered: no wait for a row lock, no
\* deadlock between transactions and no purge loop holds it forever.
EveryRequestEnds == \A p \in Requests : ~At(p, "idle") ~> At(p, "idle")

-----------------------------------------------------------------------------
(* What holds as long as the requests of a user do not overlap. *)

\* At most one batch is ACTIVE, the assumption of every objects.get(user,
\* status=ACTIVE).
OneActiveBatch == Cardinality(ActiveBatches) <= 1

Quiet == \A p \in Requests : At(p, "idle")

UsedIn(b)        == {c \in CodesOf(b) : code[c].is_used}
InvalidatedIn(b) == {c \in CodesOf(b) : code[c].status = "INVALIDATE"}
RemovedIn(b)     == {c \in CodesOf(b) : code[c].mark_for_deletion} \ UsedIn(b)

\* Between requests, and while no worker has died, the counters of an ACTIVE
\* batch count its codes (purged ones included) by what happened to them, and
\* its history row says the same.
CountersMatchCodes == Quiet /\ crashes = 0 =>
    \A b \in ActiveBatches :
        /\ batch[b].number_used = Cardinality(UsedIn(b))
        /\ batch[b].number_removed = Cardinality(RemovedIn(b))
        /\ batch[b].number_invalidated = Cardinality(InvalidatedIn(b))
        /\ history[b] = batch[b]

\* A worker that dies leaves the counters of an ACTIVE batch off in one
\* direction only: a use may be counted that never happened, a removal or a
\* deactivation may have happened uncounted.
CrashKeepsDirection == \A b \in ActiveBatches :
    /\ batch[b].number_used >= Cardinality(UsedIn(b))
    /\ batch[b].number_removed <= Cardinality(RemovedIn(b))
    /\ batch[b].number_invalidated <= Cardinality(InvalidatedIn(b))

-----------------------------------------------------------------------------
(* What the documentation says and overlapping requests break. *)

\* mark_code_as_used: "Once the code has been marked for used it can never be
\* used again."
SingleUse == \A c \in Codes : logins[c] <= 1

\* _update_field_counter: a DB-level increment "to prevent lost updates in
\* concurrent scenarios".
NoCountLost == [][\A b \in Batches :
    batch'[b].number_used >= batch[b].number_used]_vars
-----------------------------------------------------------------------------
(* The inductive invariant behind the safety properties. *)

\* A code is inserted in the transaction that inserts its batch, and only an
\* inserted code was ever used.
BornTogether == \A c \in Codes :
    /\ code[c].row = "unborn" <=> batch[BatchOf[c]].row = "unborn"
    /\ logins[c] > 0 => code[c].row # "unborn"

\* Two creations never insert under the same key.
FreshKeys == \A p, q \in Requests :
    p # q /\ request[p].new = request[q].new => request[p].new = NoBatch

CodeOperationOK(r) ==
    r.pc \in {"count_batch", "count_history", "save_code"} =>
        r.op \in CodeOperations /\ r.code \in Codes /\ r.batch \in Batches

HoldsBatchOK(r) ==
    r.pc \in {"guard_save", "guard_flush", "discard_lock", "discard_commit", "purge"} =>
        r.batch \in Batches /\ batch[r.batch].row # "unborn"

\* Every whole-row copy is one of an ACTIVE batch.
CopyOK(r) ==
    r.pc \in {"guard_save", "discard_lock", "discard_commit"} =>
        r.copy.row = "stored" /\ r.copy.status = "ACTIVE"

\* A discard has locked every usable code of its batch, and no other batch's.
DiscardOK(r) ==
    r.pc = "discard_commit" =>
        /\ \A c \in Codes : BatchOf[c] = r.batch /\ Usable(c) => c \in r.codes
        /\ \A c \in r.codes : BatchOf[c] = r.batch

NewKeyOK(r) ==
    r.pc \in CreatePcs \cup {"guard_flush"} =>
        r.new \in Batches /\ batch[r.new].row = "unborn"

\* A creation retires inserted batches only, and its later snapshot of the codes
\* holds every usable code of the batches it has locked before.
CreateOK(r) ==
    r.pc \in CreatePcs =>
        /\ \A b \in r.rows : batch[b].row # "unborn"
        /\ r.pc = "create_commit" =>
               \A c \in Codes : BatchOf[c] \in r.rows /\ Usable(c) => c \in r.codes

\* A purge has counted only codes of its batch, and they are gone.
PurgeOK(r) ==
    r.pc = "purge" => \A c \in r.codes : BatchOf[c] = r.batch /\ code[c].row = "gone"

RequestOK(r) == /\ CodeOperationOK(r) /\ HoldsBatchOK(r) /\ CopyOK(r)
                /\ DiscardOK(r) /\ NewKeyOK(r) /\ CreateOK(r) /\ PurgeOK(r)

\* Inductive: holds in every reachable state of every instance, and implies the
\* safety properties above; each request knows enough about the rows it has read.
IndInv == /\ TypeOK /\ ColumnsAgree /\ LoginBurnsCode /\ RetiredBatchIsDead
          /\ BornTogether /\ FreshKeys
          /\ \A p \in Requests : RequestOK(request[p])

\* The logins that the history has counted already and that are still to come.
LoginsUnderWay(b) == {p \in Requests : /\ At(p, "save_code")
                                       /\ request[p].op = "use"
                                       /\ request[p].batch = b}

\* What a request on one code keeps in memory is the inserted batch of that code.
OwnBatch(r) == r.pc \in {"count_batch", "count_history", "save_code"} =>
    r.batch = BatchOf[r.code] /\ batch[r.batch].row # "unborn"

\* Inductive, given IndInv, and implies LoginsCounted: every login that is under
\* way was counted too, so that each one that succeeds finds itself counted.
CountingInv ==
    /\ \A p \in Requests : OwnBatch(request[p])
    /\ \A b \in Batches :
           /\ IsFiniteSet(LoginsUnderWay(b))
           /\ LoginsWith(b) + Cardinality(LoginsUnderWay(b)) <= history[b].number_used

-----------------------------------------------------------------------------
(* The inductive invariant behind the properties of requests that do not    *)
(* overlap.                                                                 *)

OneRequest == \A p, q \in Requests : p = q

\* What a request has read is what the rows still say.
UpToDate(r) ==
    /\ r.pc \in {"guard_save", "discard_lock", "discard_commit"} =>
           r.copy = batch[r.batch]
    /\ r.pc \in CreatePcs => r.rows = ActiveBatches
    /\ \/ r.pc = "save_code"
       \/ r.pc \in {"count_batch", "count_history"} /\ r.op = "use"
       => r.code \in Codes /\ Usable(r.code) /\ r.batch = BatchOf[r.code]

\* 1 if a request for op on batch b stands at one of pcs, otherwise 0.
Standing(b, op, pcs) ==
    IF \E p \in Requests : /\ request[p].batch = b
                           /\ request[p].op = op
                           /\ request[p].pc \in pcs
    THEN 1 ELSE 0

\* A use is counted before the code is saved, the other operations after it.
AheadBy(b)  == Standing(b, "use", {"count_history", "save_code"})
BehindBy(b, op) == Standing(b, op, {"count_batch"})

Directed(b) ==
    /\ batch[b].number_used >= Cardinality(UsedIn(b)) + AheadBy(b)
    /\ batch[b].number_removed + BehindBy(b, "delete") <= Cardinality(RemovedIn(b))
    /\ batch[b].number_invalidated + BehindBy(b, "invalidate")
           <= Cardinality(InvalidatedIn(b))

Exact(b) ==
    /\ batch[b].number_used = Cardinality(UsedIn(b)) + AheadBy(b)
    /\ batch[b].number_removed + BehindBy(b, "delete") = Cardinality(RemovedIn(b))
    /\ batch[b].number_invalidated + BehindBy(b, "invalidate")
           = Cardinality(InvalidatedIn(b))

\* The history lags behind its batch by the one step between the two UPDATEs.
Recorded(b) ==
    /\ (\A p \in Requests : At(p, "count_history") => request[p].batch # b)
           => history[b] = batch[b]
    /\ \A p \in Requests : At(p, "count_history") /\ request[p].batch = b
           => batch[b] = Increment(history[b], request[p].op)

\* Inductive under OneRequest, given IndInv, and implies OneActiveBatch,
\* CountersMatchCodes and CrashKeepsDirection.
SequentialInv ==
    /\ \A a, b \in ActiveBatches : a = b
    /\ \A p \in Requests : UpToDate(request[p])
    /\ \A b \in ActiveBatches : Directed(b) /\ (crashes = 0 => Exact(b) /\ Recorded(b))
=============================================================================
