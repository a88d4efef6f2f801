------------------------ MODULE CodeLifecycleProofs ------------------------
(* Proofs about CodeLifecycle, for every value of its constants. *)
EXTENDS CodeLifecycle, FiniteSetTheorems, TLAPS

(***************************************************************************)
(* What Increment and Spent do to a row, column by column, so that the     *)
(* proofs below need not open their CASE expressions.                      *)
(***************************************************************************)

\* Counting an operation leaves presence and status of a batch alone.
LEMMA IncrementRow ==
    ASSUME NEW row \in BatchRow, NEW op \in CodeOperations
    PROVE  /\ Increment(row, op) \in BatchRow
           /\ Increment(row, op).row = row.row
           /\ Increment(row, op).status = row.status
  BY DEF Increment, BatchRow, CodeOperations

\* Whatever the operation, a spent row is present as before, deactivated and
\* not ACTIVE, and no flag is cleared.
LEMMA SpentRow ==
    ASSUME NEW row \in CodeRow, NEW op \in CodeOperations
    PROVE  /\ Spent(row, op) \in CodeRow
           /\ Spent(row, op).row = row.row
           /\ Spent(row, op).status # "ACTIVE"
           /\ Spent(row, op).is_deactivated = TRUE
  BY DEF Spent, CodeRow, Status, CodeOperations

\* A batch has finitely many codes, so number_issued is a number.
LEMMA IssuedNat == \A b \in Batches : IsFiniteSet(CodesOf(b)) /\ Issued(b) \in Nat
  BY ConstantsAssumption, FS_Subset, FS_CardinalityType DEF CodesOf, Issued

LEMMA RowTypes ==
    /\ NewBatch \in BatchRow /\ NoBatchRow \in BatchRow
    /\ NewCode \in CodeRow /\ NoCodeRow \in CodeRow
    /\ Idle \in Request
  BY DEF NewBatch, NoBatchRow, NewCode, NoCodeRow, Idle, BatchRow, CodeRow,
         Presence, Status, Request, Pcs

\* The initial state satisfies the inductive invariant.
LEMMA InitIndInv == Init => IndInv
<1> SUFFICES ASSUME Init PROVE IndInv
    OBVIOUS
<1>1. TypeOK
    BY RowTypes, ConstantsAssumption DEF Init, TypeOK
<1>2. \A c \in Codes : code[c].row = "unborn" /\ BatchOf[c] \in Batches
    BY ConstantsAssumption DEF Init, NoCodeRow, NewCode
<1>3. \A b \in Batches : batch[b].row = "unborn"
    BY DEF Init, NoBatchRow, NewBatch
<1>4. ColumnsAgree /\ LoginBurnsCode /\ RetiredBatchIsDead /\ BornTogether
    BY <1>2, <1>3 DEF Init, ColumnsAgree, LoginBurnsCode, RetiredBatchIsDead,
                      BornTogether, Usable
<1>5. FreshKeys
    BY DEF Init, FreshKeys, Idle
<1>6. \A p \in Requests : RequestOK(request[p])
    BY DEF Init, Idle, RequestOK, CodeOperationOK, HoldsBatchOK, CopyOK, DiscardOK,
           NewKeyOK, CreateOK, PurgeOK, CreatePcs
<1> QED BY <1>1, <1>4, <1>5, <1>6 DEF IndInv

-----------------------------------------------------------------------------
(***************************************************************************)
(* What the other requests know survives a step of p, provided the step    *)
(* never un-inserts a row, inserts only under p's own key, revives no      *)
(* code of a stored batch and brings no deleted code back.                 *)
(***************************************************************************)

RowsMoveForward(p) ==
    /\ \A b \in Batches : /\ batch[b].row # "unborn" => batch'[b].row # "unborn"
                          /\ batch[b].row = "unborn" /\ b # request[p].new
                                => batch'[b].row = "unborn"
    /\ \A c \in Codes : /\ Usable(c)' => Usable(c) \/ batch[BatchOf[c]].row = "unborn"
                        /\ code[c].row = "gone" => code'[c].row = "gone"

OnlyMoves(p) == /\ request' \in [Requests -> Request]
                /\ \A q \in Requests \ {p} : request'[q] = request[q]

KeepsKey(p) == \/ request'[p].new = NoBatch
               \/ request'[p].new = request[p].new
               \/ request'[p].new \in FreshBatches

LEMMA OthersUndisturbed ==
    ASSUME IndInv, NEW p \in Requests, OnlyMoves(p), RowsMoveForward(p),
           NEW q \in Requests, q # p
    PROVE  RequestOK(request[q])'
<1> DEFINE r == request[q]
<1>1. r \in Request /\ RequestOK(r) /\ request'[q] = r
    BY DEF IndInv, TypeOK, OnlyMoves
<1>2. CodeOperationOK(request[q])' /\ CopyOK(request[q])'
    BY <1>1 DEF RequestOK, CodeOperationOK, CopyOK
<1>3. HoldsBatchOK(request[q])'
    BY <1>1 DEF RequestOK, HoldsBatchOK, RowsMoveForward
<1>4. DiscardOK(request[q])'
    <2> SUFFICES ASSUME r.pc = "discard_commit"
                 PROVE  /\ \A c \in Codes : BatchOf[c] = r.batch /\ Usable(c)' => c \in r.codes
                        /\ \A c \in r.codes : BatchOf[c] = r.batch
        BY <1>1 DEF DiscardOK
    <2>1. r.batch \in Batches /\ batch[r.batch].row # "unborn"
        BY <1>1 DEF RequestOK, HoldsBatchOK
    <2> QED BY <1>1, <2>1 DEF RequestOK, DiscardOK, RowsMoveForward
<1>5. NewKeyOK(request[q])'
    <2> SUFFICES ASSUME r.pc \in CreatePcs \cup {"guard_flush"}
                 PROVE  r.new \in Batches /\ batch'[r.new].row = "unborn"
        BY <1>1 DEF NewKeyOK, CreatePcs
    <2>1. r.new \in Batches /\ batch[r.new].row = "unborn"
        BY <1>1 DEF RequestOK, NewKeyOK
    <2>2. r.new # request[p].new
        BY <2>1, ConstantsAssumption DEF IndInv, FreshKeys
    <2> QED BY <2>1, <2>2 DEF RowsMoveForward
<1>6. CreateOK(request[q])'
    <2> SUFFICES ASSUME r.pc \in CreatePcs
                 PROVE  /\ \A b \in r.rows : batch'[b].row # "unborn"
                        /\ r.pc = "create_commit" =>
                               \A c \in Codes : BatchOf[c] \in r.rows /\ Usable(c)'
                                                   => c \in r.codes
        BY <1>1 DEF CreateOK, CreatePcs
    <2>1. r.rows \subseteq Batches /\ CreateOK(r)
        BY <1>1 DEF Request, RequestOK
    <2> QED BY <2>1 DEF CreateOK, RowsMoveForward
<1>7. PurgeOK(request[q])'
    <2>1. r.codes \subseteq Codes
        BY <1>1 DEF Request
    <2> QED BY <1>1, <2>1 DEF RequestOK, PurgeOK, RowsMoveForward
<1> QED BY <1>2, <1>3, <1>4, <1>5, <1>6, <1>7 DEF RequestOK

LEMMA KeysStayFresh ==
    ASSUME IndInv, NEW p \in Requests, OnlyMoves(p), KeepsKey(p)
    PROVE  FreshKeys'
<1> SUFFICES ASSUME NEW q \in Requests, NEW s \in Requests, q # s,
                    request'[q].new = request'[s].new
             PROVE  request'[q].new = NoBatch
    BY DEF FreshKeys
<1>1. \A t \in Requests : t # p => /\ request'[t] = request[t]
                                   /\ request[t].new # NoBatch =>
                                        /\ request[t].new \notin FreshBatches
                                        /\ request[t].new # request[p].new
    BY DEF OnlyMoves, FreshBatches, IndInv, FreshKeys
<1> QED BY <1>1 DEF KeepsKey, IndInv, FreshKeys

\* The request that ends knows nothing, and nothing is to be shown of it.
LEMMA EndIsOK ==
    ASSUME NEW p \in Requests, IndInv, End(p)
    PROVE  OnlyMoves(p) /\ KeepsKey(p) /\ RequestOK(request[p])'
<1>1. request'[p] = Idle /\ OnlyMoves(p)
    BY RowTypes DEF End, OnlyMoves, IndInv, TypeOK
<1> QED BY <1>1 DEF KeepsKey, Idle, RequestOK, CodeOperationOK, HoldsBatchOK, CopyOK,
                    DiscardOK, NewKeyOK, CreateOK, PurgeOK, CreatePcs

\* A step that only reads, or that writes nothing but the history, preserves the
\* invariant as soon as its own request is left in order.
LEMMA ReadStep ==
    ASSUME IndInv, NEW p \in Requests, UNCHANGED <<batch, code, logins>>,
           history' \in [Batches -> BatchRow], crashes' \in 0 .. MaxCrashes,
           OnlyMoves(p), KeepsKey(p), RequestOK(request[p])'
    PROVE  IndInv'
<1>1. TypeOK'
    BY DEF IndInv, TypeOK, OnlyMoves
<1>2. \A c \in Codes : Usable(c)' <=> Usable(c)
    BY DEF Usable
<1>3. ColumnsAgree' /\ LoginBurnsCode' /\ RetiredBatchIsDead' /\ BornTogether'
    BY <1>2 DEF IndInv, ColumnsAgree, LoginBurnsCode, RetiredBatchIsDead, BornTogether
<1>4. RowsMoveForward(p)
    BY <1>2 DEF RowsMoveForward
<1> QED BY <1>1, <1>3, <1>4, OthersUndisturbed, KeysStayFresh DEF IndInv

\* A step that writes rows: each row invariant is shown by the step.
LEMMA WriteStep ==
    ASSUME IndInv, NEW p \in Requests, TypeOK', ColumnsAgree', LoginBurnsCode',
           RetiredBatchIsDead', BornTogether', OnlyMoves(p), KeepsKey(p),
           RowsMoveForward(p), RequestOK(request[p])'
    PROVE  IndInv'
  BY OthersUndisturbed, KeysStayFresh DEF IndInv

-----------------------------------------------------------------------------
(* One lemma per group of actions: each preserves the inductive invariant. *)

\* The part of a request's record that every step keeps.
LEMMA RequestTyped ==
    ASSUME IndInv, NEW p \in Requests
    PROVE  request[p] \in Request /\ RequestOK(request[p]) /\ request \in [Requests -> Request]
  BY DEF IndInv, TypeOK

LEMMA LookupStep ==
    ASSUME IndInv, NEW p \in Requests, NEW op \in CodeOperations, NEW c \in Codes,
           Lookup(p, op, c)
    PROVE  IndInv'
<1> DEFINE x == [Idle EXCEPT !.pc = IF op = "use" THEN "count_batch" ELSE "save_code",
                             !.op = op, !.code = c, !.batch = BatchOf[c]]
<1>1. x \in Request /\ BatchOf[c] \in Batches
    BY RowTypes, ConstantsAssumption DEF Request, Pcs
<1>2. request' = [request EXCEPT ![p] = x]
    BY DEF Lookup
<1>3. OnlyMoves(p) /\ request'[p] = x
    BY <1>1, <1>2, RequestTyped DEF OnlyMoves
<1>4. KeepsKey(p) /\ RequestOK(request[p])'
    BY <1>1, <1>3 DEF Idle, KeepsKey, RequestOK, CodeOperationOK, HoldsBatchOK, CopyOK,
                      DiscardOK, NewKeyOK, CreateOK, PurgeOK, CreatePcs
<1> QED BY <1>3, <1>4, ReadStep DEF Lookup, IndInv, TypeOK

LEMMA EndStep ==
    ASSUME IndInv, NEW p \in Requests, End(p), UNCHANGED <<batch, code, history, logins>>,
           crashes' \in 0 .. MaxCrashes
    PROVE  IndInv'
  BY EndIsOK, ReadStep DEF IndInv, TypeOK

LEMMA CountHistoryStep ==
    ASSUME IndInv, NEW p \in Requests, CountHistory(p)
    PROVE  IndInv'
<1> DEFINE b == request[p].batch
<1>1. b \in Batches /\ request[p].op \in CodeOperations
    BY RequestTyped DEF CountHistory, At, RequestOK, CodeOperationOK
<1>2. history' \in [Batches -> BatchRow]
    BY <1>1, IncrementRow DEF CountHistory, IndInv, TypeOK
<1>3. CASE End(p)
    BY <1>2, <1>3, EndIsOK, ReadStep DEF CountHistory, IndInv, TypeOK
<1>4. CASE Goto(p, "save_code")
    <2>1. request'[p] = [request[p] EXCEPT !.pc = "save_code"] /\ OnlyMoves(p)
        BY <1>4, RequestTyped DEF Goto, OnlyMoves, Request, Pcs
    <2>2. KeepsKey(p) /\ RequestOK(request[p])'
        BY <2>1, <1>1, RequestTyped
        DEF CountHistory, At, KeepsKey, RequestOK, CodeOperationOK, HoldsBatchOK, CopyOK,
            DiscardOK, NewKeyOK, CreateOK, PurgeOK, CreatePcs, Request
    <2> QED BY <1>2, <2>1, <2>2, ReadStep DEF CountHistory, IndInv, TypeOK
<1> QED BY <1>3, <1>4 DEF CountHistory

LEMMA CountBatchStep ==
    ASSUME IndInv, NEW p \in Requests, CountBatch(p)
    PROVE  IndInv'
<1> DEFINE b == request[p].batch
<1>1. b \in Batches /\ request[p].op \in CodeOperations
    BY RequestTyped DEF CountBatch, At, RequestOK, CodeOperationOK
<1>2. /\ batch' \in [Batches -> BatchRow]
      /\ \A a \in Batches : batch'[a].row = batch[a].row /\ batch'[a].status = batch[a].status
    BY <1>1, IncrementRow DEF CountBatch, IndInv, TypeOK
<1>3. request'[p] = [request[p] EXCEPT !.pc = "count_history"] /\ OnlyMoves(p)
    BY RequestTyped DEF CountBatch, Goto, OnlyMoves, Request, Pcs
<1>4. KeepsKey(p) /\ RequestOK(request[p])'
    BY <1>1, <1>3, RequestTyped
    DEF CountBatch, At, KeepsKey, RequestOK, CodeOperationOK, HoldsBatchOK, CopyOK,
        DiscardOK, NewKeyOK, CreateOK, PurgeOK, CreatePcs, Request
<1>5. TypeOK'
    BY <1>2, <1>3 DEF CountBatch, IndInv, TypeOK, OnlyMoves
<1>6. \A c \in Codes : (Usable(c)' <=> Usable(c)) /\ BatchOf[c] \in Batches
    BY ConstantsAssumption DEF CountBatch, Usable
<1>7. ColumnsAgree' /\ LoginBurnsCode' /\ RetiredBatchIsDead' /\ BornTogether'
    BY <1>2, <1>6 DEF CountBatch, IndInv, ColumnsAgree, LoginBurnsCode,
                      RetiredBatchIsDead, BornTogether
<1>8. RowsMoveForward(p)
    BY <1>2, <1>6 DEF RowsMoveForward, CountBatch
<1> QED BY <1>3, <1>4, <1>5, <1>7, <1>8, WriteStep

\* What every write of codes that spends some of them and touches no batch keeps.
LEMMA CodesSpent ==
    ASSUME IndInv, NEW p \in Requests, code' \in [Codes -> CodeRow],
           \A c \in Codes : \/ code'[c] = code[c]
                            \/ /\ code'[c].row = code[c].row
                               /\ code'[c].status # "ACTIVE"
                               /\ code'[c].is_deactivated = TRUE
           \* (each code is left alone or spent)
    PROVE  /\ \A c \in Codes : Usable(c)' => Usable(c)
           /\ ColumnsAgree'
           /\ \A c \in Codes : code'[c].row = code[c].row
  BY DEF IndInv, ColumnsAgree, Usable

LEMMA SaveCodeStep ==
    ASSUME IndInv, NEW p \in Requests, SaveCode(p)
    PROVE  IndInv'
<1> DEFINE c == request[p].code
           op == request[p].op
<1>1. c \in Codes /\ op \in CodeOperations /\ request[p].batch \in Batches
    BY RequestTyped DEF SaveCode, At, RequestOK, CodeOperationOK
<1>2. CASE code[c].row # "stored"
    BY <1>2, EndStep DEF SaveCode, IndInv, TypeOK
<1>3. CASE code[c].row = "stored"
    <2>1. /\ code' = [code EXCEPT ![c] = Spent(code[c], op)]
          /\ \/ logins' = [logins EXCEPT ![c] = @ + 1] /\ End(p)
             \/ logins' = logins /\ Goto(p, "count_batch")
        BY <1>3 DEF SaveCode
    <2>2. /\ Spent(code[c], op) \in CodeRow
          /\ Spent(code[c], op).row = code[c].row
          /\ Spent(code[c], op).status # "ACTIVE"
          /\ Spent(code[c], op).is_deactivated = TRUE
        BY <1>1, SpentRow DEF IndInv, TypeOK
    <2>3. code' \in [Codes -> CodeRow] /\ logins' \in [Codes -> Nat]
        BY <1>1, <2>1, <2>2 DEF IndInv, TypeOK
    <2>4. \A d \in Codes : \/ code'[d] = code[d] /\ (logins'[d] = logins[d] \/ d = c)
                           \/ d = c
        BY <1>1, <2>1 DEF IndInv, TypeOK
    <2>5. /\ code'[c].row = "stored" /\ code'[c].status # "ACTIVE"
          /\ code'[c].is_deactivated = TRUE
        BY <1>1, <1>3, <2>1, <2>2 DEF IndInv, TypeOK
    <2>6. /\ \A d \in Codes : Usable(d)' => Usable(d)
          /\ ColumnsAgree'
          /\ \A d \in Codes : code'[d].row = code[d].row
        BY <1>3, <2>3, <2>4, <2>5, CodesSpent
    <2>7. \A d \in Codes : d = c => ~Usable(d)'
        BY <2>5 DEF Usable
    <2>8. \A d \in Codes : d # c => logins'[d] = logins[d]
        BY <2>1 DEF IndInv, TypeOK
    <2>9. LoginBurnsCode' /\ RetiredBatchIsDead' /\ BornTogether'
        <3>1. LoginBurnsCode'
            BY <2>6, <2>7, <2>8 DEF IndInv, LoginBurnsCode
        <3>2. RetiredBatchIsDead'
            BY <2>6 DEF SaveCode, IndInv, RetiredBatchIsDead
        <3>3. BornTogether'
            BY <1>3, <2>6, <2>8 DEF SaveCode, IndInv, BornTogether
        <3> QED BY <3>1, <3>2, <3>3
    <2>10. RowsMoveForward(p)
        BY <2>6 DEF RowsMoveForward, SaveCode
    <2>11. OnlyMoves(p) /\ KeepsKey(p) /\ RequestOK(request[p])'
        <3>1. CASE End(p)
            BY <3>1, EndIsOK
        <3>2. CASE Goto(p, "count_batch")
            <4>1. request'[p] = [request[p] EXCEPT !.pc = "count_batch"] /\ OnlyMoves(p)
                BY <3>2, RequestTyped DEF Goto, OnlyMoves, Request, Pcs
            <4> QED BY <4>1, <1>1, RequestTyped
                DEF KeepsKey, RequestOK, CodeOperationOK, HoldsBatchOK, CopyOK,
                    DiscardOK, NewKeyOK, CreateOK, PurgeOK, CreatePcs, Request
        <3> QED BY <2>1, <3>1, <3>2
    <2>12. TypeOK'
        BY <2>3, <2>11 DEF SaveCode, IndInv, TypeOK, OnlyMoves
    <2> QED BY <2>6, <2>9, <2>10, <2>11, <2>12, WriteStep
<1> QED BY <1>2, <1>3

-----------------------------------------------------------------------------
(* delete_recovery_batch *)

LEMMA DiscardReadStep ==
    ASSUME IndInv, NEW p \in Requests, NEW b \in Batches, DiscardRead(p, b)
    PROVE  IndInv'
<1> DEFINE x == [Idle EXCEPT !.pc = "discard_lock", !.batch = b, !.copy = batch[b]]
<1>1. /\ batch[b] \in BatchRow
      /\ batch[b].row = "stored" /\ batch[b].status = "ACTIVE"
      /\ UNCHANGED <<batch, code, history, logins, crashes>>
    BY DEF DiscardRead, ActiveBatches, IndInv, TypeOK
<1>2. x \in Request
    BY <1>1, RowTypes DEF Request, Pcs
<1>3. OnlyMoves(p) /\ request'[p] = x
    BY <1>2, RequestTyped DEF DiscardRead, OnlyMoves
<1>4. KeepsKey(p) /\ RequestOK(request[p])'
    BY <1>1, <1>3 DEF Idle, KeepsKey, RequestOK, CodeOperationOK, HoldsBatchOK,
                      CopyOK, DiscardOK, NewKeyOK, CreateOK, PurgeOK, CreatePcs
<1> QED BY <1>3, <1>4, <1>1, ReadStep DEF IndInv, TypeOK

LEMMA DiscardLockStep ==
    ASSUME IndInv, NEW p \in Requests, DiscardLock(p)
    PROVE  IndInv'
<1> DEFINE found == {c \in CodesOf(request[p].batch) : code[c].row = "stored"}
           x == [request[p] EXCEPT !.pc = "discard_commit", !.codes = found]
<1>1. /\ request[p] \in Request /\ RequestOK(request[p])
      /\ request[p].pc = "discard_lock"
      /\ found \subseteq Codes
    BY RequestTyped DEF DiscardLock, At, CodesOf
<1>2. x \in Request
    BY <1>1 DEF Request, Pcs
<1>3. OnlyMoves(p) /\ request'[p] = x
    BY <1>2, RequestTyped DEF DiscardLock, OnlyMoves
<1>4. KeepsKey(p)
    BY <1>1, <1>3 DEF KeepsKey, Request
<1>5. /\ x.pc = "discard_commit" /\ x.codes = found /\ x.batch = request[p].batch
      /\ x.copy = request[p].copy
    BY <1>1 DEF Request
<1>6. DiscardOK(request[p])'
    BY <1>3, <1>5 DEF DiscardLock, DiscardOK, Usable, CodesOf
<1>7. HoldsBatchOK(request[p])'
    BY <1>1, <1>3, <1>5 DEF DiscardLock, RequestOK, HoldsBatchOK
<1>8. CopyOK(request[p])'
    BY <1>1, <1>3, <1>5 DEF RequestOK, CopyOK
<1>9. RequestOK(request[p])'
    BY <1>3, <1>5, <1>6, <1>7, <1>8
    DEF RequestOK, CodeOperationOK, NewKeyOK, CreateOK, PurgeOK, CreatePcs
<1> QED BY <1>3, <1>4, <1>9, ReadStep DEF DiscardLock, IndInv, TypeOK

LEMMA DiscardCommitStep ==
    ASSUME IndInv, NEW p \in Requests, DiscardCommit(p)
    PROVE  IndInv'
<1> DEFINE r == request[p]
           b == r.batch
           row == [r.copy EXCEPT !.status = "PENDING_DELETE", !.number_removed = Issued(b)]
<1>1. /\ r \in Request /\ r.pc = "discard_commit" /\ End(p)
      /\ b \in Batches /\ batch[b].row # "unborn"
      /\ r.copy \in BatchRow /\ r.copy.row = "stored"
      /\ r.codes \subseteq Codes /\ \A c \in r.codes : BatchOf[c] = b
      /\ \A c \in Codes : BatchOf[c] = b /\ Usable(c) => c \in r.codes
    BY RequestTyped
    DEF DiscardCommit, At, RequestOK, HoldsBatchOK, CopyOK, DiscardOK, Request
<1>2. row \in BatchRow /\ row.row = "stored"
    BY <1>1, IssuedNat DEF BatchRow, Status
<1>3. /\ batch' \in [Batches -> BatchRow]
      /\ \A a \in Batches : a # b => batch'[a] = batch[a]
      /\ \A a \in Batches : a = b => batch'[a].row = "stored"
    BY <1>1, <1>2 DEF DiscardCommit, IndInv, TypeOK
<1>4. "delete" \in CodeOperations
    BY DEF CodeOperations
<1>5. \A c \in r.codes : /\ Spent(code[c], "delete") \in CodeRow
                         /\ Spent(code[c], "delete").row = code[c].row
                         /\ Spent(code[c], "delete").status # "ACTIVE"
                         /\ Spent(code[c], "delete").is_deactivated = TRUE
    BY <1>1, <1>4, SpentRow DEF IndInv, TypeOK
<1>6. /\ code' \in [Codes -> CodeRow]
      /\ \A c \in Codes : \/ c \notin r.codes /\ code'[c] = code[c]
                          \/ /\ c \in r.codes
                             /\ code'[c].row = code[c].row
                             /\ code'[c].status # "ACTIVE"
                             /\ code'[c].is_deactivated = TRUE
    BY <1>1, <1>5 DEF DiscardCommit, IndInv, TypeOK
<1>7. /\ \A c \in Codes : Usable(c)' => Usable(c)
      /\ ColumnsAgree'
      /\ \A c \in Codes : code'[c].row = code[c].row
    BY <1>6, CodesSpent
<1>8. \A c \in Codes : Usable(c)' => c \notin r.codes
    BY <1>6 DEF Usable
<1>9. RetiredBatchIsDead'
    BY <1>1, <1>3, <1>7, <1>8, ConstantsAssumption DEF IndInv, RetiredBatchIsDead
<1>10. LoginBurnsCode'
    BY <1>7 DEF DiscardCommit, IndInv, LoginBurnsCode
<1>11. BornTogether'
    BY <1>1, <1>3, <1>7, ConstantsAssumption DEF DiscardCommit, IndInv, BornTogether
<1>12. RowsMoveForward(p)
    BY <1>1, <1>3, <1>7 DEF RowsMoveForward
<1>13. OnlyMoves(p) /\ KeepsKey(p) /\ RequestOK(request[p])'
    BY <1>1, EndIsOK
<1>14. TypeOK'
    BY <1>3, <1>6, <1>13 DEF DiscardCommit, IndInv, TypeOK, OnlyMoves
<1> QED BY <1>7, <1>9, <1>10, <1>11, <1>12, <1>13, <1>14, WriteStep

-----------------------------------------------------------------------------
(* The attempt guard. *)

LEMMA GuardReadStep ==
    ASSUME IndInv, NEW p \in Requests, NEW b \in Batches, GuardRead(p, b)
    PROVE  IndInv'
<1>1. /\ batch[b].row = "stored" /\ batch[b].status = "ACTIVE" /\ batch[b] \in BatchRow
      /\ UNCHANGED <<batch, code, history, logins, crashes>>
    BY DEF GuardRead, ActiveBatches, IndInv, TypeOK
<1>2. CASE request' = [request EXCEPT ![p] =
              [Idle EXCEPT !.pc = "guard_save", !.batch = b, !.copy = batch[b]]]
    <2> DEFINE x == [Idle EXCEPT !.pc = "guard_save", !.batch = b, !.copy = batch[b]]
    <2>1. x \in Request
        BY <1>1, RowTypes DEF Request, Pcs
    <2>2. OnlyMoves(p) /\ request'[p] = x
        BY <1>2, <2>1, RequestTyped DEF OnlyMoves
    <2>3. KeepsKey(p) /\ RequestOK(request[p])'
        BY <1>1, <2>2 DEF Idle, KeepsKey, RequestOK, CodeOperationOK, HoldsBatchOK,
                          CopyOK, DiscardOK, NewKeyOK, CreateOK, PurgeOK, CreatePcs
    <2> QED BY <1>1, <2>2, <2>3, ReadStep DEF IndInv, TypeOK
<1>3. ASSUME NEW n \in FreshBatches,
             request' = [request EXCEPT ![p] =
                  [Idle EXCEPT !.pc = "guard_flush", !.batch = b, !.new = n]]
      PROVE  IndInv'
    <2> DEFINE x == [Idle EXCEPT !.pc = "guard_flush", !.batch = b, !.new = n]
    <2>1. x \in Request /\ n \in Batches /\ batch[n].row = "unborn"
        BY <1>1, RowTypes DEF Request, Pcs, FreshBatches
    <2>2. OnlyMoves(p) /\ request'[p] = x
        BY <1>3, <2>1, RequestTyped DEF OnlyMoves
    <2>3. KeepsKey(p) /\ RequestOK(request[p])'
        BY <1>1, <2>1, <2>2 DEF Idle, KeepsKey, RequestOK, CodeOperationOK, HoldsBatchOK,
                          CopyOK, DiscardOK, NewKeyOK, CreateOK, PurgeOK, CreatePcs
    <2> QED BY <1>1, <2>2, <2>3, ReadStep DEF IndInv, TypeOK
<1> QED BY <1>2, <1>3 DEF GuardRead

LEMMA GuardSaveStep ==
    ASSUME IndInv, NEW p \in Requests, GuardSave(p)
    PROVE  IndInv'
<1> DEFINE r == request[p]
           b == r.batch
<1>1. /\ End(p) /\ b \in Batches /\ batch[b].row # "unborn"
      /\ r.copy \in BatchRow /\ r.copy.row = "stored" /\ r.copy.status = "ACTIVE"
    BY RequestTyped DEF GuardSave, At, RequestOK, HoldsBatchOK, CopyOK, Request
<1>2. /\ batch' \in [Batches -> BatchRow]
      /\ \A a \in Batches : a # b => batch'[a] = batch[a]
      /\ \A a \in Batches : a = b => batch'[a].row = "stored" /\ batch'[a].status = "ACTIVE"
    BY <1>1 DEF GuardSave, IndInv, TypeOK
<1>3. \A c \in Codes : (Usable(c)' <=> Usable(c)) /\ BatchOf[c] \in Batches
    BY ConstantsAssumption DEF GuardSave, Usable
<1>4. RetiredBatchIsDead'
    BY <1>2, <1>3 DEF IndInv, RetiredBatchIsDead
<1>5. ColumnsAgree' /\ LoginBurnsCode'
    BY <1>3 DEF GuardSave, IndInv, ColumnsAgree, LoginBurnsCode
<1>6. BornTogether'
    BY <1>1, <1>2, <1>3 DEF GuardSave, IndInv, BornTogether
<1>7. RowsMoveForward(p)
    BY <1>1, <1>2, <1>3 DEF GuardSave, RowsMoveForward
<1>8. OnlyMoves(p) /\ KeepsKey(p) /\ RequestOK(request[p])'
    BY <1>1, EndIsOK
<1>9. TypeOK'
    BY <1>2, <1>8 DEF GuardSave, IndInv, TypeOK, OnlyMoves
<1> QED BY <1>4, <1>5, <1>6, <1>7, <1>8, <1>9, WriteStep

-----------------------------------------------------------------------------
(* create_recovery_batch *)

\* Starting a creation under a key that is free, or that p already holds.
LEMMA BeginCreateStep ==
    ASSUME IndInv, NEW p \in Requests, NEW n \in Batches, batch[n].row = "unborn",
           n = request[p].new \/ n \in FreshBatches,
           BeginCreate(p, n), UNCHANGED <<batch, code, history, logins, crashes>>
    PROVE  IndInv'
<1> DEFINE x == [Idle EXCEPT !.pc = "create_lock", !.new = n, !.rows = ActiveBatches]
<1>1. x \in Request
    BY RowTypes DEF Request, Pcs, CreatePcs, ActiveBatches
<1>2. OnlyMoves(p) /\ request'[p] = x
    BY <1>1, RequestTyped DEF BeginCreate, OnlyMoves
<1>3. x.pc = "create_lock" /\ x.new = n /\ x.rows = ActiveBatches
    BY DEF Idle
<1>4. KeepsKey(p)
    BY <1>2, <1>3 DEF KeepsKey
<1>5. NewKeyOK(request[p])'
    BY <1>2, <1>3 DEF NewKeyOK
<1>6. CreateOK(request[p])'
    BY <1>2, <1>3 DEF CreateOK, ActiveBatches
<1>7. RequestOK(request[p])'
    BY <1>2, <1>3, <1>5, <1>6
    DEF RequestOK, CodeOperationOK, HoldsBatchOK, CopyOK, DiscardOK, PurgeOK
<1> QED BY <1>2, <1>4, <1>7, ReadStep DEF IndInv, TypeOK

LEMMA StartCreateStep ==
    ASSUME IndInv, NEW p \in Requests, NEW n \in Batches, StartCreate(p, n)
    PROVE  IndInv'
<1>1. batch[n].row = "unborn" /\ n \in FreshBatches
    BY DEF StartCreate, FreshBatches
<1> QED BY <1>1, BeginCreateStep DEF StartCreate

LEMMA GuardFlushStep ==
    ASSUME IndInv, NEW p \in Requests, GuardFlush(p)
    PROVE  IndInv'
<1> DEFINE n == request[p].new
<1>1. n \in Batches /\ batch[n].row = "unborn"
    BY RequestTyped DEF GuardFlush, At, RequestOK, NewKeyOK
<1>2. CASE BeginCreate(p, n)
    BY <1>1, <1>2, BeginCreateStep DEF GuardFlush
<1>3. CASE End(p)
    BY <1>3, EndStep DEF GuardFlush, IndInv, TypeOK
<1> QED BY <1>2, <1>3 DEF GuardFlush

\* A creation that has done its next statement, having scanned the rows x.rows
\* and, before it commits, the codes x.codes.
LEMMA CreateAdvances ==
    ASSUME IndInv, NEW p \in Requests, request[p].pc \in CreatePcs, NEW x \in Request,
           request' = [request EXCEPT ![p] = x],
           x.pc \in CreatePcs, x.new = request[p].new,
           x.rows \subseteq request[p].rows,
           x.pc = "create_commit" => ActiveCodes \subseteq x.codes,
           UNCHANGED <<batch, code, history, logins, crashes>>
    PROVE  IndInv'
<1>1. OnlyMoves(p) /\ request'[p] = x
    BY RequestTyped DEF OnlyMoves
<1>2. KeepsKey(p)
    BY <1>1 DEF KeepsKey
<1>3. NewKeyOK(request[p]) /\ CreateOK(request[p])
    BY RequestTyped DEF RequestOK
<1>4. NewKeyOK(request[p])'
    BY <1>1, <1>3 DEF NewKeyOK
<1>5. \A c \in Codes : Usable(c) => c \in ActiveCodes
    BY DEF Usable, ActiveCodes, IndInv, ColumnsAgree
<1>6. CreateOK(request[p])'
    <2>1. \A b \in x.rows : batch'[b].row # "unborn"
        BY <1>3 DEF CreateOK
    <2>2. x.pc = "create_commit" => \A c \in Codes : Usable(c)' => c \in x.codes
        BY <1>5 DEF Usable
    <2> QED BY <1>1, <2>1, <2>2 DEF CreateOK
<1>7. RequestOK(request[p])'
    BY <1>1, <1>4, <1>6
    DEF RequestOK, CodeOperationOK, HoldsBatchOK, CopyOK, DiscardOK, PurgeOK, CreatePcs
<1> QED BY <1>1, <1>2, <1>7, ReadStep DEF IndInv, TypeOK

LEMMA CreateLockStep ==
    ASSUME IndInv, NEW p \in Requests, CreateLock(p)
    PROVE  IndInv'
<1> DEFINE x == [request[p] EXCEPT !.pc = "create_history",
                                   !.rows = request[p].rows \cap ActiveBatches]
<1>1. /\ request[p] \in Request /\ request[p].pc = "create_lock"
      /\ request' = [request EXCEPT ![p] = x]
    BY RequestTyped DEF CreateLock, At
<1>2. x \in Request /\ x.new = request[p].new /\ x.pc = "create_history"
      /\ x.rows \subseteq request[p].rows
    BY <1>1 DEF Request, Pcs, CreatePcs
<1> QED BY <1>1, <1>2, CreateAdvances DEF CreateLock, CreatePcs

LEMMA CreateHistoryStep ==
    ASSUME IndInv, NEW p \in Requests, CreateHistory(p)
    PROVE  IndInv'
<1> DEFINE x == [request[p] EXCEPT !.pc = "create_codes", !.ledger = ActiveLedger]
<1>1. /\ request[p] \in Request /\ request[p].pc = "create_history"
      /\ request' = [request EXCEPT ![p] = x]
    BY RequestTyped DEF CreateHistory, At
<1>2. x \in Request /\ x.new = request[p].new /\ x.pc = "create_codes"
      /\ x.rows = request[p].rows
    BY <1>1 DEF Request, Pcs, CreatePcs, ActiveLedger
<1> QED BY <1>1, <1>2, CreateAdvances DEF CreateHistory, CreatePcs

LEMMA CreateCodesStep ==
    ASSUME IndInv, NEW p \in Requests, CreateCodes(p)
    PROVE  IndInv'
<1> DEFINE x == [request[p] EXCEPT !.pc = "create_commit", !.codes = ActiveCodes]
<1>1. /\ request[p] \in Request /\ request[p].pc = "create_codes"
      /\ request' = [request EXCEPT ![p] = x]
    BY RequestTyped DEF CreateCodes, At
<1>2. x \in Request /\ x.new = request[p].new /\ x.pc = "create_commit"
      /\ x.rows = request[p].rows /\ x.codes = ActiveCodes
    BY <1>1 DEF Request, Pcs, CreatePcs, ActiveCodes
<1> QED BY <1>1, <1>2, CreateAdvances DEF CreateCodes, CreatePcs

LEMMA CreateCommitStep ==
    ASSUME IndInv, NEW p \in Requests, CreateCommit(p)
    PROVE  IndInv'
<1> DEFINE r == request[p]
           n == r.new
<1>1. /\ r \in Request /\ End(p) /\ n \in Batches /\ batch[n].row = "unborn"
      /\ r.rows \subseteq Batches /\ r.codes \subseteq Codes
      /\ \A b \in r.rows : batch[b].row # "unborn"
      /\ \A c \in Codes : BatchOf[c] \in r.rows /\ Usable(c) => c \in r.codes
      /\ UNCHANGED <<logins, crashes>>
    BY RequestTyped DEF CreateCommit, At, RequestOK, NewKeyOK, CreateOK, CreatePcs, Request
<1>2. /\ batch' \in [Batches -> BatchRow] /\ history' \in [Batches -> BatchRow]
      /\ \A b \in Batches : \/ b = n /\ batch'[b] = NewBatch
                            \/ /\ b # n /\ b \in r.rows
                               /\ batch'[b].row = batch[b].row
                            \/ b # n /\ b \notin r.rows /\ batch'[b] = batch[b]
    BY RowTypes DEF CreateCommit, IndInv, TypeOK, BatchRow, Status
<1>3. \A c \in Codes : /\ code[c] \in CodeRow
                       /\ Spent(code[c], "delete") \in CodeRow
                       /\ Spent(code[c], "delete").row = code[c].row
                       /\ Spent(code[c], "delete").status # "ACTIVE"
                       /\ Spent(code[c], "delete").is_deactivated = TRUE
    BY SpentRow DEF IndInv, TypeOK, CodeOperations
<1>4. /\ code' \in [Codes -> CodeRow]
      /\ \A c \in Codes : \/ BatchOf[c] = n /\ code'[c] = NewCode
                          \/ /\ BatchOf[c] # n /\ c \in r.codes \cap ActiveCodes
                             /\ code'[c].row = code[c].row
                             /\ code'[c].status # "ACTIVE"
                             /\ code'[c].is_deactivated = TRUE
                          \/ /\ BatchOf[c] # n /\ c \notin r.codes \cap ActiveCodes
                             /\ code'[c] = code[c]
    BY <1>3, RowTypes DEF CreateCommit
<1>5. \A c \in Codes : Usable(c) => c \in ActiveCodes
    BY DEF Usable, ActiveCodes, IndInv, ColumnsAgree
<1>6. \A c \in Codes : BatchOf[c] = n => /\ code[c].row = "unborn" /\ ~Usable(c)
                                         /\ ~(logins[c] > 0)
                                         /\ code'[c].row = "stored"
    BY <1>4 , <1>1 DEF IndInv, BornTogether, Usable, NewCode
<1>7. \A c \in Codes : BatchOf[c] # n /\ Usable(c)' =>
                           Usable(c) /\ BatchOf[c] \notin r.rows
    BY <1>1, <1>4, <1>5 DEF Usable
<1>8. RetiredBatchIsDead'
    BY <1>2, <1>7, ConstantsAssumption DEF IndInv, RetiredBatchIsDead, NewBatch
<1>9. ColumnsAgree'
    BY <1>4 DEF IndInv, ColumnsAgree, Usable, NewCode
<1>10. LoginBurnsCode'
    BY <1>1, <1>6, <1>7 DEF IndInv, LoginBurnsCode
<1>11. BornTogether'
    BY <1>1, <1>2, <1>4, <1>6, ConstantsAssumption DEF IndInv, BornTogether, NewBatch, NewCode
<1>12. RowsMoveForward(p)
    BY <1>1, <1>2, <1>4, <1>6, <1>7 DEF RowsMoveForward, NewBatch
<1>13. OnlyMoves(p) /\ KeepsKey(p) /\ RequestOK(request[p])'
    BY <1>1, EndIsOK
<1>14. TypeOK'
    BY <1>1, <1>2, <1>4, <1>13 DEF IndInv, TypeOK, OnlyMoves
<1> QED BY <1>8, <1>9, <1>10, <1>11, <1>12, <1>13, <1>14, WriteStep

-----------------------------------------------------------------------------
(* purge_expired_codes *)

LEMMA PurgeStartStep ==
    ASSUME IndInv, NEW p \in Requests, NEW b \in Batches, PurgeStart(p, b)
    PROVE  IndInv'
<1> DEFINE x == [Idle EXCEPT !.pc = "purge", !.batch = b]
<1>1. x \in Request
    BY RowTypes DEF Request, Pcs
<1>2. OnlyMoves(p) /\ request'[p] = x
    BY <1>1, RequestTyped DEF PurgeStart, OnlyMoves
<1>3. x.pc = "purge" /\ x.batch = b /\ x.new = NoBatch /\ x.codes = {}
    BY DEF Idle
<1>4. batch[b].row = "stored" /\ UNCHANGED <<batch, code, history, logins, crashes>>
    BY DEF PurgeStart
<1>5. KeepsKey(p)
    BY <1>2, <1>3 DEF KeepsKey
<1>6. RequestOK(request[p])'
    BY <1>2, <1>3, <1>4 DEF RequestOK, CodeOperationOK, HoldsBatchOK, CopyOK, DiscardOK,
                            NewKeyOK, CreateOK, PurgeOK, CreatePcs
<1> QED BY <1>2, <1>4, <1>5, <1>6, ReadStep DEF IndInv, TypeOK

LEMMA PurgeChunkStep ==
    ASSUME IndInv, NEW p \in Requests, NEW chunk \in SUBSET Codes, PurgeChunk(p, chunk)
    PROVE  IndInv'
<1> DEFINE r == request[p]
           x == [r EXCEPT !.codes = r.codes \cup chunk]
<1>1. /\ r \in Request /\ RequestOK(r) /\ r.pc = "purge"
      /\ request' = [request EXCEPT ![p] = x]
      /\ \A c \in chunk : /\ BatchOf[c] = r.batch /\ code[c].row = "stored"
                          /\ code[c].status # "ACTIVE"
      /\ UNCHANGED <<batch, history, logins, crashes>>
    BY RequestTyped DEF PurgeChunk, At, CodesOf, TerminalStatuses
<1>2. x \in Request /\ x.pc = "purge" /\ x.batch = r.batch /\ x.new = r.new
      /\ x.codes = r.codes \cup chunk
    BY <1>1 DEF Request
<1>3. OnlyMoves(p) /\ request'[p] = x
    BY <1>1, <1>2, RequestTyped DEF OnlyMoves
<1>4. KeepsKey(p)
    BY <1>2, <1>3 DEF KeepsKey
<1>5. /\ code' \in [Codes -> CodeRow]
      /\ \A c \in Codes : \/ c \notin chunk /\ code'[c] = code[c]
                          \/ c \in chunk /\ code'[c].row = "gone"
    BY DEF PurgeChunk, IndInv, TypeOK, CodeRow, Presence
<1>6. \A c \in Codes : Usable(c)' => Usable(c)
    BY <1>5 DEF Usable
<1>7. ColumnsAgree' /\ LoginBurnsCode' /\ RetiredBatchIsDead'
    BY <1>1, <1>5, <1>6 DEF IndInv, ColumnsAgree, LoginBurnsCode, RetiredBatchIsDead, Usable
<1>8. BornTogether'
    BY <1>1, <1>5 DEF IndInv, BornTogether
<1>9. RowsMoveForward(p)
    BY <1>1, <1>5, <1>6 DEF RowsMoveForward
<1>10. PurgeOK(request[p])'
    BY <1>1, <1>2, <1>3, <1>5 DEF RequestOK, PurgeOK, Request
<1>11. HoldsBatchOK(request[p])'
    BY <1>1, <1>2, <1>3 DEF RequestOK, HoldsBatchOK
<1>12. RequestOK(request[p])'
    BY <1>2, <1>3, <1>10, <1>11
    DEF RequestOK, CodeOperationOK, CopyOK, DiscardOK, NewKeyOK, CreateOK, CreatePcs
<1>13. TypeOK'
    BY <1>1, <1>3, <1>5 DEF IndInv, TypeOK, OnlyMoves
<1> QED BY <1>3, <1>4, <1>7, <1>8, <1>9, <1>12, <1>13, WriteStep

\* A purge that has deleted as many codes as the batch was issued has deleted all
\* of them: the cascade finds nothing.
LEMMA CascadeFindsNothing ==
    ASSUME IndInv, NEW p \in Requests, request[p].pc = "purge",
           Cardinality(request[p].codes) = Issued(request[p].batch)
    PROVE  \A c \in CodesOf(request[p].batch) : code[c].row = "gone"
<1> DEFINE r == request[p]
<1>1. /\ r.codes \subseteq CodesOf(r.batch) /\ r.batch \in Batches
      /\ \A c \in r.codes : code[c].row = "gone"
    BY RequestTyped DEF RequestOK, PurgeOK, HoldsBatchOK, Request, CodesOf
<1>2. IsFiniteSet(CodesOf(r.batch))
    BY <1>1, IssuedNat
<1>3. r.codes = CodesOf(r.batch)
    BY <1>1, <1>2, FS_Subset DEF Issued
<1> QED BY <1>1, <1>3

LEMMA PurgeFinishStep ==
    ASSUME IndInv, NEW p \in Requests, PurgeFinish(p)
    PROVE  IndInv'
<1> DEFINE b == request[p].batch
<1>1. request[p].pc = "purge" /\ End(p) /\ UNCHANGED <<history, logins, crashes>>
    BY DEF PurgeFinish, At
<1>2. CASE UNCHANGED <<batch, code>>
    BY <1>1, <1>2, EndStep DEF IndInv, TypeOK
<1>3. CASE ~UNCHANGED <<batch, code>>
    <2>1. /\ Cardinality(request[p].codes) = Issued(b)
          /\ batch' = [batch EXCEPT ![b].row = "gone"]
          /\ code' = [c \in Codes |-> IF BatchOf[c] = b
                                      THEN [code[c] EXCEPT !.row = "gone"] ELSE code[c]]
        BY <1>3 DEF PurgeFinish
    <2>2. \A c \in Codes : BatchOf[c] = b => code[c].row = "gone"
        BY <1>1, <2>1, CascadeFindsNothing DEF CodesOf
    <2>3. b \in Batches /\ batch[b].row # "unborn"
        BY <1>1, RequestTyped DEF RequestOK, HoldsBatchOK
    <2>4. /\ batch' \in [Batches -> BatchRow]
          /\ \A a \in Batches : a # b => batch'[a] = batch[a]
          /\ \A a \in Batches : a = b => batch'[a].row = "gone"
        BY <2>1, <2>3 DEF IndInv, TypeOK, BatchRow, Presence
    <2>5. /\ code' \in [Codes -> CodeRow]
          /\ \A c \in Codes : code'[c].row = code[c].row
          /\ \A c \in Codes : BatchOf[c] # b => code'[c] = code[c]
        BY <2>1, <2>2 DEF IndInv, TypeOK, CodeRow, Presence
    <2>6. \A c \in Codes : /\ Usable(c)' => Usable(c)
                           /\ code'[c].row = "stored" => code'[c] = code[c]
                           /\ Usable(c) => BatchOf[c] # b
        BY <2>2, <2>5 DEF Usable
    <2>7. ColumnsAgree'
        BY <2>6 DEF IndInv, ColumnsAgree, Usable
    <2>8. LoginBurnsCode' /\ RetiredBatchIsDead'
        BY <1>1, <2>4, <2>6, ConstantsAssumption DEF IndInv, LoginBurnsCode, RetiredBatchIsDead
    <2>9. BornTogether'
        BY <1>1, <2>3, <2>4, <2>5, ConstantsAssumption DEF IndInv, BornTogether
    <2>10. RowsMoveForward(p)
        BY <2>3, <2>4, <2>5, <2>6 DEF RowsMoveForward
    <2>11. OnlyMoves(p) /\ KeepsKey(p) /\ RequestOK(request[p])'
        BY <1>1, EndIsOK
    <2>12. TypeOK'
        BY <1>1, <2>4, <2>5, <2>11 DEF IndInv, TypeOK, OnlyMoves
    <2> QED BY <2>7, <2>8, <2>9, <2>10, <2>11, <2>12, WriteStep
<1> QED BY <1>2, <1>3

-----------------------------------------------------------------------------
(* The environment, and the whole next-state relation. *)

LEMMA CrashStep ==
    ASSUME IndInv, NEW p \in Requests, Crash(p)
    PROVE  IndInv'
<1>1. crashes' \in 0 .. MaxCrashes
    BY ConstantsAssumption DEF Crash, IndInv, TypeOK
<1> QED BY <1>1, EndStep DEF Crash

LEMMA StartStep ==
    ASSUME IndInv, NEW p \in Requests, Start(p)
    PROVE  IndInv'
  BY LookupStep, DiscardReadStep, GuardReadStep, StartCreateStep, PurgeStartStep DEF Start

LEMMA ContinueStep ==
    ASSUME IndInv, NEW p \in Requests, Continue(p)
    PROVE  IndInv'
  BY CountBatchStep, CountHistoryStep, SaveCodeStep, DiscardLockStep, DiscardCommitStep,
     GuardSaveStep, GuardFlushStep, CreateLockStep, CreateHistoryStep, CreateCodesStep,
     CreateCommitStep, PurgeChunkStep, PurgeFinishStep DEF Continue

LEMMA DeadlockAbortStep ==
    ASSUME IndInv, NEW p \in Requests, NEW q \in Requests, DeadlockAbort(p, q)
    PROVE  IndInv'
  BY EndStep DEF DeadlockAbort, IndInv, TypeOK

LEMMA StutterStep ==
    ASSUME IndInv, UNCHANGED vars
    PROVE  IndInv'
  BY DEF vars, IndInv, TypeOK, ColumnsAgree, LoginBurnsCode, RetiredBatchIsDead,
         BornTogether, FreshKeys, RequestOK, CodeOperationOK, HoldsBatchOK, CopyOK,
         DiscardOK, NewKeyOK, CreateOK, PurgeOK, Usable

LEMMA NextIndInv == IndInv /\ [Next]_vars => IndInv'
<1> SUFFICES ASSUME IndInv, [Next]_vars PROVE IndInv'
    OBVIOUS
<1>1. CASE \E p \in Requests : Start(p) \/ Continue(p) \/ Crash(p)
    BY <1>1, StartStep, ContinueStep, CrashStep
<1>2. CASE \E p, q \in Requests : DeadlockAbort(p, q)
    BY <1>2, DeadlockAbortStep
<1>3. CASE Rest
    BY <1>3, StutterStep DEF Rest
<1>4. CASE UNCHANGED vars
    BY <1>4, StutterStep
<1> QED BY <1>1, <1>2, <1>3, <1>4 DEF Next

\* The invariant holds of every behaviour of every instance: any number of
\* overlapping requests, batches, codes and crashes.
THEOREM Invariance == Spec => []IndInv
  BY InitIndInv, NextIndInv, PTL DEF Spec

\* Type correctness of the rows and of what requests remember of them.
THEOREM TypeCorrect == Spec => []TypeOK
<1>1. IndInv => TypeOK
    BY DEF IndInv
<1> QED BY <1>1, Invariance, PTL

\* The status column the purge trusts and the flags the lookup trusts agree.
THEOREM StatusAgreesWithFlags == Spec => []ColumnsAgree
<1>1. IndInv => ColumnsAgree
    BY DEF IndInv
<1> QED BY <1>1, Invariance, PTL

\* After a successful login the code is spent for whoever looks it up next.
THEOREM LoginSpendsCode == Spec => []LoginBurnsCode
<1>1. IndInv => LoginBurnsCode
    BY DEF IndInv
<1> QED BY <1>1, Invariance, PTL

\* No code outlives its batch, although batch rows, history rows and code rows
\* are retired by statements with different snapshots.
THEOREM NoCodeOutlivesItsBatch == Spec => []RetiredBatchIsDead
<1>1. IndInv => RetiredBatchIsDead
    BY DEF IndInv
<1> QED BY <1>1, Invariance, PTL

-----------------------------------------------------------------------------
(* CodeLifecycle implements CodePromise: every step of a request is a step of *)
(* the promise, or leaves the lives of all codes alone.                       *)

Lived == [Promise!Next]_Life

-----------------------------------------------------------------------------
(* The three ways a step of the database looks to the promise. *)

\* Life depends on the code rows only.
LEMMA LifeUnchanged ==
    ASSUME UNCHANGED code
    PROVE  Life' = Life
  BY DEF Life, Usable

LEMMA LifeOf ==
    ASSUME NEW c \in Codes
    PROVE  /\ Usable(c) => Life[c] = "usable"
           /\ code[c].row = "stored" /\ ~Usable(c) => Life[c] = "spent"
           /\ code[c].row # "stored" => Life[c] = code[c].row
  BY DEF Life, Usable

\* A step that spends stored codes: the usable ones among them are spent, and
\* those that were spent before are so still.
LEMMA SpendingLives ==
    ASSUME NEW S \in SUBSET Codes,
           \A c \in Codes : \/ c \notin S /\ code'[c] = code[c]
                            \/ /\ c \in S
                               /\ code'[c].row = code[c].row
                               /\ code'[c].is_deactivated = TRUE
    PROVE  Lived
<1> DEFINE T == {c \in S : Usable(c)}
<1>1. \A c \in T : Life[c] = "usable"
    BY LifeOf
<1>2. \A c \in Codes : Life'[c] = IF c \in T THEN "spent" ELSE Life[c]
    BY DEF Life, Usable
<1>3. Life' = [c \in Codes |-> IF c \in T THEN "spent" ELSE Life[c]]
    BY <1>2 DEF Life
<1>4. Promise!Spend(T)
    BY <1>1, <1>3 DEF Promise!Spend, Promise!InLife, Promise!Move
<1> QED BY <1>4 DEF Lived, Promise!Next

\* A step that deletes stored codes, none of them usable.
LEMMA CollectingLives ==
    ASSUME NEW S \in SUBSET Codes,
           \A c \in S : code[c].row = "stored" /\ ~Usable(c) /\ code'[c].row = "gone",
           \A c \in Codes \ S : code'[c] = code[c]
    PROVE  Lived
<1>1. \A c \in S : Life[c] = "spent"
    BY LifeOf
<1>2. \A c \in Codes : Life'[c] = IF c \in S THEN "gone" ELSE Life[c]
    BY DEF Life, Usable
<1>3. Life' = [c \in Codes |-> IF c \in S THEN "gone" ELSE Life[c]]
    BY <1>2 DEF Life
<1>4. Promise!Collect(S)
    BY <1>1, <1>3 DEF Promise!Collect, Promise!InLife, Promise!Move
<1> QED BY <1>4 DEF Lived, Promise!Next

-----------------------------------------------------------------------------
(* The actions that write code rows. *)

LEMMA SaveCodeLives ==
    ASSUME IndInv, NEW p \in Requests, SaveCode(p)
    PROVE  Lived
<1> DEFINE c == request[p].code
<1>1. c \in Codes /\ request[p].op \in CodeOperations
    BY RequestTyped DEF SaveCode, At, RequestOK, CodeOperationOK
<1>2. CASE UNCHANGED code
    BY <1>2, LifeUnchanged DEF Lived
<1>3. CASE code' = [code EXCEPT ![c] = Spent(code[c], request[p].op)]
    <2>1. /\ Spent(code[c], request[p].op).row = code[c].row
          /\ Spent(code[c], request[p].op).is_deactivated = TRUE
        BY <1>1, SpentRow DEF IndInv, TypeOK
    <2>2. \A d \in Codes : \/ d \notin {c} /\ code'[d] = code[d]
                           \/ /\ d \in {c}
                              /\ code'[d].row = code[d].row
                              /\ code'[d].is_deactivated = TRUE
        BY <1>1, <1>3, <2>1 DEF IndInv, TypeOK
    <2> QED BY <1>1, <2>2, SpendingLives
<1> QED BY <1>2, <1>3 DEF SaveCode

LEMMA DiscardCommitLives ==
    ASSUME IndInv, NEW p \in Requests, DiscardCommit(p)
    PROVE  Lived
<1> DEFINE S == request[p].codes
<1>1. S \subseteq Codes /\ "delete" \in CodeOperations
    BY RequestTyped DEF Request, CodeOperations
<1>2. \A c \in S : /\ Spent(code[c], "delete").row = code[c].row
                   /\ Spent(code[c], "delete").is_deactivated = TRUE
    BY <1>1, SpentRow DEF IndInv, TypeOK
<1>3. \A c \in Codes : \/ c \notin S /\ code'[c] = code[c]
                       \/ /\ c \in S
                          /\ code'[c].row = code[c].row
                          /\ code'[c].is_deactivated = TRUE
    BY <1>2 DEF DiscardCommit
<1> QED BY <1>1, <1>3, SpendingLives

\* The codes of the new batch come to life, and exactly usable codes are spent.
LEMMA CreateCommitLives ==
    ASSUME IndInv, NEW p \in Requests, CreateCommit(p)
    PROVE  Lived
<1> DEFINE n == request[p].new
           new == {c \in Codes : BatchOf[c] = n}
           old == {c \in Codes \ new : c \in request[p].codes \cap ActiveCodes}
<1>1. n \in Batches /\ batch[n].row = "unborn"
    BY RequestTyped DEF CreateCommit, At, RequestOK, NewKeyOK, CreatePcs
<1>2. \A c \in new : code[c].row = "unborn"
    BY <1>1 DEF IndInv, BornTogether
<1>3. \A c \in old : code[c].row = "stored" /\ Usable(c)
    BY DEF ActiveCodes, IndInv, ColumnsAgree
<1>4. \A c \in Codes : /\ Spent(code[c], "delete").row = code[c].row
                       /\ Spent(code[c], "delete").is_deactivated = TRUE
    BY SpentRow DEF IndInv, TypeOK, CodeOperations
<1>5. /\ \A c \in new : code'[c] = NewCode
      /\ \A c \in old : code'[c].row = code[c].row /\ code'[c].is_deactivated = TRUE
      /\ \A c \in Codes \ (new \cup old) : code'[c] = code[c]
    BY <1>4 DEF CreateCommit
<1>6. /\ \A c \in new : Life[c] = "unborn" /\ Life'[c] = "usable"
      /\ \A c \in old : Life[c] = "usable" /\ Life'[c] = "spent"
      /\ \A c \in Codes \ (new \cup old) : Life'[c] = Life[c]
    <2>1. \A c \in new : Life[c] = "unborn" /\ Life'[c] = "usable"
        BY <1>2, <1>5 DEF Life, Usable, NewCode
    <2>2. \A c \in old : Life[c] = "usable" /\ Life'[c] = "spent"
        BY <1>3, <1>5 DEF Life, Usable
    <2>3. \A c \in Codes \ (new \cup old) : Life'[c] = Life[c]
        BY <1>5 DEF Life, Usable
    <2> QED BY <2>1, <2>2, <2>3
<1>7. Life' = [c \in Codes |-> IF c \in new THEN "usable"
                               ELSE IF c \in old THEN "spent" ELSE Life[c]]
    BY <1>6 DEF Life
<1>8. Promise!Issue(new, old)
    BY <1>6, <1>7 DEF Promise!Issue, Promise!InLife
<1> QED BY <1>8 DEF Lived, Promise!Next

LEMMA PurgeChunkLives ==
    ASSUME IndInv, NEW p \in Requests, NEW chunk \in SUBSET Codes, PurgeChunk(p, chunk)
    PROVE  Lived
<1>1. /\ \A c \in chunk : /\ code[c].row = "stored" /\ code[c].status # "ACTIVE"
                          /\ code'[c] = [code[c] EXCEPT !.row = "gone"]
      /\ \A c \in Codes \ chunk : code'[c] = code[c]
    BY DEF PurgeChunk, TerminalStatuses
<1>2. \A c \in chunk : ~Usable(c)
    BY <1>1 DEF IndInv, ColumnsAgree
<1>3. \A c \in chunk : code'[c].row = "gone"
    BY <1>1 DEF IndInv, TypeOK, CodeRow
<1> QED BY <1>1, <1>2, <1>3, CollectingLives

\* The cascade deletes no code: those of the batch are gone by then.
LEMMA PurgeFinishLives ==
    ASSUME IndInv, NEW p \in Requests, PurgeFinish(p)
    PROVE  Lived
<1> DEFINE b == request[p].batch
<1>1. CASE UNCHANGED code
    BY <1>1, LifeUnchanged DEF Lived
<1>2. CASE ~UNCHANGED code
    <2>1. /\ request[p].pc = "purge" /\ Cardinality(request[p].codes) = Issued(b)
          /\ code' = [c \in Codes |-> IF BatchOf[c] = b
                                      THEN [code[c] EXCEPT !.row = "gone"] ELSE code[c]]
        BY <1>2 DEF PurgeFinish, At
    <2>2. \A c \in Codes : BatchOf[c] = b => code[c].row = "gone"
        BY <2>1, CascadeFindsNothing DEF CodesOf
    <2>3. \A c \in Codes : [code[c] EXCEPT !.row = "gone"].row = "gone"
        BY DEF IndInv, TypeOK, CodeRow
    <2>4. \A c \in Codes : \/ code'[c] = code[c]
                           \/ code[c].row = "gone" /\ code'[c].row = "gone"
        BY <2>1, <2>2, <2>3
    <2>5. \A c \in Codes : Life'[c] = Life[c]
        BY <2>4 DEF Life, Usable
    <2>6. Life' = Life
        BY <2>5 DEF Life
    <2> QED BY <2>6 DEF Lived
<1> QED BY <1>1, <1>2

-----------------------------------------------------------------------------
(* The refinement. *)

LEMMA InitLives == Init => Promise!Init
  BY DEF Init, Promise!Init, Life, NoCodeRow, NewCode

LEMMA NextLives ==
    ASSUME IndInv, [Next]_vars
    PROVE  Lived
<1>1. ASSUME NEW p \in Requests, Start(p)
      PROVE  UNCHANGED code
    BY <1>1 DEF Start, Lookup, DiscardRead, GuardRead, StartCreate, PurgeStart
<1>2. ASSUME NEW p \in Requests, Continue(p)
      PROVE  Lived
    <2>1. CASE UNCHANGED code
        BY <2>1, LifeUnchanged DEF Lived
    <2>2. CASE CountBatch(p) \/ CountHistory(p) \/ DiscardLock(p) \/ GuardSave(p)
               \/ GuardFlush(p) \/ CreateLock(p) \/ CreateHistory(p) \/ CreateCodes(p)
        <3>1. UNCHANGED code
            BY <2>2 DEF CountBatch, CountHistory, DiscardLock, GuardSave, GuardFlush,
                        CreateLock, CreateHistory, CreateCodes
        <3> QED BY <2>1, <3>1
    <2> QED BY <1>2, <2>2, SaveCodeLives, DiscardCommitLives, CreateCommitLives,
               PurgeChunkLives, PurgeFinishLives DEF Continue
<1>3. ASSUME NEW p \in Requests, Crash(p)
      PROVE  UNCHANGED code
    BY <1>3 DEF Crash
<1>4. ASSUME NEW p \in Requests, NEW q \in Requests, DeadlockAbort(p, q)
      PROVE  UNCHANGED code
    BY <1>4 DEF DeadlockAbort
<1>5. CASE UNCHANGED code
    BY <1>5, LifeUnchanged DEF Lived
<1> QED BY <1>1, <1>2, <1>3, <1>4, <1>5 DEF Next, Rest, vars

\* Every behaviour of the database keeps the promise: whichever requests overlap,
\* and whatever stale copies they save, a code is issued once, usable until it is
\* spent, and removed only after that.
THEOREM PromiseKept == Spec => KeepsPromise
<1>1. Init => Promise!Init
    BY InitLives
<1>2. IndInv /\ [Next]_vars => [Promise!Next]_Life
    BY NextLives DEF Lived
<1> QED BY <1>1, <1>2, Invariance, PTL DEF Spec, KeepsPromise, Promise!Spec
=============================================================================
