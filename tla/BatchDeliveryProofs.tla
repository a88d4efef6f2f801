------------------------- MODULE BatchDeliveryProofs -------------------------
(* Proofs about BatchDelivery, for every number of tabs, batches and expiries. *)
EXTENDS BatchDelivery, SafeCacheProofs

\* What the cache can hold is what the requests put there.
LEMMA ValuesAreFlags == Values = [flags: SUBSET Flags, setup: Setups]
  BY DeliveryAssumption DEF CacheValue

LEMMA NowIsValue ==
    ASSUME NEW f \in SUBSET Flags, NEW s \in Setups
    PROVE  Now(f, s) \in Values /\ Now(f, s).flags = f /\ Now(f, s).setup = s
  BY ValuesAreFlags DEF Now

LEMMA FlagOfTyped == \A op : FlagOf(op) \in SUBSET Flags
<1> SUFFICES ASSUME NEW op PROVE FlagOf(op) \in SUBSET Flags
  OBVIOUS
<1>1. CASE op = "download"
  BY <1>1 DEF FlagOf, Flags
<1>2. CASE op = "email"
  BY <1>2 DEF FlagOf, Flags
<1>3. CASE op \notin {"download", "email"}
  BY <1>3 DEF FlagOf, Flags
<1> QED
  BY <1>1, <1>2, <1>3

\* The fields of a request.
LEMMA RequestFields ==
    ASSUME DeliveryTypeOK, NEW r \in Callers
    PROVE  /\ req[r].op \in Ops \cup {"none"}
           /\ req[r].pc \in Pcs
           /\ req[r].codes \in 0 .. MaxBatches
           /\ req[r].row \in 0 .. MaxBatches
           /\ req[r].seen \in SUBSET Flags
           /\ req[r].data \in SUBSET Values
           /\ req[r].force \in BOOLEAN
           /\ req[r].kept \in BOOLEAN
           /\ req[r].saves \in BOOLEAN
<1>1. req[r] \in Request
  BY DEF DeliveryTypeOK
<1> QED
  BY <1>1, DeliveryAssumption DEF Request
-----------------------------------------------------------------------------
(***************************************************************************)
(* Whatever the requests do, the entry and its lock change as SafeCache     *)
(* says they may.                                                           *)
(***************************************************************************)
LEMMA PutIsCacheStep ==
    ASSUME NEW value \in Values, Put(value)
    PROVE  CacheNext
  BY DEF CacheNext

LEMMA CallersStep ==
    ASSUME NEW r \in Callers,
           \/ EnterCall(r) \/ CacheStep(r) \/ AcquireBusy(r) \/ CallerDies(r)
           \/ CallAt(r, "returned") /\ LeaveCall(r) /\ UNCHANGED <<entry, lock, expiries>>
    PROVE  CacheNext
  BY DEF CacheNext

LEMMA ComputeIsCacheStep ==
    ASSUME DeliveryTypeOK, NEW r \in Callers, ComputeValue(r)
    PROVE  CacheNext
<1> DEFINE value == IF active = 0 THEN {} ELSE {Now(flags, "absent")}
<1>1. value \in Results
  BY NowIsValue DEF DeliveryTypeOK, Setups, Results
<1>2. Compute(r, value)
  BY DEF ComputeValue
<1> HIDE DEF value
<1> QED
  BY <1>1, <1>2 DEF CacheNext

LEMMA PutsAreCacheSteps ==
    ASSUME DeliveryTypeOK, NEW r \in Callers,
           PutMarked(r) \/ PutDiscarded(r) \/ PutBack(r) \/ PutCreated(r)
    PROVE  CacheNext
<1> USE DEF Setups
<1>1. CASE PutMarked(r)
  <2>1. Now(req[r].seen, "absent") \in Values
    BY RequestFields, NowIsValue
  <2>2. Put(Now(req[r].seen, "absent"))
    BY <1>1 DEF PutMarked
  <2> QED
    BY <2>1, <2>2, PutIsCacheStep
<1>2. CASE PutDiscarded(r)
  <2>1. Now({}, "absent") \in Values
    BY NowIsValue
  <2>2. Put(Now({}, "absent"))
    BY <1>2 DEF PutDiscarded
  <2> QED
    BY <2>1, <2>2, PutIsCacheStep
<1>3. CASE PutBack(r)
  <2>1. PICK v \in req[r].data : Put(v)
    BY <1>3 DEF PutBack
  <2> QED
    BY <2>1, RequestFields, PutIsCacheStep
<1>4. CASE PutCreated(r)
  <2>1. PICK v \in req[r].data : Put(Now({}, v.setup))
    BY <1>4 DEF PutCreated
  <2>2. Now({}, v.setup) \in Values
    BY RequestFields, ValuesAreFlags, NowIsValue
  <2> QED
    BY <2>1, <2>2, PutIsCacheStep
<1> QED
  BY <1>1, <1>2, <1>3, <1>4

\* The requests' steps that leave the cache alone.
Aside(r) ==
    \/ BeginOther(r, "viewed", "find")
    \/ \E op \in Ops \ {"download", "email", "viewed"} : BeginOther(r, op, "begin")
    \/ EndRequest(r)
    \/ SendEmail(r) \/ FindBatch(r) \/ Mark(r) \/ PutDownloaded(r)
    \/ DiscardBatch(r) \/ Peek(r) \/ FillSetup(r)
    \/ CreateBatch(r) \/ RefuseBatch(r) \/ FailBatch(r)
    \/ ChangeCode(r)
    \/ \E right \in BOOLEAN : VerifySetup(r, right)
    \/ DeleteSetup(r) \/ GetFlagged(r)
    \/ GetPage(r) \/ ReadPage(r) \/ StorePage(r) \/ Refill(r)

LEMMA AsideUncached ==
    ASSUME NEW r \in Callers, Aside(r)
    PROVE  UNCHANGED cacheVars
  BY DEF Aside, BeginOther, EndRequest, SendEmail, FindBatch, Mark, PutDownloaded,
         DiscardBatch, Peek, FillSetup, CreateBatch, RefuseBatch, FailBatch, ChangeCode,
         VerifySetup, DeleteSetup, GetFlagged, GetPage, ReadPage, StorePage, Refill, Uncached

LEMMA StepIsCacheStep ==
    ASSUME DeliveryTypeOK, NEW r \in Callers, DeliveryStep(r)
    PROVE  [CacheNext]_cacheVars
<1>1. CASE Aside(r)
  BY <1>1, AsideUncached
<1>2. CASE ComputeValue(r)
  BY <1>2, ComputeIsCacheStep
<1>3. CASE PutMarked(r) \/ PutDiscarded(r) \/ PutBack(r) \/ PutCreated(r)
  BY <1>3, PutsAreCacheSteps
<1>4. CASE \/ BeginSending(r, "download") \/ BeginSending(r, "email")
           \/ CacheAlone(r) \/ OtherDevice(r) \/ Checks(r) \/ DeliveryCrash(r)
  BY <1>4, CallersStep DEF BeginSending, CacheAlone, OtherDevice, Checks, DeliveryCrash
<1> QED
  BY <1>1, <1>2, <1>3, <1>4 DEF DeliveryStep, Aside

LEMMA NextIsCacheStep ==
    ASSUME DeliveryTypeOK, [DeliveryNext]_vars
    PROVE  [CacheNext]_cacheVars
<1>1. CASE \E r \in Callers : DeliveryStep(r)
  BY <1>1, StepIsCacheStep
<1>2. CASE Login \/ Logout \/ PagesExpire \/ DeleteHistory
  BY <1>2 DEF Login, Logout, PagesExpire, DeleteHistory, Uncached
<1>3. CASE Expire
  BY <1>3 DEF Expire, CacheNext
<1>4. CASE UNCHANGED vars
  BY <1>4 DEF vars, cacheVars
<1> QED
  BY <1>1, <1>2, <1>3, <1>4 DEF DeliveryNext
-----------------------------------------------------------------------------
(* Type correctness. *)

LEMMA NoRequestTyped == NoRequest \in Request
<1>1. 0 \in 0 .. MaxBatches
  BY DeliveryAssumption
<1> QED
  BY <1>1 DEF NoRequest, Request, Pcs

\* The steps of a request that only changes its place, what it has read, what it saves.
LEMMA GoingTyped ==
    ASSUME DeliveryTypeOK, NEW r \in Callers, NEW pc \in Pcs, NEW data \in SUBSET Values,
           \/ Goes(r, pc)
           \/ GoesWith(r, pc, data)
           \/ Saving(r)
           \/ req' = Ended(r)
           \/ req' = req
    PROVE  req' \in [Callers -> Request]
<1> USE DEF DeliveryTypeOK
<1>1. CASE Goes(r, pc)
  BY <1>1 DEF Goes, Request
<1>2. CASE GoesWith(r, pc, data)
  <2> DEFINE x == [req[r] EXCEPT !.pc = pc, !.data = data]
  <2>1. x \in Request
    BY DeliveryAssumption DEF Request
  <2>2. req' = [req EXCEPT ![r] = x]
    BY <1>2 DEF GoesWith, Request
  <2> HIDE DEF x
  <2> QED
    BY <2>1, <2>2
<1>3. CASE Saving(r)
  <2> DEFINE x == [req[r] EXCEPT !.pc = "save", !.saves = TRUE, !.force = TRUE]
  <2>1. x \in Request
    BY DEF Request, Pcs
  <2>2. req' = [req EXCEPT ![r] = x]
    BY <1>3 DEF Saving, Request
  <2> HIDE DEF x
  <2> QED
    BY <2>1, <2>2
<1>4. CASE req' = Ended(r)
  BY <1>4, NoRequestTyped DEF Ended
<1> QED
  BY <1>1, <1>2, <1>3, <1>4

LEMMA AgedTyped == \A p \in Pages : Aged(p) \in Pages
  BY DEF Pages, Aged

LEMMA HistoryChangesTyped ==
    ASSUME DeliveryTypeOK, HistoryChanges
    PROVE  page_cache' \in Pages /\ page' \in [Callers -> Pages]
  BY AgedTyped DEF DeliveryTypeOK, HistoryChanges

LEMMA OneMoreTyped == \A n \in 0 .. 2 : \A b : OneMore(n, b) \in 0 .. 2
  BY DEF OneMore

LEMMA InitType == DeliveryInit => DeliveryTypeOK
<1> SUFFICES ASSUME DeliveryInit PROVE DeliveryTypeOK
  OBVIOUS
<1>1. CacheTypeOK
  BY InitCacheInv DEF DeliveryInit, CacheInv
<1>2. 0 \in 0 .. MaxBatches
  BY DeliveryAssumption
<1>3. /\ active \in 0 .. MaxBatches /\ issued \in 0 .. MaxBatches
      /\ emails \in 0 .. 2 /\ downloads \in 0 .. 2
      /\ flags \in SUBSET Flags /\ mishaps \in SUBSET Mishaps
      /\ page_cache \in Pages /\ page \in [Callers -> Pages]
      /\ session \in [in: BOOLEAN, codes: 0 .. MaxBatches, force: BOOLEAN]
  BY <1>2 DEF DeliveryInit, Pages
<1>4. req \in [Callers -> Request]
  BY NoRequestTyped DEF DeliveryInit
<1>5. verified \in BOOLEAN
  BY ZenonT(20) DEF DeliveryInit
<1> QED
  BY <1>1, <1>3, <1>4, <1>5 DEF DeliveryTypeOK

\* What a step does to the requests, the rows and the rest, apart from the cache.
LEMMA BeginType ==
    ASSUME DeliveryTypeOK, NEW r \in Callers, NEW op \in Ops, NEW pc \in Pcs, Begin(r, op, pc),
           CacheTypeOK'
    PROVE  DeliveryTypeOK'
<1>1. req' \in [Callers -> Request]
  <2> DEFINE x == [NoRequest EXCEPT !.op = op, !.pc = pc, !.codes = session.codes,
                             !.force = session.force, !.kept = TRUE,
                             !.saves = op = "regenerate"]
  <2>1. session.codes \in 0 .. MaxBatches /\ session.force \in BOOLEAN
    BY DEF DeliveryTypeOK
  <2>2. x \in Request
    BY <2>1, NoRequestTyped DEF Request, NoRequest
  <2>3. req' = [req EXCEPT ![r] = x]
    BY DEF Begin
  <2> HIDE DEF x
  <2> QED
    BY <2>2, <2>3 DEF DeliveryTypeOK
<1>2. mishaps' \in SUBSET Mishaps
  BY DEF Begin, DeliveryTypeOK, Mishaps
<1>3. UNCHANGED <<rowVars, session, pageVars, sentVars>>
  BY DEF Begin, Unrowed
<1> QED
  BY <1>1, <1>2, <1>3 DEF DeliveryTypeOK, rowVars, pageVars, sentVars

LEMMA EndType ==
    ASSUME DeliveryTypeOK, NEW r \in Callers, EndRequest(r), CacheTypeOK'
    PROVE  DeliveryTypeOK'
<1>1. req' \in [Callers -> Request]
  BY NoRequestTyped DEF EndRequest, Ended, DeliveryTypeOK
<1>2. session' \in [in: BOOLEAN, codes: 0 .. MaxBatches, force: BOOLEAN]
  <2>1. (req[r].force \/ req[r].op = "regenerate") \in BOOLEAN
    OBVIOUS
  <2>2. req[r].codes \in 0 .. MaxBatches
    BY RequestFields
  <2> QED
    BY <2>1, <2>2 DEF EndRequest, DeliveryTypeOK
<1>3. page' \in [Callers -> Pages]
  BY DEF EndRequest, DeliveryTypeOK, Pages
<1>4. UNCHANGED <<rowVars, page_cache, sentVars, mishaps>>
  BY DEF EndRequest, Unrowed
<1> QED
  BY <1>1, <1>2, <1>3, <1>4 DEF DeliveryTypeOK, rowVars, sentVars

\* Steps that only move a request on.
Moving(r) ==
    \/ CacheAlone(r) \/ ComputeValue(r) \/ FindBatch(r) \/ PutMarked(r) \/ Peek(r)
    \/ FillSetup(r) \/ PutBack(r) \/ PutCreated(r) \/ GetFlagged(r) \/ Refill(r)

LEMMA MovingType ==
    ASSUME DeliveryTypeOK, NEW r \in Callers, Moving(r), CacheTypeOK'
    PROVE  DeliveryTypeOK'
<1>1. UNCHANGED <<rowVars, pageVars, session, sentVars, mishaps>>
  BY DEF Moving, CacheAlone, ComputeValue, FindBatch, PutMarked, Peek, FillSetup, PutBack,
         PutCreated, GetFlagged, Refill, Unrowed, Unsent
<1>2. req' \in [Callers -> Request]
  <2> USE RequestFields DEF Setups, Pcs
  <2>1. CASE CacheAlone(r) \/ ComputeValue(r)
    BY <2>1 DEF CacheAlone, ComputeValue, DeliveryTypeOK
  <2>2. CASE FindBatch(r)
    <3> DEFINE x == [req[r] EXCEPT !.pc = "mark", !.row = active, !.seen = flags]
    <3>1. x \in Request
      BY DEF Request, DeliveryTypeOK
    <3>2. req' = Ended(r) \/ req' = [req EXCEPT ![r] = x]
      BY <2>2 DEF FindBatch, DeliveryTypeOK, Request
    <3> HIDE DEF x
    <3> QED
      BY <3>1, <3>2, NoRequestTyped DEF Ended, DeliveryTypeOK
  <2>3. CASE PutMarked(r) \/ PutCreated(r)
    BY <2>3, GoingTyped DEF PutMarked, PutCreated
  <2>4. CASE Peek(r)
    <3>1. PICK pc \in Pcs : GoesWith(r, pc, entry)
      BY <2>4 DEF Peek
    <3> QED
      BY <3>1, GoingTyped DEF DeliveryTypeOK, CacheTypeOK
  <2>5. CASE FillSetup(r)
    <3> DEFINE known == IF req[r].data = {} THEN {}
                        ELSE (CHOOSE v \in req[r].data : TRUE).flags
               data == {Now(known, IF verified THEN "yes" ELSE "no")}
    <3>1. known \in SUBSET Flags
      BY ValuesAreFlags
    <3>2. data \in SUBSET Values
      BY <3>1, NowIsValue
    <3>3. GoesWith(r, "put_back", data)
      BY <2>5 DEF FillSetup
    <3> HIDE DEF data
    <3> QED
      BY <3>2, <3>3, GoingTyped
  <2>6. CASE PutBack(r)
    <3>1. PICK pc \in Pcs : Goes(r, pc)
      BY <2>6 DEF PutBack
    <3> QED
      BY <3>1, GoingTyped
  <2>7. CASE GetFlagged(r)
    <3> DEFINE flag == IF req[r].op = "verify" THEN "yes" ELSE "no"
               data == {Now(v.flags, flag) : v \in entry}
    <3>1. \A v \in entry : v.flags \in SUBSET Flags
      BY ValuesAreFlags DEF DeliveryTypeOK, CacheTypeOK
    <3>2. data \in SUBSET Values
      BY <3>1, NowIsValue
    <3>3. PICK pc \in Pcs : GoesWith(r, pc, data)
      BY <2>7 DEF GetFlagged
    <3> HIDE DEF data
    <3> QED
      BY <3>2, <3>3, GoingTyped
  <2>8. CASE Refill(r)
    <3> DEFINE data == IF req[r].data = {} /\ active # 0
                       THEN {Now(flags, "absent")} ELSE req[r].data
    <3>1. data \in SUBSET Values
      BY NowIsValue DEF DeliveryTypeOK
    <3>2. PICK pc \in Pcs : GoesWith(r, pc, data)
      BY <2>8 DEF Refill
    <3> HIDE DEF data
    <3> QED
      BY <3>1, <3>2, GoingTyped
  <2> QED
    BY <2>1, <2>2, <2>3, <2>4, <2>5, <2>6, <2>7, <2>8 DEF Moving
<1> QED
  BY <1>1, <1>2 DEF DeliveryTypeOK, rowVars, pageVars, sentVars

\* Steps that change the row, the batches or the e-mails.
Changing(r) ==
    \/ Checks(r) \/ SendEmail(r) \/ Mark(r) \/ PutDownloaded(r) \/ DiscardBatch(r)
    \/ PutDiscarded(r) \/ CreateBatch(r) \/ RefuseBatch(r) \/ FailBatch(r) \/ ChangeCode(r)
    \/ (\E right \in BOOLEAN : VerifySetup(r, right)) \/ DeleteSetup(r)

LEMMA ChangingReqType ==
    ASSUME DeliveryTypeOK, NEW r \in Callers, Changing(r)
    PROVE  req' \in [Callers -> Request]
<1> USE RequestFields DEF Pcs
<1>1. CASE Checks(r)
  <2> DEFINE ends == Refused(r) \/ req[r].codes = 0
  <2>1. PICK saves \in BOOLEAN :
          req' = [req EXCEPT ![r].pc = IF ends THEN "save" ELSE "send", ![r].saves = saves]
    BY <1>1 DEF Checks
  <2>2. PICK pc \in {"save", "send"} : req' = [req EXCEPT ![r].pc = pc, ![r].saves = saves]
    BY <2>1
  <2> DEFINE x == [req[r] EXCEPT !.pc = pc, !.saves = saves]
  <2>3. x \in Request
    BY DEF Request, DeliveryTypeOK
  <2>4. req' = [req EXCEPT ![r] = x]
    BY <2>2 DEF DeliveryTypeOK, Request
  <2> HIDE DEF x
  <2> QED
    BY <2>3, <2>4 DEF DeliveryTypeOK
<1>2. CASE SendEmail(r) \/ FailBatch(r) \/ DeleteSetup(r)
           \/ (\E right \in BOOLEAN : VerifySetup(r, right))
  BY <1>2, GoingTyped DEF SendEmail, FailBatch, DeleteSetup, VerifySetup
<1>3. CASE PutDownloaded(r) \/ ChangeCode(r)
  BY <1>3, GoingTyped DEF PutDownloaded, ChangeCode
<1>4. CASE Mark(r)
  <2> DEFINE x == [req[r] EXCEPT !.pc = "put", !.seen = @ \cup FlagOf(req[r].op)]
  <2>1. x \in Request
    BY FlagOfTyped DEF Request, DeliveryTypeOK
  <2>2. req' = [req EXCEPT ![r] = x]
    BY <1>4 DEF Mark, DeliveryTypeOK, Request
  <2> HIDE DEF x
  <2> QED
    BY <2>1, <2>2 DEF DeliveryTypeOK
<1>5. CASE DiscardBatch(r)
  <2>1. PICK pc \in {"save", "put"} : req' = [req EXCEPT ![r].pc = pc]
    BY <1>5 DEF DiscardBatch
  <2> QED
    BY <2>1, GoingTyped DEF Goes
<1>6. CASE PutDiscarded(r)
  <2> DEFINE x == [req[r] EXCEPT !.pc = "save", !.saves = TRUE, !.force = TRUE, !.codes = 0]
  <2>0. 0 \in 0 .. MaxBatches
    BY DeliveryAssumption
  <2>1. x \in Request
    BY <2>0 DEF Request, DeliveryTypeOK
  <2>2. req' = [req EXCEPT ![r] = x]
    BY <1>6 DEF PutDiscarded, DeliveryTypeOK, Request
  <2> HIDE DEF x
  <2> QED
    BY <2>1, <2>2 DEF DeliveryTypeOK
<1>7. CASE CreateBatch(r) \/ RefuseBatch(r)
  <2>1. PICK codes \in 0 .. MaxBatches : req' = [req EXCEPT ![r].pc = "put", ![r].codes = codes]
    <3>1. CASE CreateBatch(r)
      <4>1. issued + 1 \in 0 .. MaxBatches
        BY <3>1, DeliveryAssumption DEF CreateBatch, DeliveryTypeOK
      <4> QED
        BY <3>1, <4>1 DEF CreateBatch
    <3>2. CASE RefuseBatch(r)
      <4>1. 0 \in 0 .. MaxBatches
        BY DeliveryAssumption
      <4> QED
        BY <3>2, <4>1 DEF RefuseBatch
    <3> QED
      BY <1>7, <3>1, <3>2
  <2> DEFINE x == [req[r] EXCEPT !.pc = "put", !.codes = codes]
  <2>2. x \in Request
    BY DEF Request, DeliveryTypeOK
  <2>3. req' = [req EXCEPT ![r] = x]
    BY <2>1 DEF DeliveryTypeOK, Request
  <2> HIDE DEF x
  <2> QED
    BY <2>2, <2>3 DEF DeliveryTypeOK
<1> QED
  BY <1>1, <1>2, <1>3, <1>4, <1>5, <1>6, <1>7 DEF Changing

LEMMA ChangingType ==
    ASSUME DeliveryTypeOK, NEW r \in Callers, Changing(r), CacheTypeOK'
    PROVE  DeliveryTypeOK'
<1>1. req' \in [Callers -> Request]
  BY ChangingReqType
<1>2. session' = session
  BY DEF Changing, Checks, SendEmail, Mark, PutDownloaded, DiscardBatch, PutDiscarded,
         CreateBatch, RefuseBatch, FailBatch, ChangeCode, VerifySetup, DeleteSetup, Unsent
<1>3. active' \in 0 .. MaxBatches /\ issued' \in 0 .. MaxBatches
  <2>1. CASE CreateBatch(r)
    BY <2>1, DeliveryAssumption DEF CreateBatch, DeliveryTypeOK
  <2>2. CASE DiscardBatch(r)
    BY <2>2, DeliveryAssumption DEF DiscardBatch, DeliveryTypeOK
  <2>3. CASE ~CreateBatch(r) /\ ~DiscardBatch(r)
    BY <2>3 DEF Changing, Checks, SendEmail, Mark, PutDownloaded, PutDiscarded, RefuseBatch,
         FailBatch, ChangeCode, VerifySetup, DeleteSetup, DeliveryTypeOK, Unrowed, rowVars
  <2> QED
    BY <2>1, <2>2, <2>3
<1>4. flags' \in SUBSET Flags
  BY FlagOfTyped
     DEF Changing, Checks, SendEmail, Mark, PutDownloaded, DiscardBatch, PutDiscarded,
         CreateBatch, RefuseBatch, FailBatch, ChangeCode, VerifySetup, DeleteSetup,
         DeliveryTypeOK, Unrowed, rowVars
<1>5. verified' \in BOOLEAN
  <2>1. CASE \E right \in BOOLEAN : VerifySetup(r, right)
    <3>1. PICK right \in BOOLEAN : verified' = (verified \/ right)
      BY <2>1 DEF VerifySetup
    <3> QED
      BY <3>1, ZenonT(20)
  <2>2. CASE DeleteSetup(r)
    BY <2>2, ZenonT(20) DEF DeleteSetup
  <2>3. CASE UNCHANGED verified
    BY <2>3, Zenon DEF DeliveryTypeOK
  <2> QED
    BY <2>1, <2>2, <2>3
     DEF Changing, Checks, SendEmail, Mark, PutDownloaded, DiscardBatch, PutDiscarded,
         CreateBatch, RefuseBatch, FailBatch, ChangeCode, Unrowed, rowVars
<1>6. page_cache' \in Pages /\ page' \in [Callers -> Pages]
  <2>1. CASE HistoryChanges
    BY <2>1, HistoryChangesTyped
  <2>2. CASE UNCHANGED pageVars
    BY <2>2 DEF pageVars, DeliveryTypeOK
  <2> QED
    BY <2>1, <2>2
     DEF Changing, Checks, SendEmail, Mark, PutDownloaded, DiscardBatch, PutDiscarded,
         CreateBatch, RefuseBatch, FailBatch, ChangeCode, VerifySetup, DeleteSetup, pageVars
<1>7. emails' \in 0 .. 2 /\ downloads' \in 0 .. 2
  BY OneMoreTyped
     DEF Changing, Checks, SendEmail, Mark, PutDownloaded, DiscardBatch, PutDiscarded,
         CreateBatch, RefuseBatch, FailBatch, ChangeCode, VerifySetup, DeleteSetup,
         DeliveryTypeOK, Unsent, sentVars
<1>8. mishaps' \in SUBSET Mishaps
  BY DEF Changing, Checks, SendEmail, Mark, PutDownloaded, DiscardBatch, PutDiscarded,
         CreateBatch, RefuseBatch, FailBatch, ChangeCode, VerifySetup, DeleteSetup,
         DeliveryTypeOK, Unsent, Mishaps
<1> QED
  BY <1>1, <1>2, <1>3, <1>4, <1>5, <1>6, <1>7, <1>8 DEF DeliveryTypeOK

LEMMA PageStepType ==
    ASSUME DeliveryTypeOK, NEW r \in Callers, GetPage(r) \/ ReadPage(r) \/ StorePage(r),
           CacheTypeOK'
    PROVE  DeliveryTypeOK'
<1>1. UNCHANGED <<rowVars, session, sentVars, mishaps>>
  BY DEF GetPage, ReadPage, StorePage, Unrowed, Unsent
<1>2. page_cache' \in Pages /\ page' \in [Callers -> Pages]
  BY DEF GetPage, ReadPage, StorePage, DeliveryTypeOK, Pages
<1>3. req' \in [Callers -> Request]
  <2>1. CASE ReadPage(r) \/ StorePage(r)
    BY <2>1, GoingTyped DEF ReadPage, StorePage, Pcs
  <2>2. CASE GetPage(r)
    <3>1. PICK pc \in {"read_page", "refill"}, saves \in BOOLEAN :
            req' = [req EXCEPT ![r].pc = pc, ![r].force = FALSE, ![r].saves = saves]
      <4>1. (req[r].saves \/ req[r].force \/ issued > 0) \in BOOLEAN
        OBVIOUS
      <4> QED
        BY <2>2, <4>1 DEF GetPage, DeliveryTypeOK, Request
    <3> DEFINE x == [req[r] EXCEPT !.pc = pc, !.force = FALSE, !.saves = saves]
    <3>2. x \in Request
      BY DEF Request, DeliveryTypeOK, Pcs
    <3>3. req' = [req EXCEPT ![r] = x]
      BY <3>1 DEF DeliveryTypeOK, Request
    <3> HIDE DEF x
    <3> QED
      BY <3>2, <3>3 DEF DeliveryTypeOK
  <2> QED
    BY <2>1, <2>2
<1> QED
  BY <1>1, <1>2, <1>3 DEF DeliveryTypeOK, rowVars, sentVars

LEMMA AccidentType ==
    ASSUME DeliveryTypeOK, NEW r \in Callers, DeliveryCrash(r) \/ OtherDevice(r), CacheTypeOK'
    PROVE  DeliveryTypeOK'
<1>1. UNCHANGED <<rowVars, session, page_cache, sentVars>>
  BY DEF DeliveryCrash, OtherDevice, Unrowed, pageVars
<1>2. req' \in [Callers -> Request]
  BY GoingTyped DEF DeliveryCrash, OtherDevice, Pcs
<1>3. page' \in [Callers -> Pages]
  BY DEF DeliveryCrash, OtherDevice, DeliveryTypeOK, Pages, pageVars
<1>4. mishaps' \in SUBSET Mishaps
  BY DEF DeliveryCrash, OtherDevice, DeliveryTypeOK, Mishaps
<1> QED
  BY <1>1, <1>2, <1>3, <1>4 DEF DeliveryTypeOK, rowVars, sentVars

LEMMA WorldType ==
    ASSUME DeliveryTypeOK, Login \/ Logout \/ PagesExpire \/ DeleteHistory \/ Expire,
           CacheTypeOK'
    PROVE  DeliveryTypeOK'
<1>1. CASE Login
  <2>1. UNCHANGED <<rowVars, req, sentVars, mishaps>>
    BY <1>1 DEF Login, Unrowed
  <2>2. session' \in [in: BOOLEAN, codes: 0 .. MaxBatches, force: BOOLEAN]
    BY <1>1, DeliveryAssumption DEF Login
  <2>3. page_cache' \in Pages /\ page' \in [Callers -> Pages]
    BY <1>1, HistoryChangesTyped DEF Login
  <2> QED
    BY <2>1, <2>2, <2>3 DEF DeliveryTypeOK, rowVars, sentVars
<1>2. CASE Logout
  <2>1. UNCHANGED <<rowVars, pageVars, sentVars>>
    BY <1>2 DEF Logout, Unrowed
  <2>2. session' \in [in: BOOLEAN, codes: 0 .. MaxBatches, force: BOOLEAN]
    BY <1>2, DeliveryAssumption DEF Logout
  <2>3. req' \in [Callers -> Request]
    <3>1. \A q \in Callers : [req[q] EXCEPT !.kept = FALSE] \in Request
      BY DEF DeliveryTypeOK, Request
    <3> QED
      BY <1>2, <3>1 DEF Logout
  <2>4. mishaps' \in SUBSET Mishaps
    BY <1>2 DEF Logout, Interrupting, DeliveryTypeOK, Mishaps
  <2> QED
    BY <2>1, <2>2, <2>3, <2>4 DEF DeliveryTypeOK, rowVars, pageVars, sentVars
<1>3. CASE PagesExpire
  BY <1>3 DEF PagesExpire, DeliveryTypeOK, Unrowed, Unsent, rowVars, sentVars, Pages
<1>4. CASE DeleteHistory
  <2>1. UNCHANGED <<rowVars, req, session, sentVars>>
    BY <1>4 DEF DeleteHistory, Unrowed
  <2>2. page_cache' \in Pages /\ page' \in [Callers -> Pages]
    BY <1>4, AgedTyped DEF DeleteHistory, DeliveryTypeOK, Pages
  <2>3. mishaps' \in SUBSET Mishaps
    BY <1>4 DEF DeleteHistory, Interrupting, DeliveryTypeOK, Mishaps
  <2> QED
    BY <2>1, <2>2, <2>3 DEF DeliveryTypeOK, rowVars, sentVars
<1>5. CASE Expire
  BY <1>5 DEF Expire, DeliveryTypeOK, Unrowed, Unsent, rowVars, pageVars, sentVars
<1> QED
  BY <1>1, <1>2, <1>3, <1>4, <1>5

\* One step keeps the types, and with them the bound on the holders of the lock.
LEMMA NextType ==
    ASSUME DeliveryTypeOK, [DeliveryNext]_vars
    PROVE  DeliveryTypeOK'
<1>1. CacheTypeOK'
  BY NextIsCacheStep, NextCacheType DEF DeliveryTypeOK
<1>2. ASSUME NEW r \in Callers, DeliveryStep(r) PROVE DeliveryTypeOK'
  <2>1. CASE BeginSending(r, "download") \/ BeginSending(r, "email")
    <3>1. PICK op \in Ops : Begin(r, op, "asked")
      BY <2>1 DEF BeginSending, Ops
    <3>2. "asked" \in Pcs
      BY DEF Pcs
    <3> QED
      BY <1>1, <3>1, <3>2, BeginType
  <2>2. CASE \/ BeginOther(r, "viewed", "find")
             \/ \E op \in Ops \ {"download", "email", "viewed"} : BeginOther(r, op, "begin")
    <3>1. PICK op \in Ops, pc \in {"find", "begin"} : Begin(r, op, pc)
      BY <2>2 DEF BeginOther, Ops
    <3>2. pc \in Pcs
      BY DEF Pcs
    <3> QED
      BY <1>1, <3>1, <3>2, BeginType
  <2>3. CASE EndRequest(r)
    BY <1>1, <2>3, EndType
  <2>4. CASE Moving(r)
    BY <1>1, <2>4, MovingType
  <2>5. CASE Changing(r)
    BY <1>1, <2>5, ChangingType
  <2>6. CASE GetPage(r) \/ ReadPage(r) \/ StorePage(r)
    BY <1>1, <2>6, PageStepType
  <2>7. CASE DeliveryCrash(r) \/ OtherDevice(r)
    BY <1>1, <2>7, AccidentType
  <2> QED
    BY <1>2, <2>1, <2>2, <2>3, <2>4, <2>5, <2>6, <2>7 DEF DeliveryStep, Moving, Changing
<1>3. CASE Login \/ Logout \/ PagesExpire \/ DeleteHistory \/ Expire
  BY <1>1, <1>3, WorldType
<1>4. CASE UNCHANGED vars
  BY <1>1, <1>4 DEF vars, rowVars, pageVars, sentVars, DeliveryTypeOK
<1> QED
  BY <1>2, <1>3, <1>4 DEF DeliveryNext

\* Type correctness of the rows, the session, the requests and the caches.
THEOREM DeliveryTypeCorrect == DeliverySpec => []DeliveryTypeOK
<1>1. DeliveryTypeOK /\ [DeliveryNext]_vars => DeliveryTypeOK'
  BY NextType
<1> QED
  BY InitType, <1>1, PTL DEF DeliverySpec

\* The requests use the cache only as safe_cache.py lets them: what they do with the
\* entry and its lock is a behaviour of SafeCache by itself, whoever calls, dies or expires.
THEOREM DeliveryImplementsCache == DeliverySpec => CacheSpec
<1>1. DeliveryInit => CacheInit
  BY DEF DeliveryInit
<1>2. DeliveryTypeOK /\ [DeliveryNext]_vars => [CacheNext]_cacheVars
  BY NextIsCacheStep
<1> QED
  BY <1>1, <1>2, DeliveryTypeCorrect, PTL DEF DeliverySpec, CacheSpec

\* So the bound on the holders of the lock holds among the requests, too.
THEOREM DeliveryHoldersBounded == DeliverySpec => []LockHoldersBounded
  BY DeliveryImplementsCache, LockHoldersAreBounded, PTL
-----------------------------------------------------------------------------
(***************************************************************************)
(* DeliveryInv.  As long as nothing but a failed creation has gone wrong,   *)
(* requests come one at a time, so a step of one of them disturbs only what *)
(* is said of itself; what is said of the others holds because they rest.   *)
(***************************************************************************)
Calm == mishaps \subseteq {"failure"}

LEMMA CalmIsInherited ==
    ASSUME mishaps \subseteq mishaps'
    PROVE  (Calm' => Calm) /\ (mishaps' = {} => mishaps = {} /\ Calm')
  BY DEF Calm

\* A request that rests is at the beginning, and asks nothing of the cache.
LEMMA Resting ==
    ASSUME Staged, NEW q \in Callers, req[q].op = "none"
    PROVE  req[q].pc = "begin" /\ call[q] = NoCall
<1>1. Stage(req[q].op, req[q].pc)
  BY DEF Staged
<1>2. req[q].pc = "begin"
  BY <1>1 DEF Stage
<1> QED
  BY <1>2 DEF Staged

LEMMA OthersRest ==
    ASSUME InTurn, NEW r \in Callers, req[r].op # "none", NEW q \in Callers, q # r
    PROVE  req[q].op = "none"
  BY DEF InTurn

\* Whoever holds the lock is the request that is under way.
LEMMA LockIsMine ==
    ASSUME Staged, InTurn, lock => Holders # {}, NEW r \in Callers, req[r].op # "none"
    PROVE  lock => call[r].pc \in {"recheck", "compute", "fill", "release"}
<1> SUFFICES ASSUME lock
             PROVE  call[r].pc \in {"recheck", "compute", "fill", "release"}
  OBVIOUS
<1>1. PICK h \in Callers : call[h].pc \in {"recheck", "compute", "fill", "release"}
  BY DEF Holders
<1>2. h = r
  BY <1>1, Resting, OthersRest DEF NoCall
<1> QED
  BY <1>1, <1>2

\* The request that asks the cache is a download or an e-mail.
LEMMA Asking ==
    ASSUME Staged, NEW r \in Callers, call[r].pc # "none"
    PROVE  req[r].pc = "asked" /\ req[r].op \in {"download", "email"}
<1>1. req[r].pc = "asked"
  BY DEF Staged, NoCall
<1>2. Stage(req[r].op, "asked")
  BY <1>1 DEF Staged
<1> QED
  BY <1>1, <1>2 DEF Stage

\* A step of r after which it is still under way, in the same session.
Proceeds(r) ==
    /\ req[r].op # "none"
    /\ req'[r].op = req[r].op
    /\ req'[r].kept = req[r].kept
    /\ \A q \in Callers : q # r => req'[q] = req[q] /\ call'[q] = call[q]
    /\ session' = session
    /\ mishaps \subseteq mishaps'

\* What such a step has to show for itself.
Stands(r) ==
    /\ UnderWay(r)
    /\ KnownBy(r)
    /\ CallKnows(r)

LEMMA TurnGoesOn ==
    ASSUME InTurn, NEW r \in Callers, Proceeds(r),
           req[r].op = "unverify" => req'[r].saves = req[r].saves
    PROVE  InTurn'
<1>1. \A q \in Callers : req'[q].op = req[q].op /\ req'[q].kept = req[q].kept
  BY DEF Proceeds
<1>2. \A q \in Callers : req[q].op = "unverify" => req'[q].saves = req[q].saves
  BY DEF Proceeds
<1> QED
  BY <1>1, <1>2 DEF InTurn, Proceeds

\* What is said of a request at rest holds whatever the others do.
LEMMA OthersStand ==
    ASSUME Staged', NEW q \in Callers, req'[q].op = "none", req'[q].data = {}
    PROVE  Stands(q)'
<1>1. req'[q].pc = "begin" /\ call'[q] = NoCall
  <2>1. Stage(req'[q].op, req'[q].pc)
    BY DEF Staged
  <2>2. req'[q].pc = "begin"
    BY <2>1 DEF Stage
  <2> QED
    BY <2>2 DEF Staged
<1>2. UnderWay(q)'
  BY DEF UnderWay
<1>3. KnownBy(q)'
  BY <1>1 DEF KnownBy, Running
<1>4. CallKnows(q)'
  BY <1>1 DEF CallKnows, CallAt, NoCall
<1> QED
  BY <1>2, <1>3, <1>4 DEF Stands

LEMMA DataAtRest ==
    ASSUME Staged, NEW q \in Callers, req[q].op = "none", Stands(q)
    PROVE  req[q].data = {}
  BY Resting DEF Stands, KnownBy

LEMMA StagedOn ==
    ASSUME Staged, NEW r \in Callers, Proceeds(r), active' \in {0, issued'},
           Stage(req'[r].op, req'[r].pc),
           IF req'[r].pc = "asked" THEN call'[r].pc # "none" ELSE call'[r] = NoCall
    PROVE  Staged'
<1> SUFFICES ASSUME NEW q \in Callers
             PROVE  /\ Stage(req'[q].op, req'[q].pc)
                    /\ IF req'[q].pc = "asked" THEN call'[q].pc # "none" ELSE call'[q] = NoCall
  BY DEF Staged
<1>1. CASE q = r
  BY <1>1
<1>2. CASE q # r
  BY <1>2 DEF Staged, Proceeds
<1> QED
  BY <1>1, <1>2

LEMMA InvGoesOn ==
    ASSUME DeliveryInv, NEW r \in Callers, Proceeds(r),
           req[r].op = "unverify" => req'[r].saves = req[r].saves,
           Staged',
           Calm' => PagesKnown',
           mishaps' = {} => emails' <= 1 /\ Stands(r)' /\ (lock' => Holders' # {})
    PROVE  DeliveryInv'
<1>0. (Calm' => Calm) /\ (mishaps' = {} => mishaps = {} /\ Calm')
  BY CalmIsInherited DEF Proceeds
<1>1. Calm' => InTurn'
  BY <1>0, TurnGoesOn DEF DeliveryInv, Calm
<1>2. AtRest'
  BY DEF AtRest, Proceeds
<1>3. ASSUME mishaps' = {}, NEW q \in Callers PROVE Stands(q)'
  <2>1. CASE q = r
    BY <1>3, <2>1
  <2>2. CASE q # r
    <3>1. req[q].op = "none" /\ Stands(q)
      BY <1>0, <1>3, <2>2, OthersRest DEF DeliveryInv, Calm, Proceeds, Stands
    <3>2. req[q].data = {}
      BY <3>1, DataAtRest DEF DeliveryInv
    <3>3. req'[q].op = "none" /\ req'[q].data = {}
      BY <2>2, <3>1, <3>2 DEF Proceeds
    <3> QED
      BY <3>3, OthersStand
  <2> QED
    BY <2>1, <2>2
<1> QED
  BY <1>1, <1>2, <1>3 DEF DeliveryInv, Calm, Stands

\* With InTurn and what the steps above need, in a form that is easy to cite.
LEMMA InvCalm ==
    ASSUME DeliveryInv
    PROVE  /\ Staged
           /\ Calm => InTurn /\ PagesKnown
           /\ mishaps = {} => /\ Calm /\ emails <= 1 /\ AtRest
                              /\ \A r \in Callers : UnderWay(r) /\ KnownBy(r) /\ CallKnows(r)
                              /\ lock => Holders # {}
  BY DEF DeliveryInv, Calm
-----------------------------------------------------------------------------
(* The pages of the dashboard. *)

\* A step of another request that changes no history.
LEMMA PagesAside ==
    ASSUME PagesKnown, NEW r \in Callers, Proceeds(r), req[r].op # "dashboard",
           UNCHANGED pageVars,
           req[r].force => req'[r].force,
           WillForce(r) => WillForce(r)'
    PROVE  PagesKnown'
<1>1. page_cache' = page_cache /\ page' = page
  BY DEF pageVars
<1>2. \A q \in Callers : WillForce(q) => WillForce(q)'
  <2>1. \A q \in Callers : q # r /\ WillForce(q) => WillForce(q)'
    BY DEF WillForce, Proceeds
  <2> QED
    BY <2>1
<1>3. page_cache' = "stale" /\ session'.in
          => session'.force \/ \E q \in Callers : WillForce(q)'
  BY <1>1, <1>2 DEF PagesKnown, Proceeds
<1>4. ASSUME NEW q \in Callers
      PROVE  /\ req'[q].op # "dashboard" => page'[q] = "none"
             /\ req'[q].op \notin {"none", "dashboard", "unverify"} =>
                  (session'.force => req'[q].force)
             /\ req'[q].op = "dashboard" =>
                  IF req'[q].pc \in {"begin", "page"}
                  THEN (req'[q].force <=> session'.force) /\ ~req'[q].saves
                  ELSE /\ page_cache' # "stale"
                       /\ page'[q] = IF req'[q].pc = "read_page" THEN "none" ELSE "fresh"
  <2>1. CASE q = r
    BY <1>1, <2>1 DEF PagesKnown, Proceeds
  <2>2. CASE q # r
    BY <1>1, <2>2 DEF PagesKnown, Proceeds
  <2> QED
    BY <2>1, <2>2
<1> QED
  BY <1>3, <1>4 DEF PagesKnown

\* A step that changes the history, and will have the next dashboard read it.
LEMMA PagesHistory ==
    ASSUME PagesKnown, InTurn, NEW r \in Callers, Proceeds(r),
           req[r].op \notin {"dashboard", "unverify"},
           HistoryChanges,
           req[r].force => req'[r].force,
           WillForce(r)'
    PROVE  PagesKnown'
<1>1. \A q \in Callers : page[q] = "none"
  BY DEF PagesKnown, InTurn, Proceeds
<1>2. \A q \in Callers : page'[q] = "none"
  BY <1>1 DEF HistoryChanges, Aged
<1>3. \A q \in Callers : q # r => req'[q].op = "none"
  BY DEF InTurn, Proceeds
<1>4. session'.force => req'[r].force
  BY DEF PagesKnown, Proceeds
<1> QED
  BY <1>2, <1>3, <1>4 DEF PagesKnown, Proceeds

\* A step of the dashboard that leaves the pages as they are.
LEMMA PagesLeft ==
    ASSUME PagesKnown, NEW r \in Callers, Proceeds(r), req[r].op = "dashboard",
           UNCHANGED pageVars,
           req'[r].force = req[r].force,
           req'[r].saves = req[r].saves,
           \/ req[r].pc \in {"begin", "page"} /\ req'[r].pc \in {"begin", "page"}
           \/ /\ req[r].pc \notin {"begin", "page", "read_page"}
              /\ req'[r].pc \notin {"begin", "page", "read_page"}
    PROVE  PagesKnown'
<1>1. page_cache' = page_cache /\ page' = page
  BY DEF pageVars
<1>2. \A q \in Callers : WillForce(q) => WillForce(q)'
  BY DEF WillForce, Proceeds
<1>3. page_cache' = "stale" /\ session'.in
          => session'.force \/ \E q \in Callers : WillForce(q)'
  BY <1>1, <1>2 DEF PagesKnown, Proceeds
<1>4. ASSUME NEW q \in Callers
      PROVE  /\ req'[q].op # "dashboard" => page'[q] = "none"
             /\ req'[q].op \notin {"none", "dashboard", "unverify"} =>
                  (session'.force => req'[q].force)
             /\ req'[q].op = "dashboard" =>
                  IF req'[q].pc \in {"begin", "page"}
                  THEN (req'[q].force <=> session'.force) /\ ~req'[q].saves
                  ELSE /\ page_cache' # "stale"
                       /\ page'[q] = IF req'[q].pc = "read_page" THEN "none" ELSE "fresh"
  <2>1. CASE q = r
    BY <1>1, <2>1 DEF PagesKnown, Proceeds
  <2>2. CASE q # r
    BY <1>1, <2>2 DEF PagesKnown, Proceeds
  <2> QED
    BY <2>1, <2>2
<1> QED
  BY <1>3, <1>4 DEF PagesKnown
-----------------------------------------------------------------------------
(* The fields of a request after its step. *)

OthersKept(r) == \A q \in Callers : q # r => req'[q] = req[q] /\ call'[q] = call[q]

LEMMA AfterGoes ==
    ASSUME DeliveryTypeOK, NEW r \in Callers, NEW pc, Goes(r, pc)
    PROVE  /\ \A q \in Callers : q # r => req'[q] = req[q]
           /\ req'[r].op = req[r].op /\ req'[r].codes = req[r].codes
           /\ req'[r].force = req[r].force /\ req'[r].kept = req[r].kept
           /\ req'[r].saves = req[r].saves /\ req'[r].row = req[r].row
           /\ req'[r].seen = req[r].seen /\ req'[r].data = req[r].data
           /\ req'[r].pc = pc
  BY DEF DeliveryTypeOK, Request, Goes

LEMMA AfterGoesWith ==
    ASSUME DeliveryTypeOK, NEW r \in Callers, NEW pc, NEW data, GoesWith(r, pc, data)
    PROVE  /\ \A q \in Callers : q # r => req'[q] = req[q]
           /\ req'[r].op = req[r].op /\ req'[r].codes = req[r].codes
           /\ req'[r].force = req[r].force /\ req'[r].kept = req[r].kept
           /\ req'[r].saves = req[r].saves /\ req'[r].row = req[r].row
           /\ req'[r].seen = req[r].seen
           /\ req'[r].pc = pc /\ req'[r].data = data
  BY DEF DeliveryTypeOK, Request, GoesWith

LEMMA AfterSaving ==
    ASSUME DeliveryTypeOK, NEW r \in Callers, Saving(r)
    PROVE  /\ \A q \in Callers : q # r => req'[q] = req[q]
           /\ req'[r].op = req[r].op /\ req'[r].codes = req[r].codes
           /\ req'[r].kept = req[r].kept /\ req'[r].row = req[r].row
           /\ req'[r].seen = req[r].seen /\ req'[r].data = req[r].data
           /\ req'[r].pc = "save" /\ req'[r].saves = TRUE /\ req'[r].force = TRUE
  BY DEF DeliveryTypeOK, Request, Saving

LEMMA AfterCall ==
    ASSUME DeliveryTypeOK, NEW r \in Callers, NEW pc, NEW value, CallTo(r, pc, value)
    PROVE  /\ \A q \in Callers : q # r => call'[q] = call[q]
           /\ call'[r].pc = pc /\ call'[r].value = value
  BY DEF DeliveryTypeOK, CacheTypeOK, CallTo

\* Somebody holds the lock if r does.
LEMMA HolderIs ==
    ASSUME NEW r \in Callers, call'[r].pc \in {"recheck", "compute", "fill", "release"}
    PROVE  Holders' # {}
  BY DEF Holders

\* Looking at the entry again, or before.
LEMMA RequestStays ==
    ASSUME DeliveryInv, NEW r \in Callers, req[r].op # "none", req' = req, session' = session,
           mishaps \subseteq mishaps',
           UNCHANGED <<rowVars, pageVars>>, req[r].pc = "asked",
           req[r].op \in {"download", "email"},
           \A q \in Callers : q # r => call'[q] = call[q],
           call'[r].pc # "none",
           mishaps' = {} =>
             /\ UNCHANGED sentVars
             /\ \A v \in entry' : FlagsTrue(v) /\ EmailedToo(v, req[r].codes) /\ SetupTrue(v)
             /\ CallKnows(r)'
             /\ lock' => Holders' # {}
    PROVE  DeliveryInv'
<1>1. Proceeds(r)
  BY DEF Proceeds
<1>2. active' = active /\ issued' = issued /\ flags' = flags /\ verified' = verified
  BY DEF rowVars
<1>3. Staged'
  <2>1. Stage(req'[r].op, req'[r].pc)
    BY DEF DeliveryInv, Staged
  <2> QED
    BY <1>1, <1>2, <2>1, StagedOn DEF DeliveryInv, Staged
<1>4. Calm' => PagesKnown'
  <2>1. Calm' => Calm
    BY CalmIsInherited
  <2>2. WillForce(r) => WillForce(r)'
    BY DEF WillForce
  <2> QED
    BY <1>1, <2>1, <2>2, PagesAside DEF DeliveryInv, Calm
<1>5. ASSUME mishaps' = {} PROVE emails' <= 1 /\ Stands(r)' /\ (lock' => Holders' # {})
  <2>1. mishaps = {} /\ emails' = emails
    BY <1>5 DEF sentVars
  <2>2. UnderWay(r) /\ KnownBy(r)
    BY <2>1 DEF DeliveryInv
  <2>3. UnderWay(r)'
    BY <1>2, <1>5, <2>1, <2>2
       DEF UnderWay, OnRecord, Replacing, Running, Generating, FlagsTrue, EmailedToo, SetupTrue
  <2>4. KnownBy(r)'
    BY <1>2, <2>2 DEF KnownBy, Running, Generating, FlagsTrue, EmailedToo, SetupTrue
  <2> QED
    BY <1>5, <2>1, <2>3, <2>4 DEF DeliveryInv, Stands
<1> QED
  BY <1>1, <1>3, <1>4, <1>5, InvGoesOn

\* What a request that asks the cache may count on.
LEMMA AskingKnows ==
    ASSUME DeliveryInv, mishaps = {}, NEW r \in Callers, call[r].pc # "none"
    PROVE  /\ req[r].op # "none"
           /\ \A v \in entry : FlagsTrue(v) /\ EmailedToo(v, req[r].codes) /\ SetupTrue(v)
           /\ CallKnows(r)
           /\ lock => call[r].pc \in {"recheck", "compute", "fill", "release"}
<1>1. req[r].pc = "asked" /\ req[r].op \in {"download", "email"}
  BY Asking DEF DeliveryInv
<1>2. UnderWay(r) /\ CallKnows(r) /\ Staged /\ InTurn /\ (lock => Holders # {})
  BY InvCalm
<1>3. \A v \in entry : FlagsTrue(v) /\ EmailedToo(v, req[r].codes) /\ SetupTrue(v)
  BY <1>1, <1>2 DEF UnderWay, Generating, Running
<1>4. lock => call[r].pc \in {"recheck", "compute", "fill", "release"}
  BY <1>1, <1>2, LockIsMine
<1> QED
  BY <1>1, <1>2, <1>3, <1>4

LEMMA CacheAloneInv ==
    ASSUME DeliveryTypeOK, DeliveryInv, NEW r \in Callers, CacheAlone(r)
    PROVE  DeliveryInv'
<1>0. call[r].pc # "none"
  BY DEF CacheAlone, CacheStep, Lookup, Acquire, Recheck, Fill, Release, CallAt
<1>1. req[r].pc = "asked" /\ req[r].op \in {"download", "email"}
  BY <1>0, Asking DEF DeliveryInv
<1>2. req' = req /\ session' = session /\ mishaps' = mishaps
      /\ UNCHANGED <<rowVars, pageVars, sentVars>>
  BY DEF CacheAlone, Unrowed, Unsent
<1>3. active' = active /\ issued' = issued /\ flags' = flags /\ verified' = verified
  BY <1>2 DEF rowVars
<1>4. PICK pc, value : pc \in CallPcs /\ CallTo(r, pc, value)
  BY DEF CacheAlone, CacheStep, Lookup, Acquire, Recheck, Fill, Release, CallPcs
<1>5. /\ \A q \in Callers : q # r => call'[q] = call[q]
      /\ call'[r].pc = pc /\ call'[r].value = value
  BY <1>4, AfterCall
<1>6. call'[r].pc # "none"
  BY <1>5, AfterCall DEF CacheAlone, CacheStep, Lookup, Acquire, Recheck, Fill, Release
<1>7. ASSUME mishaps' = {}
      PROVE  /\ \A v \in entry' : FlagsTrue(v) /\ EmailedToo(v, req[r].codes) /\ SetupTrue(v)
             /\ CallKnows(r)'
             /\ lock' => Holders' # {}
  <2>0. /\ \A v \in entry : FlagsTrue(v) /\ EmailedToo(v, req[r].codes) /\ SetupTrue(v)
        /\ CallKnows(r)
        /\ lock => call[r].pc \in {"recheck", "compute", "fill", "release"}
    BY <1>0, <1>2, <1>7, AskingKnows
  <2> DEFINE Known(S) == \A v \in S : FlagsTrue(v) /\ EmailedToo(v, req[r].codes) /\ SetupTrue(v)
  <2>A. Known(call'[r].value) =>
          (\A v \in call[r].value : FlagsTrue(v) /\ EmailedToo(v, req[r].codes) /\ SetupTrue(v))'
    BY <1>2, <1>3 DEF FlagsTrue, EmailedToo, SetupTrue
  <2>B. Known(entry) /\ Known(call[r].value) /\ Known({})
    BY <2>0 DEF CallKnows
  <2> HIDE DEF Known
  <2>1. CASE Lookup(r)
    <3>1. CallAt(r, "lookup") /\ entry' = entry /\ lock' = lock
          /\ CallTo(r, IF entry = {} THEN "acquire" ELSE "returned", entry)
      BY <2>1 DEF Lookup
    <3>2. call'[r].pc = (IF entry = {} THEN "acquire" ELSE "returned") /\ call'[r].value = entry
      BY <3>1, AfterCall
    <3>3. CallKnows(r)'
      BY <2>A, <2>B, <3>2 DEF CallKnows, CallAt
    <3>4. ~lock'
      BY <2>0, <3>1 DEF CallAt
    <3> QED
      BY <2>0, <3>1, <3>3, <3>4
  <2>2. CASE Acquire(r)
    <3>1. CallAt(r, "acquire") /\ entry' = entry
          /\ CallTo(r, IF lock THEN "returned" ELSE "recheck", {})
      BY <2>2 DEF Acquire
    <3>2. ~lock
      BY <2>0, <3>1 DEF CallAt
    <3>3. call'[r].pc = "recheck" /\ call'[r].value = {}
      BY <3>1, <3>2, AfterCall
    <3>4. CallKnows(r)'
      BY <3>3 DEF CallKnows, CallAt
    <3>5. Holders' # {}
      BY <3>3, HolderIs
    <3> QED
      BY <2>0, <3>1, <3>4, <3>5
  <2>3. CASE Recheck(r)
    <3>1. entry' = entry
          /\ CallTo(r, IF entry = {} THEN "compute" ELSE "release", entry)
      BY <2>3 DEF Recheck
    <3>2. call'[r].pc = (IF entry = {} THEN "compute" ELSE "release") /\ call'[r].value = entry
      BY <3>1, AfterCall
    <3>3. CallKnows(r)'
      BY <2>A, <2>B, <3>2 DEF CallKnows, CallAt
    <3>4. Holders' # {}
      BY <3>2, HolderIs
    <3> QED
      BY <2>0, <3>1, <3>3, <3>4
  <2>4. CASE Fill(r)
    <3>1. CallAt(r, "fill") /\ entry' = call[r].value
          /\ CallTo(r, "release", call[r].value)
      BY <2>4 DEF Fill
    <3>2. call'[r].pc = "release" /\ call'[r].value = call[r].value
      BY <3>1, AfterCall
    <3>3. CallKnows(r)'
      BY <2>0, <2>A, <2>B, <3>1, <3>2 DEF CallKnows, CallAt
    <3>4. Holders' # {}
      BY <3>2, HolderIs
    <3>5. \A v \in entry' : FlagsTrue(v) /\ EmailedToo(v, req[r].codes) /\ SetupTrue(v)
      BY <2>B, <3>1 DEF Known
    <3> QED
      BY <3>3, <3>4, <3>5
  <2>5. CASE Release(r)
    <3>1. CallAt(r, "release") /\ entry' = entry /\ lock' = FALSE
          /\ CallTo(r, "returned", call[r].value)
      BY <2>5 DEF Release
    <3>2. call'[r].pc = "returned" /\ call'[r].value = call[r].value
      BY <3>1, AfterCall
    <3>3. CallKnows(r)'
      BY <1>3, <2>0, <2>A, <2>B, <3>1, <3>2 DEF CallKnows, CallAt
    <3> QED
      BY <2>0, <3>1, <3>3
  <2> QED
    BY <2>1, <2>2, <2>3, <2>4, <2>5 DEF CacheAlone, CacheStep
<1> QED
  BY <1>1, <1>2, <1>5, <1>6, <1>7, RequestStays

LEMMA ComputeInv ==
    ASSUME DeliveryTypeOK, DeliveryInv, NEW r \in Callers, ComputeValue(r)
    PROVE  DeliveryInv'
<1> DEFINE value == IF active = 0 THEN {} ELSE {Now(flags, "absent")}
<1>0. call[r].pc = "compute"
  BY DEF ComputeValue, Compute, CallAt
<1>1. req[r].pc = "asked" /\ req[r].op \in {"download", "email"}
  BY <1>0, Asking DEF DeliveryInv
<1>2. req' = req /\ session' = session /\ mishaps' = mishaps
      /\ UNCHANGED <<rowVars, pageVars, sentVars>>
  BY DEF ComputeValue, Unrowed, Unsent
<1>3. active' = active /\ issued' = issued /\ flags' = flags /\ verified' = verified
  BY <1>2 DEF rowVars
<1>4. entry' = entry /\ CallTo(r, IF value = {} THEN "release" ELSE "fill", value)
  BY DEF ComputeValue, Compute
<1>5. \A v \in value : v.flags = flags /\ v.setup = "absent"
  BY DEF Now
<1>6. value = {} <=> active = 0
  OBVIOUS
<1> HIDE DEF value
<1>7. /\ \A q \in Callers : q # r => call'[q] = call[q]
      /\ call'[r].pc = (IF value = {} THEN "release" ELSE "fill") /\ call'[r].value = value
  BY <1>4, AfterCall
<1>8. CallKnows(r)'
  BY <1>2, <1>3, <1>5, <1>6, <1>7 DEF CallKnows, CallAt, FlagsTrue, EmailedToo, SetupTrue
<1>9. Holders' # {}
  BY <1>7, HolderIs
<1>10. mishaps' = {} => \A v \in entry' : FlagsTrue(v) /\ EmailedToo(v, req[r].codes) /\ SetupTrue(v)
  BY <1>0, <1>2, <1>4, AskingKnows
<1> QED
  BY <1>1, <1>2, <1>7, <1>8, <1>9, <1>10, RequestStays
-----------------------------------------------------------------------------
(* The steps that do not ask the cache for a value. *)

LEMMA StepByItself ==
    ASSUME DeliveryInv, NEW r \in Callers, Proceeds(r), call' = call, lock' = lock,
           req[r].pc # "asked", req'[r].pc # "asked",
           req[r].op = "unverify" => req'[r].saves = req[r].saves,
           active' \in {0, issued'},
           Stage(req'[r].op, req'[r].pc),
           Calm' => PagesKnown',
           mishaps' = {} => emails' <= 1 /\ UnderWay(r)' /\ KnownBy(r)'
    PROVE  DeliveryInv'
<1>1. call[r] = NoCall
  BY DEF DeliveryInv, Staged
<1>2. Staged'
  BY <1>1, StagedOn DEF DeliveryInv
<1>3. CallKnows(r)'
  BY <1>1 DEF CallKnows, CallAt, NoCall
<1>4. mishaps' = {} => (lock' => Holders' # {})
  <2>1. mishaps' = {} => mishaps = {}
    BY DEF Proceeds
  <2>2. Holders' = Holders
    BY DEF Holders
  <2> QED
    BY <2>1, <2>2 DEF DeliveryInv
<1> QED
  BY <1>2, <1>3, <1>4, InvGoesOn DEF Stands

\* What such a step starts from.
LEMMA StepStarts ==
    ASSUME DeliveryInv, NEW r \in Callers
    PROVE  /\ Stage(req[r].op, req[r].pc)
           /\ active \in {0, issued}
           /\ Calm => InTurn /\ PagesKnown
           /\ mishaps = {} => Calm /\ emails <= 1 /\ UnderWay(r) /\ KnownBy(r)
  BY DEF DeliveryInv, Staged, Calm

LEMMA SendEmailInv ==
    ASSUME DeliveryTypeOK, DeliveryInv, NEW r \in Callers, SendEmail(r)
    PROVE  DeliveryInv'
<1>1. req[r].op = "email" /\ req[r].pc = "send" /\ Goes(r, "find")
  BY DEF SendEmail, Running
<1>2. /\ active' = active /\ issued' = issued /\ flags' = flags /\ verified' = verified
      /\ session' = session /\ UNCHANGED pageVars /\ mishaps' = mishaps
      /\ entry' = entry /\ lock' = lock /\ call' = call
  BY DEF SendEmail, Unrowed, rowVars, Uncached, cacheVars
<1>3. /\ \A q \in Callers : q # r => req'[q] = req[q]
      /\ req'[r].op = "email" /\ req'[r].codes = req[r].codes
      /\ req'[r].force = req[r].force /\ req'[r].kept = req[r].kept
      /\ req'[r].saves = req[r].saves /\ req'[r].row = req[r].row
      /\ req'[r].seen = req[r].seen /\ req'[r].data = req[r].data
      /\ req'[r].pc = "find"
  BY <1>1, AfterGoes
<1>4. Proceeds(r)
  BY <1>1, <1>2, <1>3 DEF Proceeds
<1>5. Stage(req'[r].op, req'[r].pc)
  BY <1>3 DEF Stage
<1>6. ASSUME Calm' PROVE PagesKnown'
  BY <1>1, <1>2, <1>3, <1>4, <1>6, StepStarts, PagesAside DEF WillForce, Calm
<1>7. ASSUME mishaps' = {} PROVE emails' <= 1 /\ UnderWay(r)' /\ KnownBy(r)'
  <2>1. emails <= 1 /\ UnderWay(r) /\ KnownBy(r)
    BY <1>2, <1>7, StepStarts
  <2>2. req[r].codes # 0 /\ "emailed" \notin flags
    BY <1>1, <2>1 DEF KnownBy, Running
  <2>3. emails = 0
    BY <1>1, <2>1, <2>2 DEF UnderWay, OnRecord, DeliveryTypeOK
  <2>4. emails' <= 1
    BY <2>3 DEF SendEmail, OneMore
  <2>5. UnderWay(r)'
    BY <1>1, <1>2, <1>3, <2>1
       DEF UnderWay, Replacing, Running, Generating, FlagsTrue, EmailedToo, SetupTrue
  <2>6. KnownBy(r)'
    BY <1>1, <1>2, <1>3, <2>1, <2>2
       DEF KnownBy, Running, Generating, FlagsTrue, EmailedToo, SetupTrue
  <2> QED
    BY <2>4, <2>5, <2>6
<1> QED
  BY <1>1, <1>2, <1>3, <1>4, <1>5, <1>6, <1>7, StepByItself, StepStarts

LEMMA PutDownloadedInv ==
    ASSUME DeliveryTypeOK, DeliveryInv, NEW r \in Callers, PutDownloaded(r)
    PROVE  DeliveryInv'
<1>1. req[r].op = "download" /\ req[r].pc = "put" /\ Saving(r)
  BY DEF PutDownloaded, Running
<1>2. /\ active' = active /\ issued' = issued /\ flags' = flags /\ verified' = verified
      /\ session' = session /\ UNCHANGED pageVars /\ mishaps' = mishaps /\ emails' = emails
      /\ entry' = entry /\ lock' = lock /\ call' = call
  BY DEF PutDownloaded, Unrowed, rowVars, Uncached, cacheVars
<1>3. /\ \A q \in Callers : q # r => req'[q] = req[q]
      /\ req'[r].op = "download" /\ req'[r].codes = req[r].codes
      /\ req'[r].kept = req[r].kept /\ req'[r].row = req[r].row
      /\ req'[r].seen = req[r].seen /\ req'[r].data = req[r].data
      /\ req'[r].pc = "save" /\ req'[r].saves = TRUE /\ req'[r].force = TRUE
  BY <1>1, AfterSaving
<1>4. Proceeds(r)
  BY <1>1, <1>2, <1>3 DEF Proceeds
<1>5. Stage(req'[r].op, req'[r].pc)
  BY <1>3 DEF Stage
<1>6. ASSUME Calm' PROVE PagesKnown'
  BY <1>1, <1>2, <1>3, <1>4, <1>6, StepStarts, PagesAside DEF WillForce, Calm
<1>7. ASSUME mishaps' = {} PROVE emails' <= 1 /\ UnderWay(r)' /\ KnownBy(r)'
  <2>1. emails <= 1 /\ UnderWay(r) /\ KnownBy(r)
    BY <1>2, <1>7, StepStarts
  <2>2. UnderWay(r)'
    BY <1>1, <1>2, <1>3, <2>1
       DEF UnderWay, Replacing, Running, Generating, FlagsTrue, EmailedToo, SetupTrue, OnRecord
  <2>3. KnownBy(r)'
    BY <1>1, <1>2, <1>3, <2>1
       DEF KnownBy, Running, Generating, FlagsTrue, EmailedToo, SetupTrue
  <2> QED
    BY <1>2, <2>1, <2>2, <2>3
<1> QED
  BY <1>1, <1>2, <1>3, <1>4, <1>5, <1>6, <1>7, StepByItself, StepStarts

LEMMA PutMarkedInv ==
    ASSUME DeliveryTypeOK, DeliveryInv, NEW r \in Callers, PutMarked(r)
    PROVE  DeliveryInv'
<1>1. req[r].op \in {"email", "viewed"} /\ req[r].pc = "put" /\ Saving(r)
  BY DEF PutMarked, Running
<1>2. /\ active' = active /\ issued' = issued /\ flags' = flags /\ verified' = verified
      /\ session' = session /\ UNCHANGED pageVars /\ mishaps' = mishaps /\ emails' = emails
      /\ entry' = {Now(req[r].seen, "absent")} /\ lock' = lock /\ call' = call
  BY DEF PutMarked, Put, Unrowed, rowVars, Unsent, sentVars
<1>3. /\ \A q \in Callers : q # r => req'[q] = req[q]
      /\ req'[r].op = req[r].op /\ req'[r].codes = req[r].codes
      /\ req'[r].kept = req[r].kept /\ req'[r].row = req[r].row
      /\ req'[r].seen = req[r].seen /\ req'[r].data = req[r].data
      /\ req'[r].pc = "save" /\ req'[r].saves = TRUE /\ req'[r].force = TRUE
  BY <1>1, AfterSaving
<1>4. Proceeds(r)
  BY <1>1, <1>2, <1>3 DEF Proceeds
<1>5. Stage(req'[r].op, req'[r].pc)
  BY <1>1, <1>3 DEF Stage
<1>6. ASSUME Calm' PROVE PagesKnown'
  BY <1>1, <1>2, <1>3, <1>4, <1>6, StepStarts, PagesAside DEF WillForce, Calm
<1>7. ASSUME mishaps' = {} PROVE emails' <= 1 /\ UnderWay(r)' /\ KnownBy(r)'
  <2>1. emails <= 1 /\ UnderWay(r) /\ KnownBy(r)
    BY <1>2, <1>7, StepStarts
  <2>2. req[r].seen = flags
    BY <1>1, <2>1 DEF KnownBy
  <2>3. \A v \in entry' : v.flags = flags /\ v.setup = "absent"
    BY <1>2, <2>2 DEF Now
  <2>4. UnderWay(r)'
    BY <1>1, <1>2, <1>3, <2>1, <2>3
       DEF UnderWay, Replacing, Running, Generating, FlagsTrue, EmailedToo, SetupTrue, OnRecord
  <2>5. KnownBy(r)'
    BY <1>1, <1>2, <1>3, <2>1
       DEF KnownBy, Running, Generating, FlagsTrue, EmailedToo, SetupTrue
  <2> QED
    BY <1>2, <2>1, <2>4, <2>5
<1> QED
  BY <1>1, <1>2, <1>3, <1>4, <1>5, <1>6, <1>7, StepByItself, StepStarts

LEMMA MarkInv ==
    ASSUME DeliveryTypeOK, DeliveryInv, NEW r \in Callers, Mark(r)
    PROVE  DeliveryInv'
<1> DEFINE marked == FlagOf(req[r].op)
<1>1. req[r].op \in {"download", "email", "viewed"} /\ req[r].pc = "mark"
  BY StepStarts DEF Mark, Stage
<1>2. /\ active' = active /\ issued' = issued /\ verified' = verified
      /\ session' = session /\ HistoryChanges /\ mishaps' = mishaps /\ emails' = emails
      /\ entry' = entry /\ lock' = lock /\ call' = call
      /\ flags' = flags \cup (IF req[r].row = issued THEN marked ELSE {})
  BY DEF Mark, Unsent, sentVars, Uncached, cacheVars
<1>3. /\ \A q \in Callers : q # r => req'[q] = req[q]
      /\ req'[r].op = req[r].op /\ req'[r].codes = req[r].codes
      /\ req'[r].kept = req[r].kept /\ req'[r].row = req[r].row
      /\ req'[r].force = req[r].force /\ req'[r].saves = req[r].saves
      /\ req'[r].seen = req[r].seen \cup marked /\ req'[r].data = req[r].data
      /\ req'[r].pc = "put"
  BY DEF Mark, DeliveryTypeOK, Request
<1>a. /\ req[r].op = "email" => marked = {"emailed"}
      /\ req[r].op # "email" => "emailed" \notin marked
  BY <1>1 DEF FlagOf
<1> HIDE DEF marked
<1>4. Proceeds(r)
  BY <1>1, <1>2, <1>3 DEF Proceeds
<1>5. Stage(req'[r].op, req'[r].pc)
  BY <1>1, <1>3 DEF Stage
<1>6. ASSUME Calm' PROVE PagesKnown'
  <2>1. WillForce(r)'
    BY <1>1, <1>3 DEF WillForce
  <2>2. InTurn /\ PagesKnown
    BY <1>2, <1>6, StepStarts DEF Calm
  <2> QED
    BY <1>1, <1>2, <1>3, <1>4, <2>1, <2>2, PagesHistory
<1>7. ASSUME mishaps' = {} PROVE emails' <= 1 /\ UnderWay(r)' /\ KnownBy(r)'
  <2>1. emails <= 1 /\ UnderWay(r) /\ KnownBy(r)
    BY <1>2, <1>7, StepStarts
  <2>2. req[r].seen = flags /\ req[r].row = issued
    BY <1>1, <2>1, StepStarts DEF KnownBy
  <2>3. flags' = flags \cup marked
    BY <1>2, <2>2
  <2>4. "emailed" \in flags' <=> req[r].op = "email" \/ "emailed" \in flags
    BY <1>a, <2>3
  <2>5. UnderWay(r)'
    <3>1. req'[r].codes = session'.codes \/ (Replacing(r)' /\ req'[r].pc = "put")
      BY <1>1, <1>2, <1>3, <2>1 DEF UnderWay, Replacing
    <3>2. req'[r].codes \in {0, active'}
      BY <1>1, <1>2, <1>3, <2>1 DEF UnderWay, Running
    <3>3. OnRecord(req[r].codes)'
      BY <1>1, <1>2, <1>3, <2>1, <2>4 DEF UnderWay, OnRecord
    <3>4. \A v \in entry : FlagsTrue(v) /\ SetupTrue(v) /\ EmailedToo(v, req[r].codes)
      BY <1>1, <2>1 DEF UnderWay, Generating, Running
    <3>5. \A v \in entry' : FlagsTrue(v)' /\ SetupTrue(v)'
      BY <1>2, <2>3, <3>4 DEF FlagsTrue, SetupTrue
    <3>6. (\A v \in entry : EmailedToo(v, req[r].codes) \/ Running(r, "email", "put"))'
      BY <1>1, <1>2, <1>3, <2>4, <3>4 DEF EmailedToo, Running
    <3> QED
      BY <3>1, <3>2, <3>3, <3>5, <3>6 DEF UnderWay
  <2>6. KnownBy(r)'
    <3>2. req'[r].data = {}
      BY <1>1, <1>3, <2>1 DEF KnownBy
    <3>3. req'[r].seen = flags'
      BY <1>3, <2>2, <2>3
    <3>4. req'[r].op = "email" => "emailed" \in flags'
      BY <1>3, <2>4
    <3> QED
      BY <1>1, <1>3, <3>2, <3>3, <3>4 DEF KnownBy, Running, Generating
  <2> QED
    BY <1>2, <2>1, <2>5, <2>6
<1> QED
  BY <1>1, <1>2, <1>3, <1>4, <1>5, <1>6, <1>7, StepByItself, StepStarts
-----------------------------------------------------------------------------
(* The answer of the cache, and the batch that is looked for. *)

LEMMA ChecksInv ==
    ASSUME DeliveryTypeOK, DeliveryInv, NEW r \in Callers, Checks(r)
    PROVE  DeliveryInv'
<1> DEFINE ends == Refused(r) \/ req[r].codes = 0
<1>0. call[r].pc = "returned" /\ req[r].pc = "asked"
  BY DEF Checks, CallAt
<1>1. req[r].op \in {"download", "email"}
  BY <1>0, Asking DEF DeliveryInv
<1>2. /\ active' = active /\ issued' = issued /\ flags' = flags /\ verified' = verified
      /\ session' = session /\ UNCHANGED pageVars /\ mishaps' = mishaps /\ emails' = emails
      /\ entry' = entry /\ lock' = lock
  BY DEF Checks, Unrowed, rowVars, Unsent, sentVars, pageVars
<1>3. /\ \A q \in Callers : q # r => call'[q] = call[q]
      /\ call'[r] = NoCall
  BY DEF Checks, LeaveCall, DeliveryTypeOK, CacheTypeOK
<1>4. PICK saves \in BOOLEAN :
        req' = [req EXCEPT ![r].pc = IF ends THEN "save" ELSE "send", ![r].saves = saves]
  BY DEF Checks
<1>5. PICK pc \in {"save", "send"} : /\ pc = (IF ends THEN "save" ELSE "send")
                                     /\ req' = [req EXCEPT ![r].pc = pc, ![r].saves = saves]
  BY <1>4
<1>6. /\ \A q \in Callers : q # r => req'[q] = req[q]
      /\ req'[r].op = req[r].op /\ req'[r].codes = req[r].codes
      /\ req'[r].kept = req[r].kept /\ req'[r].row = req[r].row
      /\ req'[r].force = req[r].force
      /\ req'[r].seen = req[r].seen /\ req'[r].data = req[r].data
      /\ req'[r].pc = pc
  BY <1>5 DEF DeliveryTypeOK, Request
<1>7. pc = "send" => ~Refused(r) /\ req[r].codes # 0
  BY <1>5
<1> HIDE DEF ends
<1>8. Proceeds(r)
  BY <1>1, <1>2, <1>3, <1>6 DEF Proceeds
<1>9. Staged'
  <2>1. Stage(req'[r].op, req'[r].pc)
    BY <1>1, <1>6 DEF Stage
  <2> QED
    BY <1>2, <1>3, <1>6, <1>8, <2>1, StagedOn, StepStarts DEF DeliveryInv
<1>10. ASSUME Calm' PROVE PagesKnown'
  <2>1. WillForce(r) => WillForce(r)'
    BY <1>0 DEF WillForce
  <2> QED
    BY <1>1, <1>2, <1>6, <1>8, <1>10, <2>1, StepStarts, PagesAside DEF Calm
<1>11. ASSUME mishaps' = {} PROVE emails' <= 1 /\ Stands(r)' /\ (lock' => Holders' # {})
  <2>1. emails <= 1 /\ UnderWay(r) /\ KnownBy(r) /\ CallKnows(r)
    BY <1>2, <1>11, StepStarts DEF DeliveryInv
  <2>2. UnderWay(r)'
    BY <1>0, <1>1, <1>2, <1>6, <2>1
       DEF UnderWay, Replacing, Running, Generating, FlagsTrue, EmailedToo, SetupTrue, OnRecord
  <2>3. ASSUME req[r].op = "email", pc = "send" PROVE req[r].codes # 0 /\ "emailed" \notin flags
    <3>1. ~Refused(r) /\ req[r].codes # 0
      BY <1>7, <2>3
    <3>2. active # 0
      BY <1>0, <1>1, <2>1, <3>1 DEF UnderWay, Running
    <3>3. PICK v \in call[r].value : TRUE
      BY <1>0, <2>1, <3>2 DEF CallKnows
    <3>4. FlagOf("email") = {"emailed"}
      BY DEF FlagOf
    <3>5. "emailed" \notin v.flags
      BY <2>3, <3>1, <3>3, <3>4 DEF Refused
    <3> QED
      BY <2>1, <3>1, <3>3, <3>5 DEF CallKnows, EmailedToo
  <2>4. KnownBy(r)'
    BY <1>0, <1>1, <1>2, <1>5, <1>6, <2>1, <2>3 DEF KnownBy, Running
  <2>5. CallKnows(r)'
    BY <1>3 DEF CallKnows, CallAt, NoCall
  <2>6. ~lock
    BY <1>0, <1>2, <1>11, AskingKnows
  <2> QED
    BY <1>2, <2>1, <2>2, <2>4, <2>5, <2>6 DEF Stands
<1> QED
  BY <1>1, <1>8, <1>9, <1>10, <1>11, InvGoesOn

\* A request is over: what rests is what it leaves behind.
LEMMA InvEnds ==
    ASSUME DeliveryInv, NEW r \in Callers, req[r].op # "none",
           req' = Ended(r), DeliveryTypeOK, call' = call, lock' = lock, mishaps' = mishaps,
           req[r].pc # "asked", active' \in {0, issued'},
           Calm' => (~session'.in => session'.codes = 0),
           Calm' => PagesKnown',
           mishaps' = {} =>
             /\ emails' <= 1
             /\ session'.codes \in {0, active'}
             /\ OnRecord(session.codes)'
             /\ (\A v \in entry : FlagsTrue(v) /\ EmailedToo(v, session.codes) /\ SetupTrue(v))'
    PROVE  DeliveryInv'
<1>1. req'[r] = NoRequest /\ \A q \in Callers : q # r => req'[q] = req[q]
  BY DEF Ended, DeliveryTypeOK
<1>2. call[r] = NoCall
  BY DEF DeliveryInv, Staged
<1>3. Staged'
  <2>1. Stage("none", "begin")
    BY DEF Stage
  <2> SUFFICES ASSUME NEW q \in Callers
               PROVE  /\ Stage(req'[q].op, req'[q].pc)
                      /\ IF req'[q].pc = "asked" THEN call'[q].pc # "none"
                         ELSE call'[q] = NoCall
    BY DEF Staged
  <2>2. CASE q = r
    BY <1>1, <1>2, <2>1, <2>2 DEF NoRequest
  <2>3. CASE q # r
    BY <1>1, <2>3 DEF DeliveryInv, Staged
  <2> QED
    BY <2>2, <2>3
<1>4. Calm' => Calm
  BY DEF Calm
<1>5. ASSUME Calm', NEW q \in Callers PROVE req'[q].op = "none"
  BY <1>1, <1>4, <1>5 DEF NoRequest, DeliveryInv, InTurn, Calm
<1>6. ASSUME Calm' PROVE InTurn'
  <2>1. ~session'.in => session'.codes = 0
    BY <1>6
  <2> QED
    BY <1>5, <1>6, <2>1 DEF InTurn
<1>7. ASSUME mishaps' = {} PROVE AtRest'
  BY <1>7 DEF AtRest
<1>8. ASSUME mishaps' = {}, NEW q \in Callers PROVE Stands(q)'
  <2>1. req'[q].op = "none"
    BY <1>5, <1>8 DEF Calm
  <2>2. req'[q].data = {}
    <3>1. CASE q = r
      BY <1>1, <3>1 DEF NoRequest
    <3>2. CASE q # r
      <4>1. req[q].op = "none" /\ Stands(q)
        BY <1>1, <1>8, <2>1, <3>2 DEF DeliveryInv, Stands
      <4> QED
        BY <1>1, <3>2, <4>1, DataAtRest DEF DeliveryInv
    <3> QED
      BY <3>1, <3>2
  <2> QED
    BY <1>3, <2>1, <2>2, OthersStand
<1>9. mishaps' = {} => (lock' => Holders' # {})
  BY DEF DeliveryInv, Holders
<1> QED
  BY <1>3, <1>6, <1>7, <1>8, <1>9 DEF DeliveryInv, Stands, Calm

LEMMA FindBatchInv ==
    ASSUME DeliveryTypeOK, DeliveryInv, NEW r \in Callers, FindBatch(r)
    PROVE  DeliveryInv'
<1>1. \/ req[r].op = "email" /\ req[r].pc = "find"
      \/ req[r].op = "download" /\ req[r].pc = "send"
      \/ req[r].op = "viewed" /\ req[r].pc = "find"
  BY DEF FindBatch, Running
<1>2. /\ active' = active /\ issued' = issued /\ flags' = flags /\ verified' = verified
      /\ session' = session /\ UNCHANGED pageVars /\ mishaps' = mishaps /\ emails' = emails
      /\ entry' = entry /\ lock' = lock /\ call' = call
  BY DEF FindBatch, Unrowed, rowVars, Unsent, sentVars, Uncached, cacheVars
<1>3. CASE active = 0
  <2>1. req' = Ended(r)
    BY <1>3 DEF FindBatch
  <2>2. ASSUME Calm' PROVE PagesKnown'
    <3>1. InTurn /\ PagesKnown
      BY <1>2, <2>2, StepStarts DEF Calm
    <3>2. \A q \in Callers : ~WillForce(q)
      BY <1>1, <3>1 DEF InTurn, WillForce
    <3>3. \A q \in Callers : page[q] = "none" /\ req'[q].op = "none"
      BY <1>1, <2>1, <3>1 DEF InTurn, PagesKnown, Ended, NoRequest, DeliveryTypeOK
    <3>4. page_cache' = "stale" /\ session'.in => session'.force
      BY <1>2, <3>1, <3>2 DEF PagesKnown, pageVars
    <3> QED
      BY <1>2, <3>3, <3>4 DEF PagesKnown, pageVars
  <2>3. ASSUME mishaps' = {}
        PROVE  /\ emails' <= 1
               /\ session'.codes \in {0, active'}
               /\ OnRecord(session.codes)'
               /\ (\A v \in entry : FlagsTrue(v) /\ EmailedToo(v, session.codes) /\ SetupTrue(v))'
    <3>1. emails <= 1 /\ UnderWay(r) /\ KnownBy(r)
      BY <1>2, <2>3, StepStarts
    <3>2. req[r].codes = session.codes /\ req[r].codes = 0
      BY <1>1, <1>3, <3>1 DEF UnderWay, Replacing, Running
    <3>3. \A v \in entry : FlagsTrue(v) /\ SetupTrue(v)
      BY <1>1, <3>1 DEF UnderWay, Generating
    <3> QED
      BY <1>2, <3>1, <3>2, <3>3 DEF OnRecord, FlagsTrue, SetupTrue, EmailedToo
  <2>4. Calm' => (~session'.in => session'.codes = 0)
    BY <1>2, StepStarts DEF Calm, InTurn
  <2> QED
    BY <1>1, <1>2, <2>1, <2>2, <2>3, <2>4, InvEnds, StepStarts
<1>4. CASE active # 0
  <2>1. /\ \A q \in Callers : q # r => req'[q] = req[q]
        /\ req'[r].op = req[r].op /\ req'[r].codes = req[r].codes
        /\ req'[r].kept = req[r].kept /\ req'[r].saves = req[r].saves
        /\ req'[r].force = req[r].force /\ req'[r].data = req[r].data
        /\ req'[r].row = active /\ req'[r].seen = flags
        /\ req'[r].pc = "mark"
    BY <1>4 DEF FindBatch, DeliveryTypeOK, Request
  <2>2. Proceeds(r)
    BY <1>1, <1>2, <2>1 DEF Proceeds
  <2>3. Stage(req'[r].op, req'[r].pc)
    BY <1>1, <2>1 DEF Stage
  <2>4. ASSUME Calm' PROVE PagesKnown'
    <3>1. WillForce(r) => WillForce(r)'
      BY <1>1 DEF WillForce
    <3> QED
      BY <1>1, <1>2, <2>1, <2>2, <2>4, <3>1, StepStarts, PagesAside DEF Calm
  <2>5. ASSUME mishaps' = {} PROVE emails' <= 1 /\ UnderWay(r)' /\ KnownBy(r)'
    <3>1. emails <= 1 /\ UnderWay(r) /\ KnownBy(r)
      BY <1>2, <2>5, StepStarts
    <3>2. UnderWay(r)'
      BY <1>1, <1>2, <2>1, <3>1
         DEF UnderWay, Replacing, Running, Generating, FlagsTrue, EmailedToo, SetupTrue, OnRecord
    <3>3. KnownBy(r)'
      BY <1>1, <1>2, <1>4, <2>1, <3>1 DEF KnownBy, Running
    <3> QED
      BY <1>2, <3>1, <3>2, <3>3
  <2> QED
    BY <1>1, <1>2, <2>1, <2>2, <2>3, <2>4, <2>5, StepByItself, StepStarts
<1> QED
  BY <1>3, <1>4
-----------------------------------------------------------------------------
(* Batches come and go. *)

LEMMA DiscardBatchInv ==
    ASSUME DeliveryTypeOK, DeliveryInv, NEW r \in Callers, DiscardBatch(r)
    PROVE  DeliveryInv'
<1>1. req[r].op = "discard" /\ req[r].pc = "begin"
      /\ Goes(r, IF active = 0 THEN "save" ELSE "put")
  BY DEF DiscardBatch, Running, Goes
<1>2. /\ active' = 0 /\ issued' = issued /\ flags' = flags /\ verified' = verified
      /\ session' = session /\ UNCHANGED pageVars /\ mishaps' = mishaps /\ emails' = emails
      /\ entry' = entry /\ lock' = lock /\ call' = call
  BY DEF DiscardBatch, Unsent, sentVars, Uncached, cacheVars
<1>3. /\ \A q \in Callers : q # r => req'[q] = req[q]
      /\ req'[r].op = "discard" /\ req'[r].codes = req[r].codes
      /\ req'[r].force = req[r].force /\ req'[r].kept = req[r].kept
      /\ req'[r].saves = req[r].saves /\ req'[r].row = req[r].row
      /\ req'[r].seen = req[r].seen /\ req'[r].data = req[r].data
      /\ req'[r].pc = (IF active = 0 THEN "save" ELSE "put")
  BY <1>1, AfterGoes
<1>4. Proceeds(r)
  BY <1>1, <1>2, <1>3 DEF Proceeds
<1>5. Stage(req'[r].op, req'[r].pc)
  BY <1>3 DEF Stage
<1>6. ASSUME Calm' PROVE PagesKnown'
  <2>1. WillForce(r) => WillForce(r)'
    BY <1>1 DEF WillForce
  <2> QED
    BY <1>1, <1>2, <1>3, <1>4, <1>6, <2>1, StepStarts, PagesAside DEF Calm
<1>7. ASSUME mishaps' = {} PROVE emails' <= 1 /\ UnderWay(r)' /\ KnownBy(r)'
  <2>1. emails <= 1 /\ UnderWay(r) /\ KnownBy(r)
    BY <1>2, <1>7, StepStarts
  <2>2. UnderWay(r)'
    BY <1>1, <1>2, <1>3, <2>1
       DEF UnderWay, Replacing, Running, Generating, FlagsTrue, EmailedToo, SetupTrue, OnRecord
  <2>3. KnownBy(r)'
    BY <1>1, <1>2, <1>3, <2>1 DEF KnownBy, Running, Generating
  <2> QED
    BY <1>2, <2>1, <2>2, <2>3
<1> QED
  BY <1>1, <1>2, <1>3, <1>4, <1>5, <1>6, <1>7, StepByItself

LEMMA PutDiscardedInv ==
    ASSUME DeliveryTypeOK, DeliveryInv, NEW r \in Callers, PutDiscarded(r)
    PROVE  DeliveryInv'
<1>1. req[r].op = "discard" /\ req[r].pc = "put"
  BY DEF PutDiscarded, Running
<1>2. /\ active' = active /\ issued' = issued /\ flags' = flags /\ verified' = verified
      /\ session' = session /\ UNCHANGED pageVars /\ mishaps' = mishaps /\ emails' = emails
      /\ entry' = {Now({}, "absent")} /\ lock' = lock /\ call' = call
  BY DEF PutDiscarded, Put, Unrowed, rowVars, Unsent, sentVars
<1>3. /\ \A q \in Callers : q # r => req'[q] = req[q]
      /\ req'[r].op = "discard" /\ req'[r].codes = 0
      /\ req'[r].kept = req[r].kept /\ req'[r].row = req[r].row
      /\ req'[r].seen = req[r].seen /\ req'[r].data = req[r].data
      /\ req'[r].pc = "save" /\ req'[r].saves = TRUE /\ req'[r].force = TRUE
  BY <1>1 DEF PutDiscarded, DeliveryTypeOK, Request
<1>4. Proceeds(r)
  BY <1>1, <1>2, <1>3 DEF Proceeds
<1>5. Stage(req'[r].op, req'[r].pc)
  BY <1>3 DEF Stage
<1>6. ASSUME Calm' PROVE PagesKnown'
  BY <1>1, <1>2, <1>3, <1>4, <1>6, StepStarts, PagesAside DEF WillForce, Calm
<1>7. ASSUME mishaps' = {} PROVE emails' <= 1 /\ UnderWay(r)' /\ KnownBy(r)'
  <2>1. emails <= 1 /\ UnderWay(r) /\ KnownBy(r)
    BY <1>2, <1>7, StepStarts
  <2>2. \A v \in entry' : v.flags = {} /\ v.setup = "absent"
    BY <1>2 DEF Now
  <2>3. UnderWay(r)'
    BY <1>1, <1>2, <1>3, <2>2
       DEF UnderWay, Replacing, Running, Generating, FlagsTrue, EmailedToo, SetupTrue, OnRecord
  <2>4. KnownBy(r)'
    BY <1>1, <1>2, <1>3, <2>1 DEF KnownBy, Running, SetupTrue
  <2> QED
    BY <1>2, <2>1, <2>3, <2>4
<1> QED
  BY <1>1, <1>2, <1>3, <1>4, <1>5, <1>6, <1>7, StepByItself, StepStarts

LEMMA CreateBatchInv ==
    ASSUME DeliveryTypeOK, DeliveryInv, NEW r \in Callers, CreateBatch(r)
    PROVE  DeliveryInv'
<1>1. req[r].op \in {"generate", "regenerate"} /\ req[r].pc = "create"
  BY DEF CreateBatch, Generating
<1>2. /\ active' = issued + 1 /\ issued' = issued + 1 /\ flags' = {} /\ verified' = verified
      /\ session' = session /\ HistoryChanges /\ mishaps' = mishaps /\ emails' = 0
      /\ entry' = entry /\ lock' = lock /\ call' = call
  BY DEF CreateBatch, Uncached, cacheVars
<1>3. /\ \A q \in Callers : q # r => req'[q] = req[q]
      /\ req'[r].op = req[r].op /\ req'[r].codes = issued + 1
      /\ req'[r].force = req[r].force /\ req'[r].kept = req[r].kept
      /\ req'[r].saves = req[r].saves /\ req'[r].row = req[r].row
      /\ req'[r].seen = req[r].seen /\ req'[r].data = req[r].data
      /\ req'[r].pc = "put"
  BY DEF CreateBatch, DeliveryTypeOK, Request
<1>4. Proceeds(r)
  BY <1>1, <1>2, <1>3 DEF Proceeds
<1>5. Stage(req'[r].op, req'[r].pc)
  BY <1>1, <1>3 DEF Stage
<1>6. ASSUME Calm' PROVE PagesKnown'
  <2>1. WillForce(r)'
    BY <1>1, <1>3 DEF WillForce
  <2>2. InTurn /\ PagesKnown
    BY <1>2, <1>6, StepStarts DEF Calm
  <2> QED
    BY <1>1, <1>2, <1>3, <1>4, <2>1, <2>2, PagesHistory
<1>7. ASSUME mishaps' = {} PROVE emails' <= 1 /\ UnderWay(r)' /\ KnownBy(r)'
  <2>1. KnownBy(r) /\ UnderWay(r)
    BY <1>2, <1>7, StepStarts
  <2>2. \A v \in entry : SetupTrue(v)
    BY <1>1, <2>1 DEF UnderWay
  <2>3. UnderWay(r)'
    BY <1>1, <1>2, <1>3, <2>2
       DEF UnderWay, Replacing, Running, Generating, EmailedToo, SetupTrue, OnRecord
  <2>4. KnownBy(r)'
    BY <1>1, <1>2, <1>3, <2>1 DEF KnownBy, Running, Generating, SetupTrue
  <2> QED
    BY <1>2, <2>3, <2>4
<1> QED
  BY <1>1, <1>2, <1>3, <1>4, <1>5, <1>6, <1>7, StepByItself

LEMMA RefuseBatchInv ==
    ASSUME DeliveryTypeOK, DeliveryInv, NEW r \in Callers, RefuseBatch(r)
    PROVE  DeliveryInv'
<1>1. req[r].op = "regenerate" /\ req[r].pc = "create"
  BY DEF RefuseBatch, Running
<1>2. /\ active' = active /\ issued' = issued /\ flags' = flags /\ verified' = verified
      /\ session' = session /\ UNCHANGED pageVars /\ mishaps' = mishaps /\ emails' = emails
      /\ entry' = entry /\ lock' = lock /\ call' = call
  BY DEF RefuseBatch, Unrowed, rowVars, Unsent, sentVars, Uncached, cacheVars
<1>3. /\ \A q \in Callers : q # r => req'[q] = req[q]
      /\ req'[r].op = req[r].op /\ req'[r].codes = 0
      /\ req'[r].force = req[r].force /\ req'[r].kept = req[r].kept
      /\ req'[r].saves = req[r].saves /\ req'[r].row = req[r].row
      /\ req'[r].seen = req[r].seen /\ req'[r].data = req[r].data
      /\ req'[r].pc = "put"
  BY DEF RefuseBatch, DeliveryTypeOK, Request
<1>4. Proceeds(r)
  BY <1>1, <1>2, <1>3 DEF Proceeds
<1>5. Stage(req'[r].op, req'[r].pc)
  BY <1>1, <1>3 DEF Stage
<1>6. ASSUME Calm' PROVE PagesKnown'
  <2>1. WillForce(r) => WillForce(r)'
    BY <1>1 DEF WillForce
  <2> QED
    BY <1>1, <1>2, <1>3, <1>4, <1>6, <2>1, StepStarts, PagesAside DEF Calm
<1>7. ASSUME mishaps' = {} PROVE emails' <= 1 /\ UnderWay(r)' /\ KnownBy(r)'
  <2>1. emails <= 1 /\ UnderWay(r) /\ KnownBy(r)
    BY <1>2, <1>7, StepStarts
  <2>2. UnderWay(r)'
    BY <1>1, <1>2, <1>3, <2>1
       DEF UnderWay, Replacing, Running, Generating, FlagsTrue, EmailedToo, SetupTrue, OnRecord
  <2>3. KnownBy(r)'
    BY <1>1, <1>2, <1>3, <2>1 DEF KnownBy, Running, Generating, SetupTrue
  <2> QED
    BY <1>2, <2>1, <2>2, <2>3
<1> QED
  BY <1>1, <1>2, <1>3, <1>4, <1>5, <1>6, <1>7, StepByItself, StepStarts

LEMMA FailBatchInv ==
    ASSUME DeliveryTypeOK, DeliveryInv, NEW r \in Callers, FailBatch(r)
    PROVE  DeliveryInv'
<1>1. req[r].op \in {"generate", "regenerate"} /\ req[r].pc = "create" /\ Goes(r, "save")
  BY DEF FailBatch, Generating
<1>2. /\ active' = active /\ issued' = issued /\ session' = session /\ UNCHANGED pageVars
      /\ mishaps' = mishaps \cup {"failure"} /\ lock' = lock /\ call' = call
  BY DEF FailBatch, Unrowed, rowVars, Uncached, cacheVars
<1>3. /\ \A q \in Callers : q # r => req'[q] = req[q]
      /\ req'[r].op = req[r].op /\ req'[r].kept = req[r].kept /\ req'[r].force = req[r].force
      /\ req'[r].pc = "save"
  BY <1>1, AfterGoes
<1>4. Proceeds(r)
  BY <1>1, <1>2, <1>3 DEF Proceeds
<1>5. Stage(req'[r].op, req'[r].pc)
  BY <1>1, <1>3 DEF Stage
<1>6. ASSUME Calm' PROVE PagesKnown'
  <2>1. WillForce(r) => WillForce(r)'
    BY <1>1 DEF WillForce
  <2>2. Calm
    BY <1>2, <1>6 DEF Calm
  <2> QED
    BY <1>1, <1>2, <1>3, <1>4, <2>1, <2>2, StepStarts, PagesAside
<1>7. mishaps' # {}
  BY <1>2
<1> QED
  BY <1>1, <1>2, <1>3, <1>4, <1>5, <1>6, <1>7, StepByItself, StepStarts

LEMMA PutCreatedInv ==
    ASSUME DeliveryTypeOK, DeliveryInv, NEW r \in Callers, PutCreated(r)
    PROVE  DeliveryInv'
<1>1. req[r].op \in {"generate", "regenerate"} /\ req[r].pc = "put" /\ Saving(r)
  BY DEF PutCreated, Generating
<1>2. PICK d \in req[r].data : Put(Now({}, d.setup))
  BY DEF PutCreated
<1>3. /\ active' = active /\ issued' = issued /\ flags' = flags /\ verified' = verified
      /\ session' = session /\ UNCHANGED pageVars /\ mishaps' = mishaps /\ emails' = emails
      /\ entry' = {Now({}, d.setup)} /\ lock' = lock /\ call' = call
  BY <1>2 DEF PutCreated, Put, Unrowed, rowVars, Unsent, sentVars
<1>4. /\ \A q \in Callers : q # r => req'[q] = req[q]
      /\ req'[r].op = req[r].op /\ req'[r].codes = req[r].codes
      /\ req'[r].kept = req[r].kept /\ req'[r].row = req[r].row
      /\ req'[r].seen = req[r].seen /\ req'[r].data = req[r].data
      /\ req'[r].pc = "save" /\ req'[r].saves = TRUE /\ req'[r].force = TRUE
  BY <1>1, AfterSaving
<1>5. Proceeds(r)
  BY <1>1, <1>3, <1>4 DEF Proceeds
<1>6. Stage(req'[r].op, req'[r].pc)
  BY <1>1, <1>4 DEF Stage
<1>7. ASSUME Calm' PROVE PagesKnown'
  BY <1>1, <1>3, <1>4, <1>5, <1>7, StepStarts, PagesAside DEF WillForce, Calm
<1>8. ASSUME mishaps' = {} PROVE emails' <= 1 /\ UnderWay(r)' /\ KnownBy(r)'
  <2>1. emails <= 1 /\ UnderWay(r) /\ KnownBy(r)
    BY <1>3, <1>8, StepStarts
  <2>2. \A v \in entry' : v.flags = {} /\ v.setup = d.setup
    BY <1>3 DEF Now
  <2>3. SetupTrue(d)
    BY <1>2, <2>1 DEF KnownBy
  <2>4. UnderWay(r)'
    <3>1. req'[r].codes \in {0, active'}
      BY <1>1, <1>3, <1>4, <2>1 DEF UnderWay, Running
    <3>2. OnRecord(req[r].codes)'
      BY <1>1, <1>3, <1>4, <2>1 DEF UnderWay, OnRecord
    <3>3. (\A v \in entry : FlagsTrue(v) /\ SetupTrue(v))'
      BY <1>3, <2>2, <2>3 DEF FlagsTrue, SetupTrue
    <3>4. (\A v \in entry : EmailedToo(v, req[r].codes))'
      <4>1. req[r].codes = 0 \/ "emailed" \notin flags
        BY <1>1, <2>1 DEF KnownBy, Generating
      <4> QED
        BY <1>3, <1>4, <4>1 DEF EmailedToo
    <3>5. Replacing(r)' /\ req'[r].pc = "save" /\ req'[r].saves
      BY <1>1, <1>4 DEF Replacing
    <3> QED
      BY <3>1, <3>2, <3>3, <3>4, <3>5 DEF UnderWay
  <2>5. KnownBy(r)'
    BY <1>1, <1>3, <1>4, <2>1 DEF KnownBy, Running, SetupTrue
  <2> QED
    BY <1>3, <2>1, <2>4, <2>5
<1> QED
  BY <1>1, <1>3, <1>4, <1>5, <1>6, <1>7, <1>8, StepByItself, StepStarts

LEMMA ChangeCodeInv ==
    ASSUME DeliveryTypeOK, DeliveryInv, NEW r \in Callers, ChangeCode(r)
    PROVE  DeliveryInv'
<1>1. req[r].op = "code" /\ req[r].pc = "begin" /\ Saving(r)
  BY DEF ChangeCode, Running
<1>2. /\ active' = active /\ issued' = issued /\ flags' = flags /\ verified' = verified
      /\ session' = session /\ HistoryChanges /\ mishaps' = mishaps /\ emails' = emails
      /\ entry' = entry /\ lock' = lock /\ call' = call
  BY DEF ChangeCode, Unrowed, rowVars, Unsent, sentVars, Uncached, cacheVars
<1>3. /\ \A q \in Callers : q # r => req'[q] = req[q]
      /\ req'[r].op = "code" /\ req'[r].codes = req[r].codes
      /\ req'[r].kept = req[r].kept /\ req'[r].row = req[r].row
      /\ req'[r].seen = req[r].seen /\ req'[r].data = req[r].data
      /\ req'[r].pc = "save" /\ req'[r].saves = TRUE /\ req'[r].force = TRUE
  BY <1>1, AfterSaving
<1>4. Proceeds(r)
  BY <1>1, <1>2, <1>3 DEF Proceeds
<1>5. Stage(req'[r].op, req'[r].pc)
  BY <1>3 DEF Stage
<1>6. ASSUME Calm' PROVE PagesKnown'
  <2>1. WillForce(r)'
    BY <1>3 DEF WillForce
  <2>2. InTurn /\ PagesKnown
    BY <1>2, <1>6, StepStarts DEF Calm
  <2> QED
    BY <1>1, <1>2, <1>3, <1>4, <2>1, <2>2, PagesHistory
<1>7. ASSUME mishaps' = {} PROVE emails' <= 1 /\ UnderWay(r)' /\ KnownBy(r)'
  <2>1. emails <= 1 /\ UnderWay(r) /\ KnownBy(r)
    BY <1>2, <1>7, StepStarts
  <2>2. UnderWay(r)'
    BY <1>1, <1>2, <1>3, <2>1
       DEF UnderWay, Replacing, Running, Generating, FlagsTrue, EmailedToo, SetupTrue, OnRecord
  <2>3. KnownBy(r)'
    BY <1>1, <1>2, <1>3, <2>1 DEF KnownBy, Running, SetupTrue
  <2> QED
    BY <1>2, <2>1, <2>2, <2>3
<1> QED
  BY <1>1, <1>2, <1>3, <1>4, <1>5, <1>6, <1>7, StepByItself, StepStarts
-----------------------------------------------------------------------------
(* What is read and put back: the creation of batches, the set-up, the dashboard. *)

LEMMA PagesMove ==
    ASSUME PagesKnown, NEW r \in Callers, Proceeds(r), UNCHANGED pageVars,
           req'[r].force = req[r].force,
           req'[r].saves = req[r].saves,
           req[r].pc \notin {"put", "save", "read_page"},
           req[r].op = "dashboard" =>
             \/ req[r].pc \in {"begin", "page"} /\ req'[r].pc \in {"begin", "page"}
             \/ /\ req[r].pc \notin {"begin", "page"}
                /\ req'[r].pc \notin {"begin", "page", "read_page"}
    PROVE  PagesKnown'
<1>1. WillForce(r) => WillForce(r)'
  BY DEF WillForce
<1>2. CASE req[r].op = "dashboard"
  BY <1>2, PagesLeft
<1>3. CASE req[r].op # "dashboard"
  BY <1>1, <1>3, PagesAside
<1> QED
  BY <1>2, <1>3

LEMMA PeekInv ==
    ASSUME DeliveryTypeOK, DeliveryInv, NEW r \in Callers, Peek(r)
    PROVE  DeliveryInv'
<1>1. req[r].op \in {"generate", "regenerate", "dashboard"} /\ req[r].pc = "begin"
  BY DEF Peek, Generating
<1>2. PICK pc : /\ GoesWith(r, pc, entry)
                /\ req[r].op = "dashboard" => pc = "page"
                /\ req[r].op # "dashboard" => pc \in {"put_back", "setup"}
  BY DEF Peek
<1>3. /\ active' = active /\ issued' = issued /\ flags' = flags /\ verified' = verified
      /\ session' = session /\ UNCHANGED pageVars /\ mishaps' = mishaps /\ emails' = emails
      /\ entry' = entry /\ lock' = lock /\ call' = call
  BY DEF Peek, Unrowed, rowVars, Unsent, sentVars, Uncached, cacheVars
<1>4. /\ \A q \in Callers : q # r => req'[q] = req[q]
      /\ req'[r].op = req[r].op /\ req'[r].codes = req[r].codes
      /\ req'[r].force = req[r].force /\ req'[r].kept = req[r].kept
      /\ req'[r].saves = req[r].saves /\ req'[r].row = req[r].row
      /\ req'[r].seen = req[r].seen
      /\ req'[r].pc = pc /\ req'[r].data = entry
  BY <1>2, AfterGoesWith
<1>5. Proceeds(r)
  BY <1>1, <1>3, <1>4 DEF Proceeds
<1>6. Stage(req'[r].op, req'[r].pc) /\ req'[r].pc # "asked"
  BY <1>1, <1>2, <1>4 DEF Stage
<1>7. ASSUME Calm' PROVE PagesKnown'
  BY <1>1, <1>2, <1>3, <1>4, <1>5, <1>7, StepStarts, PagesMove DEF Calm
<1>8. ASSUME mishaps' = {} PROVE emails' <= 1 /\ UnderWay(r)' /\ KnownBy(r)'
  <2>1. emails <= 1 /\ UnderWay(r) /\ KnownBy(r)
    BY <1>3, <1>8, StepStarts
  <2>2. \A v \in entry : FlagsTrue(v) /\ SetupTrue(v) /\ EmailedToo(v, req[r].codes)
    BY <1>1, <2>1 DEF UnderWay, Generating, Running
  <2>3. UnderWay(r)'
    BY <1>1, <1>3, <1>4, <2>1, <2>2
       DEF UnderWay, Replacing, Running, Generating, FlagsTrue, EmailedToo, SetupTrue, OnRecord
  <2>4. KnownBy(r)'
    BY <1>1, <1>2, <1>3, <1>4, <2>2
       DEF KnownBy, Running, Generating, FlagsTrue, EmailedToo, SetupTrue
  <2> QED
    BY <1>3, <2>1, <2>3, <2>4
<1> QED
  BY <1>1, <1>3, <1>4, <1>5, <1>6, <1>7, <1>8, StepByItself, StepStarts

LEMMA FillSetupInv ==
    ASSUME DeliveryTypeOK, DeliveryInv, NEW r \in Callers, FillSetup(r)
    PROVE  DeliveryInv'
<1> DEFINE known == IF req[r].data = {} THEN {} ELSE (CHOOSE v \in req[r].data : TRUE).flags
           setup == IF verified THEN "yes" ELSE "no"
<1>1. req[r].op \in {"generate", "regenerate", "dashboard"} /\ req[r].pc = "setup"
  BY StepStarts DEF FillSetup, Stage
<1>2. GoesWith(r, "put_back", {Now(known, setup)})
  BY DEF FillSetup
<1>3. /\ active' = active /\ issued' = issued /\ flags' = flags /\ verified' = verified
      /\ session' = session /\ UNCHANGED pageVars /\ mishaps' = mishaps /\ emails' = emails
      /\ entry' = entry /\ lock' = lock /\ call' = call
  BY DEF FillSetup, Unrowed, rowVars, Unsent, sentVars, Uncached, cacheVars
<1>4. /\ \A q \in Callers : q # r => req'[q] = req[q]
      /\ req'[r].op = req[r].op /\ req'[r].codes = req[r].codes
      /\ req'[r].force = req[r].force /\ req'[r].kept = req[r].kept
      /\ req'[r].saves = req[r].saves /\ req'[r].row = req[r].row
      /\ req'[r].seen = req[r].seen
      /\ req'[r].pc = "put_back" /\ req'[r].data = {Now(known, setup)}
  BY <1>2, AfterGoesWith
<1>5. Proceeds(r)
  BY <1>1, <1>3, <1>4 DEF Proceeds
<1>6. Stage(req'[r].op, req'[r].pc)
  BY <1>1, <1>4 DEF Stage
<1>7. ASSUME Calm' PROVE PagesKnown'
  BY <1>1, <1>3, <1>4, <1>5, <1>7, StepStarts, PagesMove DEF Calm
<1>8. ASSUME mishaps' = {} PROVE emails' <= 1 /\ UnderWay(r)' /\ KnownBy(r)'
  <2>1. emails <= 1 /\ UnderWay(r) /\ KnownBy(r)
    BY <1>3, <1>8, StepStarts
  <2>2. req[r].data = {} \/ \E v \in req[r].data : known = v.flags
    OBVIOUS
  <2>3. setup = "no" => ~verified
    OBVIOUS
  <2>4. req[r].data = {} => known = {}
    OBVIOUS
  <2>5. \A v \in req'[r].data : v.flags = known /\ v.setup = setup
    BY <1>4 DEF Now
  <2> HIDE DEF known, setup
  <2>6. active # 0 => known \subseteq flags
    BY <1>1, <2>1, <2>2, <2>4 DEF KnownBy, FlagsTrue
  <2>7. req[r].op = "dashboard" /\ req[r].codes # 0 /\ "emailed" \in flags => "emailed" \in known
    BY <1>1, <2>1, <2>2 DEF KnownBy, Running, EmailedToo, Generating
  <2>8. UnderWay(r)'
    BY <1>1, <1>3, <1>4, <2>1
       DEF UnderWay, Replacing, Running, Generating, FlagsTrue, EmailedToo, SetupTrue, OnRecord
  <2>9. KnownBy(r)'
    <3>1. (\A v \in req[r].data : SetupTrue(v))'
      BY <1>3, <2>3, <2>5 DEF SetupTrue
    <3>2. (\A v \in req[r].data : FlagsTrue(v))'
      BY <1>3, <2>5, <2>6 DEF FlagsTrue
    <3>3. (\A v \in req[r].data : ~Generating(r) => EmailedToo(v, req[r].codes))'
      BY <1>1, <1>3, <1>4, <2>5, <2>7 DEF EmailedToo, Generating
    <3> QED
      BY <1>1, <1>4, <3>1, <3>2, <3>3 DEF KnownBy, Running
  <2> QED
    BY <1>3, <2>1, <2>8, <2>9
<1> QED
  BY <1>1, <1>3, <1>4, <1>5, <1>6, <1>7, <1>8, StepByItself, StepStarts

LEMMA PutBackInv ==
    ASSUME DeliveryTypeOK, DeliveryInv, NEW r \in Callers, PutBack(r)
    PROVE  DeliveryInv'
<1>1. /\ req[r].op \in {"generate", "regenerate", "dashboard", "verify", "unverify"}
      /\ req[r].pc = "put_back"
  BY StepStarts DEF PutBack, Stage
<1>2. PICK d \in req[r].data : Put(d)
  BY DEF PutBack
<1>3. PICK pc : /\ Goes(r, pc)
                /\ pc = (IF Generating(r) THEN "create" ELSE "save")
  BY DEF PutBack
<1>4. /\ active' = active /\ issued' = issued /\ flags' = flags /\ verified' = verified
      /\ session' = session /\ UNCHANGED pageVars /\ mishaps' = mishaps /\ emails' = emails
      /\ entry' = {d} /\ lock' = lock /\ call' = call
  BY <1>2 DEF PutBack, Put, Unrowed, rowVars, Unsent, sentVars
<1>5. /\ \A q \in Callers : q # r => req'[q] = req[q]
      /\ req'[r].op = req[r].op /\ req'[r].codes = req[r].codes
      /\ req'[r].force = req[r].force /\ req'[r].kept = req[r].kept
      /\ req'[r].saves = req[r].saves /\ req'[r].row = req[r].row
      /\ req'[r].seen = req[r].seen /\ req'[r].data = req[r].data
      /\ req'[r].pc = pc
  BY <1>3, AfterGoes
<1>6. Proceeds(r)
  BY <1>1, <1>4, <1>5 DEF Proceeds
<1>7. Stage(req'[r].op, req'[r].pc) /\ req'[r].pc # "asked"
  BY <1>1, <1>3, <1>5 DEF Stage, Generating
<1>8. ASSUME Calm' PROVE PagesKnown'
  BY <1>1, <1>3, <1>4, <1>5, <1>6, <1>8, StepStarts, PagesMove DEF Calm
<1>9. ASSUME mishaps' = {} PROVE emails' <= 1 /\ UnderWay(r)' /\ KnownBy(r)'
  <2>1. emails <= 1 /\ UnderWay(r) /\ KnownBy(r)
    BY <1>4, <1>9, StepStarts
  <2>2. SetupTrue(d) /\ FlagsTrue(d) /\ (~Generating(r) => EmailedToo(d, req[r].codes))
    BY <1>1, <1>2, <2>1 DEF KnownBy
  <2>3. UnderWay(r)'
    <3>1. req'[r].codes = session'.codes /\ req'[r].codes \in {0, active'}
      BY <1>1, <1>4, <1>5, <2>1 DEF UnderWay, Running
    <3>2. OnRecord(req[r].codes)'
      BY <1>1, <1>4, <1>5, <2>1 DEF UnderWay, OnRecord
    <3>3. (\A v \in entry : FlagsTrue(v) /\ SetupTrue(v))'
      BY <1>4, <2>2 DEF FlagsTrue, SetupTrue
    <3>4. CASE Generating(r)
      <4>1. Generating(r)' /\ req'[r].pc = "create"
        BY <1>3, <1>5, <3>4 DEF Generating
      <4> QED
        BY <3>1, <3>2, <3>3, <4>1 DEF UnderWay
    <3>5. CASE ~Generating(r)
      <4>1. (\A v \in entry : EmailedToo(v, req[r].codes))'
        BY <1>4, <1>5, <2>2, <3>5 DEF EmailedToo
      <4> QED
        BY <3>1, <3>2, <3>3, <4>1 DEF UnderWay
    <3> QED
      BY <3>4, <3>5
  <2>4. KnownBy(r)'
    BY <1>1, <1>3, <1>4, <1>5, <2>1
       DEF KnownBy, Running, Generating, SetupTrue
  <2> QED
    BY <1>4, <2>1, <2>3, <2>4
<1> QED
  BY <1>1, <1>4, <1>5, <1>6, <1>7, <1>8, <1>9, StepByItself, StepStarts

LEMMA VerifySetupInv ==
    ASSUME DeliveryTypeOK, DeliveryInv, NEW r \in Callers, NEW right \in BOOLEAN,
           VerifySetup(r, right)
    PROVE  DeliveryInv'
<1>1. req[r].op = "verify" /\ req[r].pc = "begin" /\ Goes(r, "flag")
  BY DEF VerifySetup, Running
<1>2. /\ active' = active /\ issued' = issued /\ flags' = flags
      /\ session' = session /\ UNCHANGED pageVars /\ mishaps' = mishaps /\ emails' = emails
      /\ entry' = entry /\ lock' = lock /\ call' = call
  BY DEF VerifySetup, Unsent, sentVars, Uncached, cacheVars
<1>3. /\ \A q \in Callers : q # r => req'[q] = req[q]
      /\ req'[r].op = "verify" /\ req'[r].codes = req[r].codes
      /\ req'[r].force = req[r].force /\ req'[r].kept = req[r].kept
      /\ req'[r].saves = req[r].saves /\ req'[r].row = req[r].row
      /\ req'[r].seen = req[r].seen /\ req'[r].data = req[r].data
      /\ req'[r].pc = "flag"
  BY <1>1, AfterGoes
<1>4. Proceeds(r)
  BY <1>1, <1>2, <1>3 DEF Proceeds
<1>5. Stage(req'[r].op, req'[r].pc)
  BY <1>3 DEF Stage
<1>6. ASSUME Calm' PROVE PagesKnown'
  BY <1>1, <1>2, <1>3, <1>4, <1>6, StepStarts, PagesMove DEF Calm
<1>7. ASSUME mishaps' = {} PROVE emails' <= 1 /\ UnderWay(r)' /\ KnownBy(r)'
  <2>1. emails <= 1 /\ UnderWay(r) /\ KnownBy(r)
    BY <1>2, <1>7, StepStarts
  <2>2. UnderWay(r)'
    BY <1>1, <1>2, <1>3, <2>1
       DEF UnderWay, Replacing, Running, Generating, FlagsTrue, EmailedToo, OnRecord
  <2>3. KnownBy(r)'
    BY <1>1, <1>2, <1>3, <2>1 DEF KnownBy, Running, Generating
  <2> QED
    BY <1>2, <2>1, <2>2, <2>3
<1> QED
  BY <1>1, <1>2, <1>3, <1>4, <1>5, <1>6, <1>7, StepByItself, StepStarts

LEMMA DeleteSetupInv ==
    ASSUME DeliveryTypeOK, DeliveryInv, NEW r \in Callers, DeleteSetup(r)
    PROVE  DeliveryInv'
<1>1. req[r].op = "unverify" /\ req[r].pc = "begin" /\ Goes(r, "flag")
  BY DEF DeleteSetup, Running
<1>2. /\ active' = active /\ issued' = issued /\ flags' = flags /\ verified' = FALSE
      /\ session' = session /\ UNCHANGED pageVars /\ mishaps' = mishaps /\ emails' = emails
      /\ entry' = entry /\ lock' = lock /\ call' = call
  BY DEF DeleteSetup, Unsent, sentVars, Uncached, cacheVars
<1>3. /\ \A q \in Callers : q # r => req'[q] = req[q]
      /\ req'[r].op = "unverify" /\ req'[r].codes = req[r].codes
      /\ req'[r].force = req[r].force /\ req'[r].kept = req[r].kept
      /\ req'[r].saves = req[r].saves /\ req'[r].row = req[r].row
      /\ req'[r].seen = req[r].seen /\ req'[r].data = req[r].data
      /\ req'[r].pc = "flag"
  BY <1>1, AfterGoes
<1>4. Proceeds(r)
  BY <1>1, <1>2, <1>3 DEF Proceeds
<1>5. Stage(req'[r].op, req'[r].pc)
  BY <1>3 DEF Stage
<1>6. ASSUME Calm' PROVE PagesKnown'
  BY <1>1, <1>2, <1>3, <1>4, <1>6, StepStarts, PagesMove DEF Calm
<1>7. ASSUME mishaps' = {} PROVE emails' <= 1 /\ UnderWay(r)' /\ KnownBy(r)'
  <2>1. emails <= 1 /\ UnderWay(r) /\ KnownBy(r)
    BY <1>2, <1>7, StepStarts
  <2>2. UnderWay(r)'
    BY <1>1, <1>2, <1>3, <2>1
       DEF UnderWay, Replacing, Running, Generating, FlagsTrue, EmailedToo, OnRecord, SetupTrue
  <2>3. KnownBy(r)'
    BY <1>1, <1>2, <1>3, <2>1 DEF KnownBy, Running, Generating
  <2> QED
    BY <1>2, <2>1, <2>2, <2>3
<1> QED
  BY <1>1, <1>2, <1>3, <1>4, <1>5, <1>6, <1>7, StepByItself, StepStarts

LEMMA GetFlaggedInv ==
    ASSUME DeliveryTypeOK, DeliveryInv, NEW r \in Callers, GetFlagged(r)
    PROVE  DeliveryInv'
<1> DEFINE flag == IF req[r].op = "verify" THEN "yes" ELSE "no"
           data == {Now(v.flags, flag) : v \in entry}
<1>1. req[r].op \in {"verify", "unverify"} /\ req[r].pc = "flag"
  BY StepStarts DEF GetFlagged, Stage
<1>2. GoesWith(r, IF entry = {} THEN "save" ELSE "put_back", data)
  BY DEF GetFlagged
<1>3. /\ active' = active /\ issued' = issued /\ flags' = flags /\ verified' = verified
      /\ session' = session /\ UNCHANGED pageVars /\ mishaps' = mishaps /\ emails' = emails
      /\ entry' = entry /\ lock' = lock /\ call' = call
  BY DEF GetFlagged, Unrowed, rowVars, Unsent, sentVars, Uncached, cacheVars
<1>4. \A d \in data : d.setup = flag /\ \E v \in entry : d.flags = v.flags
  BY DEF Now
<1> HIDE DEF data
<1>5. PICK pc : pc \in {"save", "put_back"} /\ (entry # {} => pc = "put_back")
                /\ (entry = {} => pc = "save") /\ GoesWith(r, pc, data)
  BY <1>2
<1>6. /\ \A q \in Callers : q # r => req'[q] = req[q]
      /\ req'[r].op = req[r].op /\ req'[r].codes = req[r].codes
      /\ req'[r].force = req[r].force /\ req'[r].kept = req[r].kept
      /\ req'[r].saves = req[r].saves /\ req'[r].row = req[r].row
      /\ req'[r].seen = req[r].seen
      /\ req'[r].pc = pc /\ req'[r].data = data
  BY <1>5, AfterGoesWith
<1>7. Proceeds(r)
  BY <1>1, <1>3, <1>6 DEF Proceeds
<1>8. Stage(req'[r].op, req'[r].pc)
  BY <1>1, <1>5, <1>6 DEF Stage
<1>9. ASSUME Calm' PROVE PagesKnown'
  BY <1>1, <1>3, <1>6, <1>7, <1>9, StepStarts, PagesMove DEF Calm
<1>10. ASSUME mishaps' = {} PROVE emails' <= 1 /\ UnderWay(r)' /\ KnownBy(r)'
  <2>1. emails <= 1 /\ UnderWay(r) /\ KnownBy(r)
    BY <1>3, <1>10, StepStarts
  <2>2. UnderWay(r)'
    BY <1>1, <1>3, <1>5, <1>6, <2>1
       DEF UnderWay, Replacing, Running, Generating, FlagsTrue, EmailedToo, OnRecord, SetupTrue
  <2>3. flag = "no" => ~verified
    BY <1>1, <2>1 DEF KnownBy
  <2>4. KnownBy(r)'
    <3>1. (\A v \in req[r].data : SetupTrue(v))'
      BY <1>3, <1>4, <1>6, <2>3 DEF SetupTrue
    <3>2. \A v \in entry : FlagsTrue(v) /\ EmailedToo(v, req[r].codes)
      BY <1>1, <2>1 DEF UnderWay, Generating, Running
    <3>3. (\A v \in req[r].data : FlagsTrue(v) /\ EmailedToo(v, req[r].codes))'
      BY <1>3, <1>4, <1>6, <3>2 DEF FlagsTrue, EmailedToo
    <3>4. req[r].op = "unverify" => ~verified'
      BY <1>1, <1>3, <2>1 DEF KnownBy
    <3> QED
      BY <1>1, <1>5, <1>6, <3>1, <3>3, <3>4 DEF KnownBy, Running, Generating
  <2> QED
    BY <1>3, <2>1, <2>2, <2>4
<1> QED
  BY <1>1, <1>3, <1>5, <1>6, <1>7, <1>8, <1>9, <1>10, StepByItself, StepStarts

LEMMA GetPageInv ==
    ASSUME DeliveryTypeOK, DeliveryInv, NEW r \in Callers, GetPage(r)
    PROVE  DeliveryInv'
<1>1. req[r].op = "dashboard" /\ req[r].pc = "page"
  BY DEF GetPage, Running
<1>2. /\ active' = active /\ issued' = issued /\ flags' = flags /\ verified' = verified
      /\ session' = session /\ mishaps' = mishaps /\ emails' = emails
      /\ entry' = entry /\ lock' = lock /\ call' = call
  BY DEF GetPage, Unrowed, rowVars, Unsent, sentVars, Uncached, cacheVars
<1>3. /\ page' = [page EXCEPT ![r] = IF req[r].force THEN "none" ELSE page_cache]
      /\ page_cache' = IF req[r].force THEN "none" ELSE page_cache
  BY DEF GetPage
<1>4. /\ \A q \in Callers : q # r => req'[q] = req[q] /\ page'[q] = page[q]
      /\ req'[r].op = "dashboard" /\ req'[r].codes = req[r].codes
      /\ req'[r].kept = req[r].kept /\ req'[r].row = req[r].row
      /\ req'[r].seen = req[r].seen /\ req'[r].data = req[r].data
      /\ req'[r].pc = (IF page'[r] = "none" THEN "read_page" ELSE "refill")
  <2>1. PICK pc, saves :
          /\ req' = [req EXCEPT ![r].pc = pc, ![r].force = FALSE, ![r].saves = saves]
          /\ pc = (IF page'[r] = "none" THEN "read_page" ELSE "refill")
    BY DEF GetPage
  <2>2. /\ \A q \in Callers : q # r => req'[q] = req[q]
        /\ req'[r].op = req[r].op /\ req'[r].codes = req[r].codes
        /\ req'[r].kept = req[r].kept /\ req'[r].row = req[r].row
        /\ req'[r].seen = req[r].seen /\ req'[r].data = req[r].data
        /\ req'[r].pc = pc
    BY <2>1 DEF DeliveryTypeOK, Request
  <2>3. \A q \in Callers : q # r => page'[q] = page[q]
    BY <1>3 DEF DeliveryTypeOK
  <2> QED
    BY <1>1, <2>1, <2>2, <2>3
<1>5. page'[r] = (IF req[r].force THEN "none" ELSE page_cache)
  BY <1>3 DEF DeliveryTypeOK
<1>6. Proceeds(r)
  BY <1>1, <1>2, <1>4 DEF Proceeds
<1>7. Stage(req'[r].op, req'[r].pc)
  BY <1>4 DEF Stage
<1>8. ASSUME Calm' PROVE PagesKnown'
  <2>1. InTurn /\ PagesKnown
    BY <1>2, <1>8, StepStarts DEF Calm
  <2>2. session.in /\ \A q \in Callers : ~WillForce(q)
    BY <1>1, <2>1 DEF InTurn, WillForce
  <2>3. req[r].force <=> session.force
    BY <1>1, <2>1 DEF PagesKnown
  <2>4. page_cache' # "stale"
    BY <1>3, <2>1, <2>2, <2>3 DEF PagesKnown
  <2>5. page'[r] = (IF req'[r].pc = "read_page" THEN "none" ELSE "fresh")
    BY <1>3, <1>4, <1>5, <2>4 DEF DeliveryTypeOK, Pages
  <2>6. \A q \in Callers : q # r => req'[q].op = "none" /\ page'[q] = "none"
    BY <1>1, <1>4, <2>1 DEF InTurn, PagesKnown
  <2> QED
    BY <1>4, <2>4, <2>5, <2>6 DEF PagesKnown
<1>9. ASSUME mishaps' = {} PROVE emails' <= 1 /\ UnderWay(r)' /\ KnownBy(r)'
  <2>1. emails <= 1 /\ UnderWay(r) /\ KnownBy(r)
    BY <1>2, <1>9, StepStarts
  <2>2. UnderWay(r)'
    BY <1>1, <1>2, <1>4, <2>1
       DEF UnderWay, Replacing, Running, Generating, FlagsTrue, EmailedToo, SetupTrue, OnRecord
  <2>3. KnownBy(r)'
    BY <1>1, <1>2, <1>4, <2>1
       DEF KnownBy, Running, Generating, FlagsTrue, EmailedToo, SetupTrue
  <2> QED
    BY <1>2, <2>1, <2>2, <2>3
<1> QED
  BY <1>1, <1>2, <1>4, <1>6, <1>7, <1>8, <1>9, StepByItself, StepStarts

LEMMA ReadOrStorePageInv ==
    ASSUME DeliveryTypeOK, DeliveryInv, NEW r \in Callers, ReadPage(r) \/ StorePage(r)
    PROVE  DeliveryInv'
<1>1. /\ req[r].op = "dashboard"
      /\ \/ req[r].pc = "read_page" /\ Goes(r, "store_page")
            /\ page' = [page EXCEPT ![r] = "fresh"] /\ page_cache' = page_cache
         \/ req[r].pc = "store_page" /\ Goes(r, "refill")
            /\ page' = page /\ page_cache' = page[r]
  BY DEF ReadPage, StorePage, Running
<1>2. /\ active' = active /\ issued' = issued /\ flags' = flags /\ verified' = verified
      /\ session' = session /\ mishaps' = mishaps /\ emails' = emails
      /\ entry' = entry /\ lock' = lock /\ call' = call
  BY DEF ReadPage, StorePage, Unrowed, rowVars, Unsent, sentVars, Uncached, cacheVars
<1>3. PICK pc : Goes(r, pc) /\ pc \in {"store_page", "refill"}
  BY <1>1
<1>4. /\ \A q \in Callers : q # r => req'[q] = req[q]
      /\ req'[r].op = "dashboard" /\ req'[r].codes = req[r].codes
      /\ req'[r].force = req[r].force /\ req'[r].kept = req[r].kept
      /\ req'[r].saves = req[r].saves /\ req'[r].row = req[r].row
      /\ req'[r].seen = req[r].seen /\ req'[r].data = req[r].data
      /\ req'[r].pc = pc
  BY <1>1, <1>3, AfterGoes
<1>5. \A q \in Callers : q # r => page'[q] = page[q]
  BY <1>1 DEF DeliveryTypeOK
<1>6. Proceeds(r)
  BY <1>1, <1>2, <1>4 DEF Proceeds
<1>7. Stage(req'[r].op, req'[r].pc)
  BY <1>3, <1>4 DEF Stage
<1>8. ASSUME Calm' PROVE PagesKnown'
  <2>1. InTurn /\ PagesKnown
    BY <1>2, <1>8, StepStarts DEF Calm
  <2>2. page_cache' # "stale" /\ page'[r] = "fresh"
    BY <1>1, <2>1 DEF PagesKnown, DeliveryTypeOK
  <2>3. \A q \in Callers : q # r => req'[q].op = "none" /\ page'[q] = "none"
    BY <1>1, <1>4, <1>5, <2>1 DEF InTurn, PagesKnown
  <2> QED
    BY <1>3, <1>4, <2>2, <2>3 DEF PagesKnown
<1>9. ASSUME mishaps' = {} PROVE emails' <= 1 /\ UnderWay(r)' /\ KnownBy(r)'
  <2>1. emails <= 1 /\ UnderWay(r) /\ KnownBy(r)
    BY <1>2, <1>9, StepStarts
  <2>2. UnderWay(r)'
    BY <1>1, <1>2, <1>4, <2>1
       DEF UnderWay, Replacing, Running, Generating, FlagsTrue, EmailedToo, SetupTrue, OnRecord
  <2>3. KnownBy(r)'
    BY <1>1, <1>2, <1>3, <1>4, <2>1
       DEF KnownBy, Running, Generating, FlagsTrue, EmailedToo, SetupTrue
  <2> QED
    BY <1>2, <2>1, <2>2, <2>3
<1> QED
  BY <1>1, <1>2, <1>3, <1>4, <1>6, <1>7, <1>8, <1>9, StepByItself, StepStarts

LEMMA RefillInv ==
    ASSUME DeliveryTypeOK, DeliveryInv, NEW r \in Callers, Refill(r)
    PROVE  DeliveryInv'
<1> DEFINE data == IF req[r].data = {} /\ active # 0
                   THEN {Now(flags, "absent")} ELSE req[r].data
<1>1. req[r].op = "dashboard" /\ req[r].pc = "refill"
  BY DEF Refill, Running
<1>2. PICK pc \in {"setup", "save"} :
        GoesWith(r, pc, data) /\ (pc = "setup" => \E v \in data : v.setup = "absent")
  BY DEF Refill
<1>3. /\ active' = active /\ issued' = issued /\ flags' = flags /\ verified' = verified
      /\ session' = session /\ UNCHANGED pageVars /\ mishaps' = mishaps /\ emails' = emails
      /\ entry' = entry /\ lock' = lock /\ call' = call
  BY DEF Refill, Unrowed, rowVars, Unsent, sentVars, Uncached, cacheVars
<1>4. \A v \in data : v \in req[r].data \/ (v.flags = flags /\ v.setup = "absent")
  BY DEF Now
<1> HIDE DEF data
<1>5. /\ \A q \in Callers : q # r => req'[q] = req[q]
      /\ req'[r].op = "dashboard" /\ req'[r].codes = req[r].codes
      /\ req'[r].force = req[r].force /\ req'[r].kept = req[r].kept
      /\ req'[r].saves = req[r].saves /\ req'[r].row = req[r].row
      /\ req'[r].seen = req[r].seen
      /\ req'[r].pc = pc /\ req'[r].data = data
  BY <1>1, <1>2, AfterGoesWith
<1>6. Proceeds(r)
  BY <1>1, <1>3, <1>5 DEF Proceeds
<1>7. Stage(req'[r].op, req'[r].pc)
  BY <1>2, <1>5 DEF Stage
<1>8. ASSUME Calm' PROVE PagesKnown'
  BY <1>1, <1>2, <1>3, <1>5, <1>6, <1>8, StepStarts, PagesMove DEF Calm
<1>9. ASSUME mishaps' = {} PROVE emails' <= 1 /\ UnderWay(r)' /\ KnownBy(r)'
  <2>1. emails <= 1 /\ UnderWay(r) /\ KnownBy(r)
    BY <1>3, <1>9, StepStarts
  <2>2. UnderWay(r)'
    BY <1>1, <1>3, <1>5, <2>1
       DEF UnderWay, Replacing, Running, Generating, FlagsTrue, EmailedToo, SetupTrue, OnRecord
  <2>3. \A v \in req[r].data : FlagsTrue(v) /\ SetupTrue(v) /\ EmailedToo(v, req[r].codes)
    BY <1>1, <2>1 DEF KnownBy, Generating
  <2>4. (\A v \in req[r].data : FlagsTrue(v) /\ SetupTrue(v) /\ EmailedToo(v, req[r].codes))'
    BY <1>3, <1>4, <1>5, <2>3 DEF FlagsTrue, SetupTrue, EmailedToo
  <2>5. KnownBy(r)'
    BY <1>2, <1>5, <2>4 DEF KnownBy, Running, Generating
  <2> QED
    BY <1>3, <2>1, <2>2, <2>5
<1> QED
  BY <1>1, <1>2, <1>3, <1>5, <1>6, <1>7, <1>8, <1>9, StepByItself, StepStarts
-----------------------------------------------------------------------------
(* Requests begin and end. *)

LEMMA EndRequestInv ==
    ASSUME DeliveryTypeOK, DeliveryInv, NEW r \in Callers, EndRequest(r)
    PROVE  DeliveryInv'
<1>1. req[r].op # "none" /\ req[r].pc = "save" /\ req' = Ended(r)
  BY DEF EndRequest
<1>2. /\ active' = active /\ issued' = issued /\ flags' = flags /\ verified' = verified
      /\ page_cache' = page_cache /\ page' = [page EXCEPT ![r] = "none"]
      /\ mishaps' = mishaps /\ emails' = emails
      /\ entry' = entry /\ lock' = lock /\ call' = call
  BY DEF EndRequest, Unrowed, rowVars, Uncached, cacheVars, sentVars
<1>3. CASE ~Calm
  <2>1. Staged'
    <3>1. Stage("none", "begin")
      BY DEF Stage
    <3>2. req'[r] = NoRequest /\ \A q \in Callers : q # r => req'[q] = req[q]
      BY <1>1 DEF Ended, DeliveryTypeOK
    <3>3. call[r] = NoCall
      BY <1>1 DEF DeliveryInv, Staged
    <3> QED
      BY <1>2, <3>1, <3>2, <3>3 DEF DeliveryInv, Staged, NoRequest
  <2> QED
    BY <1>2, <1>3, <2>1 DEF DeliveryInv, Calm
<1>4. CASE Calm
  <2>1. InTurn /\ PagesKnown
    BY <1>4, StepStarts
  <2>2. session' = IF req[r].saves
                   THEN [in |-> TRUE, codes |-> req[r].codes,
                         force |-> req[r].force \/ req[r].op = "regenerate"]
                   ELSE session
    BY <1>1, <2>1 DEF EndRequest, InTurn
  <2>3. req[r].op = "unverify" => ~req[r].saves
    BY <2>1 DEF InTurn
  <2>4. PagesKnown'
    <3>1. \A q \in Callers : req'[q].op = "none"
      BY <1>1, <2>1 DEF InTurn, Ended, NoRequest, DeliveryTypeOK
    <3>2. \A q \in Callers : page'[q] = "none"
      BY <1>1, <1>2, <2>1 DEF InTurn, PagesKnown, DeliveryTypeOK
    <3>3. ASSUME page_cache = "stale", session'.in PROVE session'.force
      <4>1. req[r].op # "dashboard"
        BY <1>1, <2>1, <3>3 DEF PagesKnown
      <4>2. CASE req[r].saves
        <5>1. session.in /\ req[r].op # "unverify"
          BY <1>1, <2>1, <2>3, <4>2 DEF InTurn
        <5>2. session.force \/ WillForce(r)
          BY <1>1, <2>1, <3>3, <5>1 DEF PagesKnown, InTurn, WillForce
        <5>3. req[r].force
          BY <1>1, <2>1, <4>1, <5>1, <5>2 DEF PagesKnown, WillForce
        <5> QED
          BY <2>2, <4>2, <5>3
      <4>3. CASE ~req[r].saves
        <5>1. session' = session
          BY <2>2, <4>3
        <5>2. \A q \in Callers : ~WillForce(q)
          BY <1>1, <2>1, <4>3 DEF InTurn, WillForce
        <5> QED
          BY <2>1, <3>3, <5>1, <5>2 DEF PagesKnown
      <4> QED
        BY <4>2, <4>3
    <3> QED
      BY <1>2, <3>1, <3>2, <3>3 DEF PagesKnown
  <2>5. ASSUME mishaps' = {}
        PROVE  /\ emails' <= 1
               /\ session'.codes \in {0, active'}
               /\ OnRecord(session.codes)'
               /\ (\A v \in entry : FlagsTrue(v) /\ EmailedToo(v, session.codes) /\ SetupTrue(v))'
    <3>1. emails <= 1 /\ UnderWay(r)
      BY <1>2, <2>5, StepStarts
    <3>2. session'.codes = req[r].codes
      BY <1>1, <2>2, <3>1 DEF UnderWay
    <3>3. /\ req[r].codes \in {0, active} /\ OnRecord(req[r].codes)
          /\ \A v \in entry : FlagsTrue(v) /\ EmailedToo(v, req[r].codes) /\ SetupTrue(v)
      BY <1>1, <3>1 DEF UnderWay, Running, Generating
    <3> QED
      BY <1>2, <3>1, <3>2, <3>3 DEF OnRecord, FlagsTrue, EmailedToo, SetupTrue
  <2>6. ~session'.in => session'.codes = 0
    BY <2>1, <2>2 DEF InTurn
  <2> QED
    <3>1. active' \in {0, issued'}
      BY <1>2, StepStarts
    <3>2. call' = call /\ lock' = lock /\ mishaps' = mishaps /\ req[r].pc # "asked"
      BY <1>1, <1>2
    <3> QED
      BY <1>1, <2>4, <2>5, <2>6, <3>1, <3>2, InvEnds
<1> QED
  BY <1>3, <1>4

LEMMA AfterBegin ==
    ASSUME DeliveryTypeOK, NEW r \in Callers, NEW op, NEW pc, Begin(r, op, pc)
    PROVE  /\ \A q \in Callers : q # r => req'[q] = req[q]
           /\ req'[r].op = op /\ req'[r].pc = pc /\ req'[r].codes = session.codes
           /\ req'[r].force = session.force /\ req'[r].kept = TRUE
           /\ req'[r].saves = (op = "regenerate")
           /\ req'[r].data = {}
  BY DEF Begin, NoRequest, DeliveryTypeOK

LEMMA BeginInv ==
    ASSUME DeliveryTypeOK, DeliveryInv, NEW r \in Callers, NEW op \in Ops, NEW pc,
           Begin(r, op, pc),
           pc = (IF op \in {"download", "email"} THEN "asked"
                 ELSE IF op = "viewed" THEN "find" ELSE "begin"),
           IF pc = "asked" THEN EnterCall(r) ELSE Uncached
    PROVE  DeliveryInv'
<1>1. /\ \A q \in Callers : q # r => req'[q] = req[q]
      /\ req'[r].op = op /\ req'[r].pc = pc /\ req'[r].codes = session.codes
      /\ req'[r].force = session.force /\ req'[r].kept = TRUE
      /\ req'[r].saves = (op = "regenerate")
      /\ req'[r].data = {}
  BY AfterBegin
<1>2. req[r].op = "none" /\ (op = "unverify" \/ session.in) /\ op # "none"
  BY DEF Begin, Ops
<1>3. /\ active' = active /\ issued' = issued /\ flags' = flags /\ verified' = verified
      /\ session' = session /\ page' = page /\ page_cache' = page_cache /\ emails' = emails
      /\ mishaps' = mishaps \cup (IF Others(r) = {} THEN {} ELSE {"overlap"})
  BY DEF Begin, Unrowed, rowVars, pageVars, sentVars
<1>4. entry' = entry /\ lock' = lock /\ \A q \in Callers : q # r => call'[q] = call[q]
  BY DEF EnterCall, CallTo, Uncached, cacheVars, DeliveryTypeOK, CacheTypeOK
<1>5. IF pc = "asked" THEN call'[r].pc = "lookup" /\ call'[r].value = {}
                      ELSE call'[r] = NoCall
  <2>1. CASE pc = "asked"
    BY <2>1, AfterCall DEF EnterCall
  <2>2. CASE pc # "asked"
    BY <1>2, <2>2, Resting DEF Uncached, cacheVars, DeliveryInv
  <2> QED
    BY <2>1, <2>2
<1>6. Staged'
  <2>1. Stage(op, pc)
    BY DEF Stage, Ops
  <2> SUFFICES ASSUME NEW q \in Callers
               PROVE  /\ Stage(req'[q].op, req'[q].pc)
                      /\ IF req'[q].pc = "asked" THEN call'[q].pc # "none"
                         ELSE call'[q] = NoCall
    BY <1>3, StepStarts DEF Staged
  <2>2. CASE q = r
    BY <1>1, <1>5, <2>1, <2>2
  <2>3. CASE q # r
    BY <1>1, <1>4, <2>3 DEF DeliveryInv, Staged
  <2> QED
    BY <2>2, <2>3
\* Nobody else is under way, or it is an overlap.
<1>7. ASSUME Calm'
      PROVE  /\ Calm /\ InTurn /\ PagesKnown
             /\ \A q \in Callers : req[q].op = "none"
             /\ mishaps' = mishaps
  <2>1. Others(r) = {}
    BY <1>3, <1>7 DEF Calm
  <2>2. mishaps' = mishaps /\ Calm
    BY <1>3, <1>7, <2>1 DEF Calm
  <2>3. \A q \in Callers : req[q].op = "none"
    BY <1>2, <2>1 DEF Others
  <2> QED
    BY <2>2, <2>3, StepStarts
<1>8. ASSUME Calm' PROVE InTurn'
  <2>1. \A q \in Callers : q # r => req'[q].op = "none"
    BY <1>1, <1>7, <1>8
  <2>2. op = "unverify" => ~req'[r].saves
    BY <1>1
  <2>3. ~session'.in => session'.codes = 0
    BY <1>3, <1>7, <1>8 DEF InTurn
  <2> QED
    BY <1>1, <1>2, <1>3, <2>1, <2>2, <2>3 DEF InTurn
<1>9. ASSUME Calm' PROVE PagesKnown'
  <2>1. \A q \in Callers : page[q] = "none" /\ ~WillForce(q)
    BY <1>7, <1>9 DEF PagesKnown, WillForce
  <2>2. page_cache = "stale" /\ session.in => session.force
    BY <1>7, <1>9, <2>1 DEF PagesKnown
  <2>3. \A q \in Callers : q # r => req'[q].op = "none"
    BY <1>1, <1>7, <1>9
  <2>4. op = "dashboard" => pc = "begin" /\ ~req'[r].saves
    BY <1>1
  <2> QED
    BY <1>1, <1>3, <2>1, <2>2, <2>3, <2>4 DEF PagesKnown
<1>10. ASSUME mishaps' = {}
       PROVE  /\ emails' <= 1
              /\ AtRest'
              /\ \A q \in Callers : Stands(q)'
              /\ lock' => Holders' # {}
  <2>0. Calm' /\ mishaps = {}
    BY <1>10, <1>7 DEF Calm
  <2>1. /\ emails <= 1 /\ AtRest /\ (lock => Holders # {})
        /\ \A q \in Callers : req[q].op = "none" /\ Stands(q)
    BY <1>7, <2>0 DEF DeliveryInv, Stands
  <2>2. AtRest'
    BY <1>1, <1>2 DEF AtRest
  <2>3. ASSUME NEW q \in Callers, q # r PROVE Stands(q)'
    <3>1. req[q].data = {}
      BY <2>1, DataAtRest DEF DeliveryInv
    <3> QED
      BY <1>1, <1>6, <2>1, <2>3, <3>1, OthersStand
  <2>4. /\ session.codes \in {0, active} /\ OnRecord(session.codes)
        /\ \A v \in entry : FlagsTrue(v) /\ EmailedToo(v, session.codes) /\ SetupTrue(v)
    BY <2>1 DEF AtRest
  <2>5. UnderWay(r)'
    BY <1>1, <1>3, <1>4, <2>4
       DEF UnderWay, OnRecord, FlagsTrue, EmailedToo, SetupTrue
  <2>6. KnownBy(r)'
    BY <1>1 DEF KnownBy, Running, Generating
  <2>7. CallKnows(r)'
    BY <1>5 DEF CallKnows, CallAt, NoCall
  <2>8. ~lock
    <3>1. \A q \in Callers : call[q] = NoCall
      BY <2>1, Resting DEF DeliveryInv
    <3> QED
      BY <2>1, <3>1 DEF Holders, NoCall
  <2> QED
    BY <1>3, <1>4, <2>1, <2>2, <2>3, <2>5, <2>6, <2>7, <2>8 DEF Stands
<1> QED
  BY <1>6, <1>8, <1>9, <1>10 DEF DeliveryInv, Calm, Stands

LEMMA BeginsInv ==
    ASSUME DeliveryTypeOK, DeliveryInv, NEW r \in Callers,
           \/ BeginSending(r, "download") \/ BeginSending(r, "email")
           \/ BeginOther(r, "viewed", "find")
           \/ \E op \in Ops \ {"download", "email", "viewed"} : BeginOther(r, op, "begin")
    PROVE  DeliveryInv'
<1>1. ASSUME NEW op \in {"download", "email"}, BeginSending(r, op) PROVE DeliveryInv'
  <2>1. op \in Ops
    BY DEF Ops
  <2> QED
    BY <1>1, <2>1, BeginInv DEF BeginSending
<1>2. ASSUME BeginOther(r, "viewed", "find") PROVE DeliveryInv'
  <2>1. "viewed" \in Ops
    BY DEF Ops
  <2> QED
    BY <1>2, <2>1, BeginInv DEF BeginOther
<1>3. ASSUME NEW op \in Ops \ {"download", "email", "viewed"}, BeginOther(r, op, "begin")
      PROVE  DeliveryInv'
  BY <1>3, BeginInv DEF BeginOther
<1> QED
  BY <1>1, <1>2, <1>3

\* After a worker has died or another device has interfered, only the stages remain.
LEMMA AccidentInv ==
    ASSUME DeliveryTypeOK, DeliveryInv, NEW r \in Callers, DeliveryCrash(r) \/ OtherDevice(r)
    PROVE  DeliveryInv'
<1>1. active' = active /\ issued' = issued
  BY DEF DeliveryCrash, OtherDevice, Unrowed, rowVars
<1>2. ~(mishaps' \subseteq {"failure"}) /\ mishaps' # {}
  BY DEF DeliveryCrash, OtherDevice
<1>3. Stage("none", "begin")
  BY DEF Stage
<1>4. ASSUME NEW q \in Callers
      PROVE  /\ Stage(req'[q].op, req'[q].pc)
             /\ IF req'[q].pc = "asked" THEN call'[q].pc # "none" ELSE call'[q] = NoCall
  <2>1. CASE DeliveryCrash(r)
    <3>1. /\ req' = [req EXCEPT ![r] = NoRequest] /\ call' = [call EXCEPT ![r] = NoCall]
      BY <2>1 DEF DeliveryCrash, Ended, CallerDies, LeaveCall
    <3>2. CASE q = r
      BY <1>3, <3>1, <3>2 DEF DeliveryTypeOK, CacheTypeOK, NoRequest
    <3>3. CASE q # r
      BY <3>1, <3>3 DEF DeliveryTypeOK, CacheTypeOK, DeliveryInv, Staged
    <3> QED
      BY <3>2, <3>3
  <2>2. CASE OtherDevice(r)
    <3>1. req' = req /\ CallAt(r, "acquire") /\ CallTo(r, "returned", {})
      BY <2>2 DEF OtherDevice, AcquireBusy
    <3>2. req[r].pc = "asked"
      BY <3>1, Asking DEF CallAt, DeliveryInv
    <3>3. call'[r].pc = "returned" /\ \A p \in Callers : p # r => call'[p] = call[p]
      BY <3>1, AfterCall
    <3> QED
      BY <3>1, <3>2, <3>3 DEF DeliveryInv, Staged
  <2> QED
    BY <2>1, <2>2
<1>5. Staged'
  BY <1>1, <1>4, StepStarts DEF Staged
<1> QED
  BY <1>2, <1>5 DEF DeliveryInv
-----------------------------------------------------------------------------
(* The world around the requests. *)

\* Nothing happens to the requests, and at most what is cached is lost.
LEMMA NothingNew ==
    ASSUME DeliveryInv, req' = req, call' = call, UNCHANGED rowVars, session' = session,
           emails' = emails, mishaps' = mishaps, page' = page,
           page_cache' \in {page_cache, "none"},
           entry' \subseteq entry,
           lock' => lock
    PROVE  DeliveryInv'
<1>1. active' = active /\ issued' = issued /\ flags' = flags /\ verified' = verified
  BY DEF rowVars
<1>2. Staged'
  BY <1>1 DEF DeliveryInv, Staged
<1>3. InTurn => InTurn'
  BY DEF InTurn
<1>4. PagesKnown => PagesKnown'
  BY DEF PagesKnown, WillForce
<1>5. AtRest => AtRest'
  BY <1>1 DEF AtRest, OnRecord, FlagsTrue, EmailedToo, SetupTrue
<1>6. ASSUME NEW q \in Callers, Stands(q) PROVE Stands(q)'
  <2>1. UnderWay(q)'
    BY <1>1, <1>6 DEF Stands, UnderWay, Replacing, Running, Generating, OnRecord, FlagsTrue,
                      EmailedToo, SetupTrue
  <2>2. KnownBy(q)'
    BY <1>1, <1>6 DEF Stands, KnownBy, Running, Generating, FlagsTrue, EmailedToo, SetupTrue
  <2>3. CallKnows(q)'
    BY <1>1, <1>6 DEF Stands, CallKnows, CallAt, FlagsTrue, EmailedToo, SetupTrue
  <2> QED
    BY <2>1, <2>2, <2>3 DEF Stands
<1>7. Holders' = Holders
  BY DEF Holders
<1> QED
  BY <1>2, <1>3, <1>4, <1>5, <1>6, <1>7 DEF DeliveryInv, Stands

LEMMA ExpiryInv ==
    ASSUME DeliveryInv, PagesExpire \/ Expire
    PROVE  DeliveryInv'
<1>1. /\ req' = req /\ call' = call /\ UNCHANGED rowVars /\ session' = session
      /\ emails' = emails /\ mishaps' = mishaps /\ page' = page
  BY DEF PagesExpire, Expire, LockExpires, EntryExpires, Uncached, cacheVars, Unrowed, Unsent,
         sentVars, pageVars
<1>2. page_cache' \in {page_cache, "none"}
  BY DEF PagesExpire, Expire, pageVars
<1>3. entry' \subseteq entry
  BY DEF PagesExpire, Expire, LockExpires, EntryExpires, Uncached, cacheVars
<1>4. lock' => lock
  BY DEF PagesExpire, Expire, LockExpires, EntryExpires, Uncached, cacheVars
<1> QED
  BY <1>1, <1>2, <1>3, <1>4, NothingNew

\* Whoever logs in had logged out: at most the admin's deletion of a set-up is under way.
LEMMA LoginInv ==
    ASSUME DeliveryTypeOK, DeliveryInv, Login
    PROVE  DeliveryInv'
<1>1. /\ active' = active /\ issued' = issued /\ flags' = flags /\ verified' = verified
      /\ entry' = entry /\ lock' = lock /\ call' = call
      /\ emails' = emails /\ mishaps' = mishaps /\ req' = req
  BY DEF Login, Unrowed, rowVars, Uncached, cacheVars, sentVars
<1>2. ~session.in /\ session'.in = TRUE /\ session'.codes = 0 /\ session'.force = TRUE
      /\ HistoryChanges
  BY DEF Login
<1>3. Staged'
  BY <1>1 DEF DeliveryInv, Staged
<1>4. ASSUME Calm'
      PROVE  /\ InTurn /\ PagesKnown /\ session.codes = 0
             /\ \A q \in Callers : req[q].op \in {"none", "unverify"}
  <2>1. InTurn /\ PagesKnown
    BY <1>1, <1>4, StepStarts DEF Calm, DeliveryInv
  <2> QED
    BY <1>2, <2>1 DEF InTurn
<1>5. Calm' => InTurn'
  BY <1>1, <1>2, <1>4 DEF InTurn
<1>6. ASSUME Calm' PROVE PagesKnown'
  <2>1. \A q \in Callers : page'[q] = "none"
    BY <1>2, <1>4, <1>6 DEF HistoryChanges, Aged, PagesKnown
  <2> QED
    BY <1>1, <1>2, <1>4, <1>6, <2>1 DEF PagesKnown
<1>7. ASSUME mishaps' = {} PROVE AtRest' /\ \A q \in Callers : Stands(q)'
  <2>1. Calm' /\ mishaps = {}
    BY <1>1, <1>7 DEF Calm
  <2>2. AtRest'
    BY <1>1, <1>2, <1>4, <2>1 DEF DeliveryInv, AtRest, OnRecord, FlagsTrue, EmailedToo, SetupTrue
  <2>3. ASSUME NEW q \in Callers PROVE Stands(q)'
    <3>1. UnderWay(q) /\ KnownBy(q) /\ CallKnows(q)
      BY <2>1 DEF DeliveryInv
    <3>2. UnderWay(q)'
      BY <1>1, <1>2, <1>4, <2>1, <3>1
         DEF UnderWay, Replacing, Running, Generating, OnRecord, FlagsTrue, EmailedToo, SetupTrue
    <3>3. KnownBy(q)'
      BY <1>1, <3>1 DEF KnownBy, Running, Generating, FlagsTrue, EmailedToo, SetupTrue
    <3>4. CallKnows(q)'
      BY <1>1, <3>1 DEF CallKnows, CallAt, FlagsTrue, EmailedToo, SetupTrue
    <3> QED
      BY <3>2, <3>3, <3>4 DEF Stands
  <2> QED
    BY <2>2, <2>3
<1>8. Holders' = Holders
  BY <1>1 DEF Holders
<1> QED
  BY <1>1, <1>3, <1>5, <1>6, <1>7, <1>8 DEF DeliveryInv, Stands, Calm

\* Whoever logs out, or deletes a history, interrupts the requests that are under way.
LEMMA InterruptInv ==
    ASSUME DeliveryTypeOK, DeliveryInv, Logout \/ DeleteHistory
    PROVE  DeliveryInv'
<1>1. /\ active' = active /\ issued' = issued /\ flags' = flags /\ verified' = verified
      /\ entry' = entry /\ lock' = lock /\ call' = call
      /\ emails' = emails /\ Interrupting
  BY DEF Logout, DeleteHistory, Unrowed, rowVars, Uncached, cacheVars, sentVars
<1>2. \A q \in Callers : /\ req'[q].op = req[q].op /\ req'[q].pc = req[q].pc
                         /\ req'[q].data = req[q].data
  BY DEF Logout, DeleteHistory, DeliveryTypeOK, Request
<1>3. session' = session \/ (session'.in = FALSE /\ session'.codes = 0 /\ session'.force = FALSE)
  BY DEF Logout, DeleteHistory
<1>4. \/ page_cache' = page_cache /\ page' = page /\ ~session'.in
      \/ /\ page_cache' = "none" /\ session' = session
         /\ \A q \in Callers : page'[q] = Aged(page[q])
  BY DEF Logout, DeleteHistory, pageVars
<1>5. Staged'
  BY <1>1, <1>2 DEF DeliveryInv, Staged
<1>6. ASSUME Calm'
      PROVE  /\ InTurn /\ PagesKnown /\ mishaps' = mishaps
             /\ \A q \in Callers : req[q].op = "none"
  <2>1. \A q \in Callers : req[q].op = "none"
    BY <1>1, <1>6 DEF Calm, Interrupting
  <2>2. mishaps' = mishaps
    BY <1>1, <2>1 DEF Interrupting
  <2> QED
    BY <1>6, <2>1, <2>2 DEF DeliveryInv, Calm
<1>7. ASSUME Calm' PROVE InTurn'
  BY <1>2, <1>3, <1>6, <1>7 DEF InTurn
<1>8. ASSUME Calm' PROVE PagesKnown'
  <2>1. \A q \in Callers : page'[q] = "none"
    BY <1>4, <1>6, <1>8 DEF PagesKnown, Aged
  <2>2. ~(page_cache' = "stale" /\ session'.in)
    BY <1>4
  <2> QED
    BY <1>2, <1>6, <1>8, <2>1, <2>2 DEF PagesKnown
<1>9. ASSUME mishaps' = {} PROVE AtRest' /\ \A q \in Callers : Stands(q)'
  <2>1. Calm' /\ mishaps = {}
    BY <1>6, <1>9 DEF Calm
  <2>2. AtRest'
    BY <1>1, <1>2, <1>3, <1>6, <2>1
       DEF DeliveryInv, AtRest, OnRecord, FlagsTrue, EmailedToo, SetupTrue
  <2>3. ASSUME NEW q \in Callers PROVE Stands(q)'
    <3>1. req[q].op = "none" /\ Stands(q)
      BY <1>6, <2>1 DEF DeliveryInv, Stands
    <3> QED
      BY <1>2, <1>5, <3>1, DataAtRest, OthersStand DEF DeliveryInv
  <2> QED
    BY <2>2, <2>3
<1>10. Holders' = Holders
  BY <1>1 DEF Holders
<1>11. mishaps' = {} => mishaps = {}
  BY <1>6 DEF Calm
<1> QED
  BY <1>1, <1>5, <1>7, <1>8, <1>9, <1>10, <1>11 DEF DeliveryInv, Stands, Calm
-----------------------------------------------------------------------------
LEMMA InitInv == DeliveryInit => DeliveryInv
<1> SUFFICES ASSUME DeliveryInit PROVE DeliveryInv
  OBVIOUS
<1> USE DEF DeliveryInit, CacheInit
<1>1. \A q \in Callers : req[q] = NoRequest /\ call[q] = NoCall /\ page[q] = "none"
  OBVIOUS
<1>2. Staged
  <2>1. Stage("none", "begin")
    BY DEF Stage
  <2> QED
    BY <1>1, <2>1 DEF Staged, NoRequest
<1>3. InTurn /\ PagesKnown
  BY <1>1 DEF InTurn, PagesKnown, NoRequest
<1>4. AtRest
  BY DEF AtRest, OnRecord
<1>5. \A q \in Callers : UnderWay(q) /\ KnownBy(q) /\ CallKnows(q)
  BY <1>1 DEF UnderWay, KnownBy, CallKnows, CallAt, NoRequest, NoCall, Running, Generating
<1>6. ~lock /\ emails <= 1
  OBVIOUS
<1> QED
  BY <1>2, <1>3, <1>4, <1>5, <1>6 DEF DeliveryInv

LEMMA NextInv ==
    ASSUME DeliveryTypeOK, DeliveryInv, [DeliveryNext]_vars
    PROVE  DeliveryInv'
<1>1. ASSUME NEW r \in Callers, DeliveryStep(r) PROVE DeliveryInv'
  BY <1>1, BeginsInv, EndRequestInv, CacheAloneInv, AccidentInv, ComputeInv, ChecksInv,
     SendEmailInv, FindBatchInv, MarkInv, PutDownloadedInv, PutMarkedInv, DiscardBatchInv,
     PutDiscardedInv, PeekInv, FillSetupInv, PutBackInv, CreateBatchInv, RefuseBatchInv,
     FailBatchInv, PutCreatedInv, ChangeCodeInv, VerifySetupInv, DeleteSetupInv, GetFlaggedInv,
     GetPageInv, ReadOrStorePageInv, RefillInv
     DEF DeliveryStep
<1>2. CASE Login
  BY <1>2, LoginInv
<1>3. CASE Logout \/ DeleteHistory
  BY <1>3, InterruptInv
<1>4. CASE PagesExpire \/ Expire
  BY <1>4, ExpiryInv
<1>5. CASE UNCHANGED vars
  BY <1>5, NothingNew DEF vars, cacheVars, pageVars, sentVars
<1> QED
  BY <1>1, <1>2, <1>3, <1>4, <1>5 DEF DeliveryNext

\* However the requests of all tabs interleave with logins, logouts, expiries, deaths and
\* failed creations: as long as none of them overlaps another, each knows at every step of
\* the views (views.py, generate_recovery_code_batch_helper) what the row, the cache and the
\* session say.
THEOREM DeliveryInvariance == DeliverySpec => []DeliveryInv
<1>1. DeliveryTypeOK /\ DeliveryInv /\ [DeliveryNext]_vars => DeliveryInv'
  BY NextInv
<1> QED
  BY InitInv, <1>1, DeliveryTypeCorrect, PTL DEF DeliverySpec

\* No batch is e-mailed twice by requests that do not overlap, die or fail.
THEOREM EmailedAtMostOnce == DeliverySpec => []EmailedOnce
<1>1. DeliveryInv => EmailedOnce
  BY DEF DeliveryInv, EmailedOnce
<1> QED
  BY <1>1, DeliveryInvariance, PTL

\* The session never keeps the codes of a batch that was discarded, replaced or refused.
THEOREM SessionCodesAreCurrent == DeliverySpec => []CodesAreCurrent
<1>1. DeliveryInv => CodesAreCurrent
  BY DEF DeliveryInv, CodesAreCurrent, Quiet, AtRest
<1> QED
  BY <1>1, DeliveryInvariance, PTL

\* What the cache says of a batch between the requests is what its row says.
THEOREM CacheStaysHonest == DeliverySpec => []CacheHonest
<1>1. DeliveryInv => CacheHonest
  <2> SUFFICES ASSUME DeliveryInv, Quiet, NEW v \in entry
               PROVE  /\ active # 0 => v.flags \subseteq flags
                      /\ session.codes # 0 /\ "emailed" \in flags => "emailed" \in v.flags
                      /\ v.setup = "no" => ~verified
    BY DEF CacheHonest
  <2>1. FlagsTrue(v) /\ EmailedToo(v, session.codes) /\ SetupTrue(v)
    BY DEF DeliveryInv, Quiet, AtRest
  <2> QED
    BY <2>1 DEF FlagsTrue, EmailedToo, SetupTrue
<1> QED
  BY <1>1, DeliveryInvariance, PTL

\* The dashboard never shows a page from before the history changed, failed creations or not.
THEOREM DashboardIsUpToDate == DeliverySpec => []DashboardUpToDate
<1>1. DeliveryInv => DashboardUpToDate
  BY DEF DeliveryInv, DashboardUpToDate, PagesKnown, Running
<1> QED
  BY <1>1, DeliveryInvariance, PTL
=============================================================================
