---------------------------- MODULE BatchDelivery ----------------------------
(***************************************************************************)
(* What a user's browser may do with the codes of a batch: download them,   *)
(* e-mail them, hide them, replace them, test the set-up, look at the       *)
(* dashboard.                                                               *)
(*                                                                         *)
(* The raw codes are only in the session, which a request loads when it     *)
(* starts and stores, as a whole, when it ends.  Whether a batch was        *)
(* downloaded, e-mailed or viewed is in its row and, with whether the user  *)
(* has tested the set-up, in the cache entry recovery_codes_generated_<id>  *)
(* (SafeCache's entry).  The pages of the dashboard come from a second      *)
(* entry, unless the session forces a read.                                 *)
(*                                                                         *)
(* One user with one session; the tabs of the browser are Callers.  A step  *)
(* is one access to the database, the cache or the session.                 *)
(***************************************************************************)
EXTENDS SafeCache

CONSTANT MaxBatches   \* bound: how many batches are ever issued

Mishaps == {"overlap", "death", "failure"}
\* The flags that requests ask for; nothing depends on viewed and generated.
Flags == {"downloaded", "emailed"}
Setups == {"absent", "no", "yes"}
CacheValue == [flags: SUBSET Flags, setup: Setups]

ASSUME DeliveryAssumption == MaxBatches \in Nat /\ Values = CacheValue

VARIABLES active,      \* the user's ACTIVE batch, 0: none
          issued,      \* how many batches were created
          flags,       \* the flags in the row of the newest batch; nobody reads those of others
          verified,    \* success of the RecoveryCodeSetup row
          session,     \* [in, codes, force]: logged in, batch of the raw codes, force_update
          page_cache,  \* recovery_codes_batch_history_<id>
          page,        \* the history that each tab's request has read
          req,         \* the request of each tab
          emails,      \* history: e-mails queued with the codes of the newest batch, at most 2
          downloads,   \* history: downloads of the codes of the newest batch, at most 2
          mishaps      \* history: what has gone wrong with the requests so far

rowVars == <<active, issued, flags, verified>>
pageVars == <<page_cache, page>>
sentVars == <<emails, downloads>>
vars == <<cacheVars, rowVars, session, pageVars, req, sentVars, mishaps>>

Pages == {"none", "fresh", "stale"}

Ops == {"download", "email", "viewed", "discard", "generate", "regenerate",
        "verify", "unverify", "code", "dashboard"}

Pcs == {"begin", "asked", "send", "find", "mark", "put", "setup", "put_back",
        "create", "page", "read_page", "store_page", "refill", "flag", "save"}

\* A request and what it holds: the session it loaded, whether that session still
\* exists, whether it changed it, the batch object it found, and a cached value.
Request == [op: Ops \cup {"none"}, pc: Pcs, codes: 0 .. MaxBatches, force: BOOLEAN,
            kept: BOOLEAN, saves: BOOLEAN, row: 0 .. MaxBatches,
            seen: SUBSET Flags, data: SUBSET CacheValue]

NoRequest == [op |-> "none", pc |-> "begin", codes |-> 0, force |-> FALSE, kept |-> FALSE,
              saves |-> FALSE, row |-> 0, seen |-> {}, data |-> {}]

Running(r, op, pc) == req[r].op = op /\ req[r].pc = pc
Goes(r, pc) == req' = [req EXCEPT ![r].pc = pc]
GoesWith(r, pc, data) == req' = [req EXCEPT ![r].pc = pc, ![r].data = data]
Others(r) == {q \in Callers \ {r} : req[q].op # "none"}
Now(f, setup) == [flags |-> f, setup |-> setup]

\* What was read before the history changed is stale.
Aged(p) == IF p = "fresh" THEN "stale" ELSE p
HistoryChanges ==
    /\ page_cache' = Aged(page_cache)
    /\ page' = [q \in Callers |-> Aged(page[q])]

\* What others do while a request is on its way overlaps it.
Interrupting == mishaps' = mishaps \cup
    (IF \E q \in Callers : req[q].op # "none" THEN {"overlap"} ELSE {})

Uncached == UNCHANGED cacheVars
Unrowed == UNCHANGED rowVars
Unsent == UNCHANGED <<session, sentVars, mishaps>>

DeliveryInit ==
    /\ CacheInit
    /\ active = 0
    /\ issued = 0
    /\ flags = {}
    /\ verified = FALSE
    /\ session = [in |-> TRUE, codes |-> 0, force |-> TRUE]
    /\ page_cache = "none"
    /\ page = [r \in Callers |-> "none"]
    /\ req = [r \in Callers |-> NoRequest]
    /\ emails = 0
    /\ downloads = 0
    /\ mishaps = {}
-----------------------------------------------------------------------------
(* A request begins with the session that is stored, and ends by storing it. *)

Begin(r, op, pc) ==
    /\ req[r].op = "none"
    /\ op = "unverify" \/ session.in
    /\ req' = [req EXCEPT ![r] =
           [NoRequest EXCEPT !.op = op, !.pc = pc, !.codes = session.codes,
                             !.force = session.force, !.kept = TRUE,
                             !.saves = op = "regenerate"]]
    /\ mishaps' = mishaps \cup (IF Others(r) = {} THEN {} ELSE {"overlap"})
    /\ Unrowed /\ UNCHANGED <<session, pageVars, sentVars>>

\* download_code and email_recovery_codes first ask get_cache_or_set.
BeginSending(r, op) ==
    /\ Begin(r, op, "asked")
    /\ EnterCall(r)

BeginOther(r, op, pc) ==
    /\ Begin(r, op, pc)
    /\ Uncached

Ended(r) == [req EXCEPT ![r] = NoRequest]

\* The session is stored if the request has changed it, and if it was not flushed.
EndRequest(r) ==
    /\ req[r].op # "none"
    /\ req[r].pc = "save"
    /\ session' = IF req[r].saves /\ req[r].kept
                  THEN [in |-> TRUE, codes |-> req[r].codes,
                        force |-> req[r].force \/ req[r].op = "regenerate"]
                  ELSE session
    /\ req' = Ended(r)
    /\ page' = [page EXCEPT ![r] = "none"]
    /\ Uncached /\ Unrowed /\ UNCHANGED <<page_cache, sentVars, mishaps>>
-----------------------------------------------------------------------------
(* Download and e-mail. *)

\* The value that is missing is read from the row of the active batch.
ComputeValue(r) ==
    /\ Compute(r, IF active = 0 THEN {} ELSE {Now(flags, "absent")})
    /\ Unrowed /\ UNCHANGED <<req, pageVars>> /\ Unsent

FlagOf(op) == CASE op = "download" -> {"downloaded"}
                [] op = "email" -> {"emailed"}
                [] OTHER -> {}

Refused(r) == \E v \in call[r].value : FlagOf(req[r].op) \subseteq v.flags

\* A batch that was sent, and a session without codes, end the request.  is_emailed and
\* is_downloaded, which only hide buttons, may be stored with the session.
Checks(r) ==
    /\ req[r].pc = "asked" /\ CallAt(r, "returned")
    /\ LET ends == Refused(r) \/ req[r].codes = 0 IN \E saves \in BOOLEAN :
            req' = [req EXCEPT ![r].pc = IF ends THEN "save" ELSE "send",
                               ![r].saves = saves]
    /\ LeaveCall(r)
    /\ UNCHANGED <<entry, lock, expiries, pageVars>> /\ Unrowed /\ Unsent

\* One more of what is counted of the newest batch.
OneMore(n, b) == IF b = issued /\ n < 2 THEN n + 1 ELSE n

\* The e-mail is queued before the batch is looked for.
SendEmail(r) ==
    /\ Running(r, "email", "send")
    /\ emails' = OneMore(emails, req[r].codes)
    /\ Goes(r, "find")
    /\ Uncached /\ Unrowed /\ UNCHANGED <<session, pageVars, downloads, mishaps>>

\* get_by_user; without a batch the answer is an error, and nothing is stored.
FindBatch(r) ==
    /\ Running(r, "email", "find") \/ Running(r, "download", "send")
       \/ Running(r, "viewed", "find")
    /\ req' = IF active = 0 THEN Ended(r)
              ELSE [req EXCEPT ![r].pc = "mark", ![r].row = active,
                               ![r].seen = flags]
    /\ Uncached /\ Unrowed /\ UNCHANGED pageVars /\ Unsent

\* mark_as_downloaded, mark_as_emailed, mark_as_viewed: the row and its history.
Mark(r) ==
    /\ req[r].op # "none"
    /\ req[r].pc = "mark"
    /\ LET marked == FlagOf(req[r].op) IN
         /\ flags' = flags \cup (IF req[r].row = issued THEN marked ELSE {})
         /\ req' = [req EXCEPT ![r].pc = "put", ![r].seen = @ \cup marked]
    /\ HistoryChanges
    /\ Uncached /\ UNCHANGED <<active, issued, verified>> /\ Unsent

\* Mutant: force_update is not set.
SavingUnforced(r) ==
    req' = [req EXCEPT ![r].pc = "save", ![r].saves = TRUE]

\* force_update is set: the next dashboard is to read the database.
Saving(r) ==
    req' = [req EXCEPT ![r].pc = "save", ![r].saves = TRUE, ![r].force = TRUE]

\* set_cache(CACHE_KEY, ...): the key is not formatted, and nobody reads that entry.
PutDownloaded(r) ==
    /\ Running(r, "download", "put")
    /\ downloads' = OneMore(downloads, req[r].codes)
    /\ Saving(r)
    /\ Uncached /\ Unrowed /\ UNCHANGED <<session, pageVars, emails, mishaps>>

\* Mutant: the values that were read before the flag was set.
PutUnmarked(r) ==
    /\ Running(r, "email", "put") \/ Running(r, "viewed", "put")
    /\ Put(Now(req[r].seen \ FlagOf(req[r].op), "absent"))
    /\ Saving(r)
    /\ Unrowed /\ UNCHANGED pageVars /\ Unsent

\* get_cache_values of the object that was found: the set-up is not among them.
PutMarked(r) ==
    /\ Running(r, "email", "put") \/ Running(r, "viewed", "put")
    /\ Put(Now(req[r].seen, "absent"))
    /\ Saving(r)
    /\ Unrowed /\ UNCHANGED pageVars /\ Unsent
-----------------------------------------------------------------------------
(* Batches come and go. *)

\* delete_recovery_batch; without a batch the request ends.
DiscardBatch(r) ==
    /\ Running(r, "discard", "begin")
    /\ active' = 0
    /\ req' = [req EXCEPT ![r].pc = IF active = 0 THEN "save" ELSE "put"]
    /\ Uncached /\ UNCHANGED <<issued, flags, verified, pageVars>> /\ Unsent

\* Mutant: the raw codes stay in the session.
PutDiscardedOnly(r) ==
    /\ Running(r, "discard", "put")
    /\ Put(Now({}, "absent"))
    /\ Saving(r)
    /\ Unrowed /\ UNCHANGED pageVars /\ Unsent

\* The raw codes leave the session, and reset_cache_values goes to the cache.
PutDiscarded(r) ==
    /\ Running(r, "discard", "put")
    /\ Put(Now({}, "absent"))
    /\ req' = [req EXCEPT ![r].pc = "save", ![r].saves = TRUE, ![r].force = TRUE,
                          ![r].codes = 0]
    /\ Unrowed /\ UNCHANGED pageVars /\ Unsent

Generating(r) == req[r].op \in {"generate", "regenerate"}

\* get_cache_with_retry(key, default={})
Peek(r) ==
    /\ Generating(r) \/ req[r].op = "dashboard"
    /\ req[r].pc = "begin"
    /\ GoesWith(r, IF req[r].op = "dashboard" THEN "page"
                   ELSE IF \E v \in entry : v.setup # "absent" THEN "put_back" ELSE "setup",
                entry)
    /\ Uncached /\ Unrowed /\ UNCHANGED pageVars /\ Unsent

\* Mutant: the flags that were cached are forgotten.
FillSetupAlone(r) ==
    /\ req[r].op # "none"
    /\ req[r].pc = "setup"
    /\ GoesWith(r, "put_back", {Now({}, IF verified THEN "yes" ELSE "no")})
    /\ Uncached /\ Unrowed /\ UNCHANGED pageVars /\ Unsent

\* set_setup_flag_if_missing_and_add_to_cache
FillSetup(r) ==
    /\ req[r].op # "none"
    /\ req[r].pc = "setup"
    /\ LET known == IF req[r].data = {} THEN {} ELSE (CHOOSE v \in req[r].data : TRUE).flags
       IN GoesWith(r, "put_back", {Now(known, IF verified THEN "yes" ELSE "no")})
    /\ Uncached /\ Unrowed /\ UNCHANGED pageVars /\ Unsent

PutBack(r) ==
    /\ req[r].op # "none"
    /\ req[r].pc = "put_back"
    /\ \E v \in req[r].data : Put(v)
    /\ Goes(r, IF Generating(r) THEN "create" ELSE "save")
    /\ Unrowed /\ UNCHANGED pageVars /\ Unsent

\* create_recovery_batch, in one transaction (CodeLifecycle has its steps).
CreateBatch(r) ==
    /\ Generating(r) /\ req[r].pc = "create"
    /\ issued < MaxBatches
    /\ issued' = issued + 1
    /\ active' = issued + 1
    /\ req' = [req EXCEPT ![r].pc = "put", ![r].codes = issued + 1]
    /\ flags' = {} /\ emails' = 0 /\ downloads' = 0
    /\ HistoryChanges
    /\ Uncached /\ UNCHANGED <<verified, session, mishaps>>

\* Mutant: the codes stay in the session when the guard refuses.
RefusedKeepsCodes(r) ==
    /\ Running(r, "regenerate", "create")
    /\ Goes(r, "put")
    /\ Uncached /\ Unrowed /\ UNCHANGED pageVars /\ Unsent

\* Mutant: the codes were generated before the guard was asked.
RefuseGenerated(r) ==
    /\ Running(r, "regenerate", "create")
    /\ req' = [req EXCEPT ![r].pc = "put", ![r].codes = issued + 1]
    /\ Uncached /\ Unrowed /\ UNCHANGED pageVars /\ Unsent

\* AttemptGuard refuses: the session gets an empty list of codes all the same.
RefuseBatch(r) ==
    /\ Running(r, "regenerate", "create")
    /\ req' = [req EXCEPT ![r].pc = "put", ![r].codes = 0]
    /\ Uncached /\ Unrowed /\ UNCHANGED pageVars /\ Unsent

\* An exception, for instance for a daysToExpiry that is negative: the codes stay in the
\* session, and in the cache what was put back.  Bound: only when nothing else has gone wrong.
FailBatch(r) ==
    /\ Generating(r) /\ req[r].pc = "create"
    /\ mishaps \subseteq {"failure"}
    /\ Goes(r, "save")
    /\ mishaps' = mishaps \cup {"failure"}
    /\ Uncached /\ Unrowed /\ UNCHANGED <<pageVars, session, sentVars>>

\* New flags go to the cache, also when nothing was created.
PutCreated(r) ==
    /\ Generating(r) /\ req[r].pc = "put"
    /\ \E v \in req[r].data : Put(Now({}, v.setup))
    /\ Saving(r)
    /\ Unrowed /\ UNCHANGED pageVars /\ Unsent

\* A valid code is used, deleted or deactivated (CodeLifecycle has the steps).
ChangeCode(r) ==
    /\ Running(r, "code", "begin")
    /\ active # 0
    /\ Saving(r)
    /\ HistoryChanges
    /\ Uncached /\ Unrowed /\ Unsent
-----------------------------------------------------------------------------
(* The test of the set-up. *)

\* verify_setup: a code of the user's is right.  It answers FAILURE = False in any case,
\* so the cached flag is set in any case.
VerifySetup(r, right) ==
    /\ Running(r, "verify", "begin")
    /\ right => active # 0
    /\ verified' = (verified \/ right)
    /\ Goes(r, "flag")
    /\ Uncached /\ UNCHANGED <<active, issued, flags, pageVars>> /\ Unsent

\* The set-up row is deleted in the admin; a signal resets the cached flag.
DeleteSetup(r) ==
    /\ Running(r, "unverify", "begin")
    /\ verified' = FALSE
    /\ Goes(r, "flag")
    /\ Uncached /\ UNCHANGED <<active, issued, flags, pageVars>> /\ Unsent

\* What is cached is read, changed and put back.
GetFlagged(r) ==
    /\ req[r].op # "none"
    /\ req[r].pc = "flag"
    /\ LET flag == IF req[r].op = "verify" THEN "yes" ELSE "no"
       IN GoesWith(r, IF entry = {} THEN "save" ELSE "put_back",
                   {Now(v.flags, flag) : v \in entry})
    /\ Uncached /\ Unrowed /\ UNCHANGED pageVars /\ Unsent
-----------------------------------------------------------------------------
(* The dashboard. *)

\* get_recovery_batches_context: force_update empties the cached pages.
GetPage(r) ==
    /\ Running(r, "dashboard", "page")
    /\ page' = [page EXCEPT ![r] = IF req[r].force THEN "none" ELSE page_cache]
    /\ page_cache' = IF req[r].force THEN "none" ELSE page_cache
    /\ req' = [req EXCEPT ![r].pc = IF page'[r] = "none" THEN "read_page" ELSE "refill",
                          ![r].force = FALSE, ![r].saves = @ \/ req[r].force \/ issued > 0]
    /\ Uncached /\ Unrowed /\ Unsent

ReadPage(r) ==
    /\ Running(r, "dashboard", "read_page")
    /\ page' = [page EXCEPT ![r] = "fresh"]
    /\ Goes(r, "store_page")
    /\ Uncached /\ Unrowed /\ UNCHANGED page_cache /\ Unsent

StorePage(r) ==
    /\ Running(r, "dashboard", "store_page")
    /\ page_cache' = page[r]
    /\ Goes(r, "refill")
    /\ Uncached /\ Unrowed /\ UNCHANGED page /\ Unsent

\* A missing entry is read from the row again, and so is a missing set-up flag.
Refill(r) ==
    /\ Running(r, "dashboard", "refill")
    /\ LET data == IF req[r].data = {} /\ active # 0
                   THEN {Now(flags, "absent")} ELSE req[r].data
       IN GoesWith(r, IF \E v \in data : v.setup = "absent" THEN "setup" ELSE "save", data)
    /\ Uncached /\ Unrowed /\ UNCHANGED pageVars /\ Unsent

-----------------------------------------------------------------------------
(* The world around the requests. *)

\* A code is used to log in again; whose session it is, is CodeLifecycle's and
\* LoginRateLimiter's concern.
Login ==
    /\ ~session.in
    /\ session' = [in |-> TRUE, codes |-> 0, force |-> TRUE]
    /\ HistoryChanges
    /\ Uncached /\ Unrowed /\ UNCHANGED <<req, sentVars, mishaps>>

\* The session is flushed; requests that have loaded it cannot store it any more.
Logout ==
    /\ session.in
    /\ session' = [in |-> FALSE, codes |-> 0, force |-> FALSE]
    /\ req' = [q \in Callers |-> [req[q] EXCEPT !.kept = FALSE]]
    /\ Interrupting
    /\ Uncached /\ Unrowed /\ UNCHANGED <<pageVars, sentVars>>

\* A worker dies.  Bound: only when nothing has gone wrong before.
DeliveryCrash(r) ==
    /\ req[r].op # "none"
    /\ mishaps = {}
    /\ req' = Ended(r)
    /\ page' = [page EXCEPT ![r] = "none"]
    /\ mishaps' = mishaps \cup {"death"}
    /\ CallerDies(r)
    /\ Unrowed /\ UNCHANGED <<session, page_cache, sentVars>>

PagesExpire ==
    /\ page_cache # "none"
    /\ page_cache' = "none"
    /\ Uncached /\ Unrowed /\ UNCHANGED <<req, page>> /\ Unsent

\* The history of a batch is deleted, and a signal drops the cached pages.
DeleteHistory ==
    /\ issued > 0
    /\ page_cache' = "none"
    /\ page' = [q \in Callers |-> Aged(page[q])]
    /\ Interrupting
    /\ Uncached /\ Unrowed /\ UNCHANGED <<req, session, sentVars>>

CacheAlone(r) ==
    /\ CacheStep(r)
    /\ Unrowed /\ UNCHANGED <<pageVars, req>> /\ Unsent

\* Another device of the user has the lock for the moment of one access.
OtherDevice(r) ==
    /\ mishaps = {}
    /\ mishaps' = {"overlap"}
    /\ AcquireBusy(r)
    /\ Unrowed /\ UNCHANGED <<pageVars, req, session, sentVars>>

Expire ==
    /\ LockExpires \/ EntryExpires
    /\ Unrowed /\ UNCHANGED <<pageVars, req>> /\ Unsent

DeliveryStep(r) ==
    \/ BeginSending(r, "download") \/ BeginSending(r, "email")
    \/ BeginOther(r, "viewed", "find")
    \/ \E op \in Ops \ {"download", "email", "viewed"} : BeginOther(r, op, "begin")
    \/ EndRequest(r)
    \/ CacheAlone(r) \/ OtherDevice(r) \/ ComputeValue(r)
    \/ Checks(r) \/ SendEmail(r) \/ FindBatch(r) \/ Mark(r)
    \/ PutDownloaded(r) \/ PutMarked(r)
    \/ DiscardBatch(r) \/ PutDiscarded(r)
    \/ Peek(r) \/ FillSetup(r) \/ PutBack(r)
    \/ CreateBatch(r) \/ RefuseBatch(r) \/ FailBatch(r) \/ PutCreated(r)
    \/ ChangeCode(r)
    \/ \E right \in BOOLEAN : VerifySetup(r, right)
    \/ DeleteSetup(r) \/ GetFlagged(r)
    \/ GetPage(r) \/ ReadPage(r) \/ StorePage(r) \/ Refill(r)
    \/ DeliveryCrash(r)

DeliveryNext ==
    \/ \E r \in Callers : DeliveryStep(r)
    \/ Login \/ Logout \/ PagesExpire \/ DeleteHistory \/ Expire

DeliverySpec == DeliveryInit /\ [][DeliveryNext]_vars
-----------------------------------------------------------------------------
(* Properties. *)

DeliveryTypeOK ==
    /\ CacheTypeOK
    /\ active \in 0 .. MaxBatches
    /\ issued \in 0 .. MaxBatches
    /\ flags \in SUBSET Flags
    /\ verified \in BOOLEAN
    /\ session \in [in: BOOLEAN, codes: 0 .. MaxBatches, force: BOOLEAN]
    /\ page_cache \in Pages
    /\ page \in [Callers -> Pages]
    /\ req \in [Callers -> Request]
    /\ emails \in 0 .. 2
    /\ downloads \in 0 .. 2
    /\ mishaps \in SUBSET Mishaps

Quiet == mishaps = {} /\ \A r \in Callers : req[r].op = "none"

\* As long as requests neither overlap nor die nor fail to create a batch, no e-mail is
\* sent twice: whenever the cache has forgotten that a batch was e-mailed, or was told so
\* by a creation that was refused, the row still knows or the codes are gone from the
\* session.
EmailedOnce == mishaps = {} => emails <= 1

\* The codes in the session are those of the ACTIVE batch, or there are none.
CodesAreCurrent == Quiet => session.codes \in {0, active}

\* The cache claims nothing that the row does not say, and as long as there are codes
\* to send it does not deny that they were e-mailed.
CacheHonest == Quiet => \A v \in entry :
    /\ active # 0 => v.flags \subseteq flags
    /\ session.codes # 0 /\ "emailed" \in flags => "emailed" \in v.flags
    /\ v.setup = "no" => ~verified

\* The dashboard shows the history as it is: what changes it has the next page read again.
DashboardUpToDate == mishaps \subseteq {"failure"} => \A r \in Callers :
    Running(r, "dashboard", "refill") => page[r] = "fresh"
-----------------------------------------------------------------------------
(***************************************************************************)
(* Why these hold: what is known while a request is at each of its steps.   *)
(* In all this, codes are those that the session will hold afterwards.      *)
(***************************************************************************)

\* The steps that each operation goes through.
Stage(op, pc) ==
    \/ op = "none" /\ pc = "begin"
    \/ op \in {"download", "email"} /\ pc \in {"asked", "send", "mark", "put", "save"}
    \/ op = "email" /\ pc = "find"
    \/ op = "viewed" /\ pc \in {"find", "mark", "put", "save"}
    \/ op = "discard" /\ pc \in {"begin", "put", "save"}
    \/ /\ op \in {"generate", "regenerate"}
       /\ pc \in {"begin", "setup", "put_back", "create", "put", "save"}
    \/ op \in {"verify", "unverify"} /\ pc \in {"begin", "flag", "put_back", "save"}
    \/ op = "code" /\ pc \in {"begin", "save"}
    \/ /\ op = "dashboard"
       /\ pc \in {"begin", "page", "read_page", "store_page", "refill", "setup",
                  "put_back", "save"}

Staged ==
    /\ active \in {0, issued}
    /\ \A r \in Callers :
         /\ Stage(req[r].op, req[r].pc)
         /\ IF req[r].pc = "asked" THEN call[r].pc # "none" ELSE call[r] = NoCall

\* The session of a request is still there when it ends; only the admin's deletion of a
\* set-up goes on without one, and stores none.
InTurn ==
    /\ \A q, r \in Callers : req[q].op # "none" /\ req[r].op # "none" => q = r
    /\ \A r \in Callers :
         /\ req[r].op \notin {"none", "unverify"} => session.in /\ req[r].kept
         /\ req[r].op = "unverify" => ~req[r].saves
    /\ ~session.in => session.codes = 0

\* The request is about to have the next dashboard read the database.
WillForce(r) ==
    /\ req[r].op \notin {"none", "dashboard", "unverify"}
    /\ req[r].pc = "put" \/ (req[r].pc = "save" /\ req[r].saves /\ req[r].force)

PagesKnown ==
    /\ page_cache = "stale" /\ session.in => session.force \/ \E r \in Callers : WillForce(r)
    /\ \A r \in Callers :
         /\ req[r].op # "dashboard" => page[r] = "none"
         /\ req[r].op \notin {"none", "dashboard", "unverify"} =>
              (session.force => req[r].force)
         /\ req[r].op = "dashboard" =>
              IF req[r].pc \in {"begin", "page"}
              THEN (req[r].force <=> session.force) /\ ~req[r].saves
              ELSE /\ page_cache # "stale"
                   /\ page[r] = IF req[r].pc = "read_page" THEN "none" ELSE "fresh"

\* The three claims of CacheHonest, one by one.
FlagsTrue(v) == active # 0 => v.flags \subseteq flags
EmailedToo(v, codes) == codes # 0 /\ "emailed" \in flags => "emailed" \in v.flags
SetupTrue(v) == v.setup = "no" => ~verified

\* What was e-mailed is on record, or cannot be sent again.
OnRecord(codes) == emails > 0 => "emailed" \in flags \/ codes = 0

AtRest == (\A r \in Callers : req[r].op = "none") =>
    /\ session.codes \in {0, active}
    /\ OnRecord(session.codes)
    /\ \A v \in entry : FlagsTrue(v) /\ EmailedToo(v, session.codes) /\ SetupTrue(v)

Replacing(r) == req[r].op \in {"discard", "generate", "regenerate"}

\* The codes, the e-mails and the entry while the request is under way.
UnderWay(r) == req[r].op # "none" =>
    /\ \/ req[r].codes = session.codes
       \/ Replacing(r) /\ req[r].pc = "put"
       \/ Replacing(r) /\ req[r].pc = "save" /\ req[r].saves
    /\ req[r].codes \in {0, active} \/ Running(r, "discard", "put")
    /\ OnRecord(req[r].codes) \/ (req[r].op = "email" /\ req[r].pc \in {"find", "mark"})
    /\ \A v \in entry :
         /\ FlagsTrue(v) \/ (Generating(r) /\ req[r].pc = "put")
         /\ \/ EmailedToo(v, req[r].codes)
            \/ Generating(r) /\ req[r].pc \in {"create", "put"}
            \/ Running(r, "email", "put")
         /\ SetupTrue(v) \/ (req[r].op = "verify" /\ req[r].pc \in {"flag", "put_back"})

\* What the request has read and will act on.
KnownBy(r) ==
    /\ req[r].op = "email" /\ req[r].pc \in {"send", "find", "mark"} => req[r].codes # 0
    /\ Running(r, "email", "send") => "emailed" \notin flags
    /\ Running(r, "email", "put") => "emailed" \in flags
    /\ req[r].pc = "mark" => active # 0 /\ req[r].row = active /\ req[r].seen = flags
    /\ req[r].op \in {"email", "viewed"} /\ req[r].pc = "put" => req[r].seen = flags
    /\ req[r].op \in {"download", "email", "viewed"} \/ req[r].pc \in {"begin", "flag"} =>
         req[r].data = {}
    /\ Generating(r) /\ req[r].pc = "put" => req[r].codes = 0 \/ flags = {}
    /\ Running(r, "dashboard", "setup") => req[r].data # {}
    /\ req[r].op = "unverify" /\ req[r].pc # "begin" => ~verified
    /\ \A v \in req[r].data :
         /\ SetupTrue(v)
         /\ req[r].pc \notin {"create", "put", "save"} => FlagsTrue(v)
         /\ req[r].pc # "save" /\ ~Generating(r) => EmailedToo(v, req[r].codes)

\* What get_cache_or_set has found for it, and that nobody else keeps it from finding it.
CallKnows(r) ==
    /\ \A v \in call[r].value : FlagsTrue(v) /\ EmailedToo(v, req[r].codes) /\ SetupTrue(v)
    /\ CallAt(r, "fill") => call[r].value # {}
    /\ call[r].pc \in {"release", "returned"} /\ call[r].value = {} => active = 0

\* While nothing goes wrong, each request knows at each of its steps what the row, the
\* cache and the session say of its batch, and what it does not know it sets right
\* before it ends: the inductive form of the properties above.
DeliveryInv ==
    /\ Staged
    /\ mishaps \subseteq {"failure"} => InTurn /\ PagesKnown
    /\ mishaps = {} =>
         /\ emails <= 1
         /\ AtRest
         /\ \A r \in Callers : UnderWay(r) /\ KnownBy(r) /\ CallKnows(r)
         /\ lock => Holders # {}
-----------------------------------------------------------------------------
(* What the documentation says and the code does not do. *)

\* "Only allows one download per batch; subsequent attempts return a JSON message."
OneDownloadPerBatch == Quiet => downloads <= 1

\* "Only allows one email per batch." A creation that fails puts an entry without the
\* flags into a cache that has lost the old one, and the codes are still in the session.
OneEmailPerBatch == mishaps \subseteq {"failure"} => emails <= 1

\* The set-up form is only hidden from users who have passed the test.
SetupTruthful == Quiet => \A v \in entry : v.setup = "yes" => verified
=============================================================================
