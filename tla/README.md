# Verification of django_auth_recovery_codes

TLA+ models of the Django application under `src/django_auth_recovery_codes`:
one-time recovery codes that a user generates in batches, downloads or receives
by e-mail, deletes, deactivates, or logs in with when the second factor is lost.
Line numbers below are those of the files of that directory.

## 1. Inventory

| Component | State | Operations | Where |
|---|---|---|---|
| Recovery code lifecycle | tables RecoveryCodesBatch, RecoveryCode, RecoveryCodesBatchHistory | login, delete, deactivate a code; discard a batch; generate, regenerate; purge | `models.py`, `views.py`, `views_code_handler_helper.py` |
| Attempt guard | cache entry of cooldown and attempts, `requested_attempt` of the batch, the process-wide `cooldown_manager` | `can_proceed` | `utils/attempt_guard.py`, `utils/cooldown_period.py`, `base_models.py` |
| Login rate limiter | tables LoginRateLimiter and LoginRateLimterAudit, their cache entry | `is_locked_out`, `record_failed_attempt`, `reset_attempts` | `models.py` 1858-2308 |
| Safe cache | cache entries, one lock entry per key | `cache_lock`, `get_cache_or_set`, `set_cache`, the retrying variants | `utils/cache/safe_cache.py` |
| Scheduled purge | purge schedules, purge history, audit, e-mail report | `purge_all_expired_batches`, `purge_expired_codes`, the report hook | `tasks.py`, `models.py`, `signals.py`, `helpers.py` |
| Audit clean-up | RecoveryCodeAudit and its schedule | `log_action`, `clean_up_audit_records` | `models.py` 112-220, `tasks.py` |
| Batch delivery | session copy of the raw codes, the flags `viewed`, `downloaded`, `emailed`, `generated`, their cache entry | download, e-mail, mark viewed | `views.py`, `models.py` 1033-1147 |
| Set-up verification | RecoveryCodeSetup, its cached flag | `verify_setup` | `models.py` 63-108, 1252-1324, `views_helper.py` |
| Dashboard and history | cached history pages, session copy of a page | `recovery_dashboard`, `get_recovery_batches_context` | `views.py` 571-640, `views_code_handler_helper.py` 505-556 |
| Schedules | django-q schedules derived from scheduler rows | signals, `unschedule_task`, `clear_queued_tasks` | `signals.py`, `utils/schedulers.py`, `tasks.py` |
| Settings checks | none | system checks | `checks.py`, `conf.py`, `app_settings.py` |
| Generator, hashing | none | code generator, HMAC, password hash | `utils/security` |
| Converters, exporters | none | seconds to text, file formats | `utils/converter.py`, `utils/exporters` |
| Front end | the page | buttons, tables, fetch calls | `static/django_recovery_codes/js` |
| Admin, forms, loggers | none of their own | forms and display | `admin.py`, `forms`, `loggers` |

How they interact: a web request runs in one worker and talks to the database
(no ATOMIC_REQUESTS: each statement outside `transaction.atomic` commits on its
own), to the shared cache, and to the session that it loads at the start and
saves at the end. Scheduled jobs run in django-q workers on the same tables.
There is no lock in the application but the cache lock of `safe_cache.py`; no
query uses `select_for_update`.

What makes it hard: rows that are read, kept in memory and saved whole or in
part after other requests have changed them; transactions that lock the same
rows in different orders; jobs that delete rows a request still holds; workers
that die between two statements; cache entries that expire, are evicted or hold
yesterday's row; locks that expire under their holder.

## 2. Modules

| Module | Models | Status |
|---|---|---|
| `CodeLifecycle` | the three tables of one user and every request or job that writes them | checked, proved |
| `CodePromise` | what the codes of a user promise, whatever overlaps | implemented by CodeLifecycle, proved |
| `AttemptGuard` | `can_proceed` of all users and processes: clock, cached cooldown, `last_attempt`, the shared manager | checked, proved |
| `LoginRateLimiter` | `is_locked_out` around AttemptGuard: limiter row, its cached copy, the counts, the audit, the wipe | checked, proved; extends AttemptGuard |
| `SafeCache` | one cache key and its lock entry: `get_cache_or_set`, `cache_lock`, the single accesses | checked, proved |
| `BatchDelivery` | what a browser does with a batch: session, delivery flags in the row and in the cache, set-up flag, dashboard | checked, proved; extends SafeCache |
| `Purge` | `purge_all_expired_batches` by two overlapping schedules: chunks, cap, retention, audit, history | checked, proved |
| `...MC` | instances for TLC: foreign keys, processes, users, values | |
| `CodeLifecycleProofs`, `CodeCountingProofs`, `AttemptGuardProofs`, `PatienceProofs`, `LoginRateLimiterProofs`, `SafeCacheProofs`, `BatchDeliveryProofs`, `PurgeProofs` | theorems | proved |

How they fit together. CodeLifecycle is the centre: it has every write to a code.
It leaves open whether the guard grants (AttemptGuard decides), which codes are
old enough for a purge (Purge decides), and how often a code may be guessed
(LoginRateLimiter decides, by extending AttemptGuard with the limiter as the row
that the guard reads). BatchDelivery extends SafeCache with the views that read
and write its entry, and takes creation and discard of a batch, whose steps are
CodeLifecycle's, as one step each.

### CodeLifecycle

A row is `unborn`, `stored` or `gone`; the columns kept are those that decide
what a code or a batch may still be used for: the status, the three flags of a
code, the three usage counters of a batch and its history. A request is a record
of what it has read so far (`copy` is the row object in memory) and where it
stands. A step is one SQL statement that commits on its own or one statement of a
`transaction.atomic` block; the writes of a transaction become visible at its
commit, and its row locks make other writers wait.

* `Lookup` is `get_by_code_and_user`, which reads without a lock. Login then
  counts batch (`CountBatch`) and history (`CountHistory`) and saves the code
  (`SaveCode`); delete and deactivate save first and count afterwards, as
  `views.py` does.
* `DiscardRead`, `DiscardLock`, `DiscardCommit` are `delete_recovery_batch`: the
  batch is read outside the transaction and saved whole inside it. Django turns
  the save of a row that is gone into an INSERT, and so does the model.
* `GuardRead`, `GuardSave`, `GuardFlush` are what the regeneration guard does to
  the batch row. Whether its cooldown is over is left open here.
* `StartCreate`, `CreateLock`, `CreateHistory`, `CreateCodes`, `CreateCommit` are
  `create_recovery_batch`, with one step per UPDATE of
  `_deactivate_all_batches_except_current`, because each of the three has a
  snapshot of its own.
* `PurgeStart`, `PurgeChunk`, `PurgeFinish` are `purge_expired_codes`. Which
  terminal codes are old enough, and where the cap of a run cuts it off, are
  left open.
* `DeadlockAbort` is the database breaking a cycle of row locks, `Crash` a
  worker that dies.

Assumptions about the database: READ COMMITTED, row locks, a blocked UPDATE
re-evaluates its WHERE clause when it gets the row. Where several rows are
locked by one statement the model takes them in one step; the two sides of a
race take them in the same order. The flush of the guard and the INSERT that
follows it touch different rows and are one step. A wait for a history row, which
nobody holds while waiting for anything else, and the commit after the last UPDATE
of a creation are not steps of their own.

### AttemptGuard

A subject is a key `attempts:<action>:<user>`. Of its batches only the ACTIVE ones
matter, because `get_by_user` matches no others; of a row only `last_attempt`, of
the cached cooldown `remaining_seconds` and the instant it expires. The process-wide
`cooldown_manager` has two fields, `cache_key` and `initial_ttl`, which every thread
of the process writes and reads. A step is one access to the cache, the database or
the log.

* `Ask` is `_can_codes_be_generated_yet`. `CheckCooldown` sets the key of the
  process-wide `cooldown_manager` and reads the entry. With a cooldown cached,
  `UpdateRead` and `UpdateWrite` are `RecoveryCooldownManager.update`, under
  whatever key the manager has at each of the two accesses.
* Without one, `ReadRow` is `get_by_user` and what is left of the row's cooldown.
  No row raises ValueError, which the caller takes for a permission; several rows
  raise MultipleObjectsReturned, which nobody handles.
* `IncrementAttempts`, `StartCooldown`, `StoreCooldown` and `AnnounceCooldown` refuse.
  The full save moves `last_attempt` and may bring a retired batch back. Then
  `_process_recovery_cooldown_period` sets the manager's key and time, `start()` stores
  what it composed before its log entry, for as long and under the key that the manager
  has by then, and answers with the time that the manager has after the access.
* `FlushRead`, `FlushWrite`, `FlushDelete` grant: they are
  `flush_cache_and_write_attempts_to_db`, and `Regenerate` is what follows.
* `Generate`, which no guard covers, `Discard`, `Crash` and `Tick` go on around
  it. `Tick` also expires entries, and may come between any two steps.

The clock counts whole seconds, as `int(total_seconds())` does. The attempt
counts in rows and entries are left out: the guard asks only whether there is an
entry. `told`, `next`, `touched`, `patient` and `obeyed` are history that the
properties need. Rows that a purge deletes under a waiting request are in CodeLifecycle, not here.

### LoginRateLimiter

Extends AttemptGuard: the subjects are users, the requests browsers, and the row
that the guard reads is the limiter of the user, whose `login_attempts` are
`attempts`. `cached` is the entry `login_rate_limiter_<id>`, which holds a copy of
the whole row; `copy` is the object a request works with.

* `Submit` is the form of `login_user`; `GetLimiter`, `FetchLimiter` and
  `CacheLimiter` are `_get_login_rate_limiter`, which creates a row that is
  missing.
* Below the maximum, `RecordAttempt` counts in the copy before the code is looked
  at. It saves the row at once, or, with
  `DJANGO_AUTH_RECOVERY_CODES_AUTH_RATE_LIMITER_USE_CACHE`, only when the maximum
  is reached (`use_cache` is either); `StoreCopy` puts the copy back.
* At the maximum, `CheckLockout` and `GuardedStep` go through AttemptGuard.
  `GuardCounts` is what that does to the count of attempts, which AttemptGuard
  leaves out. Counts beyond the maximum are one (`Counting`), because the code
  only asks whether a count is below it.
* Who may proceed is unlocked: `AuditLookup` and `AuditCreate` are
  `create_record_login_audit`, which writes a user's first lock-out and no other and
  raises if a row with another count has come up since the look-up. `ResetAttempts` wipes the row, `ForgetCopy` deletes
  the copy. `Guess` is the look-up of the code, valid or not.
* `Visit`, `VisitFetch`, `VisitCache` are the dashboard's
  `ensure_exists_or_create_and_cache`. `Evict` is a copy that expires or a cache
  server that restarts (and takes the cooldown along), `LimiterCrash` a worker
  that dies.

`guesses` and `failures` count since the last wipe. With cache-first counting an
eviction forgets attempts that are saved nowhere; that is what the setting means,
so they start again there too.

### SafeCache

One key, `entry`, and its lock entry. `EnterCall` to `Release` are the accesses of
`get_cache_or_set`. A caller that does not get the lock returns None, although the
docstring has it wait. `Release` deletes the lock entry whoever has put it there.
Whatever a caller finds or computes is in `Results`. `Put` is `set_cache` and the retrying operations: they take the lock for a single
access, and make that whether they get the lock or not, so the rest sees one
access; `AcquireBusy` is a caller that meets the lock at such a moment, and
`CallerDies` leaves it behind. `MaxExpiries` bounds how often the lock expires.

### BatchDelivery

Callers are the tabs of one session. A request (`req`) works on the session it
loaded at its start and stores it whole at its end (`EndRequest`), unless a logout
has flushed it meanwhile. `session.codes` is the batch whose raw codes it holds,
`flags` what the row says was sent, `entry` (SafeCache's) what the cache entry
`recovery_codes_generated_<id>` says of it and of the set-up test.

* Download and e-mail: `BeginSending`, SafeCache's accesses with `ComputeValue` as
  the function, `Checks`, `SendEmail` (queued before the batch is looked for),
  `FindBatch`, `Mark`, and `PutDownloaded`, which stores nothing that anybody reads
  because its key is not formatted, or `PutMarked`. `Mark` is marking as viewed, too.
* `DiscardBatch`, `PutDiscarded`: discard. `Peek`, `FillSetup`, `PutBack`, then
  `CreateBatch`, `RefuseBatch` (the guard) or `FailBatch` (an exception), and
  `PutCreated`: generate and regenerate.
* `VerifySetup`, `DeleteSetup`, `GetFlagged`: the set-up test and the signal that
  takes it back. `ChangeCode`: a code is deleted or deactivated.
* `GetPage`, `ReadPage`, `StorePage`, `Refill`: the dashboard. `page_cache` and `page`
  only say whether the history they hold is `fresh` or `stale`.

Of the flags only `downloaded` and `emailed` are kept: `viewed` and `generated` are
written with them and nothing is decided by them. `mishaps` says what has gone
wrong so far: requests that overlapped, a worker that died, a creation that raised.

### Purge

Codes are `usable`, `retired` (given up by their users), `purged`, or `cascaded`
(deleted with their batch). `modified` is `modified_at`, from which the retention is
measured. Of the ways to give codes up (`GiveUp`) only `DeleteCode`, a use or a deletion,
saves that field and so moves it. `InvalidateCode` saves other fields, and `RetireBatch`
is a `QuerySet.update`.

* `SaveScheduler` is the `post_save` signal of the scheduler row: it keeps one
  schedule. `Migrate` is the `post_migrate` signal: it adds a second under another
  name, which no later change of the scheduler touches.
* A run of a schedule is `StartRun`, and for each batch `NextBatch`, `CountCodes`,
  `PickChunk` and `DeleteChunk` in a loop with the cap (`Capped`), `AuditPurge`,
  `FinishBatch`; `RecordRun` writes the history row. Each step is one statement, and
  runs of the two schedules interleave.
* `FailBatch` is a statement that raises, upon which the job goes on with the next
  batch; `PurgeCrash` a worker that dies.

The cap is unset, unlimited or a number. Unset, it is `None`, and comparing with it
raises after the first chunk was deleted and before it is audited (`models.py` 708).

## 3. Runs

| Run | Instance | What it shows |
|---|---|---|
| `batches` | 2 overlapping requests, 2 batches with one code each, fair | Logins, replacements, discards and purges overlap. No stale row brings a code back; the life of a code only moves forward; every login is counted; every request ends. |
| `sequential` | 1 request at a time, all operations, 3 codes in 2 batches, 1 crash | What the code is written for: one ACTIVE batch, exact counters, and the direction in which a crash shifts them; `SequentialInv`, from which the proofs take that. |
| `guard_alone` | 1 request at a time, 12 seconds, cooldown 2, cutoff 3 | Regenerations are a cooldown apart although workers die between grant and regeneration; a cached cooldown never shrinks; no chain of refusals exceeds the bound; who stays away long enough is served; `AloneInv`, from which the proofs take the first two. |
| `limiter` | 1 browser, 6 seconds, 2 attempts, both ways of counting | At most `MaxAttempts + 1` guesses between two wipes; wipes come a cooldown after the last counted attempt; none comes before the user's first lock-out is on record, and the row of that one does not make a later unlocking fail; saved counts are not taken back by stale copies. |
| `delivery` | 1 browser, 2 batches, the lock expires once, entries any time, one mishap | Row, cache and session agree on what was sent as far as the code can promise; the dashboard is up to date; `DeliveryInv`, from which the proofs take all of it. |
| `safe_cache` | 3 callers, the lock expires twice, entries any time | A slow holder deletes the lock of the next one, and that one the lock of a third; still there are never more holders than one and the expiries. |
| `purge` | 2 schedules, 2 codes of 1 batch, chunk 1, cap unset, unlimited or 1, 3 days, one failure or death, fair | Nothing is deleted by cascade; audit and history add up; what was given up is purged in the end. |
| `double_login` | 2 logins, 1 code | Violation: both logins succeed. |
| `two_active` | 2 creations | Violation: two batches are ACTIVE; every later `objects.get(status=ACTIVE)` raises. |
| `guard_threads` | 2 users on 2 threads of one process | Violation: a refusal of one user is stored under the other's key. |
| `limiter_valid_logins` | as `limiter` | Violation: valid logins alone send a user to the guard. |
| `purge_retention` | 2 schedules, 2 batches, 4 days, retention at most 1 day | Violation: a code is purged on the very day that it was given up, two days after it was last saved. |

Configurations beside them, for questions that the runs above do not ask:

| Configuration | Module | Result |
|---|---|---|
| `CodeLifecycleCodes.cfg` | `CodeLifecycleMC` | 2 requests on 2 codes of one batch, all operations, 1 crash: `IndInv`, `CountingInv`, `LoginsCounted`, `KeepsPromise` hold |
| `AttemptGuardOverlap.cfg` | `AttemptGuardMC` | 2 requests of a user on 2 processes, 4 seconds: `GuardInv` and `PatienceServed` hold |
| `CodeLifecycleLostCount.cfg` | `CodeLifecycleMC` | `NoCountLost` is violated |
| `AttemptGuardShortWait.cfg` | `AttemptGuardMC` | `WaitIsEnough` is violated |
| `AttemptGuardNotEnforced.cfg` | `AttemptGuardMC` | `WaitIsEnforced` is violated |
| `AttemptGuardLowCutoff.cfg` | `AttemptGuardMC` | 1 request at a time, a cooldown of twice the cutoff: `PenaltyGrows` is violated |
| `LoginRateLimiterAudit.cfg` | `LoginRateLimiterMC` | as `limiter`: `LockoutsAudited` is violated |
| `BatchDeliveryDownload.cfg` | `BatchDeliveryMC` | as `delivery`: `OneDownloadPerBatch` is violated |
| `PurgeEmptyBatch.cfg` | `PurgeMC` | `EmptyBatchesGone` is violated |

Bounds. Two overlapping requests are enough for every race of CodeLifecycle: each
property relates the rows one request holds in memory to what one other did
since. A third only repeats the pattern, and the proofs cover any number. Batches
and codes are the keys that exist; a batch has as many codes as `BatchOf` gives
it; `MaxCrashes` bounds deaths of workers. In AttemptGuard `MaxTime` stops the
clock after four lock-outs of full length, `MaxBatches` bounds how often codes are
generated, and the cutoff is such that the second refusal is capped. The limiter
needs two attempts, so that a count can be below the maximum, at it and (through a
refusal) beyond it, and time for two lock-outs. SafeCache needs three callers and two
expiries for a lock that is taken away twice in a row. BatchDelivery needs two batches, so that the session and
the cache can be about another batch than the row is; `MaxExpiries` bounds the
expiries of the lock only, entries expire at any time. `mishaps` is not reset: once
something has gone wrong, each property says whether it still speaks. In Purge a
chunk of one code makes two chunks of a batch and lets the cap of one cut the run
between them. `RetentionKept` allows a purge on the day that the retention is over, and
needs days enough for a code to be given up when it is already older than that. `InTime` lets nobody give up codes in the last days, so that the end
of the calendar does not keep a run from purging them.

In AttemptGuard and LoginRateLimiter the clock stops, which is why deadlock is not
checked there; both check safety only, so it takes nothing away.

Fairness. CodeLifecycle: `Continue(p)` is strongly fair: a worker runs the request
it has started, and a statement that waits for a row lock is queued, so the lock
being freed again and again does not pass it by for ever. With weak fairness alone
TLC finds a request that is starved by an endless series of deadlock victims.
`DeadlockAbort` is weakly fair: databases detect cycles. Purge: django-q starts the
schedule again and again (`StartRun("signal")`), its workers go on with what they
run (`RunStep("signal")`), and days pass (`Tick`), all weakly fair. The second
schedule is not assumed to run. Nothing is assumed of users, administrators,
failures or crashes. `PurgedEventually` holds although a run may fail, die or be
capped, or raise for want of a cap: each run deletes at least one chunk of what is
old enough, and a batch that was skipped is found again by the next.

Conditions in the properties. `RegenerationsSpaced` and `GuessesBounded` are about
one request at a time: two that overlap all pass the guard, or count once, before
either has written. `EmailedOnce`, `CodesAreCurrent` and `CacheHonest` are about
requests that do not overlap: the lock of `get_cache_or_set` protects the entry, not
what is sent, and its loser goes on with None. `AuditsMatch` and `HistoryMatches`
except runs that were cut short and an unset cap, after which codes are purged
without a trace.

## 4. Proofs

Checked by TLAPS for every value of the constants.

CodeLifecycle. `IndInv` adds to the row invariants what each request may rely on: a
whole-row copy is one of an ACTIVE batch (`CopyOK`), a discard has locked every usable code
of its batch (`DiscardOK`), a creation's later snapshot of the codes holds every
usable code of the batches it locked before (`CreateOK`), a purge has counted
only deleted codes of its batch (`PurgeOK`). Without these the row invariants are
not inductive: `RetiredBatchIsDead`, for instance, would not survive a commit
whose snapshot of the codes could be anything. The proof splits a step of
request p into what p itself knows afterwards (one lemma per action) and what
the others still know (`OthersUndisturbed`, once for all actions, from the fact
that rows only move forward).

`PromiseKept` is the refinement: from `IndInv`, each write of code rows is a
`Spend`, `Issue` or `Collect` of CodePromise and everything else leaves the lives
of the codes alone. `CascadeFindsNothing` shows why the purge's cascade is
harmless: a run that deleted as many codes as were issued deleted all of them.

CodeCountingProofs. `EveryLoginCounted` holds of requests that overlap as they like:
the history counts at least the successful logins with codes of the batch. Alone it is
not inductive, because the UPDATE that counts and the save that makes the login a
success are two steps of a request; `CountingInv` adds the logins that stand between
them, so that each one that succeeds finds itself counted. `LoginsWith` adds up over a
set, and induction is not at hand; what the sum needs is shown by the smallest
counterexample (`LeastNat`, `MinimalSubset`, from `WFMin` of WellFoundedInduction):
that the recursive function behind the fold exists (`SumsEquation`), is a number
(`SumNat`), and moves by one where one summand does (`SumStep`).

`AtMostOneActive`, `CountersExact` and `CrashesErrOneWay` have the hypothesis
`OneRequest`, that no two requests of the user are under way at once; `two_active` shows
what two do. `SequentialInv` says that a request's memory is what the rows still hold
(`UpToDate`), which fails for any request that another has overtaken, and where between
counting and saving each counter is off by one, ahead for a login and behind for the
other two (`Directed`, `Exact`). A crash freezes it there: `Directed` is what is left.

AttemptGuard. `LockoutIsBounded` says that no chain of refusals, however many requests, users,
threads and processes take part, reaches more than max(cooldown, cutoff) seconds
into the future. Alone it is not inductive: an entry is written from what a
request has read some time ago. `MemoryBounded` adds that nothing in a request's
memory reaches further, which needs that no row was written in the future and
that a manager in use holds the key of some subject and a time within the bound, if not
those of the right request.
One lemma per action (`UpdateWriteSafe` and so on) shows what the request itself
keeps, and `OthersRemember`, once for all of them, that the others keep theirs.

`PatienceIsServed` says that a user who stays away for max(cooldown, cutoff) and then
asks alone is not refused. It needs the assumption `OwnManagers`, that no two
requests run on one process at a time: where they do, a refusal of one user is
stored under another's key (`guard_threads`), and that user is refused whatever the
patience. The invariant `PatienceInv` adds to `GuardInv` that the entry and rows of a
subject reach at most max(cooldown, cutoff) beyond the last time one of its requests
ran (`Recent`), that a request's manager holds its key (`OwnKey`), that what it has
read is no longer than it may be and is the manager's time when it is stored
(`OwnWait`), and that a patient request is alone
with its subject (`Lonely`) and has met nothing that refuses it (`Unhindered`).

`RegenerationsAreSpaced` and `PenaltiesGrow` are about requests that come one at a time
(`OneRequest` of PatienceProofs). `AloneInv` says that the rows of a subject are no
older than its last regeneration (`Standing`), so that whoever is between the grant and
the regeneration has waited (`Earned`), even if a worker before died in the flush; and
that a cached cooldown can only have expired since the request read it (`Fresh`), so
that the raised wait replaces the one it was computed from, and a cooldown is started
only where there is none. `PenaltiesGrow` also needs `Cooldown <= Cutoff`, which
nothing enforces: `default_cooldown_seconds` is base times multiplier, so the settings
of USAGE.md (183-189) make rows with a cooldown of twice the cutoff. With a cutoff
below the cooldown of a row TLC finds the second refusal shorter than the first.

LoginRateLimiter. `LimiterTypeCorrect` and `FirstLockoutIsAudited` hold of any number of
browsers: who is sent to the guard holds a copy with at least `MaxAttempts` counted
(`AuditInv`), and the audit gets that copy unless it has a row already.
`UnlocksGoThrough` needs `OneBrowser`, one browser per user: whoever is about to create
the row has found none, and only this user's browser could have made one since
(`UnauditedYet`). Two that overlap can hold different counts, and the later one's
`get_or_create` then raises. `GuessesAreBounded`, `WipesAreSpaced` and
`CountsNeverFall` need it, too, because two that overlap count once, and `OwnManagers`,
as above. There may be any number of users, and they
interleave. The attempts of a user are in three places, the row, the cached copy and
the copy of the request, any of which may be missing or behind the others;
`LimiterInv` says by how much. `Counts` relates row, cached copy and guesses, `Holds`
says what a request may rely on at each of its steps, `Dated` and `HoldsDated` that a
count which has reached the maximum was saved in a row no older than the last attempt:
that is why the row's cooldown measures from it. `Unentered` says that a request which
has found no cached cooldown meets none later, so that the grant which would take the
count from a cached cooldown does not happen. `GuardStepGoes` sums up what a step of
AttemptGuard does to its own subject (`GuardGoes`); then there is one lemma per action
on the browser that moves (`OwnStep`, `Own`), and `OthersHold`, once for all of them,
on the other users.

SafeCache. `LockHoldersAreBounded`: for any number of callers there is never more
than one holder of the lock beyond the number of times that it has expired. The
property is inductive with the types; the proof is about cardinalities: `Acquire`
adds a holder only when the lock is free, `Release` frees the lock but takes a
holder away, even if the lock was another's, and only `LockExpires` frees it without
doing so, and is counted.

BatchDelivery. `DeliveryImplementsCache` is a refinement without a mapping, because
the module extends SafeCache: every step of a request, a crash and an expiry is a step
of SafeCache or leaves the entry, its lock and the calls alone (`NextIsCacheStep`). So
what is proved of the cache holds of the views (`DeliveryHoldersBounded`).

`EmailedAtMostOnce`, `SessionCodesAreCurrent`, `CacheStaysHonest` and
`DashboardIsUpToDate` follow from `DeliveryInv`. The properties speak only while
nothing has gone wrong, and no request runs but the one whose turn it is (`InTurn`);
but what they say is broken and mended again within a request: after a creation the
cache has the flags of the batch before until they are put, and an e-mail is queued
before the row says so. So the
invariant says what holds when nobody is under way (`AtRest`), what of that is
suspended at which steps of which operation (`UnderWay`), what a request has read and
will act on (`KnownBy`), and what a call of the cache has found for it (`CallKnows`).
`PagesKnown` says the same of the dashboard, and survives a creation that raises:
whenever the cached history is stale, the session or the request under way holds the
order to read the database. `Staged` lists the steps each operation goes through, and
holds whatever goes wrong. There is one lemma per action; `InvGoesOn`, `InvEnds` and
`BeginInv` are the request that goes on, that ends and that starts, and `OthersStand`
covers the tabs that rest. A step that overlaps another request sets `mishaps`, after
which only `Staged` is claimed. There may be any finite number of tabs and of batches.

Purge. `CascadeSparesCodes`, `AuditsAddUp`, `HistoryAddsUp` and `CapIsKept` share one
inductive invariant, `PurgeInv`. `RunOK` says that a run works on one batch and has
deleted no more of it than is purged; so a run that finds the batch empty has
deleted every code of it itself, and nothing is left for the cascade. For the books
that is not enough: a run whose batch the other run has deleted writes no audit row,
and must have nothing to write. `GoneAudited` says why: the audit rows of a batch
whose row is gone account for all its codes, and since `AuditsMatch` adds up, nobody can
have more. `LedgerOK` says where in its loop a run has what is not audited yet, and
`CapOK` where the cap bounds it. Here, too, there is one lemma per action, and one,
`OutsideSafe`, for users, the administrator and the clock.

Assumptions: `ConstantsAssumption`, that is a foreign key for every code,
finitely many codes, and null values that are no keys; `GuardAssumption`, that
cooldown, multiplier and cutoff are positive and every request has a process;
`LimiterAssumption`, a user for every browser and a positive maximum;
`CacheAssumption`, finitely many callers; `DeliveryAssumption`, that the values
cached are those of the delivery; `PurgeAssumption`, finitely many codes, a foreign
key for each, and a positive chunk. The code accepts a cutoff of zero, with which
every raised wait is zero; that setting is excluded.

Only model-checked: liveness, which is out of the reach of the prover, that is
`EveryRequestEnds` and `PurgedEventually`. The findings of section 5 are traces, and
there is nothing to prove about them. The theorems under `OneRequest`, `OneBrowser` and
`OwnManagers` say nothing of requests that overlap, because there the code does not keep
what they state.

## 5. Findings

Where code and documentation disagree, each shown by a run of its name:

* `double_login`: a code can be used twice by two logins that overlap.
* `two_active`: two creations that overlap leave two ACTIVE batches.
* `guard_threads`: threads share one cooldown manager and its key.
* `limiter_valid_logins`: every attempt is counted as a failed one before the code is
  looked at, and a valid login resets nothing.
* `purge_retention`: the retention is measured from `modified_at`, which neither a
  `QuerySet.update` (`models.py` 1364, 1430) nor the `update_fields` of `invalidate_code`
  (1628) move. So a code that was last saved long ago goes on the day it is given up.

Shown by the configurations beside the runs:

* `OneDownloadPerBatch`: the flags of a download are stored under the unformatted key
  (`views.py` 283), which nobody reads, although "Only allows one download per batch" (248).
* `LockoutsAudited`: only a user's first lock-out gets an audit row (`models.py` 1900),
  although the audit "records the attempt before it is wiped" (1866-1877).
* `NoCountLost`: a discard overwrites a use counted in between.
* `WaitIsEnough`: a refusal moves `last_attempt` after the wait it announces
  was computed, so the wait is never enough.
* `WaitIsEnforced`: the raised wait is stored for as long as the one before.
* `PenaltyGrows`, where a row's cooldown exceeds the cutoff: the second refusal cuts the
  wait to the cutoff, although the cooldown "increases with each subsequent failed
  attempt".
* `EmptyBatchesGone`: `is_empty` compares the codes issued with what this very run
  deleted (`models.py` 763), so a batch that several runs have emptied stays.

Stated in the modules, not part of a configuration:

* `OneEmailPerBatch` (BatchDelivery): a creation that fails has put an entry without
  flags back into the cache (`views_code_handler_helper.py` 185) and leaves the codes in
  the session, so they may be e-mailed again.
* `SetupTruthful` (BatchDelivery): `verify_setup` answers FAILURE = False for a wrong
  code, too, so the cached set-up flag is set for it (`views.py` 549).

Met while reading, and part of the models as they are:

* The cap of the purge is read under `..._MAX_DELETIONS_PER_RUN` in one place of the
  README (282) and `..._PURGE_MAX_DELETIONS_PER_RUN` in another (1031); unset it is None
  and not -1, and the run raises after its first chunk, unaudited.
* The cap bounds what a run deletes of one batch, not what it deletes.
* A scheduler gets two schedules; the one of `post_migrate` keeps the settings of that
  day, and disabling the scheduler does not remove it.
* A batch with nothing to purge returns two values where the job expects three, and is
  skipped with a logged error.
* The report hook looks for a scheduler under the name of the schedule, which none
  has, and compares with a `Status.FAILED` that does not exist.
* `clear_queued_tasks` deletes results (`Task`), not what is queued;
  `schedule_cleanup_audit` looks for another name than it creates, and a disabled audit
  scheduler keeps its schedule (`signals.py` 73).
* The losers of the cache lock do not wait for the value, as the docstring of
  `get_cache_or_set` has it, but get None.
* A discard clears the cooldown under another key than the guard's (`models.py` 1384).

## 6. Plan

Done: CodeLifecycle with CodePromise, AttemptGuard, LoginRateLimiter, SafeCache,
BatchDelivery with set-up and dashboard, Purge, and the proofs of section 4.

What would extend it, in order:

1. Two tabs in `delivery`: the properties then need another condition than
   `Quiet`, because most of what they say is broken by requests that overlap.
2. Composition of LoginRateLimiter with CodeLifecycle's login, to relate guesses to
   codes used.
3. The schedules of the audit clean-up, if it ever does more than one DELETE.

## 7. Not modelled

* Audit clean-up: `clean_up_audit_records` is one DELETE by age, guarded by a setting;
  there is no second step that anything could come between. Its schedules are written
  by signals as those of the purge are.
* `next_run` of schedulers and the e-mail report: times and text that nothing decides by.
* Settings checks, generator and hashing, converters and exporters, admin, forms,
  loggers: pure functions and display.
* The front end holds no state the server trusts; its requests are the inputs of the
  models.
* Pagination, file formats and the sending of mails; failing cache servers, for which
  the operations with retries are written.
