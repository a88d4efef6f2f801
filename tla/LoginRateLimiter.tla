--------------------------- MODULE LoginRateLimiter ---------------------------
(***************************************************************************)
(* LoginRateLimiter.is_locked_out, which the login view asks before it      *)
(* looks a recovery code up: how many guesses does a user get, and when?    *)
(*                                                                         *)
(* The limiter row of a user (a row of AttemptGuard, with a count of        *)
(* attempts) is read through the cache, as a whole object, and counted in   *)
(* that copy.  With MaxAttempts counted, the attempt goes to AttemptGuard;  *)
(* whom it lets proceed has the attempts audited and wiped.                 *)
(* A step is one access to the cache or to the database.                    *)
(***************************************************************************)
EXTENDS AttemptGuard

CONSTANTS UserOf,      \* the user a browser logs in as; browsers are Requests
          MaxAttempts  \* max_login_attempts

ASSUME LimiterAssumption ==
    /\ UserOf \in [Requests -> Subjects]
    /\ MaxAttempts \in Nat \ {0}

VARIABLES use_cache,   \* DJANGO_AUTH_RECOVERY_CODES_AUTH_RATE_LIMITER_USE_CACHE
          attempts,    \* login_attempts of each user's row
          cached,      \* login_rate_limiter_<id>: {} or {login_attempts of the copy}
          login,       \* what each browser's request is doing
          audit,       \* LoginRateLimterAudit: {} or {login_attempts}
          guesses,     \* history: codes tried since the attempts were last wiped
          failures,    \* history: the guesses among them that failed
          counted      \* history: when an attempt was last counted

limiterVars == <<use_cache, attempts, cached, login, audit, guesses, failures, counted>>
vars == <<guardVars, limiterVars>>

Steps == {"idle", "get", "fetch", "cache", "record", "store", "locked", "guard",
          "audit", "reset", "forget", "guess", "visit", "visit_fetch", "visit_cache"}

Loggin == [pc: Steps, copy: Nat, read: Nat]
Away == [pc |-> "idle", copy |-> 0, read |-> 0]

Doing(p, pc) == login[p].pc = pc
Move(p, pc) == login' = [login EXCEPT ![p].pc = pc]
Holding(p, pc, copy) == login' = [login EXCEPT ![p] = [@ EXCEPT !.pc = pc, !.copy = copy]]
Leave(p) == login' = [login EXCEPT ![p] = Away]

\* Mutant: one attempt too many.
UnderMaxOrAt(copy) == IF copy <= MaxAttempts THEN "record" ELSE "locked"

\* _is_under_max_attempt
UnderMax(copy) == IF copy < MaxAttempts THEN "record" ELSE "locked"

LimiterInit ==
    /\ GuardInit
    /\ use_cache \in BOOLEAN
    /\ attempts = [s \in Subjects |-> 0]
    /\ cached = [s \in Subjects |-> {}]
    /\ login = [p \in Requests |-> Away]
    /\ audit = [s \in Subjects |-> {}]
    /\ guesses = [s \in Subjects |-> 0]
    /\ failures = [s \in Subjects |-> 0]
    /\ counted = [s \in Subjects |-> 0]

Unguarded == UNCHANGED <<now, entry, cache_key, initial_ttl, request, told, next>>
Unguessed == UNCHANGED <<use_cache, audit, guesses, failures, counted>>
-----------------------------------------------------------------------------
(* The limiter is read through the cache. *)

Submit(p) ==
    /\ Doing(p, "idle")
    /\ Move(p, "get")
    /\ UNCHANGED <<guardVars, attempts, cached>> /\ Unguessed

\* _get_login_rate_limiter: the cache first.
GetLimiter(p) ==
    LET s == UserOf[p] IN
    /\ Doing(p, "get")
    /\ \/ cached[s] = {} /\ Move(p, "fetch")
       \/ \E copy \in cached[s] : Holding(p, UnderMax(copy), copy)
    /\ Touch(s)
    /\ UNCHANGED <<active, issued, attempts, cached>> /\ Unguarded /\ Unguessed

\* get_by_user_or_create
GetOrCreate(s) ==
    IF active[s] = {}
    THEN /\ active' = [active EXCEPT ![s] = {NewRow(s)}]
         /\ issued' = [issued EXCEPT ![s] = @ + 1]
    ELSE UNCHANGED <<active, issued>>

FetchLimiter(p) ==
    LET s == UserOf[p] IN
    /\ Doing(p, "fetch")
    /\ GetOrCreate(s)
    /\ Holding(p, "cache", attempts[s])
    /\ Touch(s)
    /\ UNCHANGED <<attempts, cached>> /\ Unguarded /\ Unguessed

CacheLimiter(p) ==
    LET s == UserOf[p] IN
    /\ Doing(p, "cache")
    /\ cached' = [cached EXCEPT ![s] = {login[p].copy}]
    /\ Move(p, UnderMax(login[p].copy))
    /\ Touch(s)
    /\ UNCHANGED <<active, issued, attempts>> /\ Unguarded /\ Unguessed

-----------------------------------------------------------------------------
(* Under the maximum: the attempt is counted. *)

\* Mutant: cache-first counting is saved when the maximum is exceeded.
SavesOver(copy) == ~use_cache \/ copy > MaxAttempts

\* Cache-first counting saves the row only when the maximum is reached.
Saves(copy) == ~use_cache \/ copy >= MaxAttempts

\* record_failed_attempt counts in the copy and saves it; last_attempt is auto_now.
RecordAttempt(p) ==
    LET s == UserOf[p]
        copy == login[p].copy + 1 IN
    /\ Doing(p, "record")
    /\ IF Saves(copy)
       THEN /\ attempts' = [attempts EXCEPT ![s] = copy]
            /\ active' = [active EXCEPT ![s] = {Flushed(row) : row \in @}]
       ELSE UNCHANGED <<attempts, active>>
    /\ Holding(p, "store", copy)
    /\ counted' = [counted EXCEPT ![s] = now]
    /\ Touch(s)
    /\ UNCHANGED <<issued, use_cache, cached, audit, guesses, failures>> /\ Unguarded

\* The counted copy goes back to the cache, and the user may try a code.
StoreCopy(p) ==
    LET s == UserOf[p] IN
    /\ Doing(p, "store")
    /\ cached' = [cached EXCEPT ![s] = {login[p].copy}]
    /\ Move(p, "guess")
    /\ Touch(s)
    /\ UNCHANGED <<active, issued, attempts>> /\ Unguarded /\ Unguessed

-----------------------------------------------------------------------------
(* At the maximum: AttemptGuard decides. *)

\* _check_temporary_lockout
CheckLockout(p) ==
    /\ Doing(p, "locked")
    /\ Ask(p, UserOf[p])
    /\ Move(p, "guard")
    /\ UNCHANGED <<attempts, cached>> /\ Unguessed

\* Counts beyond the maximum are one: the code only asks whether they are below it.
Counting(n) == IF n > MaxAttempts THEN MaxAttempts + 1 ELSE n

\* What can_proceed does to the count of attempts: a refusal saves one more than
\* it read with the row; a grant that meets a cached cooldown saves what is counted
\* there, at least 1.
GuardCounts(p) ==
    LET s == UserOf[p] IN
    CASE At(p, "increment") -> attempts' = [attempts EXCEPT ![s] = Counting(login[p].read + 1)]
      [] At(p, "flush_write") /\ request[p].data # NoEntry ->
            \E n \in 1 .. MaxAttempts + 1 : attempts' = [attempts EXCEPT ![s] = n]
      [] OTHER -> UNCHANGED attempts

\* A refused user is told how long to wait, and the request ends.
GuardedStep(p) ==
    /\ Doing(p, "guard")
    /\ GuardStep(p)
    /\ GuardCounts(p)
    /\ login' = [login EXCEPT ![p] =
           IF request'[p] = Idle THEN Away
           ELSE IF At(p, "read_row") THEN [@ EXCEPT !.read = attempts[UserOf[p]]] ELSE @]
    /\ UNCHANGED cached /\ Unguessed

Granted(p, pc) == Doing(p, pc) /\ At(p, "granted")

\* Mutant: get_or_create without the look-up.
AuditLookupSkipped(p) ==
    /\ Granted(p, "guard")
    /\ Move(p, "audit")
    /\ Touch(UserOf[p])
    /\ UNCHANGED <<active, issued, attempts, cached>> /\ Unguarded /\ Unguessed

\* _unlock_user: create_record_login_audit only looks for a row ...
AuditLookup(p) ==
    LET s == UserOf[p] IN
    /\ Granted(p, "guard")
    /\ Move(p, IF audit[s] = {} THEN "audit" ELSE "reset")
    /\ Touch(s)
    /\ UNCHANGED <<active, issued, attempts, cached>> /\ Unguarded /\ Unguessed

\* ... and creates the first.  Another one that was created meanwhile, with another
\* count, makes get_or_create raise.
AuditCreate(p) ==
    LET s == UserOf[p]
        copy == login[p].copy IN
    /\ Granted(p, "audit")
    /\ IF audit[s] \subseteq {copy}
       THEN /\ audit' = [audit EXCEPT ![s] = {copy}]
            /\ Move(p, "reset")
            /\ UNCHANGED request
       ELSE /\ Leave(p)
            /\ End(p)
            /\ UNCHANGED audit
    /\ Touch(s)
    /\ UNCHANGED <<now, active, entry, cache_key, initial_ttl, issued, told, next>>
    /\ UNCHANGED <<use_cache, attempts, cached, guesses, failures, counted>>

\* Mutant: the attempts are wiped before the audit is looked up.
ResetUnaudited(p) ==
    LET s == UserOf[p] IN
    /\ \/ Granted(p, "guard")
       \/ Granted(p, "reset")
    /\ attempts' = [attempts EXCEPT ![s] = 0]
    /\ guesses' = [guesses EXCEPT ![s] = 0]
    /\ failures' = [failures EXCEPT ![s] = 0]
    /\ Move(p, "forget")
    /\ Touch(s)
    /\ UNCHANGED <<active, issued, use_cache, cached, audit, counted>> /\ Unguarded

\* reset_attempts
ResetAttempts(p) ==
    LET s == UserOf[p] IN
    /\ Granted(p, "reset")
    /\ attempts' = [attempts EXCEPT ![s] = 0]
    /\ guesses' = [guesses EXCEPT ![s] = 0]
    /\ failures' = [failures EXCEPT ![s] = 0]
    /\ Move(p, "forget")
    /\ Touch(s)
    /\ UNCHANGED <<active, issued, use_cache, cached, audit, counted>> /\ Unguarded

\* The cached copy is deleted; this attempt is let through uncounted.
ForgetCopy(p) ==
    LET s == UserOf[p] IN
    /\ Granted(p, "forget")
    /\ cached' = [cached EXCEPT ![s] = {}]
    /\ Move(p, "guess")
    /\ End(p)
    /\ Touch(s)
    /\ UNCHANGED <<now, active, entry, cache_key, initial_ttl, issued, told, next>>
    /\ UNCHANGED attempts /\ Unguessed

-----------------------------------------------------------------------------
(* The view, the dashboard and the world. *)

\* login_user looks the code up.  A login with a valid code resets nothing.
Guess(p, valid) ==
    LET s == UserOf[p] IN
    /\ Doing(p, "guess")
    /\ guesses' = [guesses EXCEPT ![s] = @ + 1]
    /\ failures' = [failures EXCEPT ![s] = IF valid THEN @ ELSE @ + 1]
    /\ Leave(p)
    /\ UNCHANGED <<guardVars, use_cache, attempts, cached, audit, counted>>

\* The dashboard makes sure that there is a limiter, and caches one it creates.
Visit(p) ==
    LET s == UserOf[p] IN
    /\ Doing(p, "idle")
    /\ cached[s] = {}
    /\ Move(p, "visit_fetch")
    /\ UNCHANGED <<guardVars, attempts, cached>> /\ Unguessed

\* Mutant: a fresh limiter is cached although the user has one.
VisitFetchAlways(p) ==
    LET s == UserOf[p] IN
    /\ Doing(p, "visit_fetch")
    /\ GetOrCreate(s)
    /\ Holding(p, "visit_cache", 0)
    /\ Touch(s)
    /\ UNCHANGED <<attempts, cached>> /\ Unguarded /\ Unguessed

VisitFetch(p) ==
    LET s == UserOf[p] IN
    /\ Doing(p, "visit_fetch")
    /\ GetOrCreate(s)
    /\ IF active[s] = {} THEN Holding(p, "visit_cache", 0) ELSE Leave(p)
    /\ Touch(s)
    /\ UNCHANGED <<attempts, cached>> /\ Unguarded /\ Unguessed

VisitCache(p) ==
    LET s == UserOf[p] IN
    /\ Doing(p, "visit_cache")
    /\ cached' = [cached EXCEPT ![s] = {login[p].copy}]
    /\ Leave(p)
    /\ UNCHANGED <<guardVars, attempts>> /\ Unguessed

\* A worker dies, and with it its request.
LimiterCrash(p) ==
    /\ ~Doing(p, "idle")
    /\ Leave(p)
    /\ End(p)
    /\ UNCHANGED <<now, active, entry, cache_key, initial_ttl, issued, told, next, touched>>
    /\ UNCHANGED <<attempts, cached>> /\ Unguessed

\* The cached copy expires, or the cache server restarts.  Attempts that were
\* counted nowhere else are forgotten.
Evict(s, restarts) ==
    /\ cached[s] # {} \/ (restarts /\ entry[s] # NoEntry)
    /\ cached' = [cached EXCEPT ![s] = {}]
    /\ entry' = [entry EXCEPT ![s] = IF restarts THEN NoEntry ELSE @]
    /\ guesses' = [guesses EXCEPT ![s] = IF attempts[s] < MaxAttempts /\ use_cache THEN 0 ELSE @]
    /\ failures' = [failures EXCEPT ![s] = IF attempts[s] < MaxAttempts /\ use_cache THEN 0 ELSE @]
    /\ UNCHANGED <<now, active, cache_key, initial_ttl, request, issued, told, next, touched>>
    /\ UNCHANGED <<use_cache, attempts, login, audit, counted>>

LimiterStep(p) ==
    \/ Submit(p) \/ GetLimiter(p) \/ FetchLimiter(p) \/ CacheLimiter(p)
    \/ RecordAttempt(p) \/ StoreCopy(p)
    \/ CheckLockout(p) \/ GuardedStep(p)
    \/ AuditLookup(p) \/ AuditCreate(p) \/ ResetAttempts(p) \/ ForgetCopy(p)
    \/ \E valid \in BOOLEAN : Guess(p, valid)
    \/ Visit(p) \/ VisitFetch(p) \/ VisitCache(p)
    \/ LimiterCrash(p)

LimiterNext ==
    \/ \E p \in Requests : LimiterStep(p)
    \/ \E s \in Subjects, restarts \in BOOLEAN : Evict(s, restarts)
    \/ Tick /\ UNCHANGED limiterVars

LimiterSpec == LimiterInit /\ [][LimiterNext]_vars
-----------------------------------------------------------------------------
(* Properties. *)

LimiterTypeOK ==
    /\ TypeOK
    /\ use_cache \in BOOLEAN
    /\ attempts \in [Subjects -> Nat]
    /\ cached \in [Subjects -> SUBSET Nat]
    /\ login \in [Requests -> Loggin]
    /\ audit \in [Subjects -> SUBSET Nat]
    /\ guesses \in [Subjects -> Nat]
    /\ failures \in [Subjects -> Nat]
    /\ counted \in [Subjects -> Nat]

\* Between two wipes of the attempts a user tries at most MaxAttempts codes and the
\* one that follows the unlocking, which is not counted.
GuessesBounded == \A s \in Subjects : guesses[s] <= MaxAttempts + 1

\* The attempts are wiped only a cooldown after the last attempt was counted.
WipesSpaced == [][\A p \in Requests :
    login[p].pc # "forget" /\ login'[p].pc = "forget"
        => now >= counted[UserOf[p]] + Cooldown]_vars

\* The saved count only falls when the attempts are wiped, although what is saved is
\* counted in a copy, which may be older than the row.
CountNeverFalls == [][\A s \in Subjects :
    attempts'[s] < attempts[s] => attempts'[s] = 0 /\ guesses'[s] = 0]_vars

\* No attempts are wiped before the first lock-out of the user is on record, with all
\* the attempts that there may be.  Later ones get no row: see LockoutsAudited.
FirstLockoutAudited == [][\A p \in Requests :
    login[p].pc # "forget" /\ login'[p].pc = "forget"
        => \E n \in audit[UserOf[p]] : n >= MaxAttempts]_vars

\* The audit row of an earlier lock-out does not keep a user from being unlocked:
\* get_or_create, which raises when it meets a row with another count, is only called
\* by who finds none.
UnlockGoesThrough == \A p \in Requests :
    Doing(p, "audit") => audit[UserOf[p]] \subseteq {login[p].copy}

-----------------------------------------------------------------------------
(* What the documentation says and the code does not do. *)

\* "After 5 failed attempts, the rate limiter activates": who is sent to the guard
\* has failed MaxAttempts times.
LockedByFailures == \A p \in Requests :
    Doing(p, "locked") => failures[UserOf[p]] >= MaxAttempts

\* "This class acts as an audit that records the attempt before it is wiped": the attempts
\* that a lock-out wipes are the ones on record.
LockoutsAudited == [][\A p \in Requests :
    login[p].pc # "forget" /\ login'[p].pc = "forget"
        => login[p].copy \in audit[UserOf[p]]]_vars
=============================================================================
