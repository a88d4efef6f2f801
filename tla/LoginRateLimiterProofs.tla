------------------------ MODULE LoginRateLimiterProofs ------------------------
(***************************************************************************)
(* Proofs about LoginRateLimiter, for any users, maximum and clock: what    *)
(* holds of any number of browsers, and what holds as long as each user has *)
(* one browser and each process one request.                                *)
(***************************************************************************)
EXTENDS LoginRateLimiter, PatienceProofs

LimiterBase == LimiterTypeOK /\ GuardInv

CountsTyped ==
    /\ use_cache \in BOOLEAN
    /\ attempts \in [Subjects -> Nat]
    /\ cached \in [Subjects -> SUBSET Nat]
    /\ login \in [Requests -> Loggin]
    /\ audit \in [Subjects -> SUBSET Nat]
    /\ guesses \in [Subjects -> Nat]
    /\ failures \in [Subjects -> Nat]
    /\ counted \in [Subjects -> Nat]

LEMMA BaseParts ==
    /\ LimiterBase <=> GuardInv /\ CountsTyped
    /\ LimiterBase' <=> GuardInv' /\ CountsTyped'
  BY DEF LimiterBase, LimiterTypeOK, GuardInv, CountsTyped

LEMMA LimiterInitBase == LimiterInit => LimiterBase
<1> SUFFICES ASSUME LimiterInit PROVE LimiterBase
  OBVIOUS
<1>1. GuardInv
  BY InitGuardInv DEF LimiterInit
<1>2. Away \in Loggin
  BY DEF Away, Loggin, Steps
<1>3. use_cache \in BOOLEAN
  BY ZenonT(20) DEF LimiterInit
<1>4. CountsTyped
  BY <1>2, <1>3 DEF LimiterInit, CountsTyped
<1> QED
  BY <1>1, <1>4, BaseParts

\* What the limiter does by itself to what the guard sees: rows that are not from the
\* future, entries that are gone, requests that are over.
LEMMA OutsideGuard ==
    ASSUME GuardInv, now' = now, cache_key' = cache_key, initial_ttl' = initial_ttl,
           told' = told, next' = next,
           active' \in [Subjects -> SUBSET Row], issued' \in [Subjects -> Nat],
           \A s \in Subjects : \A row \in active'[s] : row.last <= now,
           touched' \in [Subjects -> Nat],
           entry' \in [Subjects -> Entry],
           \A s \in Subjects : entry'[s] \in {entry[s], NoEntry},
           request' \in [Requests -> Asking],
           \A p \in Requests : request'[p] \in {request[p], Idle}
    PROVE  GuardInv'
<1> USE LongestNat, NullTypes, GuardAssumption
<1>1. TypeOK'
  BY DEF GuardInv, TypeOK
<1>2. LockoutBounded'
  <2> SUFFICES ASSUME NEW s \in Subjects
               PROVE  /\ entry'[s].remaining <= Longest
                      /\ entry'[s].expires <= now' + Longest
                      /\ told'[s] <= now' + Longest
                      /\ \A row \in active'[s] : row.last <= now'
    BY DEF LockoutBounded
  <2> QED
    BY DEF GuardInv, TypeOK, LockoutBounded, Entry, NoEntry
<1>3. MemoryBounded'
  <2> SUFFICES ASSUME NEW p \in Requests PROVE MemoryOf(p)'
    BY DEF MemoryBounded, MemoryOf
  <2>1. CASE request'[p] = request[p]
    BY <2>1 DEF GuardInv, MemoryBounded, MemoryOf, At
  <2>2. CASE request'[p] = Idle
    BY <2>2 DEF GuardInv, TypeOK, MemoryBounded, MemoryOf, At, Idle, NoEntry, NoRow
  <2> QED
    BY <2>1, <2>2
<1> QED
  BY <1>1, <1>2, <1>3 DEF GuardInv

\* Most steps of a browser leave the guard alone, but for the time it was last touched.
LEMMA OnlyTouched ==
    ASSUME GuardInv, NEW s \in Subjects, Touch(s) \/ UNCHANGED touched,
           UNCHANGED <<now, active, entry, cache_key, initial_ttl, issued, told, next>>,
           NEW p \in Requests, UNCHANGED request \/ End(p)
    PROVE  GuardInv'
<1>1. touched' \in [Subjects -> Nat]
  BY GuardAssumption DEF GuardInv, TypeOK, Touch
<1>2. request' \in [Requests -> Asking] /\ \A q \in Requests : request'[q] \in {request[q], Idle}
  BY NullTypes DEF GuardInv, TypeOK, End
<1>3. \A t \in Subjects : \A row \in active[t] : row.last <= now
  BY DEF GuardInv, LockoutBounded
<1> QED
  BY <1>1, <1>2, <1>3, OutsideGuard DEF GuardInv, TypeOK

\* A limiter that is missing is created.
LEMMA CreatedSafe ==
    ASSUME GuardInv, NEW s \in Subjects, GetOrCreate(s), Touch(s), Unguarded
    PROVE  GuardInv'
<1>1. NewRow(s) \in Row /\ NewRow(s).last = now /\ now \in Nat
  BY GuardAssumption DEF GuardInv, TypeOK, NewRow, Row
<1>2. /\ active' \in [Subjects -> SUBSET Row] /\ issued' \in [Subjects -> Nat]
      /\ \A t \in Subjects : \A row \in active'[t] : row.last <= now
  BY <1>1 DEF GetOrCreate, GuardInv, TypeOK, LockoutBounded
<1>3. touched' \in [Subjects -> Nat]
  BY <1>1 DEF GuardInv, TypeOK, Touch
<1> QED
  BY <1>2, <1>3, OutsideGuard DEF GuardInv, TypeOK, Unguarded

\* A limiter that is saved is as old as the moment.
LEMMA SavedSafe ==
    ASSUME GuardInv, NEW s \in Subjects, Touch(s), Unguarded, UNCHANGED issued,
           \/ UNCHANGED active
           \/ active' = [active EXCEPT ![s] = {Flushed(row) : row \in active[s]}]
    PROVE  GuardInv'
<1>1. now \in Nat
  BY GuardAssumption DEF GuardInv, TypeOK
<1>2. \A row \in active[s] : Flushed(row) \in Row /\ Flushed(row).last = now
  BY <1>1 DEF GuardInv, TypeOK, Flushed, Row
<1> HIDE DEF Flushed
<1>3. /\ active' \in [Subjects -> SUBSET Row]
      /\ \A t \in Subjects : \A row \in active'[t] : row.last <= now
  BY <1>1, <1>2 DEF GuardInv, TypeOK, LockoutBounded
<1>4. touched' \in [Subjects -> Nat]
  BY <1>1 DEF GuardInv, TypeOK, Touch
<1> QED
  BY <1>3, <1>4, OutsideGuard DEF GuardInv, TypeOK, Unguarded

\* The steps that AttemptGuard defines.
LEMMA GuardStepSafe ==
    ASSUME GuardInv, NEW p \in Requests, GuardStep(p)
    PROVE  GuardInv'
  BY CheckCooldownSafe, UpdateReadSafe, UpdateWriteSafe, ReadRowSafe,
     IncrementAttemptsSafe, StartCooldownSafe, StoreCooldownSafe, AnnounceCooldownSafe,
     FlushReadSafe, FlushWriteSafe, FlushDeleteSafe DEF GuardStep
-----------------------------------------------------------------------------
(* Types and bounds, for any number of browsers. *)

LEMMA LoginTyped ==
    ASSUME login \in [Requests -> Loggin], NEW p \in Requests
    PROVE  /\ \A pc \in Steps : Move(p, pc) => login' \in [Requests -> Loggin]
           /\ \A pc \in Steps, copy \in Nat : Holding(p, pc, copy) => login' \in [Requests -> Loggin]
           /\ Leave(p) => login' \in [Requests -> Loggin]
<1>1. login[p] \in Loggin /\ Away \in Loggin
  BY DEF Away, Loggin, Steps
<1>2. \A pc \in Steps : [login[p] EXCEPT !.pc = pc] \in Loggin
  BY <1>1 DEF Loggin
<1>3. \A pc \in Steps, copy \in Nat : [login[p] EXCEPT !.pc = pc, !.copy = copy] \in Loggin
  BY <1>1 DEF Loggin
<1> QED
  BY <1>1, <1>2, <1>3 DEF Move, Holding, Leave

\* The user of a browser is a subject, and everything it counts is a number.
LEMMA BrowserFacts ==
    ASSUME LimiterBase, NEW p \in Requests
    PROVE  /\ UserOf[p] \in Subjects /\ login[p] \in Loggin
           /\ login[p].copy \in Nat /\ login[p].read \in Nat /\ MaxAttempts \in Nat \ {0}
           /\ attempts[UserOf[p]] \in Nat /\ cached[UserOf[p]] \in SUBSET Nat
           /\ now \in Nat /\ GuardInv /\ CountsTyped
  BY LimiterAssumption, GuardAssumption, BaseParts
     DEF CountsTyped, Loggin, GuardInv, TypeOK

\* Where the limiter sends a browser with what it has counted.
LEMMA UnderMaxSteps == \A copy : UnderMax(copy) \in {"record", "locked"}
  BY DEF UnderMax

LEMMA ReadingBase ==
    ASSUME LimiterBase, NEW p \in Requests,
           Submit(p) \/ GetLimiter(p) \/ CacheLimiter(p) \/ StoreCopy(p)
             \/ AuditLookup(p) \/ Visit(p) \/ VisitCache(p)
    PROVE  LimiterBase'
<1>1. UserOf[p] \in Subjects /\ login[p].copy \in Nat /\ GuardInv /\ CountsTyped
  BY BrowserFacts
<1>2. GuardInv'
  <2>1. UNCHANGED <<now, active, entry, cache_key, initial_ttl, issued, told, next, request>>
        /\ (Touch(UserOf[p]) \/ UNCHANGED touched)
    BY DEF Submit, GetLimiter, CacheLimiter, StoreCopy, AuditLookup, Visit, VisitCache,
           Unguarded, guardVars
  <2> QED
    BY <1>1, <2>1, OnlyTouched
<1>3. login' \in [Requests -> Loggin]
  <2>1. \/ \E pc \in Steps : Move(p, pc)
        \/ Leave(p)
        \/ \E pc \in Steps : \E copy \in Nat : Holding(p, pc, copy)
    <3>1. CASE GetLimiter(p)
      <4>1. cached[UserOf[p]] \in SUBSET Nat
        BY BrowserFacts
      <4> QED
        BY <3>1, <4>1, UnderMaxSteps DEF GetLimiter, Steps
    <3>2. CASE CacheLimiter(p)
      BY <3>2, UnderMaxSteps DEF CacheLimiter, Steps
    <3>3. CASE Submit(p) \/ StoreCopy(p) \/ AuditLookup(p) \/ Visit(p) \/ VisitCache(p)
      BY <3>3 DEF Submit, StoreCopy, AuditLookup, Visit, VisitCache, Steps
    <3> QED
      BY <3>1, <3>2, <3>3
  <2> QED
    BY <1>1, <2>1, LoginTyped DEF CountsTyped
<1>4. cached' \in [Subjects -> SUBSET Nat]
  BY <1>1 DEF CountsTyped, Submit, GetLimiter, CacheLimiter, StoreCopy, AuditLookup, Visit,
     VisitCache
<1>5. UNCHANGED <<attempts, use_cache, audit, guesses, failures, counted>>
  BY DEF Submit, GetLimiter, CacheLimiter, StoreCopy, AuditLookup, Visit, VisitCache, Unguessed
<1>6. CountsTyped'
  BY <1>1, <1>3, <1>4, <1>5 DEF CountsTyped
<1> QED
  BY <1>2, <1>6, BaseParts

LEMMA CreatingBase ==
    ASSUME LimiterBase, NEW p \in Requests, FetchLimiter(p) \/ VisitFetch(p)
    PROVE  LimiterBase'
<1>1. UserOf[p] \in Subjects /\ attempts[UserOf[p]] \in Nat /\ GuardInv /\ CountsTyped
  BY BrowserFacts
<1>2. GuardInv'
  BY <1>1, CreatedSafe DEF FetchLimiter, VisitFetch
<1>3. login' \in [Requests -> Loggin]
  <2>1. Leave(p) \/ \E pc \in Steps : \E copy \in Nat : Holding(p, pc, copy)
    BY <1>1 DEF FetchLimiter, VisitFetch, Steps
  <2> QED
    BY <1>1, <2>1, LoginTyped DEF CountsTyped
<1>4. CountsTyped'
  BY <1>1, <1>3 DEF CountsTyped, FetchLimiter, VisitFetch, Unguessed
<1> QED
  BY <1>2, <1>4, BaseParts

LEMMA RecordBase ==
    ASSUME LimiterBase, NEW p \in Requests, RecordAttempt(p)
    PROVE  LimiterBase'
<1>1. UserOf[p] \in Subjects /\ login[p].copy \in Nat /\ GuardInv /\ CountsTyped /\ now \in Nat
  BY BrowserFacts
<1>2. GuardInv'
  BY <1>1, SavedSafe DEF RecordAttempt
<1>3. login' \in [Requests -> Loggin]
  BY <1>1, LoginTyped DEF RecordAttempt, Steps, CountsTyped
<1>4. CountsTyped'
  BY <1>1, <1>3 DEF CountsTyped, RecordAttempt
<1> QED
  BY <1>2, <1>4, BaseParts

LEMMA LockoutBase ==
    ASSUME LimiterBase, NEW p \in Requests, CheckLockout(p)
    PROVE  LimiterBase'
<1>1. UserOf[p] \in Subjects /\ GuardInv /\ CountsTyped
  BY BrowserFacts
<1>2. GuardInv'
  BY <1>1, AskSafe DEF CheckLockout
<1>3. login' \in [Requests -> Loggin]
  BY <1>1, LoginTyped DEF CheckLockout, Steps, CountsTyped
<1>4. CountsTyped'
  BY <1>1, <1>3 DEF CountsTyped, CheckLockout, Unguessed
<1> QED
  BY <1>2, <1>4, BaseParts

\* What a step of the guard makes of the count, and of the browser.
LEMMA CountsOfGuard ==
    ASSUME LimiterBase, NEW p \in Requests, GuardedStep(p)
    PROVE  /\ \E n \in Nat : attempts' = [attempts EXCEPT ![UserOf[p]] = n]
           /\ \E l \in Loggin : /\ login' = [login EXCEPT ![p] = l]
                                /\ l = Away \/ (l.pc = login[p].pc /\ l.copy = login[p].copy)
<1> DEFINE s == UserOf[p]
<1>1. /\ s \in Subjects /\ login[p] \in Loggin /\ login[p].read \in Nat
      /\ MaxAttempts \in Nat \ {0} /\ attempts[s] \in Nat /\ CountsTyped
  BY BrowserFacts
<1>2. \E n \in Nat : attempts' = [attempts EXCEPT ![s] = n]
  <2>1. Counting(login[p].read + 1) \in Nat
    BY <1>1 DEF Counting
  <2>2. attempts = [attempts EXCEPT ![s] = attempts[s]]
    BY <1>1 DEF CountsTyped
  <2>3. \/ attempts' = [attempts EXCEPT ![s] = Counting(login[p].read + 1)]
        \/ \E n \in 1 .. MaxAttempts + 1 : attempts' = [attempts EXCEPT ![s] = n]
        \/ attempts' = attempts
    BY DEF GuardedStep, GuardCounts
  <2> QED
    BY <1>1, <2>1, <2>2, <2>3
<1>3. [login[p] EXCEPT !.read = attempts[s]] \in Loggin
      /\ [login[p] EXCEPT !.read = attempts[s]].pc = login[p].pc
      /\ [login[p] EXCEPT !.read = attempts[s]].copy = login[p].copy
  BY <1>1 DEF Loggin
<1>4. Away \in Loggin
  BY DEF Away, Loggin, Steps
<1>5. \/ login' = [login EXCEPT ![p] = Away]
      \/ login' = [login EXCEPT ![p] = [login[p] EXCEPT !.read = attempts[s]]]
      \/ login' = [login EXCEPT ![p] = login[p]]
  BY DEF GuardedStep
<1> QED
  BY <1>1, <1>2, <1>3, <1>4, <1>5

LEMMA GuardedBase ==
    ASSUME LimiterBase, NEW p \in Requests, GuardedStep(p)
    PROVE  LimiterBase'
<1>1. UserOf[p] \in Subjects /\ GuardInv /\ CountsTyped
  BY BrowserFacts
<1>2. GuardInv'
  BY <1>1, GuardStepSafe DEF GuardedStep
<1>3. CountsTyped'
  BY <1>1, CountsOfGuard DEF CountsTyped, GuardedStep, Unguessed
<1> QED
  BY <1>2, <1>3, BaseParts

LEMMA UnlockingBase ==
    ASSUME LimiterBase, NEW p \in Requests, AuditCreate(p) \/ ResetAttempts(p) \/ ForgetCopy(p)
    PROVE  LimiterBase'
<1>1. UserOf[p] \in Subjects /\ GuardInv /\ CountsTyped /\ login[p].copy \in Nat
  BY BrowserFacts
<1>2. GuardInv'
  BY <1>1, OnlyTouched DEF AuditCreate, ResetAttempts, ForgetCopy, Unguarded
<1>3. login' \in [Requests -> Loggin]
  BY <1>1, LoginTyped DEF AuditCreate, ResetAttempts, ForgetCopy, Steps, CountsTyped
<1>4. ASSUME AuditCreate(p) PROVE CountsTyped'
  BY <1>1, <1>3, <1>4 DEF CountsTyped, AuditCreate
<1>5. ASSUME ResetAttempts(p) PROVE CountsTyped'
  BY <1>1, <1>3, <1>5 DEF CountsTyped, ResetAttempts
<1>6. ASSUME ForgetCopy(p) PROVE CountsTyped'
  BY <1>1, <1>3, <1>6 DEF CountsTyped, ForgetCopy, Unguessed
<1> QED
  BY <1>2, <1>4, <1>5, <1>6, BaseParts

LEMMA EndingBase ==
    ASSUME LimiterBase, NEW p \in Requests, LimiterCrash(p) \/ \E valid \in BOOLEAN : Guess(p, valid)
    PROVE  LimiterBase'
<1>1. UserOf[p] \in Subjects /\ GuardInv /\ CountsTyped
  BY BrowserFacts
<1>2. GuardInv'
  BY <1>1, OnlyTouched DEF LimiterCrash, Guess, guardVars
<1>3. login' \in [Requests -> Loggin]
  BY <1>1, LoginTyped DEF LimiterCrash, Guess, CountsTyped
<1>4. ASSUME LimiterCrash(p) PROVE CountsTyped'
  BY <1>1, <1>3, <1>4 DEF CountsTyped, LimiterCrash, Unguessed
<1>5. ASSUME \E valid \in BOOLEAN : Guess(p, valid) PROVE CountsTyped'
  BY <1>1, <1>3, <1>5 DEF CountsTyped, Guess
<1> QED
  BY <1>2, <1>4, <1>5, BaseParts

LEMMA EvictBase ==
    ASSUME LimiterBase, NEW s \in Subjects, NEW restarts \in BOOLEAN, Evict(s, restarts)
    PROVE  LimiterBase'
<1>1. GuardInv /\ CountsTyped
  BY BaseParts
<1>2. entry' \in [Subjects -> Entry] /\ \A t \in Subjects : entry'[t] \in {entry[t], NoEntry}
  BY <1>1, NullTypes DEF GuardInv, TypeOK, Evict
<1>3. \A t \in Subjects : \A row \in active[t] : row.last <= now
  BY <1>1 DEF GuardInv, LockoutBounded
<1>4. GuardInv'
  BY <1>1, <1>2, <1>3, OutsideGuard DEF GuardInv, TypeOK, Evict
<1>5. CountsTyped'
  BY <1>1 DEF CountsTyped, Evict
<1> QED
  BY <1>4, <1>5, BaseParts

LEMMA NextBase == ASSUME LimiterBase, [LimiterNext]_vars PROVE LimiterBase'
<1>1. ASSUME NEW p \in Requests, LimiterStep(p) PROVE LimiterBase'
  BY <1>1, ReadingBase, CreatingBase, RecordBase, LockoutBase, GuardedBase, UnlockingBase,
     EndingBase DEF LimiterStep
<1>2. CASE \E s \in Subjects, restarts \in BOOLEAN : Evict(s, restarts)
  BY <1>2, EvictBase
<1>3. CASE Tick /\ UNCHANGED limiterVars
  BY <1>3, TickSafe, BaseParts DEF CountsTyped, limiterVars
<1>4. CASE UNCHANGED vars
  <2>1. UNCHANGED guardVars
    BY <1>4 DEF vars
  <2>2. GuardInv'
    BY <2>1, NextSafe, BaseParts
  <2> QED
    BY <1>4, <2>2, BaseParts DEF CountsTyped, vars, limiterVars
<1> QED
  BY <1>1, <1>2, <1>3, <1>4 DEF LimiterNext

\* Type correctness of the limiter and of the guard it goes through.
THEOREM LimiterTypeCorrect == LimiterSpec => []LimiterTypeOK
<1>1. LimiterBase => LimiterTypeOK
  BY DEF LimiterBase
<1> QED
  BY <1>1, LimiterInitBase, NextBase, PTL DEF LimiterSpec

-----------------------------------------------------------------------------
(* What holds of any number of browsers. *)

\* Who is sent to the guard has counted as many attempts as there may be, so that is
\* what the audit gets.
Audited(p) ==
    /\ login[p].pc \in {"locked", "guard", "audit"} => login[p].copy >= MaxAttempts
    /\ Doing(p, "reset") => audit[UserOf[p]] # {}

AuditInv ==
    /\ LimiterBase
    /\ \A p \in Requests : Audited(p)
    /\ \A s \in Subjects : \A n \in audit[s] : n >= MaxAttempts

\* What becomes of the browsers when one moves.
LEMMA LoginMoves ==
    ASSUME LimiterBase, NEW p \in Requests
    PROVE  /\ \A pc : Move(p, pc) =>
                /\ login'[p].pc = pc /\ login'[p].copy = login[p].copy
                /\ login'[p].read = login[p].read
                /\ \A q \in Requests \ {p} : login'[q] = login[q]
           /\ \A pc, copy : Holding(p, pc, copy) =>
                /\ login'[p].pc = pc /\ login'[p].copy = copy
                /\ login'[p].read = login[p].read
                /\ \A q \in Requests \ {p} : login'[q] = login[q]
           /\ Leave(p) => /\ login'[p].pc = "idle"
                          /\ \A q \in Requests \ {p} : login'[q] = login[q]
<1>1. login \in [Requests -> Loggin] /\ login[p] \in Loggin
  BY BrowserFacts DEF CountsTyped
<1>2. ASSUME NEW pc, NEW copy
      PROVE  LET one == [login[p] EXCEPT !.pc = pc]
                 two == [login[p] EXCEPT !.pc = pc, !.copy = copy]
             IN /\ one.pc = pc /\ one.copy = login[p].copy /\ one.read = login[p].read
                /\ two.pc = pc /\ two.copy = copy /\ two.read = login[p].read
  BY <1>1 DEF Loggin
<1>3. ASSUME NEW l, login' = [login EXCEPT ![p] = l]
      PROVE  login'[p] = l /\ \A q \in Requests \ {p} : login'[q] = login[q]
  BY <1>1, <1>3
<1>4. ASSUME NEW pc, Move(p, pc)
      PROVE  /\ login'[p].pc = pc /\ login'[p].copy = login[p].copy
             /\ login'[p].read = login[p].read
             /\ \A q \in Requests \ {p} : login'[q] = login[q]
  <2>1. login' = [login EXCEPT ![p] = [login[p] EXCEPT !.pc = pc]]
    BY <1>4 DEF Move
  <2>2. login'[p] = [login[p] EXCEPT !.pc = pc] /\ \A q \in Requests \ {p} : login'[q] = login[q]
    BY <2>1, <1>3
  <2> QED
    BY <2>2, <1>2
<1>5. ASSUME NEW pc, NEW copy, Holding(p, pc, copy)
      PROVE  /\ login'[p].pc = pc /\ login'[p].copy = copy
             /\ login'[p].read = login[p].read
             /\ \A q \in Requests \ {p} : login'[q] = login[q]
  <2>1. login' = [login EXCEPT ![p] = [login[p] EXCEPT !.pc = pc, !.copy = copy]]
    BY <1>5 DEF Holding
  <2>2. /\ login'[p] = [login[p] EXCEPT !.pc = pc, !.copy = copy]
        /\ \A q \in Requests \ {p} : login'[q] = login[q]
    BY <2>1, <1>3
  <2> QED
    BY <2>2, <1>2
<1>6. Leave(p) => /\ login'[p].pc = "idle"
                  /\ \A q \in Requests \ {p} : login'[q] = login[q]
  <2>1. Leave(p) => login'[p] = Away /\ \A q \in Requests \ {p} : login'[q] = login[q]
    BY <1>3 DEF Leave
  <2> QED
    BY <2>1 DEF Away
<1> QED
  BY <1>4, <1>5, <1>6

\* Where the steps of a browser lead to.
LEMMA AuditSteps ==
    ASSUME AuditInv, NEW p \in Requests, LimiterStep(p)
    PROVE  /\ \A q \in Requests \ {p} : login'[q] = login[q]
           /\ \A s \in Subjects : /\ audit[s] \subseteq audit'[s]
                                  /\ \A n \in audit'[s] : n \in audit[s] \/ n >= MaxAttempts
           /\ login'[p].pc \in {"locked", "guard", "audit"} => login'[p].copy >= MaxAttempts
           /\ login'[p].pc = "reset" => audit'[UserOf[p]] # {}
<1> DEFINE s == UserOf[p]
           Good == /\ \A q \in Requests \ {p} : login'[q] = login[q]
                   /\ \A t \in Subjects : /\ audit[t] \subseteq audit'[t]
                                          /\ \A n \in audit'[t] : n \in audit[t] \/ n >= MaxAttempts
                   /\ login'[p].pc \in {"locked", "guard", "audit"} => login'[p].copy >= MaxAttempts
                   /\ login'[p].pc = "reset" => audit'[s] # {}
<1>1. /\ s \in Subjects /\ login \in [Requests -> Loggin] /\ audit \in [Subjects -> SUBSET Nat]
      /\ login[p] \in Loggin /\ login[p].copy \in Nat /\ MaxAttempts \in Nat /\ Audited(p)
      /\ cached[s] \in SUBSET Nat
  BY BrowserFacts DEF AuditInv, CountsTyped
<1>2. \A copy \in Nat : UnderMax(copy) = "locked" => copy >= MaxAttempts
  BY <1>1 DEF UnderMax
<1>3. \A copy \in Nat : UnderMax(copy) \notin {"guard", "audit", "reset"}
  BY DEF UnderMax
<1>4. CASE GetLimiter(p)
  <2>1. CASE Move(p, "fetch")
    BY <1>1, <1>4, <2>1 DEF GetLimiter, Move, Loggin, Unguessed
  <2>2. ASSUME NEW copy \in cached[s], Holding(p, UnderMax(copy), copy) PROVE Good
    <3>1. login'[p].pc = UnderMax(copy) /\ login'[p].copy = copy
          /\ \A q \in Requests \ {p} : login'[q] = login[q]
      BY <1>1, <2>2 DEF Holding, Loggin
    <3> QED
      BY <1>1, <1>2, <1>3, <1>4, <3>1 DEF GetLimiter, Unguessed
  <2> QED
    BY <1>4, <2>1, <2>2 DEF GetLimiter
<1>5. CASE CacheLimiter(p)
  <2>1. login'[p].pc = UnderMax(login[p].copy) /\ login'[p].copy = login[p].copy
        /\ \A q \in Requests \ {p} : login'[q] = login[q]
    BY <1>1, <1>5 DEF CacheLimiter, Move, Loggin
  <2> QED
    BY <1>1, <1>2, <1>3, <1>5, <2>1 DEF CacheLimiter, Unguessed
<1>6. CASE Submit(p) \/ StoreCopy(p) \/ Visit(p) \/ FetchLimiter(p) \/ VisitFetch(p) \/ VisitCache(p)
  BY <1>1, <1>6, LoginMoves DEF AuditInv, Submit, StoreCopy, Visit, FetchLimiter, VisitFetch,
     VisitCache, Unguessed
<1>7. CASE RecordAttempt(p)
  BY <1>1, <1>7 DEF RecordAttempt, Holding, Loggin
<1>8. CASE CheckLockout(p)
  BY <1>1, <1>8 DEF CheckLockout, Move, Doing, Audited, Loggin, Unguessed
<1>9. CASE GuardedStep(p)
  <2>1. LimiterBase
    BY DEF AuditInv
  <2>2. PICK l \in Loggin : /\ login' = [login EXCEPT ![p] = l]
                            /\ l = Away \/ (l.pc = login[p].pc /\ l.copy = login[p].copy)
    BY <1>9, <2>1, CountsOfGuard
  <2>3. login'[p] = l /\ \A q \in Requests \ {p} : login'[q] = login[q]
    BY <1>1, <2>2
  <2>4. audit' = audit /\ Doing(p, "guard")
    BY <1>9 DEF GuardedStep, Unguessed
  <2> QED
    BY <1>1, <2>2, <2>3, <2>4 DEF Audited, Doing, Away
<1>10. CASE AuditLookup(p)
  BY <1>1, <1>10 DEF AuditLookup, Granted, Doing, Move, Audited, Loggin, Unguessed
<1>11. CASE AuditCreate(p)
  <2>1. login[p].copy >= MaxAttempts
    BY <1>11 DEF AuditInv, Audited, AuditCreate, Granted, Doing
  <2>2. CASE Move(p, "reset") /\ audit[s] \subseteq {login[p].copy} /\ audit' = [audit EXCEPT ![s] = {login[p].copy}]
    BY <1>1, <2>1, <2>2 DEF Move, Loggin
  <2>3. CASE Leave(p) /\ UNCHANGED audit
    BY <1>1, <2>3 DEF Leave, Away
  <2> QED
    BY <1>11, <2>2, <2>3 DEF AuditCreate
<1>12. CASE ResetAttempts(p) \/ ForgetCopy(p)
  BY <1>1, <1>12 DEF ResetAttempts, ForgetCopy, Move, Loggin, Unguessed
<1>13. CASE LimiterCrash(p) \/ \E valid \in BOOLEAN : Guess(p, valid)
  BY <1>1, <1>13 DEF LimiterCrash, Guess, Leave, Away, Unguessed
<1> QED
  BY <1>4, <1>5, <1>6, <1>7, <1>8, <1>9, <1>10, <1>11, <1>12, <1>13 DEF LimiterStep

LEMMA InitAudit == LimiterInit => AuditInv
<1> SUFFICES ASSUME LimiterInit PROVE AuditInv
  OBVIOUS
<1>1. ASSUME NEW p \in Requests PROVE Audited(p)
  BY DEF LimiterInit, Audited, Doing, Away
<1> QED
  BY <1>1, LimiterInitBase DEF LimiterInit, AuditInv

LEMMA NextAudit == AuditInv /\ [LimiterNext]_vars => AuditInv'
<1> SUFFICES ASSUME AuditInv, [LimiterNext]_vars PROVE AuditInv'
  OBVIOUS
<1>1. LimiterBase'
  BY NextBase DEF AuditInv
<1>2. UserOf \in [Requests -> Subjects]
  BY LimiterAssumption
<1>3. ASSUME NEW p \in Requests, LimiterStep(p) PROVE AuditInv'
  <2>1. ASSUME NEW q \in Requests PROVE Audited(q)'
    BY <1>2, <1>3, <2>1, AuditSteps DEF AuditInv, Audited, Doing
  <2>2. \A s \in Subjects : \A n \in audit'[s] : n >= MaxAttempts
    BY <1>3, AuditSteps DEF AuditInv
  <2> QED
    BY <1>1, <2>1, <2>2 DEF AuditInv
<1>4. CASE UNCHANGED <<login, audit>>
  BY <1>1, <1>4 DEF AuditInv, Audited, Doing
<1> QED
  BY <1>3, <1>4 DEF LimiterNext, Evict, limiterVars, vars

\* The step by which a browser comes to forget its copy is the wiping of the attempts.
LEMMA WipeIsReset ==
    ASSUME AuditInv, LimiterNext,
           NEW p \in Requests, login[p].pc # "forget", login'[p].pc = "forget"
    PROVE  ResetAttempts(p)
<1>1. UserOf[p] \in Subjects /\ login \in [Requests -> Loggin] /\ LimiterBase
      /\ cached[UserOf[p]] \in SUBSET Nat
  BY BrowserFacts DEF AuditInv, CountsTyped
<1>2. ASSUME NEW q \in Requests, LimiterStep(q) PROVE q = p
  BY <1>2, AuditSteps
<1>3. LimiterStep(p)
  BY <1>2 DEF LimiterNext, Evict, limiterVars
<1>4. ASSUME GuardedStep(p) PROVE FALSE
  <2>1. PICK l \in Loggin : /\ login' = [login EXCEPT ![p] = l]
                            /\ l = Away \/ (l.pc = login[p].pc /\ l.copy = login[p].copy)
    BY <1>1, <1>4, CountsOfGuard
  <2> QED
    BY <1>1, <2>1 DEF Away
<1>5. ASSUME GetLimiter(p) \/ CacheLimiter(p) PROVE FALSE
  <2>1. \A copy : UnderMax(copy) # "forget"
    BY DEF UnderMax
  <2> QED
    BY <1>1, <1>5, <2>1, LoginMoves DEF GetLimiter, CacheLimiter
<1>6. ASSUME Submit(p) \/ FetchLimiter(p) \/ RecordAttempt(p) \/ StoreCopy(p) \/ CheckLockout(p)
               \/ Visit(p) \/ VisitFetch(p) \/ VisitCache(p)
      PROVE  FALSE
  BY <1>1, <1>6, LoginMoves DEF Submit, FetchLimiter, RecordAttempt, StoreCopy, CheckLockout,
     Visit, VisitFetch, VisitCache
<1>7. ASSUME AuditLookup(p) \/ AuditCreate(p) \/ ForgetCopy(p) \/ LimiterCrash(p)
               \/ \E valid \in BOOLEAN : Guess(p, valid)
      PROVE  FALSE
  BY <1>1, <1>7, LoginMoves DEF AuditLookup, AuditCreate, ForgetCopy, LimiterCrash, Guess
<1> QED
  BY <1>3, <1>4, <1>5, <1>6, <1>7 DEF LimiterStep

\* However many browsers: before attempts of a user are wiped for the first time, an audit
\* row holds at least as many attempts as are allowed, and it is never taken back.
THEOREM FirstLockoutIsAudited == LimiterSpec => FirstLockoutAudited
<1> DEFINE Wiped == \A p \in Requests :
        login[p].pc # "forget" /\ login'[p].pc = "forget"
            => \E n \in audit[UserOf[p]] : n >= MaxAttempts
<1>1. AuditInv /\ [LimiterNext]_vars => [Wiped]_vars
  <2> SUFFICES ASSUME AuditInv, LimiterNext,
                      NEW p \in Requests, login[p].pc # "forget", login'[p].pc = "forget"
               PROVE  \E n \in audit[UserOf[p]] : n >= MaxAttempts
    OBVIOUS
  <2>1. ResetAttempts(p)
    BY WipeIsReset
  <2>2. UserOf[p] \in Subjects
    BY BrowserFacts DEF AuditInv
  <2> QED
    BY <2>1, <2>2 DEF AuditInv, Audited, ResetAttempts, Granted
<1> QED
  BY <1>1, InitAudit, NextAudit, PTL DEF LimiterSpec, FirstLockoutAudited

-----------------------------------------------------------------------------
(* What holds if each user has one browser. *)

OneBrowser == \A p, q \in Requests : UserOf[p] = UserOf[q] => p = q

\* Who is about to create an audit row has found none, and there still is none.
UnauditedYet == \A p \in Requests : Doing(p, "audit") => audit[UserOf[p]] = {}

\* The step by which a browser comes to create an audit row is the look-up.
LEMMA AuditIsLookedUp ==
    ASSUME AuditInv, NEW p \in Requests, LimiterStep(p), login'[p].pc = "audit"
    PROVE  AuditLookup(p) /\ audit[UserOf[p]] = {}
<1>1. UserOf[p] \in Subjects /\ login \in [Requests -> Loggin] /\ LimiterBase
      /\ cached[UserOf[p]] \in SUBSET Nat
  BY BrowserFacts DEF AuditInv, CountsTyped
<1>2. ASSUME GuardedStep(p) PROVE FALSE
  <2>1. PICK l \in Loggin : /\ login' = [login EXCEPT ![p] = l]
                            /\ l = Away \/ (l.pc = login[p].pc /\ l.copy = login[p].copy)
    BY <1>1, <1>2, CountsOfGuard
  <2>2. login'[p] = l /\ login[p].pc = "guard"
    BY <1>1, <1>2, <2>1 DEF GuardedStep, Doing
  <2> QED
    BY <2>1, <2>2 DEF Away
<1>3. ASSUME GetLimiter(p) \/ CacheLimiter(p) PROVE FALSE
  <2>1. \A copy : UnderMax(copy) # "audit"
    BY DEF UnderMax
  <2> QED
    BY <1>1, <1>3, <2>1, LoginMoves DEF GetLimiter, CacheLimiter
<1>4. ASSUME Submit(p) \/ FetchLimiter(p) \/ RecordAttempt(p) \/ StoreCopy(p) \/ CheckLockout(p)
               \/ Visit(p) \/ VisitFetch(p) \/ VisitCache(p)
      PROVE  FALSE
  BY <1>1, <1>4, LoginMoves DEF Submit, FetchLimiter, RecordAttempt, StoreCopy, CheckLockout,
     Visit, VisitFetch, VisitCache
<1>5. ASSUME AuditCreate(p) \/ ResetAttempts(p) \/ ForgetCopy(p) \/ LimiterCrash(p)
               \/ \E valid \in BOOLEAN : Guess(p, valid)
      PROVE  FALSE
  BY <1>1, <1>5, LoginMoves DEF AuditCreate, ResetAttempts, ForgetCopy, LimiterCrash, Guess
<1>6. AuditLookup(p)
  BY <1>2, <1>3, <1>4, <1>5 DEF LimiterStep
<1>7. audit[UserOf[p]] # {} => Move(p, "reset")
  BY <1>6 DEF AuditLookup
<1> QED
  BY <1>1, <1>6, <1>7, LoginMoves

LEMMA NextUnaudited ==
    ASSUME OneBrowser, AuditInv, UnauditedYet, [LimiterNext]_vars
    PROVE  UnauditedYet'
<1>1. ASSUME NEW p \in Requests, LimiterStep(p), NEW q \in Requests, Doing(q, "audit")'
      PROVE  audit'[UserOf[q]] = {}
  <2>1. CASE q = p
    <3>1. AuditLookup(p) /\ audit[UserOf[p]] = {}
      BY <1>1, <2>1, AuditIsLookedUp DEF Doing
    <3> QED
      BY <2>1, <3>1 DEF AuditLookup, Unguessed
  <2>2. CASE q # p
    <3>1. login'[q] = login[q]
      BY <1>1, <2>2, AuditSteps
    <3>2. audit[UserOf[q]] = {}
      BY <1>1, <3>1 DEF UnauditedYet, Doing
    <3>3. UserOf[q] # UserOf[p] /\ audit \in [Subjects -> SUBSET Nat]
      BY <2>2, BrowserFacts DEF OneBrowser, AuditInv, CountsTyped
    <3>4. CASE AuditCreate(p)
      <4>1. \/ audit' = audit
            \/ audit' = [audit EXCEPT ![UserOf[p]] = {login[p].copy}]
        BY <3>4 DEF AuditCreate
      <4>2. UserOf[q] \in Subjects
        BY LimiterAssumption DEF LimiterAssumption
      <4>3. CASE audit' = [audit EXCEPT ![UserOf[p]] = {login[p].copy}]
        <5>1. audit'[UserOf[q]] = audit[UserOf[q]]
          BY <3>3, <4>2, <4>3
        <5> QED
          BY <3>2, <5>1
      <4> QED
        BY <3>2, <4>1, <4>3
    <3>5. ~AuditCreate(p) => audit' = audit
      BY <1>1 DEF LimiterStep, Submit, GetLimiter, FetchLimiter, CacheLimiter,
         RecordAttempt, StoreCopy, CheckLockout, GuardedStep, AuditLookup, ResetAttempts,
         ForgetCopy, Guess, Visit, VisitFetch, VisitCache, LimiterCrash, Unguessed
    <3> QED
      BY <3>2, <3>4, <3>5
  <2> QED
    BY <2>1, <2>2
<1>2. CASE UNCHANGED <<login, audit>>
  BY <1>2 DEF UnauditedYet, Doing
<1> QED
  BY <1>1, <1>2 DEF LimiterNext, Evict, limiterVars, vars, UnauditedYet

\* Where each user has one browser, the audit row of an earlier lock-out never makes the
\* unlocking after a later one fail.
THEOREM UnlocksGoThrough == OneBrowser => (LimiterSpec => []UnlockGoesThrough)
<1> SUFFICES ASSUME OneBrowser PROVE LimiterSpec => []UnlockGoesThrough
  OBVIOUS
<1>1. LimiterInit => UnauditedYet
  BY DEF LimiterInit, UnauditedYet, Doing, Away
<1>2. AuditInv /\ UnauditedYet /\ [LimiterNext]_vars => UnauditedYet'
  BY NextUnaudited
<1>3. UnauditedYet => UnlockGoesThrough
  BY DEF UnauditedYet, UnlockGoesThrough
<1> QED
  BY <1>1, <1>2, <1>3, InitAudit, NextAudit, PTL DEF LimiterSpec

Guarded == {"guard", "audit", "reset", "forget"}

\* A browser is in the guard on behalf of its user, or not at all.
Ours(p) ==
    /\ request[p].subject \in {UserOf[p], NoSubject}
    /\ ~At(p, "idle") => request[p].subject = UserOf[p] /\ login[p].pc \in Guarded
    /\ login[p].pc \in {"audit", "reset", "forget"} => At(p, "granted")

\* Once the entry was looked at, none appears until the browser stores one.
Unentered(p) ==
    /\ request[p].pc \in {"read_row", "increment", "start", "store",
                          "flush_read", "flush_write", "flush_delete"}
            => entry[UserOf[p]] = NoEntry
    /\ At(p, "flush_write") => request[p].data = NoEntry

\* The rows are not older than the attempt that was counted last.
RowsAfter(s) == \A row \in active[s] : row.last >= counted[s]

Entered(s) == entry[s] # NoEntry => entry[s].remaining > 0

\* What row, cached copy and guesses have to do with each other.
Counts(s) ==
    /\ guesses[s] <= MaxAttempts + 1
    /\ attempts[s] <= MaxAttempts + 1
    /\ \A c \in cached[s] : guesses[s] <= c + 1
    /\ cached[s] = {} \/ ~use_cache => guesses[s] <= attempts[s] + 1
    /\ active[s] = {} => guesses[s] = 0 /\ attempts[s] = 0 /\ cached[s] = {}
    /\ \A c, d \in cached[s] : c = d
    /\ \A c \in cached[s] : attempts[s] <= c + 1 \/ c >= MaxAttempts

Dated(s) ==
    /\ counted[s] <= now
    /\ attempts[s] >= MaxAttempts => RowsAfter(s)
    /\ \A c \in cached[s] : c >= MaxAttempts => RowsAfter(s)

\* What a browser holds has to do with them as the cached copy has.
Holds(p) ==
    LET s == UserOf[p]
        copy == login[p].copy IN
    /\ login[p].pc \notin {"idle", "get", "fetch", "visit_fetch"} => active[s] # {}
    /\ login[p].pc \in {"fetch", "cache", "visit_cache"} => cached[s] = {}
    /\ login[p].pc \in {"cache", "record"} =>
            /\ guesses[s] <= copy + 1
            /\ attempts[s] <= copy + 1 \/ copy >= MaxAttempts
    /\ Doing(p, "record") => copy < MaxAttempts /\ cached[s] \subseteq {copy}
    /\ Doing(p, "store") =>
            /\ guesses[s] <= copy /\ copy <= MaxAttempts
            /\ attempts[s] <= copy \/ copy >= MaxAttempts
            /\ ~use_cache => guesses[s] <= attempts[s]
    /\ Doing(p, "guess") =>
            /\ guesses[s] <= MaxAttempts
            /\ \A c \in cached[s] : guesses[s] <= c
            /\ cached[s] = {} \/ ~use_cache => guesses[s] <= attempts[s]
    /\ Doing(p, "visit_cache") => guesses[s] = 0 /\ attempts[s] = 0 /\ copy = 0
    /\ Doing(p, "forget") => guesses[s] = 0
    /\ login[p].pc \in {"locked", "guard"} => \A c \in cached[s] : c >= MaxAttempts
    /\ At(p, "increment") => attempts[s] <= login[p].read + 1

HoldsDated(p) ==
    LET s == UserOf[p] IN
    /\ login[p].pc \in {"cache", "store"} /\ login[p].copy >= MaxAttempts => RowsAfter(s)
    /\ login[p].pc \in {"locked", "guard"} => RowsAfter(s)
    /\ request[p].pc \in GrantPcs => now >= counted[s] + Cooldown

LimiterInv ==
    /\ LimiterBase
    /\ \A s \in Subjects : Entered(s) /\ Counts(s) /\ Dated(s)
    /\ \A p \in Requests : /\ Ours(p) /\ OwnKey(p) /\ OwnWait(p) /\ Unentered(p)
                           /\ Holds(p) /\ HoldsDated(p)

\* What the invariant says of a browser in the guard.
LEMMA GuardFacts ==
    ASSUME LimiterInv, NEW p \in Requests, ~At(p, "idle")
    PROVE  /\ request[p].subject = UserOf[p] /\ UserOf[p] \in Subjects
           /\ UserOf[p] # NoSubject
           /\ request[p] \in Asking /\ request \in [Requests -> Asking]
           /\ now \in Nat /\ Cooldown \in Nat
           /\ Entered(UserOf[p]) /\ OwnKey(p) /\ OwnWait(p) /\ Unentered(p)
           /\ entry \in [Subjects -> Entry] /\ active \in [Subjects -> SUBSET Row]
           /\ cache_key \in [Workers -> Subjects \cup {NoSubject}]
           /\ initial_ttl \in [Workers -> Nat]
           /\ WorkerOf[p] \in Workers /\ GuardInv
           /\ \A q \in Requests : WorkerOf[q] \in Workers
  BY BrowserFacts, GuardAssumption DEF LimiterInv, Ours, GuardInv, TypeOK

\* What a step of the guard does, as far as the limiter is concerned: to its own subject's
\* row, entry and request, and to nobody else's.
GuardGoes(p) ==
    LET s == UserOf[p] IN
    /\ now' = now
    /\ \A q \in Requests \ {p} : /\ request'[q] = request[q]
                                 /\ cache_key'[WorkerOf[q]] = cache_key[WorkerOf[q]]
                                 /\ initial_ttl'[WorkerOf[q]] = initial_ttl[WorkerOf[q]]
    /\ \A t \in Subjects \ {s} : active'[t] = active[t] /\ entry'[t] = entry[t]
    /\ request'[p] = Idle \/ (request'[p].pc # "idle" /\ request'[p].subject = s)
    /\ active[s] # {} => active'[s] # {}
    /\ \A row \in active'[s] : row \in active[s] \/ row.last = now
    /\ request'[p].pc \in GrantPcs =>
            \/ request[p].pc \in GrantPcs
            \/ active[s] = {}
            \/ \E row \in active[s] : row.last + Cooldown <= now
    /\ request'[p].pc = "increment" => At(p, "read_row")
    /\ Entered(s)' /\ OwnKey(p)' /\ OwnWait(p)' /\ Unentered(p)'

LEMMA GotoKeeps ==
    ASSUME LimiterInv, NEW p \in Requests, ~At(p, "idle"), NEW pc, Goto(p, pc)
    PROVE  /\ request'[p].pc = pc /\ request'[p].subject = request[p].subject
           /\ request'[p].data = request[p].data /\ request'[p].wait = request[p].wait
           /\ \A q \in Requests \ {p} : request'[q] = request[q]
<1>1. request[p] \in Asking /\ request \in [Requests -> Asking]
  BY GuardFacts
<1>2. LET new == [request[p] EXCEPT !.pc = pc]
      IN  new.pc = pc /\ new.subject = request[p].subject /\ new.data = request[p].data
          /\ new.wait = request[p].wait
  BY <1>1 DEF Asking
<1>3. request'[p] = [request[p] EXCEPT !.pc = pc] /\ \A q \in Requests \ {p} : request'[q] = request[q]
  BY <1>1 DEF Goto
<1> QED
  BY <1>2, <1>3

LEMMA EndKeeps ==
    ASSUME LimiterInv, NEW p \in Requests, End(p)
    PROVE  /\ request'[p] = Idle /\ request'[p].pc = "idle"
           /\ \A q \in Requests \ {p} : request'[q] = request[q]
           /\ OwnKey(p)' /\ OwnWait(p)' /\ Unentered(p)'
<1>1. request \in [Requests -> Asking]
  BY BrowserFacts DEF LimiterInv, GuardInv, TypeOK
<1>2. request'[p] = Idle /\ \A q \in Requests \ {p} : request'[q] = request[q]
  BY <1>1 DEF End
<1>3. request'[p].pc = "idle"
  BY <1>2 DEF Idle
<1> QED
  BY <1>2, <1>3 DEF OwnKey, OwnWait, Unentered, At

LEMMA CheckCooldownGoes ==
    ASSUME LimiterInv, OwnManagers, NEW p \in Requests, CheckCooldown(p)
    PROVE  GuardGoes(p)
<1>1. ~At(p, "idle") /\ At(p, "check") /\ now' = now /\ entry' = entry /\ active' = active
      /\ cache_key' = [cache_key EXCEPT ![WorkerOf[p]] = request[p].subject]
      /\ initial_ttl' = initial_ttl
  BY DEF CheckCooldown, At
<1>2. PICK pc \in {"update_read", "read_row"} :
        Goto(p, pc) /\ (pc = "read_row" => ~(entry[request[p].subject].remaining > 0))
  BY DEF CheckCooldown
<1>3. /\ request'[p].pc = pc /\ request'[p].subject = UserOf[p]
      /\ \A q \in Requests \ {p} : request'[q] = request[q]
  BY <1>1, <1>2, GotoKeeps, GuardFacts
<1>4. pc = "read_row" => entry[UserOf[p]] = NoEntry
  BY <1>1, <1>2, GuardFacts DEF Entered
<1>5. \A q \in Requests \ {p} : /\ cache_key'[WorkerOf[q]] = cache_key[WorkerOf[q]]
                               /\ initial_ttl'[WorkerOf[q]] = initial_ttl[WorkerOf[q]]
  BY <1>1, GuardFacts DEF OwnManagers
<1>6. Entered(UserOf[p])' /\ OwnKey(p)' /\ OwnWait(p)' /\ Unentered(p)'
  BY <1>1, <1>3, <1>4, GuardFacts DEF Entered, OwnKey, OwnWait, Unentered, At
<1> QED
  BY <1>1, <1>3, <1>5, <1>6 DEF GuardGoes, GrantPcs

LEMMA UpdateReadGoes ==
    ASSUME LimiterInv, NEW p \in Requests, UpdateRead(p)
    PROVE  GuardGoes(p)
<1>1. /\ ~At(p, "idle") /\ At(p, "update_read") /\ now' = now
      /\ entry' = entry /\ active' = active /\ cache_key' = cache_key /\ initial_ttl' = initial_ttl
  BY DEF UpdateRead, At
<1>2. /\ request'[p].pc = "update_write" /\ request'[p].subject = UserOf[p]
      /\ \A q \in Requests \ {p} : request'[q] = request[q]
  BY <1>1, GuardFacts DEF UpdateRead, Asking
<1>3. Entered(UserOf[p])' /\ OwnKey(p)' /\ OwnWait(p)' /\ Unentered(p)'
  BY <1>1, <1>2, GuardFacts DEF Entered, OwnKey, OwnWait, Unentered, At
<1> QED
  BY <1>1, <1>2, <1>3 DEF GuardGoes, GrantPcs

LEMMA UpdateWriteGoes ==
    ASSUME LimiterInv, OwnManagers, NEW p \in Requests, UpdateWrite(p)
    PROVE  GuardGoes(p)
<1> DEFINE s == UserOf[p]
           ttl == request[p].data.remaining
<1>1. /\ ~At(p, "idle") /\ At(p, "update_write") /\ now' = now
      /\ active' = active /\ cache_key' = cache_key /\ End(p)
      /\ initial_ttl' = [initial_ttl EXCEPT ![WorkerOf[p]] = ttl]
  BY DEF UpdateWrite, At, Refuse
<1>2. cache_key[WorkerOf[p]] = s /\ s \in Subjects
  BY <1>1, GuardFacts DEF OwnKey, At
<1>3. /\ request'[p] = Idle /\ request'[p].pc = "idle" /\ OwnKey(p)' /\ OwnWait(p)' /\ Unentered(p)'
      /\ \A q \in Requests \ {p} : request'[q] = request[q]
  BY <1>1, EndKeeps
<1>4. ttl \in Nat /\ next_cooldown(ttl) > 0
  <2>1. ttl \in Nat
    BY <1>1, GuardFacts DEF Asking, Entry
  <2> HIDE DEF ttl
  <2>2. ttl * Multiplier \in Nat
    BY <2>1, GuardAssumption
  <2> QED
    BY <2>1, <2>2, GuardAssumption DEF next_cooldown
<1>5. entry' = [entry EXCEPT ![s] = Stored(next_cooldown(ttl), ttl)]
  BY <1>2 DEF UpdateWrite
<1> HIDE DEF ttl
<1>6. /\ entry'[s] = NoEntry \/ entry'[s].remaining = next_cooldown(ttl)
      /\ \A t \in Subjects \ {s} : entry'[t] = entry[t]
  BY <1>1, <1>2, <1>5, GuardFacts DEF Stored
<1>7. Entered(s)'
  BY <1>4, <1>6 DEF Entered
<1>8. \A q \in Requests \ {p} : initial_ttl'[WorkerOf[q]] = initial_ttl[WorkerOf[q]]
  BY <1>1, GuardFacts DEF OwnManagers
<1> QED
  BY <1>1, <1>3, <1>6, <1>7, <1>8 DEF GuardGoes, GrantPcs

LEMMA ReadRowGoes ==
    ASSUME LimiterInv, NEW p \in Requests, ReadRow(p)
    PROVE  GuardGoes(p)
<1> DEFINE s == UserOf[p]
<1>1. /\ ~At(p, "idle") /\ At(p, "read_row") /\ now' = now
      /\ entry' = entry /\ active' = active /\ cache_key' = cache_key /\ initial_ttl' = initial_ttl
  BY DEF ReadRow, At
<1>2. /\ request[p].subject = s /\ cache_key[WorkerOf[p]] = s
      /\ entry[s] = NoEntry /\ request[p] \in Asking /\ request \in [Requests -> Asking]
  BY <1>1, GuardFacts DEF OwnKey, Unentered, At
<1>3. Entered(s)'
  BY <1>1, <1>2 DEF Entered
<1>4. CASE End(p)
  <2>1. /\ request'[p] = Idle /\ request'[p].pc = "idle" /\ OwnKey(p)' /\ OwnWait(p)' /\ Unentered(p)'
        /\ \A q \in Requests \ {p} : request'[q] = request[q]
    BY <1>4, EndKeeps
  <2> QED
    BY <1>1, <1>3, <2>1 DEF GuardGoes, GrantPcs
<1>5. CASE active[s] = {} /\ Grant(p)
  <2>1. Goto(p, "granted")
    BY <1>5 DEF Grant
  <2>2. /\ request'[p].pc = "granted" /\ request'[p].subject = s
        /\ \A q \in Requests \ {p} : request'[q] = request[q]
    BY <1>1, <1>2, <2>1, GotoKeeps
  <2>3. OwnKey(p)' /\ OwnWait(p)' /\ Unentered(p)'
    BY <1>1, <1>2, <2>2 DEF OwnKey, OwnWait, Unentered, At
  <2> QED
    BY <1>1, <1>3, <1>5, <2>2, <2>3 DEF GuardGoes
<1>6. ASSUME NEW row \in active[s], request' = [request EXCEPT ![p] = Fetched(request[p], row)]
      PROVE  GuardGoes(p)
  <2>1. row.last \in Nat /\ now \in Nat /\ Cooldown \in Nat
    BY <1>1, <1>6, GuardFacts DEF Row
  <2> DEFINE left == Remaining(row)
             pc == IF left > 0 THEN "increment" ELSE "flush_read"
             new == [request[p] EXCEPT !.row = row, !.wait = left, !.pc = pc]
  <2>2. left \in Nat /\ (left = 0 => row.last + Cooldown <= now)
    BY <2>1 DEF Remaining
  <2>3. Fetched(request[p], row) = new
    BY DEF Fetched
  <2>4. request'[p] = new /\ \A q \in Requests \ {p} : request'[q] = request[q]
    BY <1>2, <1>6, <2>3
  <2> HIDE DEF pc, left
  <2>5. new.pc = pc /\ new.wait = left /\ new.subject = request[p].subject
    BY <1>2 DEF Asking
  <2> HIDE DEF new
  <2>6. OwnKey(p)' /\ OwnWait(p)' /\ Unentered(p)'
    BY <1>1, <1>2, <2>2, <2>4, <2>5 DEF OwnKey, OwnWait, Unentered, At, pc
  <2>7. request'[p].pc \in GrantPcs => row.last + Cooldown <= now
    BY <2>2, <2>4, <2>5 DEF pc, GrantPcs
  <2>8. request'[p].pc # "idle" /\ request'[p].subject = s
    BY <1>2, <2>4, <2>5 DEF pc
  <2> QED
    BY <1>1, <1>3, <1>6, <2>4, <2>6, <2>7, <2>8 DEF GuardGoes
<1> QED
  BY <1>2, <1>4, <1>5, <1>6 DEF ReadRow

LEMMA IncrementAttemptsGoes ==
    ASSUME LimiterInv, NEW p \in Requests, IncrementAttempts(p)
    PROVE  GuardGoes(p)
<1> DEFINE s == UserOf[p]
<1>1. /\ ~At(p, "idle") /\ At(p, "increment") /\ now' = now
      /\ entry' = entry /\ cache_key' = cache_key /\ initial_ttl' = initial_ttl /\ Goto(p, "start")
  BY DEF IncrementAttempts, At
<1>2. /\ request'[p].pc = "start" /\ request'[p].subject = s /\ request'[p].wait = request[p].wait
      /\ \A q \in Requests \ {p} : request'[q] = request[q]
  BY <1>1, GotoKeeps, GuardFacts
<1>3. Entered(s)' /\ OwnKey(p)' /\ OwnWait(p)' /\ Unentered(p)'
  BY <1>1, <1>2, GuardFacts DEF Entered, OwnKey, OwnWait, Unentered, At
<1>4. /\ \A t \in Subjects \ {s} : active'[t] = active[t]
      /\ active'[s] # {}
      /\ \A row \in active'[s] : row \in active[s] \/ row.last = now
  <2>1. active' = [active EXCEPT ![s] =
           {r \in active[s] : r.id # request[p].row.id} \cup {[request[p].row EXCEPT !.last = now]}]
    BY <1>1, GuardFacts DEF IncrementAttempts
  <2>2. [request[p].row EXCEPT !.last = now].last = now
    BY <1>1, GuardFacts DEF Asking, Row
  <2> QED
    BY <1>1, <2>1, <2>2, GuardFacts
<1> QED
  BY <1>1, <1>2, <1>3, <1>4 DEF GuardGoes, GrantPcs

LEMMA StartCooldownGoes ==
    ASSUME LimiterInv, OwnManagers, NEW p \in Requests, StartCooldown(p)
    PROVE  GuardGoes(p)
<1>1. /\ ~At(p, "idle") /\ At(p, "start") /\ now' = now
      /\ entry' = entry /\ active' = active /\ Goto(p, "store")
      /\ cache_key' = [cache_key EXCEPT ![WorkerOf[p]] = request[p].subject]
      /\ initial_ttl' = [initial_ttl EXCEPT ![WorkerOf[p]] = request[p].wait]
  BY DEF StartCooldown, At
<1>2. /\ request'[p].pc = "store" /\ request'[p].subject = UserOf[p]
      /\ request'[p].wait = request[p].wait
      /\ \A q \in Requests \ {p} : request'[q] = request[q]
  BY <1>1, GotoKeeps, GuardFacts
<1>3. Entered(UserOf[p])' /\ OwnKey(p)' /\ OwnWait(p)' /\ Unentered(p)'
  BY <1>1, <1>2, GuardFacts DEF Entered, OwnKey, OwnWait, Unentered, At
<1>4. \A q \in Requests \ {p} : /\ cache_key'[WorkerOf[q]] = cache_key[WorkerOf[q]]
                               /\ initial_ttl'[WorkerOf[q]] = initial_ttl[WorkerOf[q]]
  BY <1>1, GuardFacts DEF OwnManagers
<1> QED
  BY <1>1, <1>2, <1>3, <1>4 DEF GuardGoes, GrantPcs

LEMMA StoreCooldownGoes ==
    ASSUME LimiterInv, NEW p \in Requests, StoreCooldown(p)
    PROVE  GuardGoes(p)
<1> DEFINE s == UserOf[p]
           wait == request[p].wait
<1>1. /\ ~At(p, "idle") /\ At(p, "store") /\ now' = now /\ active' = active
      /\ cache_key' = cache_key /\ initial_ttl' = initial_ttl /\ Goto(p, "announce")
  BY DEF StoreCooldown, At
<1>2. /\ request'[p].pc = "announce" /\ request'[p].subject = s
      /\ \A q \in Requests \ {p} : request'[q] = request[q]
  BY <1>1, GotoKeeps, GuardFacts
<1>3. /\ wait > 0 /\ wait \in Nat /\ initial_ttl[WorkerOf[p]] = wait
      /\ cache_key[WorkerOf[p]] = s
  BY <1>1, GuardFacts DEF OwnWait, OwnKey, At, Asking
<1>4. entry' = [entry EXCEPT ![s] = Stored(wait, wait)]
  BY <1>3 DEF StoreCooldown
<1>5. /\ entry'[s].remaining = wait
      /\ \A t \in Subjects \ {s} : entry'[t] = entry[t]
  BY <1>1, <1>3, <1>4, GuardFacts DEF Stored
<1>6. Entered(s)' /\ OwnKey(p)' /\ OwnWait(p)' /\ Unentered(p)'
  BY <1>1, <1>2, <1>3, <1>5, GuardFacts DEF Entered, OwnKey, OwnWait, Unentered, At
<1> QED
  BY <1>1, <1>2, <1>5, <1>6 DEF GuardGoes, GrantPcs

LEMMA AnnounceCooldownGoes ==
    ASSUME LimiterInv, NEW p \in Requests, AnnounceCooldown(p)
    PROVE  GuardGoes(p)
<1>1. /\ ~At(p, "idle") /\ now' = now /\ entry' = entry /\ active' = active
      /\ cache_key' = cache_key /\ initial_ttl' = initial_ttl /\ End(p)
  BY DEF AnnounceCooldown, Refuse, At
<1>2. /\ request'[p] = Idle /\ request'[p].pc = "idle"
      /\ OwnKey(p)' /\ OwnWait(p)' /\ Unentered(p)'
      /\ \A q \in Requests \ {p} : request'[q] = request[q]
  BY <1>1, EndKeeps
<1>3. Entered(UserOf[p])'
  BY <1>1, GuardFacts DEF Entered
<1> QED
  BY <1>1, <1>2, <1>3 DEF GuardGoes, GrantPcs

LEMMA FlushReadGoes ==
    ASSUME LimiterInv, NEW p \in Requests, FlushRead(p)
    PROVE  GuardGoes(p)
<1>1. /\ ~At(p, "idle") /\ At(p, "flush_read") /\ now' = now
      /\ entry' = entry /\ active' = active /\ cache_key' = cache_key /\ initial_ttl' = initial_ttl
  BY DEF FlushRead, At
<1>2. /\ request'[p].pc = "flush_write" /\ request'[p].subject = UserOf[p]
      /\ request'[p].data = entry[UserOf[p]]
      /\ \A q \in Requests \ {p} : request'[q] = request[q]
  BY <1>1, GuardFacts DEF FlushRead, Asking
<1>3. Entered(UserOf[p])' /\ OwnKey(p)' /\ OwnWait(p)' /\ Unentered(p)'
  BY <1>1, <1>2, GuardFacts DEF Entered, OwnKey, OwnWait, Unentered, At
<1> QED
  BY <1>1, <1>2, <1>3 DEF GuardGoes, GrantPcs, At

LEMMA FlushWriteGoes ==
    ASSUME LimiterInv, NEW p \in Requests, FlushWrite(p)
    PROVE  GuardGoes(p)
<1> DEFINE s == UserOf[p]
<1>1. /\ ~At(p, "idle") /\ At(p, "flush_write") /\ now' = now
      /\ entry' = entry /\ cache_key' = cache_key /\ initial_ttl' = initial_ttl
  BY DEF FlushWrite, At
<1>2. PICK pc \in {"granted", "flush_delete"} : Goto(p, pc)
  BY DEF FlushWrite, Grant
<1>3. /\ request'[p].pc = pc /\ request'[p].subject = s
      /\ \A q \in Requests \ {p} : request'[q] = request[q]
  BY <1>1, <1>2, GotoKeeps, GuardFacts
<1>4. Entered(s)' /\ OwnKey(p)' /\ OwnWait(p)' /\ Unentered(p)'
  BY <1>1, <1>3, GuardFacts DEF Entered, OwnKey, OwnWait, Unentered, At
<1>5. /\ \A t \in Subjects \ {s} : active'[t] = active[t]
      /\ active[s] # {} => active'[s] # {}
      /\ \A row \in active'[s] : row \in active[s] \/ row.last = now
  <2>1. CASE active' = active
    BY <2>1
  <2> DEFINE flushed == {IF r.id = request[p].row.id THEN Flushed(r) ELSE r : r \in active[s]}
  <2>2. CASE active' = [active EXCEPT ![s] = flushed]
    <3>1. ASSUME NEW r \in active[s] PROVE Flushed(r).last = now
      BY <1>1, <3>1, GuardFacts DEF Flushed, Row
    <3>2. (\A row \in flushed : row \in active[s] \/ row.last = now)
          /\ (active[s] # {} => flushed # {})
      BY <3>1
    <3> HIDE DEF flushed
    <3> QED
      BY <1>1, <2>2, <3>2, GuardFacts
  <2> QED
    BY <1>1, <2>1, <2>2, GuardFacts DEF FlushWrite
<1> QED
  BY <1>1, <1>3, <1>4, <1>5 DEF GuardGoes, GrantPcs, At

LEMMA FlushDeleteGoes ==
    ASSUME LimiterInv, NEW p \in Requests, FlushDelete(p)
    PROVE  GuardGoes(p)
<1> DEFINE s == UserOf[p]
<1>1. /\ ~At(p, "idle") /\ At(p, "flush_delete") /\ now' = now
      /\ active' = active /\ cache_key' = cache_key /\ initial_ttl' = initial_ttl /\ Goto(p, "granted")
  BY DEF FlushDelete, At, Grant
<1>2. /\ request'[p].pc = "granted" /\ request'[p].subject = s
      /\ \A q \in Requests \ {p} : request'[q] = request[q]
  BY <1>1, GotoKeeps, GuardFacts
<1>3. entry'[s] = NoEntry /\ \A t \in Subjects \ {s} : entry'[t] = entry[t]
  BY <1>1, GuardFacts DEF FlushDelete
<1>4. Entered(s)' /\ OwnKey(p)' /\ OwnWait(p)' /\ Unentered(p)'
  BY <1>1, <1>2, <1>3, GuardFacts DEF Entered, OwnKey, OwnWait, Unentered, At
<1> QED
  BY <1>1, <1>2, <1>3, <1>4 DEF GuardGoes, GrantPcs, At

LEMMA GuardStepGoes ==
    ASSUME LimiterInv, OwnManagers, NEW p \in Requests, GuardStep(p)
    PROVE  GuardGoes(p)
  BY CheckCooldownGoes, UpdateReadGoes, UpdateWriteGoes, ReadRowGoes, IncrementAttemptsGoes,
     StartCooldownGoes, StoreCooldownGoes, AnnounceCooldownGoes, FlushReadGoes,
     FlushWriteGoes, FlushDeleteGoes DEF GuardStep

\* A step of a browser is about its own user.
OwnStep(p) ==
    LET s == UserOf[p] IN
    /\ now' = now /\ use_cache' = use_cache
    /\ \A q \in Requests \ {p} : /\ login'[q] = login[q] /\ request'[q] = request[q]
                                 /\ cache_key'[WorkerOf[q]] = cache_key[WorkerOf[q]]
                                 /\ initial_ttl'[WorkerOf[q]] = initial_ttl[WorkerOf[q]]
    /\ \A t \in Subjects \ {s} :
            /\ attempts'[t] = attempts[t] /\ cached'[t] = cached[t] /\ guesses'[t] = guesses[t]
            /\ active'[t] = active[t] /\ entry'[t] = entry[t] /\ counted'[t] = counted[t]

Own(p) ==
    /\ Entered(UserOf[p]) /\ Counts(UserOf[p]) /\ Dated(UserOf[p])
    /\ Ours(p) /\ OwnKey(p) /\ OwnWait(p) /\ Unentered(p) /\ Holds(p) /\ HoldsDated(p)

\* So the other browsers, and the other users, do not notice.
LEMMA OthersHold ==
    ASSUME LimiterInv, LimiterBase', OneBrowser, NEW p \in Requests, OwnStep(p), Own(p)'
    PROVE  LimiterInv'
<1>1. UserOf \in [Requests -> Subjects]
  BY LimiterAssumption
<1>2. ASSUME NEW t \in Subjects, t # UserOf[p] PROVE Entered(t)' /\ Counts(t)' /\ Dated(t)'
  <2>1. /\ attempts'[t] = attempts[t] /\ cached'[t] = cached[t] /\ guesses'[t] = guesses[t]
        /\ active'[t] = active[t] /\ entry'[t] = entry[t] /\ counted'[t] = counted[t]
        /\ now' = now /\ use_cache' = use_cache
    BY <1>2 DEF OwnStep
  <2>2. Entered(t) /\ Counts(t) /\ Dated(t)
    BY DEF LimiterInv
  <2> QED
    BY <2>1, <2>2 DEF Entered, Counts, Dated, RowsAfter
<1>3. ASSUME NEW q \in Requests, q # p
      PROVE  Ours(q)' /\ OwnKey(q)' /\ OwnWait(q)' /\ Unentered(q)' /\ Holds(q)' /\ HoldsDated(q)'
  <2> DEFINE t == UserOf[q]
  <2>0. t \in Subjects \ {UserOf[p]}
    BY <1>1, <1>3 DEF OneBrowser
  <2>1. /\ attempts'[t] = attempts[t] /\ cached'[t] = cached[t] /\ guesses'[t] = guesses[t]
        /\ active'[t] = active[t] /\ entry'[t] = entry[t] /\ counted'[t] = counted[t]
        /\ now' = now /\ use_cache' = use_cache
        /\ login'[q] = login[q] /\ request'[q] = request[q]
        /\ cache_key'[WorkerOf[q]] = cache_key[WorkerOf[q]]
        /\ initial_ttl'[WorkerOf[q]] = initial_ttl[WorkerOf[q]]
    BY <1>3, <2>0 DEF OwnStep
  <2>2. Ours(q) /\ OwnKey(q) /\ OwnWait(q) /\ Unentered(q) /\ Holds(q) /\ HoldsDated(q)
    BY DEF LimiterInv
  <2>3. Ours(q)' /\ OwnKey(q)' /\ OwnWait(q)' /\ Unentered(q)'
    BY <2>1, <2>2 DEF Ours, OwnKey, OwnWait, Unentered, At
  <2>4. Holds(q)'
    BY <2>1, <2>2 DEF Holds, Doing, At
  <2>5. HoldsDated(q)'
    BY <2>1, <2>2 DEF HoldsDated, RowsAfter
  <2> QED
    BY <2>3, <2>4, <2>5
<1> QED
  BY <1>2, <1>3 DEF LimiterInv, Own

\* What the invariant says of a browser and of its user.
LEMMA HolderFacts ==
    ASSUME LimiterInv, NEW p \in Requests
    PROVE  /\ UserOf[p] \in Subjects /\ UserOf[p] # NoSubject
           /\ login \in [Requests -> Loggin] /\ login[p].copy \in Nat /\ login[p].read \in Nat
           /\ attempts \in [Subjects -> Nat] /\ cached \in [Subjects -> SUBSET Nat]
           /\ guesses \in [Subjects -> Nat] /\ counted \in [Subjects -> Nat]
           /\ active \in [Subjects -> SUBSET Row] /\ entry \in [Subjects -> Entry]
           /\ request \in [Requests -> Asking]
           /\ MaxAttempts \in Nat \ {0} /\ now \in Nat /\ Cooldown \in Nat
           /\ LimiterBase /\ Own(p)
  BY BrowserFacts, GuardAssumption
     DEF LimiterInv, CountsTyped, GuardInv, TypeOK, Own

\* Most steps of a browser leave the guard alone.
LEMMA GuardAlone ==
    ASSUME LimiterInv, NEW p \in Requests, UNCHANGED <<entry, request, cache_key, initial_ttl>>
    PROVE  Entered(UserOf[p])' /\ OwnKey(p)' /\ OwnWait(p)' /\ Unentered(p)'
  BY HolderFacts DEF Own, Entered, OwnKey, OwnWait, Unentered, At

\* Who is not in the guard has no request there.
LEMMA OutOfGuard ==
    ASSUME LimiterInv, NEW p \in Requests, login[p].pc \notin Guarded
    PROVE  At(p, "idle") /\ request[p].subject \in {UserOf[p], NoSubject}
  BY DEF LimiterInv, Ours

\* A browser outside the guard that stays outside has no request there.
LEMMA QuietOurs ==
    ASSUME LimiterInv, NEW p \in Requests, login[p].pc \notin Guarded, UNCHANGED request
    PROVE  /\ request'[p].pc = "idle"
           /\ login'[p].pc \notin Guarded => Ours(p)'
  BY OutOfGuard DEF Ours, At, Guarded

LEMMA SubmitHolds ==
    ASSUME LimiterInv, NEW p \in Requests, Submit(p)
    PROVE  OwnStep(p) /\ Own(p)'
<1> DEFINE s == UserOf[p]
<1>1. /\ login[p].pc = "idle" /\ login'[p].pc = "get" /\ login'[p].copy = login[p].copy
      /\ \A q \in Requests \ {p} : login'[q] = login[q]
  BY LoginMoves, HolderFacts DEF Submit, Doing
<1>2. UNCHANGED <<guardVars, attempts, cached, use_cache, guesses, counted>>
  BY DEF Submit, Unguessed
<1>3. OwnStep(p)
  BY <1>1, <1>2 DEF OwnStep, guardVars
<1>4. Entered(s)' /\ OwnKey(p)' /\ OwnWait(p)' /\ Unentered(p)'
  BY <1>2, GuardAlone DEF guardVars
<1>5. Counts(s)' /\ Dated(s)'
  BY <1>2, HolderFacts DEF Own, Counts, Dated, RowsAfter, guardVars
<1>6. request'[p].pc = "idle" /\ Ours(p)'
  BY <1>1, <1>2, QuietOurs DEF guardVars, Guarded
<1>7. Holds(p)'
  BY <1>1, <1>2, <1>6, HolderFacts DEF Own, Counts, Holds, Doing, At, guardVars
<1>8. HoldsDated(p)'
  BY <1>1, <1>6 DEF HoldsDated, GrantPcs
<1> QED
  BY <1>3, <1>4, <1>5, <1>6, <1>7, <1>8 DEF Own

LEMMA GetLimiterHolds ==
    ASSUME LimiterInv, NEW p \in Requests, GetLimiter(p)
    PROVE  OwnStep(p) /\ Own(p)'
<1> DEFINE s == UserOf[p]
<1>1. login[p].pc = "get" /\ UNCHANGED <<active, issued, attempts, cached>> /\ Unguarded /\ Unguessed
  BY DEF GetLimiter, Doing
<1>2. /\ \/ login'[p].pc = "fetch" /\ cached[s] = {}
         \/ login'[p].copy \in cached[s] /\ login'[p].pc = UnderMax(login'[p].copy)
      /\ \A q \in Requests \ {p} : login'[q] = login[q]
  BY LoginMoves, HolderFacts DEF GetLimiter
<1>3. OwnStep(p)
  BY <1>1, <1>2 DEF OwnStep, Unguarded, Unguessed
<1>4. Entered(s)' /\ OwnKey(p)' /\ OwnWait(p)' /\ Unentered(p)'
  BY <1>1, GuardAlone DEF Unguarded
<1>5. Counts(s)' /\ Dated(s)'
  BY <1>1, HolderFacts DEF Own, Counts, Dated, RowsAfter, Unguarded, Unguessed
<1>6. request'[p].pc = "idle" /\ Ours(p)'
  BY <1>1, <1>2, QuietOurs, UnderMaxSteps DEF Unguarded, Guarded
<1>7. ASSUME login'[p].pc = "fetch", cached[s] = {} PROVE Holds(p)' /\ HoldsDated(p)'
  <2>1. active[s] # {} \/ active[s] = {}
    OBVIOUS
  <2>2. Holds(p)'
    BY <1>1, <1>6, <1>7 DEF Holds, Doing, At
  <2> QED
    BY <1>6, <1>7, <2>2 DEF HoldsDated, GrantPcs
<1>8. ASSUME login'[p].copy \in cached[s], login'[p].pc = UnderMax(login'[p].copy)
      PROVE  Holds(p)' /\ HoldsDated(p)'
  <2>1. /\ cached[s] = {login'[p].copy} /\ login'[p].copy \in Nat /\ active[s] # {}
        /\ Counts(s) /\ Dated(s)
    BY <1>8, HolderFacts DEF Own, Counts
  <2>2. CASE login'[p].copy < MaxAttempts
    <3>1. login'[p].pc = "record"
      BY <1>8, <2>2 DEF UnderMax
    <3>2. Holds(p)'
      BY <1>1, <1>6, <2>1, <2>2, <3>1, HolderFacts DEF Counts, Holds, Doing, At, Unguessed
    <3> QED
      BY <1>6, <3>1, <3>2 DEF HoldsDated, GrantPcs
  <2>3. CASE ~(login'[p].copy < MaxAttempts)
    <3>1. login'[p].pc = "locked" /\ login'[p].copy >= MaxAttempts
      BY <1>8, <2>1, <2>3, HolderFacts DEF UnderMax
    <3>2. Holds(p)'
      BY <1>1, <1>6, <2>1, <3>1, HolderFacts DEF Counts, Holds, Doing, At, Unguessed
    <3> QED
      BY <1>1, <1>6, <2>1, <3>1, <3>2, HolderFacts DEF Dated, RowsAfter, HoldsDated, GrantPcs,
         Unguessed
  <2> QED
    BY <2>2, <2>3
<1> QED
  BY <1>2, <1>3, <1>4, <1>5, <1>6, <1>7, <1>8 DEF Own

\* A limiter that was missing is as old as the moment.
LEMMA CreatedAfter ==
    ASSUME LimiterInv, NEW p \in Requests, GetOrCreate(UserOf[p])
    PROVE  LET s == UserOf[p] IN
           /\ active'[s] # {}
           /\ \A t \in Subjects \ {s} : active'[t] = active[t]
           /\ \A row \in active'[s] : row \in active[s] \/ row.last >= counted[s]
<1> DEFINE s == UserOf[p]
<1>1. counted[s] <= now /\ NewRow(s).last = now
  BY HolderFacts DEF Own, Dated, NewRow
<1>2. CASE active[s] = {}
  <2> DEFINE row == NewRow(s)
  <2>1. active' = [active EXCEPT ![s] = {row}]
    BY <1>2 DEF GetOrCreate
  <2>2. row.last >= counted[s]
    BY <1>1, HolderFacts
  <2> HIDE DEF row
  <2>3. active'[s] = {row} /\ \A t \in Subjects \ {s} : active'[t] = active[t]
    BY <2>1, HolderFacts
  <2> QED
    BY <2>2, <2>3
<1>3. CASE active[s] # {}
  BY <1>3 DEF GetOrCreate
<1> QED
  BY <1>2, <1>3

LEMMA FetchLimiterHolds ==
    ASSUME LimiterInv, NEW p \in Requests, FetchLimiter(p)
    PROVE  OwnStep(p) /\ Own(p)'
<1> DEFINE s == UserOf[p]
<1>1. login[p].pc = "fetch" /\ UNCHANGED <<attempts, cached>> /\ Unguarded /\ Unguessed
  BY DEF FetchLimiter, Doing
<1>2. /\ login'[p].pc = "cache" /\ login'[p].copy = attempts[s]
      /\ \A q \in Requests \ {p} : login'[q] = login[q]
  BY LoginMoves, HolderFacts DEF FetchLimiter
<1>3. /\ active'[s] # {} /\ \A t \in Subjects \ {s} : active'[t] = active[t]
      /\ \A row \in active'[s] : row \in active[s] \/ row.last >= counted[s]
  BY CreatedAfter DEF FetchLimiter
<1>4. OwnStep(p)
  BY <1>1, <1>2, <1>3 DEF OwnStep, Unguarded, Unguessed
<1>5. Entered(s)' /\ OwnKey(p)' /\ OwnWait(p)' /\ Unentered(p)'
  BY <1>1, GuardAlone DEF Unguarded
<1>6. cached[s] = {} /\ Counts(s) /\ Dated(s)
  BY <1>1, HolderFacts DEF Own, Holds, Doing
<1>7. RowsAfter(s) => RowsAfter(s)'
  BY <1>1, <1>3 DEF RowsAfter, Unguessed
<1>8. Counts(s)'
  BY <1>1, <1>3, <1>6 DEF Counts, Unguessed
<1>9. Dated(s)'
  BY <1>1, <1>6, <1>7 DEF Dated, Unguessed, Unguarded
<1>10. request'[p].pc = "idle" /\ Ours(p)'
  BY <1>1, <1>2, QuietOurs DEF Unguarded, Guarded
<1>11. Holds(p)'
  BY <1>1, <1>2, <1>3, <1>6, <1>10, HolderFacts DEF Counts, Holds, Doing, At, Unguessed
<1>12. HoldsDated(p)'
  BY <1>2, <1>6, <1>7, <1>10 DEF Dated, HoldsDated, GrantPcs
<1> QED
  BY <1>4, <1>5, <1>8, <1>9, <1>10, <1>11, <1>12 DEF Own

LEMMA CacheLimiterHolds ==
    ASSUME LimiterInv, NEW p \in Requests, CacheLimiter(p)
    PROVE  OwnStep(p) /\ Own(p)'
<1> DEFINE s == UserOf[p]
           copy == login[p].copy
<1>1. /\ login[p].pc = "cache" /\ UNCHANGED <<active, issued, attempts>> /\ Unguarded /\ Unguessed
      /\ cached'[s] = {copy} /\ \A t \in Subjects \ {s} : cached'[t] = cached[t]
  BY HolderFacts DEF CacheLimiter, Doing
<1>2. /\ login'[p].pc = UnderMax(copy) /\ login'[p].copy = copy
      /\ \A q \in Requests \ {p} : login'[q] = login[q]
  BY LoginMoves, HolderFacts DEF CacheLimiter
<1>3. OwnStep(p)
  BY <1>1, <1>2 DEF OwnStep, Unguarded, Unguessed
<1>4. Entered(s)' /\ OwnKey(p)' /\ OwnWait(p)' /\ Unentered(p)'
  BY <1>1, GuardAlone DEF Unguarded
<1>5. /\ cached[s] = {} /\ Counts(s) /\ Dated(s) /\ active[s] # {} /\ copy \in Nat
      /\ guesses[s] <= copy + 1 /\ (attempts[s] <= copy + 1 \/ copy >= MaxAttempts)
      /\ copy >= MaxAttempts => RowsAfter(s)
  BY <1>1, HolderFacts DEF Own, Holds, HoldsDated, Doing
<1> HIDE DEF copy
<1>6. RowsAfter(s) => RowsAfter(s)'
  BY <1>1 DEF RowsAfter, Unguessed
<1>7. Counts(s)'
  BY <1>1, <1>5 DEF Counts, Unguessed
<1>8. Dated(s)'
  BY <1>1, <1>5, <1>6 DEF Dated, Unguessed, Unguarded
<1>9. request'[p].pc = "idle" /\ Ours(p)'
  BY <1>1, <1>2, QuietOurs, UnderMaxSteps DEF Unguarded, Guarded
<1>10. CASE copy < MaxAttempts
  <2>1. login'[p].pc = "record"
    BY <1>2, <1>10 DEF UnderMax
  <2>2. Holds(p)'
    BY <1>1, <1>2, <1>5, <1>9, <1>10, <2>1 DEF Holds, Doing, At, Unguessed
  <2>3. HoldsDated(p)'
    BY <1>9, <2>1 DEF HoldsDated, GrantPcs
  <2> QED
    BY <1>3, <1>4, <1>7, <1>8, <1>9, <2>2, <2>3 DEF Own
<1>11. CASE ~(copy < MaxAttempts)
  <2>1. login'[p].pc = "locked" /\ copy >= MaxAttempts
    BY <1>2, <1>5, <1>11, HolderFacts DEF UnderMax
  <2>2. Holds(p)'
    BY <1>1, <1>5, <1>9, <2>1, HolderFacts DEF Holds, Doing, At, Unguessed
  <2>3. HoldsDated(p)'
    BY <1>5, <1>6, <1>9, <2>1 DEF HoldsDated, GrantPcs
  <2> QED
    BY <1>3, <1>4, <1>7, <1>8, <1>9, <2>2, <2>3 DEF Own
<1> QED
  BY <1>10, <1>11

LEMMA RecordAttemptHolds ==
    ASSUME LimiterInv, NEW p \in Requests, RecordAttempt(p)
    PROVE  OwnStep(p) /\ Own(p)'
<1> DEFINE s == UserOf[p]
           old == login[p].copy
           copy == old + 1
<1>1. /\ login[p].pc = "record" /\ UNCHANGED <<issued, use_cache, cached, guesses>> /\ Unguarded
      /\ counted'[s] = now /\ \A t \in Subjects \ {s} : counted'[t] = counted[t]
  BY HolderFacts DEF RecordAttempt, Doing
<1>2. /\ login'[p].pc = "store" /\ login'[p].copy = copy
      /\ \A q \in Requests \ {p} : login'[q] = login[q]
  BY LoginMoves, HolderFacts DEF RecordAttempt
<1>3. /\ Counts(s) /\ Dated(s) /\ active[s] # {} /\ old \in Nat /\ old < MaxAttempts
      /\ guesses[s] <= old + 1 /\ attempts[s] <= old + 1
      /\ cached[s] \subseteq {old}
  BY <1>1, HolderFacts DEF Own, Holds, Doing
<1>4. /\ IF Saves(copy) THEN attempts'[s] = copy /\ \A row \in active'[s] : row.last = now
                        ELSE attempts'[s] = attempts[s] /\ active'[s] = active[s]
      /\ active'[s] # {}
      /\ \A t \in Subjects \ {s} : attempts'[t] = attempts[t] /\ active'[t] = active[t]
  <2>1. \A row \in active[s] : Flushed(row).last = now
    BY HolderFacts DEF Flushed, Row
  <2>2. CASE Saves(copy)
    <3> DEFINE flushed == {Flushed(row) : row \in active[s]}
    <3>1. /\ attempts' = [attempts EXCEPT ![s] = copy]
          /\ active' = [active EXCEPT ![s] = flushed]
      BY <2>2 DEF RecordAttempt
    <3>2. flushed # {} /\ \A row \in flushed : row.last = now
      BY <1>3, <2>1
    <3> HIDE DEF copy, flushed
    <3> QED
      BY <2>2, <3>1, <3>2, HolderFacts
  <2>3. CASE ~Saves(copy)
    BY <1>3, <2>3 DEF RecordAttempt
  <2> QED
    BY <2>2, <2>3
<1> HIDE DEF old
<1>5. OwnStep(p)
  BY <1>1, <1>2, <1>4 DEF OwnStep, Unguarded
<1>6. Entered(s)' /\ OwnKey(p)' /\ OwnWait(p)' /\ Unentered(p)'
  BY <1>1, GuardAlone DEF Unguarded
<1>7. request'[p].pc = "idle" /\ Ours(p)'
  BY <1>1, <1>2, QuietOurs DEF Unguarded, Guarded
<1>8. Counts(s)'
  BY <1>1, <1>3, <1>4, HolderFacts DEF Counts, Saves
<1>9. Saves(copy) => RowsAfter(s)'
  BY <1>1, <1>4, HolderFacts DEF RowsAfter
<1>10. attempts'[s] >= MaxAttempts \/ copy >= MaxAttempts => Saves(copy)
  BY <1>3, <1>4, HolderFacts DEF Saves
<1>11. Dated(s)'
  BY <1>1, <1>3, <1>9, <1>10, HolderFacts DEF Dated, Unguarded
<1>12. Holds(p)'
  BY <1>1, <1>2, <1>3, <1>4, <1>7, HolderFacts DEF Holds, Doing, At, Saves
<1>13. HoldsDated(p)'
  BY <1>2, <1>7, <1>9, <1>10 DEF HoldsDated, GrantPcs
<1> QED
  BY <1>5, <1>6, <1>7, <1>8, <1>11, <1>12, <1>13 DEF Own

LEMMA StoreCopyHolds ==
    ASSUME LimiterInv, NEW p \in Requests, StoreCopy(p)
    PROVE  OwnStep(p) /\ Own(p)'
<1> DEFINE s == UserOf[p]
           copy == login[p].copy
<1>1. /\ login[p].pc = "store" /\ UNCHANGED <<active, issued, attempts>> /\ Unguarded /\ Unguessed
      /\ cached'[s] = {copy} /\ \A t \in Subjects \ {s} : cached'[t] = cached[t]
  BY HolderFacts DEF StoreCopy, Doing
<1>2. /\ login'[p].pc = "guess" /\ \A q \in Requests \ {p} : login'[q] = login[q]
  BY LoginMoves, HolderFacts DEF StoreCopy
<1>3. OwnStep(p)
  BY <1>1, <1>2 DEF OwnStep, Unguarded, Unguessed
<1>4. Entered(s)' /\ OwnKey(p)' /\ OwnWait(p)' /\ Unentered(p)'
  BY <1>1, GuardAlone DEF Unguarded
<1>5. /\ Counts(s) /\ Dated(s) /\ active[s] # {} /\ copy \in Nat
      /\ guesses[s] <= copy /\ copy <= MaxAttempts /\ (~use_cache => guesses[s] <= attempts[s])
      /\ attempts[s] <= copy \/ copy >= MaxAttempts
      /\ copy >= MaxAttempts => RowsAfter(s)
  BY <1>1, HolderFacts DEF Own, Holds, HoldsDated, Doing
<1> HIDE DEF copy
<1>6. RowsAfter(s) => RowsAfter(s)'
  BY <1>1 DEF RowsAfter, Unguessed
<1>7. Counts(s)'
  BY <1>1, <1>5, HolderFacts DEF Counts, Unguessed
<1>8. Dated(s)'
  BY <1>1, <1>5, <1>6 DEF Dated, Unguessed, Unguarded
<1>9. request'[p].pc = "idle" /\ Ours(p)'
  BY <1>1, <1>2, QuietOurs DEF Unguarded, Guarded
<1>10. Holds(p)'
  BY <1>1, <1>2, <1>5, <1>9, HolderFacts DEF Holds, Doing, At, Unguessed
<1>11. HoldsDated(p)'
  BY <1>2, <1>9 DEF HoldsDated, GrantPcs
<1> QED
  BY <1>3, <1>4, <1>7, <1>8, <1>9, <1>10, <1>11 DEF Own

LEMMA CheckLockoutHolds ==
    ASSUME LimiterInv, OneBrowser, NEW p \in Requests, CheckLockout(p)
    PROVE  OwnStep(p) /\ Own(p)'
<1> DEFINE s == UserOf[p]
           alone == \A q \in Requests : request[q].subject # s
           new == Starting(s, alone /\ now >= touched[s] + Longest, alone /\ told[s] > 0 /\ now >= told[s])
<1>1. /\ login[p].pc = "locked" /\ UNCHANGED <<attempts, cached>> /\ Unguessed
      /\ UNCHANGED <<now, active, entry, cache_key, initial_ttl>>
  BY DEF CheckLockout, Ask, Doing
<1>2. /\ login'[p].pc = "guard" /\ \A q \in Requests \ {p} : login'[q] = login[q]
  BY LoginMoves, HolderFacts DEF CheckLockout
<1>3. new.pc = "check" /\ new.subject = s
  BY DEF Starting, Idle
<1>4. request' = [Joined(s) EXCEPT ![p] = new]
  BY DEF CheckLockout, Ask
<1> HIDE DEF new
<1>5. request'[p] = new /\ \A q \in Requests \ {p} : request'[q] = Joined(s)[q]
  BY <1>4 DEF Joined
<1>6. ASSUME NEW q \in Requests \ {p} PROVE request'[q] = request[q]
  <2>1. request[q].subject # s
    BY LimiterAssumption, GuardAssumption DEF LimiterInv, Ours, OneBrowser
  <2> QED
    BY <1>5, <2>1, JoinedFields, BaseParts DEF LimiterInv, GuardInv
<1>7. OwnStep(p)
  BY <1>1, <1>2, <1>6 DEF OwnStep, Unguessed
<1>8. request'[p].pc = "check" /\ request'[p].subject = s
  BY <1>3, <1>5
<1>9. Entered(s)' /\ OwnKey(p)' /\ OwnWait(p)' /\ Unentered(p)' /\ Ours(p)'
  BY <1>1, <1>2, <1>8, HolderFacts DEF Own, Entered, OwnKey, OwnWait, Unentered, Ours, At, Guarded
<1>10. Counts(s)' /\ Dated(s)'
  BY <1>1, HolderFacts DEF Own, Counts, Dated, RowsAfter, Unguessed
<1>11. Holds(p)'
  BY <1>1, <1>2, <1>8, HolderFacts DEF Own, Holds, Doing, At, Unguessed
<1>12. HoldsDated(p)'
  BY <1>1, <1>2, <1>8, HolderFacts DEF Own, HoldsDated, RowsAfter, GrantPcs, Unguessed
<1> QED
  BY <1>7, <1>9, <1>10, <1>11, <1>12 DEF Own

LEMMA AuditLookupHolds ==
    ASSUME LimiterInv, NEW p \in Requests, AuditLookup(p)
    PROVE  OwnStep(p) /\ Own(p)'
<1> DEFINE s == UserOf[p]
<1>1. /\ login[p].pc = "guard" /\ At(p, "granted")
      /\ UNCHANGED <<active, issued, attempts, cached>> /\ Unguarded /\ Unguessed
  BY DEF AuditLookup, Granted, Doing
<1>2. /\ login'[p].pc \in {"audit", "reset"} /\ \A q \in Requests \ {p} : login'[q] = login[q]
  BY LoginMoves, HolderFacts DEF AuditLookup
<1>3. OwnStep(p)
  BY <1>1, <1>2 DEF OwnStep, Unguarded, Unguessed
<1>4. Entered(s)' /\ OwnKey(p)' /\ OwnWait(p)' /\ Unentered(p)' /\ Ours(p)'
  BY <1>1, <1>2, GuardAlone, HolderFacts DEF Own, Ours, At, Guarded, Unguarded
<1>5. Counts(s)' /\ Dated(s)'
  BY <1>1, HolderFacts DEF Own, Counts, Dated, RowsAfter, Unguarded, Unguessed
<1>6. Holds(p)'
  BY <1>1, <1>2, HolderFacts DEF Own, Holds, Doing, At, Unguarded, Unguessed
<1>7. HoldsDated(p)'
  BY <1>1, <1>2, HolderFacts DEF Own, HoldsDated, Unguarded, Unguessed
<1> QED
  BY <1>3, <1>4, <1>5, <1>6, <1>7 DEF Own

LEMMA AuditCreateHolds ==
    ASSUME LimiterInv, NEW p \in Requests, AuditCreate(p)
    PROVE  OwnStep(p) /\ Own(p)'
<1> DEFINE s == UserOf[p]
<1>1. /\ login[p].pc = "audit" /\ At(p, "granted")
      /\ UNCHANGED <<now, active, entry, cache_key, initial_ttl, use_cache, attempts, cached, guesses, counted>>
  BY DEF AuditCreate, Granted, Doing
<1>2. \/ login'[p].pc = "reset" /\ UNCHANGED request
      \/ login'[p].pc = "idle" /\ End(p)
  BY LoginMoves, HolderFacts DEF AuditCreate
<1>3. \A q \in Requests \ {p} : login'[q] = login[q] /\ request'[q] = request[q]
  BY LoginMoves, HolderFacts, EndKeeps DEF AuditCreate
<1>4. OwnStep(p)
  BY <1>1, <1>3 DEF OwnStep
<1>5. Entered(s)' /\ Counts(s)' /\ Dated(s)'
  BY <1>1, HolderFacts DEF Own, Entered, Counts, Dated, RowsAfter
<1>6. ASSUME login'[p].pc = "reset", UNCHANGED request PROVE Own(p)'
  <2>1. OwnKey(p)' /\ OwnWait(p)' /\ Unentered(p)' /\ Ours(p)'
    BY <1>1, <1>6, GuardAlone, HolderFacts DEF Own, Ours, At, Guarded
  <2>2. Holds(p)'
    BY <1>1, <1>6, HolderFacts DEF Own, Holds, Doing, At
  <2>3. HoldsDated(p)'
    BY <1>1, <1>6, HolderFacts DEF Own, HoldsDated
  <2> QED
    BY <1>5, <2>1, <2>2, <2>3 DEF Own
<1>7. ASSUME login'[p].pc = "idle", End(p) PROVE Own(p)'
  <2>1. /\ request'[p] = Idle /\ request'[p].pc = "idle" /\ OwnKey(p)' /\ OwnWait(p)' /\ Unentered(p)'
    BY <1>7, EndKeeps
  <2>2. Ours(p)' /\ Holds(p)' /\ HoldsDated(p)'
    BY <1>7, <2>1 DEF Ours, Holds, HoldsDated, Doing, At, Idle, GrantPcs
  <2> QED
    BY <1>5, <2>1, <2>2 DEF Own
<1> QED
  BY <1>2, <1>4, <1>6, <1>7

LEMMA ResetAttemptsHolds ==
    ASSUME LimiterInv, NEW p \in Requests, ResetAttempts(p)
    PROVE  OwnStep(p) /\ Own(p)'
<1> DEFINE s == UserOf[p]
<1>1. /\ login[p].pc = "reset" /\ At(p, "granted")
      /\ UNCHANGED <<active, use_cache, cached, counted>> /\ Unguarded
      /\ attempts'[s] = 0 /\ guesses'[s] = 0
      /\ \A t \in Subjects \ {s} : attempts'[t] = attempts[t] /\ guesses'[t] = guesses[t]
  BY HolderFacts DEF ResetAttempts, Granted, Doing
<1>2. /\ login'[p].pc = "forget" /\ \A q \in Requests \ {p} : login'[q] = login[q]
  BY LoginMoves, HolderFacts DEF ResetAttempts
<1>3. OwnStep(p)
  BY <1>1, <1>2 DEF OwnStep, Unguarded
<1>4. Entered(s)' /\ OwnKey(p)' /\ OwnWait(p)' /\ Unentered(p)' /\ Ours(p)'
  BY <1>1, <1>2, GuardAlone, HolderFacts DEF Own, Ours, At, Guarded, Unguarded
<1>5. Counts(s) /\ Dated(s) /\ Holds(p) /\ HoldsDated(p) /\ active[s] # {}
  BY <1>1, HolderFacts DEF Own, Holds
<1>6. Counts(s)' /\ Dated(s)'
  BY <1>1, <1>5, HolderFacts DEF Counts, Dated, RowsAfter, Unguarded
<1>7. Holds(p)'
  BY <1>1, <1>2, <1>5 DEF Holds, Doing, At, Unguarded
<1>8. HoldsDated(p)'
  BY <1>1, <1>2, <1>5 DEF HoldsDated, Unguarded
<1> QED
  BY <1>3, <1>4, <1>6, <1>7, <1>8 DEF Own

LEMMA ForgetCopyHolds ==
    ASSUME LimiterInv, NEW p \in Requests, ForgetCopy(p)
    PROVE  OwnStep(p) /\ Own(p)'
<1> DEFINE s == UserOf[p]
<1>1. /\ login[p].pc = "forget" /\ UNCHANGED <<now, active, entry, cache_key, initial_ttl, attempts>> /\ Unguessed
      /\ cached'[s] = {} /\ \A t \in Subjects \ {s} : cached'[t] = cached[t]
  BY HolderFacts DEF ForgetCopy, Granted, Doing
<1>2. /\ login'[p].pc = "guess" /\ \A q \in Requests \ {p} : login'[q] = login[q]
  BY LoginMoves, HolderFacts DEF ForgetCopy
<1>3. /\ request'[p] = Idle /\ request'[p].pc = "idle" /\ OwnKey(p)' /\ OwnWait(p)' /\ Unentered(p)'
      /\ \A q \in Requests \ {p} : request'[q] = request[q]
  BY EndKeeps DEF ForgetCopy
<1>4. OwnStep(p)
  BY <1>1, <1>2, <1>3 DEF OwnStep, Unguessed
<1>5. Counts(s) /\ Dated(s) /\ active[s] # {} /\ guesses[s] = 0 /\ Entered(s)
  BY <1>1, HolderFacts DEF Own, Holds, Doing
<1>6. Entered(s)' /\ Counts(s)' /\ Dated(s)'
  BY <1>1, <1>5, HolderFacts DEF Entered, Counts, Dated, RowsAfter, Unguessed
<1>7. Ours(p)' /\ HoldsDated(p)'
  BY <1>2, <1>3 DEF Ours, HoldsDated, At, Idle, GrantPcs
<1>8. Holds(p)'
  BY <1>1, <1>2, <1>3, <1>5, HolderFacts DEF Holds, Doing, At, Unguessed
<1> QED
  BY <1>3, <1>4, <1>6, <1>7, <1>8 DEF Own

LEMMA GuessHolds ==
    ASSUME LimiterInv, NEW p \in Requests, NEW valid \in BOOLEAN, Guess(p, valid)
    PROVE  OwnStep(p) /\ Own(p)'
<1> DEFINE s == UserOf[p]
<1>1. /\ login[p].pc = "guess" /\ UNCHANGED <<now, active, entry, cache_key, initial_ttl, request>>
      /\ UNCHANGED <<use_cache, attempts, cached, counted>>
      /\ guesses'[s] = guesses[s] + 1 /\ \A t \in Subjects \ {s} : guesses'[t] = guesses[t]
  BY HolderFacts DEF Guess, Doing, guardVars
<1>2. login'[p].pc = "idle" /\ \A q \in Requests \ {p} : login'[q] = login[q]
  BY LoginMoves, HolderFacts DEF Guess
<1>3. OwnStep(p)
  BY <1>1, <1>2 DEF OwnStep
<1>4. Entered(s)' /\ OwnKey(p)' /\ OwnWait(p)' /\ Unentered(p)'
  BY <1>1, GuardAlone
<1>5. /\ Counts(s) /\ Dated(s) /\ active[s] # {} /\ guesses[s] <= MaxAttempts
      /\ \A c \in cached[s] : guesses[s] <= c
      /\ cached[s] = {} \/ ~use_cache => guesses[s] <= attempts[s]
  BY <1>1, HolderFacts DEF Own, Holds, Doing
<1>6. Counts(s)'
  BY <1>1, <1>5, HolderFacts DEF Counts
<1>7. Dated(s)'
  BY <1>1, <1>5 DEF Dated, RowsAfter
<1>8. request'[p].pc = "idle" /\ Ours(p)'
  BY <1>1, <1>2, QuietOurs DEF Guarded
<1>9. Holds(p)' /\ HoldsDated(p)'
  BY <1>2, <1>8 DEF Holds, HoldsDated, Doing, At, GrantPcs
<1> QED
  BY <1>3, <1>4, <1>6, <1>7, <1>8, <1>9 DEF Own

LEMMA VisitHolds ==
    ASSUME LimiterInv, NEW p \in Requests, Visit(p)
    PROVE  OwnStep(p) /\ Own(p)'
<1> DEFINE s == UserOf[p]
<1>1. /\ login[p].pc = "idle" /\ UNCHANGED <<guardVars, attempts, cached>> /\ Unguessed
  BY DEF Visit, Doing
<1>2. login'[p].pc = "visit_fetch" /\ \A q \in Requests \ {p} : login'[q] = login[q]
  BY LoginMoves, HolderFacts DEF Visit
<1>3. OwnStep(p)
  BY <1>1, <1>2 DEF OwnStep, Unguessed, guardVars
<1>4. Entered(s)' /\ OwnKey(p)' /\ OwnWait(p)' /\ Unentered(p)'
  BY <1>1, GuardAlone DEF guardVars
<1>5. Counts(s)' /\ Dated(s)'
  BY <1>1, HolderFacts DEF Own, Counts, Dated, RowsAfter, guardVars, Unguessed
<1>6. request'[p].pc = "idle" /\ Ours(p)'
  BY <1>1, <1>2, QuietOurs DEF guardVars, Guarded
<1>7. Holds(p)' /\ HoldsDated(p)'
  BY <1>2, <1>6 DEF Holds, HoldsDated, Doing, At, GrantPcs
<1> QED
  BY <1>3, <1>4, <1>5, <1>6, <1>7 DEF Own

LEMMA VisitFetchHolds ==
    ASSUME LimiterInv, NEW p \in Requests, VisitFetch(p)
    PROVE  OwnStep(p) /\ Own(p)'
<1> DEFINE s == UserOf[p]
<1>1. login[p].pc = "visit_fetch" /\ UNCHANGED <<attempts, cached>> /\ Unguarded /\ Unguessed
  BY DEF VisitFetch, Doing
<1>2. /\ IF active[s] = {} THEN login'[p].pc = "visit_cache" /\ login'[p].copy = 0
                           ELSE login'[p].pc = "idle"
      /\ \A q \in Requests \ {p} : login'[q] = login[q]
  BY LoginMoves, HolderFacts DEF VisitFetch
<1>3. /\ active'[s] # {} /\ \A t \in Subjects \ {s} : active'[t] = active[t]
      /\ \A row \in active'[s] : row \in active[s] \/ row.last >= counted[s]
  BY CreatedAfter DEF VisitFetch
<1>4. OwnStep(p)
  BY <1>1, <1>2, <1>3 DEF OwnStep, Unguarded, Unguessed
<1>5. Entered(s)' /\ OwnKey(p)' /\ OwnWait(p)' /\ Unentered(p)'
  BY <1>1, GuardAlone DEF Unguarded
<1>6. Counts(s) /\ Dated(s)
  BY HolderFacts DEF Own
<1>7. RowsAfter(s) => RowsAfter(s)'
  BY <1>1, <1>3 DEF RowsAfter, Unguessed
<1>8. Counts(s)'
  BY <1>1, <1>3, <1>6 DEF Counts, Unguessed
<1>9. Dated(s)'
  BY <1>1, <1>6, <1>7 DEF Dated, Unguessed, Unguarded
<1>10. request'[p].pc = "idle" /\ Ours(p)'
  BY <1>1, <1>2, QuietOurs DEF Unguarded, Guarded
<1>11. Holds(p)'
  BY <1>1, <1>2, <1>3, <1>6, <1>10, HolderFacts DEF Counts, Holds, Doing, At, Unguessed
<1>12. HoldsDated(p)'
  BY <1>2, <1>10 DEF HoldsDated, GrantPcs
<1> QED
  BY <1>4, <1>5, <1>8, <1>9, <1>10, <1>11, <1>12 DEF Own

LEMMA VisitCacheHolds ==
    ASSUME LimiterInv, NEW p \in Requests, VisitCache(p)
    PROVE  OwnStep(p) /\ Own(p)'
<1> DEFINE s == UserOf[p]
           copy == login[p].copy
<1>1. /\ login[p].pc = "visit_cache" /\ UNCHANGED <<guardVars, attempts>> /\ Unguessed
      /\ cached'[s] = {copy} /\ \A t \in Subjects \ {s} : cached'[t] = cached[t]
  BY HolderFacts DEF VisitCache, Doing
<1>2. login'[p].pc = "idle" /\ \A q \in Requests \ {p} : login'[q] = login[q]
  BY LoginMoves, HolderFacts DEF VisitCache
<1>3. OwnStep(p)
  BY <1>1, <1>2 DEF OwnStep, Unguessed, guardVars
<1>4. Entered(s)' /\ OwnKey(p)' /\ OwnWait(p)' /\ Unentered(p)'
  BY <1>1, GuardAlone DEF guardVars
<1>5. /\ Counts(s) /\ Dated(s) /\ active[s] # {}
      /\ guesses[s] = 0 /\ attempts[s] = 0 /\ copy = 0
  BY <1>1, HolderFacts DEF Own, Holds, Doing
<1> HIDE DEF copy
<1>6. Counts(s)'
  BY <1>1, <1>5, HolderFacts DEF Counts, Unguessed, guardVars
<1>7. Dated(s)'
  BY <1>1, <1>5, HolderFacts DEF Dated, Unguessed, guardVars
<1>8. request'[p].pc = "idle" /\ Ours(p)'
  BY <1>1, <1>2, QuietOurs DEF guardVars, Guarded
<1>9. Holds(p)' /\ HoldsDated(p)'
  BY <1>2, <1>8 DEF Holds, HoldsDated, Doing, At, GrantPcs
<1> QED
  BY <1>3, <1>4, <1>6, <1>7, <1>8, <1>9 DEF Own

LEMMA LimiterCrashHolds ==
    ASSUME LimiterInv, NEW p \in Requests, LimiterCrash(p)
    PROVE  OwnStep(p) /\ Own(p)'
<1> DEFINE s == UserOf[p]
<1>1. UNCHANGED <<now, active, entry, cache_key, initial_ttl, attempts, cached>> /\ Unguessed
  BY DEF LimiterCrash
<1>2. login'[p].pc = "idle" /\ \A q \in Requests \ {p} : login'[q] = login[q]
  BY LoginMoves, HolderFacts DEF LimiterCrash
<1>3. /\ request'[p] = Idle /\ request'[p].pc = "idle" /\ OwnKey(p)' /\ OwnWait(p)' /\ Unentered(p)'
      /\ \A q \in Requests \ {p} : request'[q] = request[q]
  BY EndKeeps DEF LimiterCrash
<1>4. OwnStep(p)
  BY <1>1, <1>2, <1>3 DEF OwnStep, Unguessed
<1>5. Entered(s)' /\ Counts(s)' /\ Dated(s)'
  BY <1>1, HolderFacts DEF Own, Entered, Counts, Dated, RowsAfter, Unguessed
<1>6. Ours(p)' /\ Holds(p)' /\ HoldsDated(p)'
  BY <1>2, <1>3 DEF Ours, Holds, HoldsDated, Doing, At, Idle, GrantPcs
<1> QED
  BY <1>3, <1>4, <1>5, <1>6 DEF Own

\* What the guard saves of the count it has read is no less than what is saved already.
LEMMA GuardKeepsCount ==
    ASSUME LimiterInv, NEW p \in Requests, GuardedStep(p)
    PROVE  LET s == UserOf[p] IN
           /\ attempts'[s] \in attempts[s] .. MaxAttempts + 1
           /\ ~At(p, "increment") => attempts'[s] = attempts[s]
           /\ \A t \in Subjects \ {s} : attempts'[t] = attempts[t]
<1> DEFINE s == UserOf[p]
<1>1. Counts(s) /\ (At(p, "increment") => attempts[s] <= login[p].read + 1)
  BY HolderFacts DEF Own, Holds
<1>2. CASE At(p, "increment")
  <2>1. attempts' = [attempts EXCEPT ![s] = Counting(login[p].read + 1)]
    BY <1>2 DEF GuardedStep, GuardCounts, At
  <2>2. Counting(login[p].read + 1) \in attempts[s] .. MaxAttempts + 1
    BY <1>1, <1>2, HolderFacts DEF Counting, Counts
  <2> QED
    BY <1>2, <2>1, <2>2, HolderFacts
<1>3. CASE ~At(p, "increment")
  <2>1. ~(At(p, "flush_write") /\ request[p].data # NoEntry)
    BY HolderFacts DEF Own, Unentered
  <2>2. attempts' = attempts
    BY <1>3, <2>1 DEF GuardedStep, GuardCounts
  <2> QED
    BY <1>1, <1>3, <2>2, HolderFacts DEF Counts
<1> QED
  BY <1>2, <1>3

LEMMA GuardedStepHolds ==
    ASSUME LimiterInv, OwnManagers, NEW p \in Requests, GuardedStep(p)
    PROVE  OwnStep(p) /\ Own(p)'
<1> DEFINE s == UserOf[p]
<1>1. /\ login[p].pc = "guard" /\ UNCHANGED cached /\ Unguessed
      /\ request[p].pc # "idle" /\ request[p].pc # "granted"
  BY DEF GuardedStep, Doing, GuardStep, CheckCooldown, UpdateRead, UpdateWrite, ReadRow,
         IncrementAttempts, StartCooldown, StoreCooldown, AnnounceCooldown, FlushRead,
         FlushWrite, FlushDelete, At
<1>2. GuardGoes(p)
  BY GuardStepGoes DEF GuardedStep
<1>3. /\ Counts(s) /\ Dated(s) /\ active[s] # {} /\ RowsAfter(s) /\ counted[s] <= now
      /\ \A c \in cached[s] : c >= MaxAttempts
      /\ At(p, "increment") => attempts[s] <= login[p].read + 1
      /\ request[p].pc \in GrantPcs => now >= counted[s] + Cooldown
  BY <1>1, HolderFacts DEF Own, Holds, HoldsDated, Doing, Dated
<1>4. /\ attempts'[s] \in attempts[s] .. MaxAttempts + 1
      /\ ~At(p, "increment") => attempts'[s] = attempts[s]
      /\ \A t \in Subjects \ {s} : attempts'[t] = attempts[t]
  BY GuardKeepsCount
<1>5. /\ IF request'[p] = Idle THEN login'[p].pc = "idle"
         ELSE login'[p].pc = "guard" /\ (At(p, "read_row") => login'[p].read = attempts[s])
      /\ \A q \in Requests \ {p} : login'[q] = login[q]
  <2> DEFINE reading == [login[p] EXCEPT !.read = attempts[s]]
             l == IF request'[p] = Idle THEN Away
                  ELSE IF At(p, "read_row") THEN reading ELSE login[p]
  <2>1. login' = [login EXCEPT ![p] = l]
    BY DEF GuardedStep
  <2>2. reading.pc = login[p].pc /\ reading.read = attempts[s]
    BY HolderFacts DEF Loggin
  <2>3. Away.pc = "idle"
    BY DEF Away
  <2> HIDE DEF reading
  <2>4. IF request'[p] = Idle THEN l.pc = "idle"
        ELSE l.pc = "guard" /\ (At(p, "read_row") => l.read = attempts[s])
    BY <1>1, <2>2, <2>3
  <2> HIDE DEF l
  <2>5. login'[p] = l /\ \A q \in Requests \ {p} : login'[q] = login[q]
    BY <2>1, HolderFacts
  <2> QED
    BY <2>4, <2>5
<1>6. OwnStep(p)
  BY <1>1, <1>2, <1>4, <1>5 DEF OwnStep, GuardGoes, Unguessed
<1>7. Entered(s)' /\ OwnKey(p)' /\ OwnWait(p)' /\ Unentered(p)'
  BY <1>2 DEF GuardGoes
<1>8. RowsAfter(s)' /\ active'[s] # {} /\ now' = now
  BY <1>1, <1>2, <1>3 DEF GuardGoes, RowsAfter, Unguessed
<1>9. Counts(s)'
  BY <1>1, <1>3, <1>4, <1>8, HolderFacts DEF Counts, Unguessed
<1>10. Dated(s)'
  BY <1>1, <1>3, <1>8 DEF Dated, Unguessed
<1>11. request'[p].pc \in GrantPcs => now' >= counted'[s] + Cooldown
  <2>1. ASSUME NEW row \in active[s], row.last + Cooldown <= now
        PROVE  now >= counted[s] + Cooldown
    <3>1. row.last >= counted[s] /\ row.last \in Nat
      BY <1>3, <2>1, HolderFacts DEF RowsAfter, Row
    <3> QED
      BY <2>1, <3>1, HolderFacts
  <2> QED
    BY <1>1, <1>2, <1>3, <2>1 DEF GuardGoes, Unguessed
<1>12. CASE request'[p] = Idle
  <2>1. login'[p].pc = "idle" /\ request'[p].pc = "idle" /\ request'[p].subject = NoSubject
    BY <1>5, <1>12 DEF Idle
  <2>2. Ours(p)' /\ Holds(p)' /\ HoldsDated(p)'
    BY <2>1 DEF Ours, Holds, HoldsDated, Doing, At, GrantPcs
  <2> QED
    BY <1>6, <1>7, <1>9, <1>10, <2>2 DEF Own
<1>13. CASE request'[p] # Idle
  <2>1. /\ login'[p].pc = "guard" /\ (At(p, "read_row") => login'[p].read = attempts[s])
        /\ request'[p].pc # "idle" /\ request'[p].subject = s
        /\ request'[p].pc = "increment" => At(p, "read_row")
    BY <1>2, <1>5, <1>13 DEF GuardGoes
  <2>2. Ours(p)'
    BY <2>1 DEF Ours, At, Guarded
  <2>3. request'[p].pc = "increment" => attempts'[s] <= login'[p].read + 1
    BY <1>4, <2>1, HolderFacts DEF At
  <2>4. Holds(p)'
    BY <1>1, <1>3, <1>8, <2>1, <2>3 DEF Holds, Doing, At
  <2>5. HoldsDated(p)'
    BY <1>8, <1>11, <2>1 DEF HoldsDated
  <2> QED
    BY <1>6, <1>7, <1>9, <1>10, <2>2, <2>4, <2>5 DEF Own
<1> QED
  BY <1>12, <1>13

LEMMA LimiterStepHolds ==
    ASSUME LimiterInv, OneBrowser, OwnManagers, NEW p \in Requests, LimiterStep(p)
    PROVE  OwnStep(p) /\ Own(p)'
  BY SubmitHolds, GetLimiterHolds, FetchLimiterHolds, CacheLimiterHolds, RecordAttemptHolds,
     StoreCopyHolds, CheckLockoutHolds, GuardedStepHolds, AuditLookupHolds, AuditCreateHolds,
     ResetAttemptsHolds, ForgetCopyHolds, GuessHolds, VisitHolds, VisitFetchHolds,
     VisitCacheHolds, LimiterCrashHolds DEF LimiterStep

\* A cached copy that is lost takes with it what was counted nowhere else.
LEMMA EvictHolds ==
    ASSUME LimiterInv, NEW s \in Subjects, NEW restarts \in BOOLEAN, Evict(s, restarts)
    PROVE  LimiterInv'
<1>1. /\ UNCHANGED <<now, active, cache_key, initial_ttl, request, use_cache, attempts, login, counted>>
      /\ LimiterBase /\ MaxAttempts \in Nat /\ CountsTyped /\ GuardInv
  BY LimiterAssumption, BaseParts DEF Evict, LimiterInv
<1>2. LimiterBase'
  BY <1>1, EvictBase
<1>3. ASSUME NEW t \in Subjects
      PROVE  /\ entry'[t] \in {entry[t], NoEntry}
             /\ \/ cached'[t] = cached[t] /\ guesses'[t] = guesses[t]
                \/ /\ cached'[t] = {}
                   /\ guesses'[t] = IF attempts[t] < MaxAttempts /\ use_cache THEN 0 ELSE guesses[t]
  BY <1>1 DEF Evict, CountsTyped, GuardInv, TypeOK
<1>4. ASSUME NEW t \in Subjects PROVE Entered(t)' /\ Counts(t)' /\ Dated(t)'
  <2>1. Entered(t) /\ Counts(t) /\ Dated(t) /\ attempts[t] \in Nat /\ guesses[t] \in Nat
    BY <1>1 DEF LimiterInv, CountsTyped
  <2>2. Entered(t)'
    BY <1>3, <2>1 DEF Entered
  <2>3. Counts(t)'
    BY <1>1, <1>3, <2>1 DEF Counts
  <2>4. Dated(t)'
    BY <1>1, <1>3, <2>1 DEF Dated, RowsAfter
  <2> QED
    BY <2>2, <2>3, <2>4
<1>5. ASSUME NEW q \in Requests
      PROVE  Ours(q)' /\ OwnKey(q)' /\ OwnWait(q)' /\ Unentered(q)' /\ Holds(q)' /\ HoldsDated(q)'
  <2> DEFINE t == UserOf[q]
  <2>1. t \in Subjects /\ Own(q) /\ attempts[t] \in Nat /\ guesses[t] \in Nat
    BY HolderFacts
  <2>2. Ours(q)' /\ OwnKey(q)' /\ OwnWait(q)' /\ Unentered(q)'
    BY <1>1, <1>3, <2>1 DEF Own, Ours, OwnKey, OwnWait, Unentered, At
  <2>3. Holds(q) /\ login[q].copy \in Nat
    BY HolderFacts DEF Own
  <2>4. Holds(q)'
    <3>1. CASE cached'[t] = cached[t] /\ guesses'[t] = guesses[t]
      BY <1>1, <2>3, <3>1 DEF Holds, Doing, At
    <3>2. CASE cached'[t] = {} /\ attempts[t] < MaxAttempts /\ use_cache /\ guesses'[t] = 0
      BY <1>1, <2>1, <2>3, <3>2 DEF Holds, Doing, At
    <3>3. CASE cached'[t] = {} /\ ~(attempts[t] < MaxAttempts /\ use_cache) /\ guesses'[t] = guesses[t]
      BY <1>1, <2>1, <2>3, <3>3 DEF Holds, Doing, At
    <3> QED
      BY <1>3, <2>1, <3>1, <3>2, <3>3
  <2>5. HoldsDated(q)'
    BY <1>1, <2>1 DEF Own, HoldsDated, RowsAfter
  <2> QED
    BY <2>2, <2>4, <2>5
<1> QED
  BY <1>2, <1>4, <1>5 DEF LimiterInv

LEMMA TickHolds ==
    ASSUME LimiterInv, Tick, UNCHANGED limiterVars
    PROVE  LimiterInv'
<1>1. /\ now' = now + 1 /\ now \in Nat /\ UNCHANGED <<active, cache_key, initial_ttl, request>>
      /\ \A t \in Subjects : entry'[t] \in {entry[t], NoEntry}
      /\ LimiterBase /\ CountsTyped /\ Cooldown \in Nat
  BY BaseParts, GuardAssumption DEF Tick, LimiterInv, GuardInv, TypeOK
<1>2. LimiterBase'
  BY <1>1, NextBase DEF LimiterNext
<1>3. ASSUME NEW t \in Subjects PROVE Entered(t)' /\ Counts(t)' /\ Dated(t)'
  <2>1. Entered(t) /\ Counts(t) /\ Dated(t) /\ counted[t] \in Nat
    BY <1>1 DEF LimiterInv, CountsTyped
  <2> QED
    BY <1>1, <2>1 DEF Entered, Counts, Dated, RowsAfter, limiterVars
<1>4. ASSUME NEW q \in Requests
      PROVE  Ours(q)' /\ OwnKey(q)' /\ OwnWait(q)' /\ Unentered(q)' /\ Holds(q)' /\ HoldsDated(q)'
  <2>1. UserOf[q] \in Subjects /\ Own(q) /\ counted[UserOf[q]] \in Nat
    BY HolderFacts
  <2>2. Ours(q)' /\ OwnKey(q)' /\ OwnWait(q)' /\ Unentered(q)'
    BY <1>1, <2>1 DEF Own, Ours, OwnKey, OwnWait, Unentered, At, limiterVars
  <2>3. Holds(q)'
    BY <1>1, <2>1 DEF Own, Holds, Doing, At, limiterVars
  <2>4. HoldsDated(q)'
    BY <1>1, <2>1 DEF Own, HoldsDated, RowsAfter, limiterVars
  <2> QED
    BY <2>2, <2>3, <2>4
<1> QED
  BY <1>2, <1>3, <1>4 DEF LimiterInv

LEMMA InitHolds == LimiterInit => LimiterInv
<1> SUFFICES ASSUME LimiterInit PROVE LimiterInv
  OBVIOUS
<1>1. LimiterBase /\ GuardInit /\ MaxAttempts \in Nat /\ UserOf \in [Requests -> Subjects]
  BY LimiterInitBase, LimiterAssumption DEF LimiterInit
<1>2. ASSUME NEW s \in Subjects PROVE Entered(s) /\ Counts(s) /\ Dated(s)
  BY <1>1 DEF LimiterInit, GuardInit, Entered, Counts, Dated, RowsAfter
<1>3. ASSUME NEW p \in Requests
      PROVE  Ours(p) /\ OwnKey(p) /\ OwnWait(p) /\ Unentered(p) /\ Holds(p) /\ HoldsDated(p)
  <2>1. /\ request[p].pc = "idle" /\ request[p].subject = NoSubject
        /\ login[p].pc = "idle"
    BY DEF LimiterInit, GuardInit, Idle, Away
  <2> QED
    BY <2>1 DEF Ours, OwnKey, OwnWait, Unentered, Holds, HoldsDated, Doing, At, GrantPcs
<1> QED
  BY <1>1, <1>2, <1>3 DEF LimiterInv

LEMMA NextHolds ==
    ASSUME OneBrowser, OwnManagers, LimiterInv, [LimiterNext]_vars
    PROVE  LimiterInv'
<1>1. LimiterBase'
  BY NextBase DEF LimiterInv
<1>2. ASSUME NEW p \in Requests, LimiterStep(p) PROVE LimiterInv'
  BY <1>1, <1>2, LimiterStepHolds, OthersHold
<1>3. CASE UNCHANGED vars
  <2>1. UNCHANGED <<now, active, entry, cache_key, initial_ttl, request, use_cache, attempts, cached, login,
                    guesses, counted>>
    BY <1>3 DEF vars, guardVars, limiterVars
  <2>2. ASSUME NEW s \in Subjects PROVE Entered(s)' /\ Counts(s)' /\ Dated(s)'
    BY <2>1 DEF LimiterInv, Entered, Counts, Dated, RowsAfter
  <2>3. ASSUME NEW p \in Requests
        PROVE  Ours(p)' /\ OwnKey(p)' /\ OwnWait(p)' /\ Unentered(p)' /\ Holds(p)' /\ HoldsDated(p)'
    BY <2>1 DEF LimiterInv, Ours, OwnKey, OwnWait, Unentered, Holds, HoldsDated, RowsAfter,
       Doing, At
  <2> QED
    BY <1>1, <2>2, <2>3 DEF LimiterInv
<1> QED
  BY <1>2, <1>3, EvictHolds, TickHolds DEF LimiterNext

\* Where each user has one browser, it gets MaxAttempts guesses and the one that follows
\* the unlocking, whatever the limiter's row, its cached copy and the copy in the request
\* have come to, and whichever of them is lost.
THEOREM GuessesAreBounded == OneBrowser /\ OwnManagers => (LimiterSpec => []GuessesBounded)
<1> SUFFICES ASSUME OneBrowser, OwnManagers PROVE LimiterSpec => []GuessesBounded
  OBVIOUS
<1>1. LimiterInv /\ [LimiterNext]_vars => LimiterInv'
  BY NextHolds
<1>2. LimiterInv => GuessesBounded
  BY DEF LimiterInv, Counts, GuessesBounded
<1> QED
  BY <1>1, <1>2, InitHolds, PTL DEF LimiterSpec

\* Where each user has one browser, its attempts are not wiped before a cooldown has
\* passed since the last one was counted.
THEOREM WipesAreSpaced == OneBrowser /\ OwnManagers => (LimiterSpec => WipesSpaced)
<1> SUFFICES ASSUME OneBrowser, OwnManagers PROVE LimiterSpec => WipesSpaced
  OBVIOUS
<1> DEFINE Wiped == \A p \in Requests :
        login[p].pc # "forget" /\ login'[p].pc = "forget" => now >= counted[UserOf[p]] + Cooldown
<1>1. LimiterInv /\ [LimiterNext]_vars => LimiterInv'
  BY NextHolds
<1>2. LimiterInv /\ AuditInv /\ [LimiterNext]_vars => [Wiped]_vars
  <2> SUFFICES ASSUME LimiterInv, AuditInv, LimiterNext,
                      NEW p \in Requests, login[p].pc # "forget", login'[p].pc = "forget"
               PROVE  now >= counted[UserOf[p]] + Cooldown
    OBVIOUS
  <2>1. At(p, "granted")
    BY WipeIsReset DEF ResetAttempts, Granted
  <2> QED
    BY <2>1 DEF LimiterInv, HoldsDated, At, GrantPcs
<1> QED
  BY <1>1, <1>2, InitHolds, InitAudit, NextAudit, PTL DEF LimiterSpec, WipesSpaced

\* Where each user has one browser, the count that is saved in the row only falls when
\* the attempts are wiped, although what is saved is counted in a copy.
THEOREM CountsNeverFall == OneBrowser /\ OwnManagers => (LimiterSpec => CountNeverFalls)
<1> SUFFICES ASSUME OneBrowser, OwnManagers PROVE LimiterSpec => CountNeverFalls
  OBVIOUS
<1> DEFINE Kept == \A s \in Subjects :
        attempts'[s] < attempts[s] => attempts'[s] = 0 /\ guesses'[s] = 0
<1>1. LimiterInv /\ [LimiterNext]_vars => LimiterInv'
  BY NextHolds
<1>2. LimiterInv /\ [LimiterNext]_vars => [Kept]_vars
  <2> SUFFICES ASSUME LimiterInv, LimiterNext,
                      NEW s \in Subjects, attempts'[s] < attempts[s]
               PROVE  attempts'[s] = 0 /\ guesses'[s] = 0
    OBVIOUS
  <2>1. attempts[s] \in Nat
    BY BaseParts DEF LimiterInv, CountsTyped
  <2>2. ~(UNCHANGED attempts)
    BY <2>1
  <2>3. PICK p \in Requests : RecordAttempt(p) \/ GuardedStep(p) \/ ResetAttempts(p)
    BY <2>2 DEF LimiterNext, LimiterStep, Submit, GetLimiter, FetchLimiter, CacheLimiter,
       StoreCopy, CheckLockout, AuditLookup, AuditCreate, ForgetCopy, Guess, Visit, VisitFetch,
       VisitCache, LimiterCrash, Evict, limiterVars
  <2>4. s = UserOf[p]
    <3>1. OwnStep(p)
      BY <2>3, RecordAttemptHolds, GuardedStepHolds, ResetAttemptsHolds
    <3> QED
      BY <2>1, <3>1 DEF OwnStep
  <2>5. ASSUME RecordAttempt(p) PROVE FALSE
    <3>1. attempts[s] <= login[p].copy + 1 /\ login[p].copy \in Nat
      BY <2>4, <2>5, HolderFacts DEF RecordAttempt, Own, Holds, Doing
    <3>2. attempts'[s] = login[p].copy + 1
      BY <2>1, <2>2, <2>4, <2>5, HolderFacts DEF RecordAttempt
    <3> QED
      BY <2>1, <3>1, <3>2
  <2>6. ASSUME GuardedStep(p) PROVE FALSE
    BY <2>1, <2>4, <2>6, GuardKeepsCount, HolderFacts
  <2> QED
    BY <2>3, <2>4, <2>5, <2>6, HolderFacts DEF ResetAttempts
<1> QED
  BY <1>1, <1>2, InitHolds, PTL DEF LimiterSpec, CountNeverFalls
=============================================================================
