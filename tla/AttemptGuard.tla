---------------------------- MODULE AttemptGuard ----------------------------
(***************************************************************************)
(* AttemptGuard.can_proceed: may a subject (a user and an action) proceed,  *)
(* or does it have to wait?  The answer is taken from a cache entry with a  *)
(* time to live, or else from last_attempt of the subject's row, and every  *)
(* refusal moves one of the two.  All requests of a worker process go       *)
(* through one RecoveryCooldownManager, a module global.                    *)
(*                                                                         *)
(* A step is one access to the cache, the database or the log.  What a      *)
(* subject that may proceed does here is have its codes regenerated.  The   *)
(* attempts that rows and entries count are left out: nobody reads them but *)
(* to see whether there is an entry (start stores 1, update more).          *)
(***************************************************************************)
EXTENDS Integers, FiniteSets

CONSTANTS Requests,
          Subjects,    \* keys "attempts:<action>:<user>"
          Workers,     \* processes, each with a cooldown_manager of its own
          WorkerOf,    \* the process that runs a request
          Cooldown,    \* cooldown_seconds of a row
          Multiplier, Cutoff,
          MaxTime,     \* bound: the clock stops here
          MaxBatches,  \* bound: rows a subject ever has
          NoSubject

ASSUME GuardAssumption ==
    /\ Cooldown \in Nat \ {0}
    /\ Multiplier \in Nat \ {0}
    /\ Cutoff \in Nat \ {0}
    /\ MaxTime \in Nat
    /\ MaxBatches \in Nat
    /\ WorkerOf \in [Requests -> Workers]
    /\ NoSubject \notin Subjects

VARIABLES now,        \* the clock
          active,     \* what get_by_user matches: ACTIVE batches, or the limiter
          entry,      \* cached cooldown of each subject
          cache_key,  \* cooldown_manager.cache_key of each process
          initial_ttl,\* cooldown_manager.initial_ttl of each process
          request,
          issued,     \* rows created so far
          told,       \* history variable: end of the wait last announced, or 0
          next,       \* history variable: a cooldown after the last regeneration, or 0
          touched     \* history variable: when a request of the subject last ran

guardVars == <<now, active, entry, cache_key, initial_ttl, request, issued,
               told, next, touched>>

Longest == IF Cooldown > Cutoff THEN Cooldown ELSE Cutoff

Row   == [id: Nat, last: Nat]
Entry == [remaining: Nat, expires: Nat]

NoRow   == [id |-> 0, last |-> 0]
\* What an absent, expired or deleted entry reads as: data.get(..., 0).
NoEntry == [remaining |-> 0, expires |-> 0]

\* Mutant: bulk inserts leave auto_now fields alone.
NewRowUndated(s) == [id |-> issued[s] + 1, last |-> 0]

\* A batch is inserted with last_attempt = now.
NewRow(s) == [id |-> issued[s] + 1, last |-> now]

RefusalPcs == {"update_read", "update_write", "increment", "start", "store", "announce"}
GrantPcs   == {"flush_read", "flush_write", "flush_delete", "granted"}
GuardPcs   == {"check", "read_row"} \cup RefusalPcs \cup GrantPcs

Asking == [pc: GuardPcs \cup {"idle"},
           subject: Subjects \cup {NoSubject},
           row: Row,           \* user_instance
           data: Entry,        \* the entry as it was read
           wait: Nat,          \* remaining_seconds
           patient: BOOLEAN,   \* history: nobody had asked for Longest seconds
           obeyed: BOOLEAN]    \* history: the announced wait was over

Idle == [pc |-> "idle", subject |-> NoSubject, row |-> NoRow, data |-> NoEntry,
         wait |-> 0, patient |-> FALSE, obeyed |-> FALSE]

At(p, pc) == request[p].pc = pc
Goto(p, pc) == request' = [request EXCEPT ![p].pc = pc]
End(p) == request' = [request EXCEPT ![p] = Idle]

\* Every step of a request of s, and nothing else, touches s.
Touch(s) == touched' = [touched EXCEPT ![s] = now]

Refuse(p, wait) ==
    /\ End(p)
    /\ told' = [told EXCEPT ![request[p].subject] = now + wait]

Grant(p) ==
    /\ Goto(p, "granted")
    /\ told' = [told EXCEPT ![request[p].subject] = 0]

GuardInit ==
    /\ now = 0
    /\ active = [s \in Subjects |-> {}]
    /\ entry = [s \in Subjects |-> NoEntry]
    /\ cache_key = [w \in Workers |-> NoSubject]
    /\ initial_ttl = [w \in Workers |-> 0]   \* it is set before it is first read
    /\ request = [p \in Requests |-> Idle]
    /\ issued = [s \in Subjects |-> 0]
    /\ told = [s \in Subjects |-> 0]
    /\ next = [s \in Subjects |-> 0]
    /\ touched = [s \in Subjects |-> 0]

-----------------------------------------------------------------------------
(* can_proceed: the cache first. *)

\* A request that another one of its subject joins is neither patient nor obedient.
Joined(s) == [q \in Requests |->
    IF request[q].subject = s
    THEN [request[q] EXCEPT !.patient = FALSE, !.obeyed = FALSE]
    ELSE request[q]]

Starting(s, patient, obeyed) ==
    [Idle EXCEPT !.pc = "check", !.subject = s, !.patient = patient, !.obeyed = obeyed]

Ask(p, s) ==
    LET alone == \A q \in Requests : request[q].subject # s IN
    /\ At(p, "idle")
    /\ request' = [Joined(s) EXCEPT ![p] =
           Starting(s, alone /\ now >= touched[s] + Longest,
                       alone /\ told[s] > 0 /\ now >= told[s])]
    /\ Touch(s)
    /\ UNCHANGED <<now, active, entry, cache_key, initial_ttl, issued, told, next>>

\* The manager is given the subject's key, and the entry is read.
CheckCooldown(p) ==
    LET s == request[p].subject IN
    /\ At(p, "check")
    /\ cache_key' = [cache_key EXCEPT ![WorkerOf[p]] = s]
    /\ Goto(p, IF entry[s].remaining > 0
               THEN "update_read" ELSE "read_row")
    /\ Touch(s)
    /\ UNCHANGED <<now, active, entry, initial_ttl, issued, told, next>>

\* RecoveryCooldownManager.update reads the entry again, under whatever key the
\* process-wide manager has by now.
UpdateRead(p) ==
    /\ At(p, "update_read")
    /\ request' = [request EXCEPT ![p].pc = "update_write",
                                  ![p].data = entry[cache_key[WorkerOf[p]]]]
    /\ Touch(request[p].subject)
    /\ UNCHANGED <<now, active, entry, cache_key, initial_ttl, issued, told, next>>

\* Mutants: no cutoff; beyond the cutoff it starts again.
CooldownUncapped(ttl) == IF ttl * Multiplier = 0 THEN 1 ELSE ttl * Multiplier
CooldownRestarted(ttl) ==
    IF ttl * Multiplier \in 1 .. Cutoff THEN ttl * Multiplier ELSE 1

\* min(int(initial_ttl * multiplier) or 1, cutoff)
next_cooldown(ttl) ==
    LET raised == IF ttl * Multiplier = 0 THEN 1 ELSE ttl * Multiplier
    IN  IF raised > Cutoff THEN Cutoff ELSE raised

\* set_cache_with_retry of an entry.  A time to live of zero stores nothing.
Stored(wait, ttl) ==
    IF ttl = 0 THEN NoEntry ELSE [remaining |-> wait, expires |-> now + ttl]

\* The raised wait is stored, under the manager's key, for as long as the wait
\* before it was.
UpdateWrite(p) ==
    LET ttl == request[p].data.remaining IN
    /\ At(p, "update_write")
    /\ initial_ttl' = [initial_ttl EXCEPT ![WorkerOf[p]] = ttl]
    /\ entry' = [entry EXCEPT ![cache_key[WorkerOf[p]]] = Stored(next_cooldown(ttl), ttl)]
    /\ Refuse(p, next_cooldown(ttl))
    /\ Touch(request[p].subject)
    /\ UNCHANGED <<now, active, cache_key, issued, next>>

-----------------------------------------------------------------------------
(* can_proceed: the database. *)

\* Mutants: max(..., 0) is dropped; the multiplier of the row is applied.
RemainingSigned(row) == row.last + Cooldown - now
RemainingMultiplied(row) ==
    IF row.last + Cooldown * Multiplier > now
    THEN row.last + Cooldown * Multiplier - now ELSE 0

\* get_remaining_time_till_next_attempt, on a clock of whole seconds.
Remaining(row) == IF row.last + Cooldown > now THEN row.last + Cooldown - now ELSE 0

\* user_instance and what is left of its cooldown.
Fetched(r, row) ==
    [r EXCEPT !.row = row, !.wait = Remaining(row),
              !.pc = IF Remaining(row) > 0 THEN "increment" ELSE "flush_read"]

\* get_by_user.  No row raises ValueError, upon which _can_codes_be_generated_yet
\* lets the user proceed; several rows raise MultipleObjectsReturned.
ReadRow(p) ==
    LET s == request[p].subject IN
    /\ At(p, "read_row")
    /\ \/ active[s] = {} /\ Grant(p)
       \/ /\ Cardinality(active[s]) > 1
          /\ End(p)
          /\ UNCHANGED told
       \/ \E row \in active[s] :
          /\ active[s] = {row}
          /\ request' = [request EXCEPT ![p] = Fetched(@, row)]
          /\ UNCHANGED told
    /\ Touch(s)
    /\ UNCHANGED <<now, active, entry, cache_key, initial_ttl, issued, next>>

\* _increment_attempts saves the whole row: last_attempt is auto_now, and a row
\* that was retired meanwhile is ACTIVE again.
IncrementAttempts(p) ==
    LET s == request[p].subject
        row == request[p].row IN
    /\ At(p, "increment")
    /\ active' = [active EXCEPT ![s] =
           {r \in @ : r.id # row.id} \cup {[row EXCEPT !.last = now]}]
    /\ Goto(p, "start")
    /\ Touch(s)
    /\ UNCHANGED <<now, entry, cache_key, initial_ttl, issued, told, next>>

\* The manager gets the key back, and is told what was remaining; then start() logs.
StartCooldown(p) ==
    LET s == request[p].subject
        w == WorkerOf[p] IN
    /\ At(p, "start")
    /\ cache_key' = [cache_key EXCEPT ![w] = s]
    /\ initial_ttl' = [initial_ttl EXCEPT ![w] = request[p].wait]
    /\ Goto(p, "store")
    /\ Touch(s)
    /\ UNCHANGED <<now, active, entry, issued, told, next>>

\* The cooldown is stored under the key, and for the time, that the manager has by
\* now, which may be those of another request of the process ...
StoreCooldown(p) ==
    LET w == WorkerOf[p] IN
    /\ At(p, "store")
    /\ entry' = [entry EXCEPT ![cache_key[w]] = Stored(request[p].wait, initial_ttl[w])]
    /\ Goto(p, "announce")
    /\ Touch(request[p].subject)
    /\ UNCHANGED <<now, active, cache_key, initial_ttl, issued, told, next>>

\* ... and what it has when the store returns is announced.
AnnounceCooldown(p) ==
    /\ At(p, "announce")
    /\ Refuse(p, initial_ttl[WorkerOf[p]])
    /\ Touch(request[p].subject)
    /\ UNCHANGED <<now, active, entry, cache_key, initial_ttl, issued, next>>

-----------------------------------------------------------------------------
(* The cooldown is over: flush_cache_and_write_attempts_to_db. *)

FlushRead(p) ==
    LET s == request[p].subject IN
    /\ At(p, "flush_read")
    /\ request' = [request EXCEPT ![p].pc = "flush_write", ![p].data = entry[s]]
    /\ Touch(s)
    /\ UNCHANGED <<now, active, entry, cache_key, initial_ttl, issued, told, next>>

\* save(update_fields=[...]) of the row that was read, which may have been retired
\* since: the attempts of an entry that has come up, or else last_attempt (auto_now).
Flushed(row) == [row EXCEPT !.last = now]

FlushWrite(p) ==
    LET s == request[p].subject IN
    /\ At(p, "flush_write")
    /\ \/ /\ request[p].data # NoEntry
          /\ Grant(p)
          /\ UNCHANGED active
       \/ /\ request[p].data = NoEntry
          /\ active' = [active EXCEPT ![s] =
                 {IF r.id = request[p].row.id THEN Flushed(r) ELSE r : r \in @}]
          /\ Goto(p, "flush_delete")
          /\ UNCHANGED told
    /\ Touch(s)
    /\ UNCHANGED <<now, entry, cache_key, initial_ttl, issued, next>>

FlushDelete(p) ==
    LET s == request[p].subject IN
    /\ At(p, "flush_delete")
    /\ entry' = [entry EXCEPT ![s] = NoEntry]
    /\ Grant(p)
    /\ Touch(s)
    /\ UNCHANGED <<now, active, cache_key, initial_ttl, issued, next>>

-----------------------------------------------------------------------------
(* What is guarded, and what goes on around it. *)

\* create_recovery_batch: the new batch is the only ACTIVE one.
Regenerate(p) ==
    LET s == request[p].subject IN
    /\ At(p, "granted")
    /\ issued[s] < MaxBatches
    /\ active' = [active EXCEPT ![s] = {NewRow(s)}]
    /\ issued' = [issued EXCEPT ![s] = @ + 1]
    /\ next' = [next EXCEPT ![s] = now + Cooldown]
    /\ End(p)
    /\ Touch(s)
    /\ UNCHANGED <<now, entry, cache_key, initial_ttl, told>>

\* Generating for the first time, which a user may do any time, is not guarded.
Generate(p, s) ==
    /\ At(p, "idle")
    /\ issued[s] < MaxBatches
    /\ active' = [active EXCEPT ![s] = {NewRow(s)}]
    /\ issued' = [issued EXCEPT ![s] = @ + 1]
    /\ told' = [told EXCEPT ![s] = 0]
    /\ request' = Joined(s)
    /\ Touch(s)
    /\ UNCHANGED <<now, entry, cache_key, initial_ttl, next>>

\* The user discards the batch, which also lifts the cooldown of the row.
Discard(p, s) ==
    /\ At(p, "idle")
    /\ Cardinality(active[s]) = 1
    /\ active' = [active EXCEPT ![s] = {}]
    /\ told' = [told EXCEPT ![s] = 0]
    /\ next' = [next EXCEPT ![s] = 0]
    /\ UNCHANGED <<now, entry, cache_key, initial_ttl, request, issued, touched>>

\* A worker dies, and with it its request.
Crash(p) ==
    /\ ~At(p, "idle")
    /\ End(p)
    /\ UNCHANGED <<now, active, entry, cache_key, initial_ttl, issued, told, next, touched>>

\* Time passes, also in the middle of requests; entries expire.
Tick ==
    /\ now < MaxTime
    /\ now' = now + 1
    /\ entry' = [s \in Subjects |-> IF entry[s].expires <= now + 1
                                    THEN NoEntry ELSE entry[s]]
    /\ UNCHANGED <<active, cache_key, initial_ttl, request, issued, told, next, touched>>

GuardStep(p) ==
    \/ CheckCooldown(p) \/ UpdateRead(p) \/ UpdateWrite(p)
    \/ ReadRow(p) \/ IncrementAttempts(p) \/ StartCooldown(p) \/ StoreCooldown(p)
    \/ AnnounceCooldown(p)
    \/ FlushRead(p) \/ FlushWrite(p) \/ FlushDelete(p)

Next ==
    \/ \E p \in Requests : \/ \E s \in Subjects : Ask(p, s) \/ Generate(p, s) \/ Discard(p, s)
                           \/ GuardStep(p) \/ Regenerate(p) \/ Crash(p)
    \/ Tick

Spec == GuardInit /\ [][Next]_guardVars
-----------------------------------------------------------------------------
(* Properties. *)

TypeOK ==
    /\ now \in 0 .. MaxTime
    /\ active \in [Subjects -> SUBSET Row]
    /\ entry \in [Subjects -> Entry]
    /\ cache_key \in [Workers -> Subjects \cup {NoSubject}]
    /\ initial_ttl \in [Workers -> Nat]
    /\ request \in [Requests -> Asking]
    /\ issued \in [Subjects -> Nat]
    /\ told \in [Subjects -> Nat]
    /\ next \in [Subjects -> Nat]
    /\ touched \in [Subjects -> Nat]

\* Whatever chain of refusals, however they interleave and whosever key the
\* manager holds: no cached cooldown, no row and no announced wait reaches more
\* than Longest seconds into the future.
LockoutBounded == \A s \in Subjects :
    /\ entry[s].remaining <= Longest
    /\ entry[s].expires <= now + Longest
    /\ told[s] <= now + Longest
    /\ \A row \in active[s] : row.last <= now

\* What makes LockoutBounded inductive: nothing a request has read so far reaches
\* further, nor does the time its manager was told, and the manager it goes through
\* holds the key of some subject.
MemoryBounded == \A p \in Requests :
    /\ request[p].data.remaining <= Longest
    /\ request[p].wait <= Longest
    /\ request[p].row.last <= now
    /\ initial_ttl[WorkerOf[p]] <= Longest
    /\ ~At(p, "idle") => request[p].subject \in Subjects
    /\ request[p].pc \notin {"idle", "check"} => cache_key[WorkerOf[p]] \in Subjects

\* The inductive invariant of AttemptGuardProofs.
GuardInv == TypeOK /\ LockoutBounded /\ MemoryBounded

\* A user who stays away for Longest seconds and then asks alone is not refused,
\* although each refusal before extended the cached or the stored cooldown.
PatienceServed == \A p \in Requests :
    request[p].patient => request[p].pc \notin RefusalPcs

\* A cached cooldown changes only through a request of its own subject.
KeepsToItsSubject == [][\A s \in Subjects :
    entry'[s] # entry[s] =>
        \/ now' # now
        \/ \E p \in Requests : request[p].subject = s /\ request'[p] # request[p]]_guardVars

\* The guard lets nobody regenerate codes before their cooldown is over, unless
\* they have discarded them, in spite of workers that die between any two steps.
RegenerationsSpaced == [][\A p \in Requests :
    At(p, "granted") /\ request'[p] # request[p] /\ issued' # issued
        => now >= next[request[p].subject]]_guardVars

\* Asking again while a cooldown is cached never makes it shorter, as long as rows
\* have no cooldown beyond the cutoff, which would then cut it down.
PenaltyGrows == [][\A s \in Subjects :
    entry[s] # NoEntry /\ entry'[s] # NoEntry
        => entry'[s].remaining >= entry[s].remaining]_guardVars

-----------------------------------------------------------------------------
(* What RegenerationsSpaced and PenaltyGrows rest on: requests one at a time. *)

\* A cached cooldown is one, and a row is as young as the last regeneration.
Standing(s) ==
    /\ entry[s] # NoEntry => entry[s].remaining > 0
    /\ next[s] <= now + Cooldown
    /\ next[s] > 0 => /\ active[s] # {}
                      /\ \A row \in active[s] : next[s] <= row.last + Cooldown

\* Who is let in has waited, from wherever in the flush its worker dies.
Earned(p) == request[p].pc \in GrantPcs => next[request[p].subject] <= now

\* What was read of the cache is still there or has expired, and does not come up anew.
Fresh(p) ==
    /\ request[p].pc = "update_write" =>
         entry[request[p].subject] \in {NoEntry, request[p].data}
    /\ request[p].pc \in {"read_row", "increment", "start", "store"} =>
         entry[request[p].subject] = NoEntry

\* Rows, cached cooldowns and what the one request has seen of them agree.
AloneInv ==
    /\ \A s \in Subjects : Standing(s)
    /\ \A p \in Requests : Earned(p) /\ Fresh(p)

-----------------------------------------------------------------------------
(* What the documentation says and the code does not do. *)

\* can_proceed returns "(allowed, remaining cooldown seconds)": who asks again
\* when the announced wait is over is not refused.
WaitIsEnough == \A p \in Requests :
    request[p].obeyed => request[p].pc \notin RefusalPcs

\* The cooldown "increases with each subsequent failed attempt": who was told to
\* wait is not let in before that wait is over.
WaitIsEnforced == [][\A p \in Requests :
    ~At(p, "granted") /\ request'[p].pc = "granted"
        => now >= told[request[p].subject] \/ active[request[p].subject] = {}]_guardVars
=============================================================================
