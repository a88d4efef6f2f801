------------------------- MODULE AttemptGuardProofs -------------------------
(* Proofs about AttemptGuard, for every value of its constants. *)
EXTENDS AttemptGuard, TLAPS

LEMMA LongestNat == Longest \in Nat /\ Cooldown <= Longest /\ Cutoff <= Longest
  BY GuardAssumption DEF Longest

\* The raised wait is a number of seconds, and no more than the cutoff.
LEMMA NextCooldownBounded ==
    ASSUME NEW ttl \in Nat
    PROVE  next_cooldown(ttl) \in Nat /\ next_cooldown(ttl) <= Cutoff
<1> DEFINE raised == IF ttl * Multiplier = 0 THEN 1 ELSE ttl * Multiplier
<1>1. raised \in Nat
  BY GuardAssumption
<1>2. next_cooldown(ttl) = IF raised > Cutoff THEN Cutoff ELSE raised
  BY DEF next_cooldown
<1> HIDE DEF raised
<1> QED
  BY <1>1, <1>2, GuardAssumption

\* A row that was last written in the past asks for no more than its cooldown.
LEMMA RemainingBounded ==
    ASSUME NEW row \in Row, now \in Nat, row.last <= now
    PROVE  Remaining(row) \in Nat /\ Remaining(row) <= Cooldown
  BY GuardAssumption DEF Row, Remaining

LEMMA NullTypes == Idle \in Asking /\ NoEntry \in Entry /\ NoRow \in Row
  BY DEF Idle, Asking, NoEntry, Entry, NoRow, Row, GuardPcs, RefusalPcs, GrantPcs

LEMMA InitGuardInv == GuardInit => GuardInv
<1> SUFFICES ASSUME GuardInit PROVE GuardInv
  OBVIOUS
<1>1. TypeOK
  BY GuardAssumption, NullTypes DEF GuardInit, TypeOK
<1>2. LockoutBounded
  BY LongestNat DEF GuardInit, LockoutBounded, NoEntry
<1>3. MemoryBounded
  BY LongestNat, GuardAssumption DEF GuardInit, MemoryBounded, Idle, NoEntry, NoRow, At
<1> QED
  BY <1>1, <1>2, <1>3 DEF GuardInv

(***************************************************************************)
(* One lemma per action.  MemoryOf(p) is what MemoryBounded says of p, the   *)
(* request that takes the step; the others keep theirs as the clock and the  *)
(* keys held by managers do not go back.                                     *)
(***************************************************************************)

MemoryOf(p) ==
    /\ request[p].data.remaining <= Longest
    /\ request[p].wait <= Longest
    /\ request[p].row.last <= now
    /\ initial_ttl[WorkerOf[p]] <= Longest
    /\ ~At(p, "idle") => request[p].subject \in Subjects
    /\ request[p].pc \notin {"idle", "check"} => cache_key[WorkerOf[p]] \in Subjects

\* A step of p that leaves the clock alone, the key of a subject in its manager, and
\* in it a time of no more than Longest, undoes nothing that other requests rely on.
LEMMA OthersRemember ==
    ASSUME GuardInv, NEW p \in Requests, TypeOK', MemoryOf(p)',
           now' = now,
           \A q \in Requests \ {p} : request'[q] = request[q],
           cache_key' = cache_key \/ \E s \in Subjects :
               cache_key' = [cache_key EXCEPT ![WorkerOf[p]] = s],
           initial_ttl' = initial_ttl \/ \E ttl \in Nat :
               initial_ttl' = [initial_ttl EXCEPT ![WorkerOf[p]] = ttl]
    PROVE  MemoryBounded'
<1> SUFFICES ASSUME NEW q \in Requests PROVE MemoryOf(q)'
  BY DEF MemoryBounded, MemoryOf
<1>1. CASE q = p
  BY <1>1
<1>2. CASE q # p
  <2>1. request'[q] = request[q] /\ MemoryOf(q)
    BY <1>2 DEF GuardInv, MemoryBounded, MemoryOf
  <2>2. WorkerOf[q] \in Workers /\ WorkerOf[p] \in Workers
    BY GuardAssumption
  <2>3. cache_key[WorkerOf[q]] \in Subjects => cache_key'[WorkerOf[q]] \in Subjects
    BY <2>2 DEF GuardInv, TypeOK
  <2>4. initial_ttl'[WorkerOf[q]] <= Longest
    <3>1. initial_ttl'[WorkerOf[p]] <= Longest
      BY DEF MemoryOf
    <3>2. initial_ttl'[WorkerOf[q]] \in {initial_ttl[WorkerOf[q]], initial_ttl'[WorkerOf[p]]}
      BY <2>2 DEF GuardInv, TypeOK
    <3> QED
      BY <2>1, <3>1, <3>2 DEF MemoryOf
  <2> QED
    BY <2>1, <2>3, <2>4 DEF MemoryOf, At
<1> QED
  BY <1>1, <1>2

LEMMA GotoTyped ==
    ASSUME TypeOK, NEW p \in Requests, NEW pc \in GuardPcs, Goto(p, pc)
    PROVE  request' \in [Requests -> Asking]
<1>1. [request[p] EXCEPT !.pc = pc] \in Asking
  BY DEF TypeOK, Asking
<1> QED
  BY <1>1 DEF TypeOK, Goto

\* Everything but the request that takes the step is of the right type.
RestTyped ==
    /\ now \in 0 .. MaxTime
    /\ active \in [Subjects -> SUBSET Row]
    /\ entry \in [Subjects -> Entry]
    /\ cache_key \in [Workers -> Subjects \cup {NoSubject}]
    /\ initial_ttl \in [Workers -> Nat]
    /\ issued \in [Subjects -> Nat]
    /\ told \in [Subjects -> Nat]
    /\ next \in [Subjects -> Nat]
    /\ touched \in [Subjects -> Nat]

LEMMA CheckCooldownSafe == ASSUME GuardInv, NEW p \in Requests, CheckCooldown(p) PROVE GuardInv'
<1> USE NullTypes, LongestNat, GuardAssumption
<1>1. TypeOK'
  <2>1. request' \in [Requests -> Asking]
    <3> DEFINE pc == IF entry[request[p].subject].remaining > 0
                     THEN "update_read" ELSE "read_row"
    <3>1. pc \in GuardPcs /\ Goto(p, pc)
      BY DEF CheckCooldown, GuardPcs, RefusalPcs
    <3> QED
      BY <3>1, GotoTyped DEF GuardInv
  <2>2. RestTyped'
    BY DEF RestTyped, GuardInv, TypeOK, MemoryBounded, CheckCooldown, At, Touch
  <2> QED
    BY <2>1, <2>2 DEF TypeOK, RestTyped
<1>2. LockoutBounded'
  BY DEF GuardInv, TypeOK, LockoutBounded, MemoryBounded, CheckCooldown, At, Touch, Goto, End,
     Refuse, Grant, NoEntry, NoRow, Idle, Asking, Entry, Row
<1>3. MemoryOf(p)'
  BY DEF GuardInv, TypeOK, LockoutBounded, MemoryBounded, MemoryOf, CheckCooldown, At, Touch,
     Goto, End, Refuse, Grant, NoEntry, NoRow, Idle, Asking, Entry, Row, GuardPcs, RefusalPcs,
     GrantPcs
<1>4. MemoryBounded'
  BY <1>1, <1>3, OthersRemember DEF CheckCooldown, GuardInv, TypeOK, MemoryBounded, At, Touch,
     Goto, End, Refuse, Grant
<1> QED
  BY <1>1, <1>2, <1>4 DEF GuardInv

LEMMA UpdateReadSafe == ASSUME GuardInv, NEW p \in Requests, UpdateRead(p) PROVE GuardInv'
<1> USE NullTypes, LongestNat, GuardAssumption
<1>1. TypeOK'
  <2>1. request' \in [Requests -> Asking]
    <3>1. /\ request[p] \in Asking
          /\ entry[cache_key[WorkerOf[p]]] \in Entry
      BY DEF GuardInv, TypeOK, MemoryBounded, UpdateRead, At
    <3>2. [request[p] EXCEPT !.pc = "update_write", !.data = entry[cache_key[WorkerOf[p]]]] \in Asking
      BY <3>1 DEF Asking, Entry, GuardPcs, RefusalPcs, GrantPcs
    <3> QED
      BY <3>2 DEF GuardInv, TypeOK, UpdateRead
  <2>2. RestTyped'
    BY DEF RestTyped, GuardInv, TypeOK, MemoryBounded, UpdateRead, At, Touch, Goto, End, Refuse,
       Grant, Entry, Row
  <2> QED
    BY <2>1, <2>2 DEF TypeOK, RestTyped
<1>2. LockoutBounded'
  BY DEF GuardInv, TypeOK, LockoutBounded, MemoryBounded, UpdateRead, At, Touch, Goto, End,
     Refuse, Grant, NoEntry, NoRow, Idle, Asking, Entry, Row
<1>3. MemoryOf(p)'
  BY DEF GuardInv, TypeOK, LockoutBounded, MemoryBounded, MemoryOf, UpdateRead, At, Touch, Goto,
     End, Refuse, Grant, NoEntry, NoRow, Idle, Asking, Entry, Row, GuardPcs, RefusalPcs, GrantPcs
<1>4. MemoryBounded'
  BY <1>1, <1>3, OthersRemember DEF UpdateRead, GuardInv, TypeOK, MemoryBounded, At, Touch, Goto,
     End, Refuse, Grant
<1> QED
  BY <1>1, <1>2, <1>4 DEF GuardInv

\* What is stored for a bounded time reaches no further than that.
LEMMA StoredBounded ==
    ASSUME NEW wait \in Nat, NEW ttl \in Nat, now \in Nat, wait <= Longest, ttl <= Longest
    PROVE  /\ Stored(wait, ttl) \in Entry
           /\ Stored(wait, ttl).remaining <= Longest
           /\ Stored(wait, ttl).expires <= now + Longest
  BY LongestNat DEF Stored, Entry, NoEntry

LEMMA UpdateWriteSafe == ASSUME GuardInv, NEW p \in Requests, UpdateWrite(p) PROVE GuardInv'
<1> USE NullTypes, LongestNat, GuardAssumption
<1> DEFINE ttl  == request[p].data.remaining
           wait == next_cooldown(ttl)
           key  == cache_key[WorkerOf[p]]
           s    == request[p].subject
<1>1. /\ ttl \in Nat /\ ttl <= Longest /\ now \in Nat
      /\ key \in Subjects /\ s \in Subjects /\ WorkerOf[p] \in Workers
  BY DEF GuardInv, TypeOK, MemoryBounded, UpdateWrite, At, Asking, Entry
<1>2. wait \in Nat /\ wait <= Longest
  BY <1>1, NextCooldownBounded
<1>3. /\ now' = now /\ active' = active /\ cache_key' = cache_key /\ Touch(s)
      /\ UNCHANGED <<issued, next>> /\ request' = [request EXCEPT ![p] = Idle]
      /\ initial_ttl' = [initial_ttl EXCEPT ![WorkerOf[p]] = ttl]
      /\ entry' = [entry EXCEPT ![key] = Stored(wait, ttl)]
      /\ told' = [told EXCEPT ![s] = now + wait]
  BY DEF UpdateWrite, Refuse, End
<1> HIDE DEF ttl, wait, key, s
<1>4. /\ Stored(wait, ttl) \in Entry /\ Stored(wait, ttl).remaining <= Longest
      /\ Stored(wait, ttl).expires <= now + Longest
  BY <1>1, <1>2, StoredBounded
<1>5. TypeOK'
  BY <1>1, <1>2, <1>3, <1>4 DEF GuardInv, TypeOK, Touch
<1>6. LockoutBounded'
  BY <1>1, <1>2, <1>3, <1>4 DEF GuardInv, TypeOK, LockoutBounded
<1>7. MemoryOf(p)' /\ \A q \in Requests \ {p} : request'[q] = request[q]
  BY <1>1, <1>3 DEF GuardInv, TypeOK, MemoryOf, At, Idle, NoEntry, NoRow
<1>8. MemoryBounded'
  BY <1>1, <1>3, <1>5, <1>7, OthersRemember
<1> QED
  BY <1>5, <1>6, <1>8 DEF GuardInv

\* The three outcomes of ReadRow: no row, several rows, one row with or without
\* a cooldown left.
LEMMA ReadRowSafe == ASSUME GuardInv, NEW p \in Requests, ReadRow(p) PROVE GuardInv'
<1> DEFINE s == request[p].subject
           AfterRead(row) == Fetched(request[p], row)
<1> USE NullTypes, LongestNat, GuardAssumption
<1>1. request[p] \in Asking /\ s \in Subjects /\ now \in Nat
  BY DEF GuardInv, TypeOK, MemoryBounded, ReadRow, At
<1>2. cache_key[WorkerOf[p]] \in Subjects
  BY DEF GuardInv, MemoryBounded, ReadRow, At
<1>3. RestTyped'
  <2>1. told' = told \/ told' = [told EXCEPT ![s] = 0]
    BY DEF ReadRow, Grant
  <2>2. told' \in [Subjects -> Nat]
    BY <2>1 DEF GuardInv, TypeOK
  <2> QED
    BY <1>1, <2>2 DEF RestTyped, GuardInv, TypeOK, ReadRow, Touch
<1>4. LockoutBounded'
  BY DEF LockoutBounded, GuardInv, TypeOK, ReadRow, Grant
<1>5. /\ request' \in [Requests -> Asking]
      /\ \A q \in Requests \ {p} : request'[q] = request[q]
      /\ MemoryOf(p)'
  <2>1. CASE active[s] = {} /\ Grant(p)
    <3>1. request' \in [Requests -> Asking]
      BY <2>1, GotoTyped DEF GuardInv, Grant, GuardPcs, RefusalPcs, GrantPcs
    <3> QED
      BY <1>1, <1>2, <2>1, <3>1
      DEF MemoryOf, GuardInv, TypeOK, MemoryBounded, Grant, Goto, At, ReadRow
  <2>2. CASE End(p)
    BY <1>2, <2>2
    DEF MemoryOf, GuardInv, TypeOK, MemoryBounded, End, At, Idle, NoRow, NoEntry, ReadRow
  <2>3. ASSUME NEW row \in active[s], request' = [request EXCEPT ![p] = AfterRead(row)]
        PROVE  /\ request' \in [Requests -> Asking]
               /\ \A q \in Requests \ {p} : request'[q] = request[q]
               /\ MemoryOf(p)'
    <3>1. row \in Row /\ row.last <= now
      BY <1>1 DEF GuardInv, TypeOK, LockoutBounded
    <3>2. Remaining(row) \in Nat /\ Remaining(row) <= Longest
      BY <1>1, <3>1, RemainingBounded
    <3>3. /\ AfterRead(row) \in Asking
          /\ AfterRead(row).row = row
          /\ AfterRead(row).wait = Remaining(row)
          /\ AfterRead(row).data = request[p].data
          /\ AfterRead(row).subject = s
          /\ AfterRead(row).pc \in {"increment", "flush_read"}
      BY <1>1, <3>1, <3>2 DEF Fetched, Asking, GuardPcs, RefusalPcs, GrantPcs
    <3> HIDE DEF AfterRead
    <3> QED
      BY <1>1, <1>2, <2>3, <3>1, <3>2, <3>3
      DEF MemoryOf, GuardInv, TypeOK, MemoryBounded, At, ReadRow
  <2>4. \/ active[s] = {} /\ Grant(p)
        \/ End(p)
        \/ \E row \in active[s] : request' = [request EXCEPT ![p] = AfterRead(row)]
    BY DEF ReadRow
  <2> QED
    BY <2>1, <2>2, <2>3, <2>4
<1>6. TypeOK'
  BY <1>3, <1>5 DEF TypeOK, RestTyped
<1>7. MemoryBounded'
  BY <1>5, <1>6, OthersRemember DEF ReadRow
<1> QED
  BY <1>4, <1>6, <1>7 DEF GuardInv

LEMMA IncrementAttemptsSafe == ASSUME GuardInv, NEW p \in Requests, IncrementAttempts(p) PROVE GuardInv'
<1> USE NullTypes, LongestNat, GuardAssumption
<1>1. TypeOK'
  <2>1. request' \in [Requests -> Asking]
    BY GotoTyped DEF GuardInv, IncrementAttempts, GuardPcs, RefusalPcs, GrantPcs
  <2>2. [request[p].row EXCEPT !.last = now] \in Row
    <3>1. request[p].row \in Row /\ now \in Nat
      BY DEF GuardInv, TypeOK, Asking
    <3> QED
      BY <3>1 DEF Row
  <2>3. active' \in [Subjects -> SUBSET Row]
    BY <2>2 DEF GuardInv, TypeOK, IncrementAttempts
  <2>4. RestTyped'
    BY <2>3 DEF RestTyped, GuardInv, TypeOK, IncrementAttempts, Touch
  <2> QED
    BY <2>1, <2>4 DEF TypeOK, RestTyped
<1>2. LockoutBounded'
  BY DEF GuardInv, TypeOK, LockoutBounded, MemoryBounded, IncrementAttempts, At, Touch, Goto,
     End, Refuse, Grant, NoEntry, NoRow, Idle, Asking, Entry, Row
<1>3. MemoryOf(p)'
  BY DEF GuardInv, TypeOK, LockoutBounded, MemoryBounded, MemoryOf, IncrementAttempts, At, Touch,
     Goto, End, Refuse, Grant, NoEntry, NoRow, Idle, Asking, Entry, Row, GuardPcs, RefusalPcs,
     GrantPcs
<1>4. MemoryBounded'
  BY <1>1, <1>3, OthersRemember DEF IncrementAttempts, GuardInv, TypeOK, MemoryBounded, At,
     Touch, Goto, End, Refuse, Grant
<1> QED
  BY <1>1, <1>2, <1>4 DEF GuardInv

LEMMA StartCooldownSafe == ASSUME GuardInv, NEW p \in Requests, StartCooldown(p) PROVE GuardInv'
<1> USE NullTypes, LongestNat, GuardAssumption
<1>1. /\ request[p] \in Asking /\ request[p].wait \in Nat /\ request[p].wait <= Longest
      /\ request[p].subject \in Subjects /\ WorkerOf[p] \in Workers
  BY DEF GuardInv, TypeOK, MemoryBounded, StartCooldown, At, Asking
<1>2. TypeOK'
  <2>1. request' \in [Requests -> Asking]
    BY GotoTyped DEF GuardInv, StartCooldown, GuardPcs, RefusalPcs
  <2>2. RestTyped'
    BY <1>1 DEF RestTyped, GuardInv, TypeOK, StartCooldown, Touch
  <2> QED
    BY <2>1, <2>2 DEF TypeOK, RestTyped
<1>3. LockoutBounded'
  BY DEF GuardInv, LockoutBounded, StartCooldown
<1>4. MemoryOf(p)' /\ \A q \in Requests \ {p} : request'[q] = request[q]
  BY <1>1 DEF GuardInv, TypeOK, MemoryBounded, MemoryOf, StartCooldown, Goto, At, Asking
<1>5. MemoryBounded'
  BY <1>1, <1>2, <1>4, OthersRemember DEF StartCooldown
<1> QED
  BY <1>2, <1>3, <1>5 DEF GuardInv

LEMMA StoreCooldownSafe == ASSUME GuardInv, NEW p \in Requests, StoreCooldown(p) PROVE GuardInv'
<1> USE NullTypes, LongestNat, GuardAssumption
<1> DEFINE wait == request[p].wait
           ttl  == initial_ttl[WorkerOf[p]]
           key  == cache_key[WorkerOf[p]]
<1>1. /\ wait \in Nat /\ wait <= Longest /\ ttl \in Nat /\ ttl <= Longest /\ now \in Nat
      /\ key \in Subjects /\ request[p] \in Asking
  BY DEF GuardInv, TypeOK, MemoryBounded, StoreCooldown, At, Asking
<1>2. entry' = [entry EXCEPT ![key] = Stored(wait, ttl)]
  BY DEF StoreCooldown
<1>3. /\ Stored(wait, ttl) \in Entry /\ Stored(wait, ttl).remaining <= Longest
      /\ Stored(wait, ttl).expires <= now + Longest
  BY <1>1, StoredBounded
<1> HIDE DEF wait, ttl, key
<1>4. TypeOK'
  <2>1. request' \in [Requests -> Asking]
    BY GotoTyped DEF GuardInv, StoreCooldown, GuardPcs, RefusalPcs
  <2>2. RestTyped'
    <3>1. entry' \in [Subjects -> Entry]
      BY <1>2, <1>3 DEF GuardInv, TypeOK
    <3> QED
      BY <1>1, <3>1 DEF RestTyped, GuardInv, TypeOK, StoreCooldown, Touch
  <2> QED
    BY <2>1, <2>2 DEF TypeOK, RestTyped
<1>5. LockoutBounded'
  BY <1>1, <1>2, <1>3 DEF GuardInv, TypeOK, LockoutBounded, StoreCooldown
<1>6. MemoryOf(p)' /\ \A q \in Requests \ {p} : request'[q] = request[q]
  BY <1>1 DEF GuardInv, TypeOK, MemoryBounded, MemoryOf, StoreCooldown, Goto, At, Asking
<1>7. MemoryBounded'
  BY <1>4, <1>6, OthersRemember DEF StoreCooldown
<1> QED
  BY <1>4, <1>5, <1>7 DEF GuardInv

LEMMA AnnounceCooldownSafe ==
    ASSUME GuardInv, NEW p \in Requests, AnnounceCooldown(p)
    PROVE  GuardInv'
<1> USE NullTypes, LongestNat, GuardAssumption
<1> DEFINE ttl == initial_ttl[WorkerOf[p]]
           s   == request[p].subject
<1>1. ttl \in Nat /\ ttl <= Longest /\ now \in Nat /\ s \in Subjects
  BY DEF GuardInv, TypeOK, MemoryBounded, AnnounceCooldown, At
<1>2. told' = [told EXCEPT ![s] = now + ttl] /\ request' = [request EXCEPT ![p] = Idle]
  BY DEF AnnounceCooldown, Refuse, End
<1> HIDE DEF ttl, s
<1>3. TypeOK'
  <2>1. request' \in [Requests -> Asking]
    BY <1>2 DEF GuardInv, TypeOK
  <2>2. RestTyped'
    <3>1. told' \in [Subjects -> Nat]
      BY <1>1, <1>2 DEF GuardInv, TypeOK
    <3> QED
      BY <1>1, <3>1 DEF RestTyped, GuardInv, TypeOK, AnnounceCooldown, Touch
  <2> QED
    BY <2>1, <2>2 DEF TypeOK, RestTyped
<1>4. LockoutBounded'
  BY <1>1, <1>2 DEF GuardInv, TypeOK, LockoutBounded, AnnounceCooldown
<1>5. MemoryOf(p)' /\ \A q \in Requests \ {p} : request'[q] = request[q]
  BY <1>2 DEF GuardInv, TypeOK, MemoryBounded, MemoryOf, AnnounceCooldown, At, Idle, NoEntry, NoRow
<1>6. MemoryBounded'
  BY <1>3, <1>5, OthersRemember DEF AnnounceCooldown
<1> QED
  BY <1>3, <1>4, <1>6 DEF GuardInv

LEMMA FlushReadSafe == ASSUME GuardInv, NEW p \in Requests, FlushRead(p) PROVE GuardInv'
<1> USE NullTypes, LongestNat, GuardAssumption
<1>1. TypeOK'
  <2>1. request' \in [Requests -> Asking]
    <3>1. /\ request[p] \in Asking
          /\ entry[request[p].subject] \in Entry
      BY DEF GuardInv, TypeOK, MemoryBounded, FlushRead, At
    <3>2. [request[p] EXCEPT !.pc = "flush_write", !.data = entry[request[p].subject]] \in Asking
      BY <3>1 DEF Asking, Entry, GuardPcs, RefusalPcs, GrantPcs
    <3> QED
      BY <3>2 DEF GuardInv, TypeOK, FlushRead
  <2>2. RestTyped'
    BY DEF RestTyped, GuardInv, TypeOK, MemoryBounded, FlushRead, At, Touch, Goto, End, Refuse,
       Grant, Entry, Row
  <2> QED
    BY <2>1, <2>2 DEF TypeOK, RestTyped
<1>2. LockoutBounded'
  BY DEF GuardInv, TypeOK, LockoutBounded, MemoryBounded, FlushRead, At, Touch, Goto, End,
     Refuse, Grant, NoEntry, NoRow, Idle, Asking, Entry, Row
<1>3. MemoryOf(p)'
  BY DEF GuardInv, TypeOK, LockoutBounded, MemoryBounded, MemoryOf, FlushRead, At, Touch, Goto,
     End, Refuse, Grant, NoEntry, NoRow, Idle, Asking, Entry, Row, GuardPcs, RefusalPcs, GrantPcs
<1>4. MemoryBounded'
  BY <1>1, <1>3, OthersRemember DEF FlushRead, GuardInv, TypeOK, MemoryBounded, At, Touch, Goto,
     End, Refuse, Grant
<1> QED
  BY <1>1, <1>2, <1>4 DEF GuardInv

LEMMA FlushWriteSafe ==
    ASSUME GuardInv, NEW p \in Requests, FlushWrite(p)
    PROVE  GuardInv'
<1> DEFINE s == request[p].subject
           Flush(r) == IF r.id = request[p].row.id THEN Flushed(r) ELSE r
<1> USE LongestNat, GuardAssumption
<1>1. request[p] \in Asking /\ s \in Subjects /\ now \in Nat
  BY DEF GuardInv, TypeOK, MemoryBounded, FlushWrite, At
<1>2. \E pc \in {"granted", "flush_delete"} : Goto(p, pc)
  BY DEF FlushWrite, Grant
<1>3. request' \in [Requests -> Asking]
  BY <1>2, GotoTyped DEF GuardInv, GuardPcs, RefusalPcs, GrantPcs
<1>4. ASSUME NEW r \in active[s]
      PROVE  Flush(r) \in Row /\ Flush(r).last <= now
  BY <1>1 DEF GuardInv, TypeOK, LockoutBounded, Row, Flushed
<1>5. \/ active' = active
      \/ active' = [active EXCEPT ![s] = {Flush(r) : r \in active[s]}]
  BY DEF FlushWrite
<1> HIDE DEF Flush
<1>6. RestTyped'
  BY <1>1, <1>4, <1>5 DEF RestTyped, GuardInv, TypeOK, FlushWrite, Touch, Grant
<1>7. LockoutBounded'
  BY <1>1, <1>4, <1>5 DEF LockoutBounded, GuardInv, TypeOK, FlushWrite, Grant
<1>8. MemoryOf(p)' /\ \A q \in Requests \ {p} : request'[q] = request[q]
  BY <1>1, <1>2 DEF MemoryOf, GuardInv, TypeOK, MemoryBounded, FlushWrite, Goto, At
<1>9. TypeOK'
  BY <1>3, <1>6 DEF TypeOK, RestTyped
<1> QED
  BY <1>7, <1>8, <1>9, OthersRemember DEF FlushWrite, GuardInv

LEMMA FlushDeleteSafe == ASSUME GuardInv, NEW p \in Requests, FlushDelete(p) PROVE GuardInv'
<1> USE NullTypes, LongestNat, GuardAssumption
<1>1. TypeOK'
  <2>1. request' \in [Requests -> Asking]
    BY GotoTyped DEF GuardInv, FlushDelete, Grant, GuardPcs, RefusalPcs, GrantPcs
  <2>2. RestTyped'
    BY DEF RestTyped, GuardInv, TypeOK, MemoryBounded, FlushDelete, At, Touch, Goto, End, Refuse,
       Grant, Entry, Row
  <2> QED
    BY <2>1, <2>2 DEF TypeOK, RestTyped
<1>2. LockoutBounded'
  BY DEF GuardInv, TypeOK, LockoutBounded, MemoryBounded, FlushDelete, At, Touch, Goto, End,
     Refuse, Grant, NoEntry, NoRow, Idle, Asking, Entry, Row
<1>3. MemoryOf(p)'
  BY DEF GuardInv, TypeOK, LockoutBounded, MemoryBounded, MemoryOf, FlushDelete, At, Touch, Goto,
     End, Refuse, Grant, NoEntry, NoRow, Idle, Asking, Entry, Row, GuardPcs, RefusalPcs, GrantPcs
<1>4. MemoryBounded'
  BY <1>1, <1>3, OthersRemember DEF FlushDelete, GuardInv, TypeOK, MemoryBounded, At, Touch,
     Goto, End, Refuse, Grant
<1> QED
  BY <1>1, <1>2, <1>4 DEF GuardInv

LEMMA RegenerateSafe == ASSUME GuardInv, NEW p \in Requests, Regenerate(p) PROVE GuardInv'
<1> USE NullTypes, LongestNat, GuardAssumption
<1>1. TypeOK'
  BY DEF GuardInv, TypeOK, MemoryBounded, Regenerate, At, Touch, Goto, End, Refuse, Grant,
     Asking, Entry, Row, GuardPcs, RefusalPcs, GrantPcs, NewRow
<1>2. LockoutBounded'
  BY DEF GuardInv, TypeOK, LockoutBounded, MemoryBounded, Regenerate, At, Touch, Goto, End,
     Refuse, Grant, NoEntry, NoRow, Idle, Asking, Entry, Row, NewRow
<1>3. MemoryOf(p)'
  BY DEF GuardInv, TypeOK, LockoutBounded, MemoryBounded, MemoryOf, Regenerate, At, Touch, Goto,
     End, Refuse, Grant, NoEntry, NoRow, Idle, Asking, Entry, Row, GuardPcs, RefusalPcs, GrantPcs
<1>4. MemoryBounded'
  BY <1>1, <1>3, OthersRemember DEF Regenerate, GuardInv, TypeOK, MemoryBounded, At, Touch, Goto,
     End, Refuse, Grant
<1> QED
  BY <1>1, <1>2, <1>4 DEF GuardInv

LEMMA CrashSafe == ASSUME GuardInv, NEW p \in Requests, Crash(p) PROVE GuardInv'
<1> USE NullTypes, LongestNat, GuardAssumption
<1>1. TypeOK'
  BY DEF GuardInv, TypeOK, MemoryBounded, Crash, At, Touch, Goto, End, Refuse, Grant, Asking,
     Entry, Row, GuardPcs, RefusalPcs, GrantPcs
<1>2. LockoutBounded'
  BY DEF GuardInv, TypeOK, LockoutBounded, MemoryBounded, Crash, At, Touch, Goto, End, Refuse,
     Grant, NoEntry, NoRow, Idle, Asking, Entry, Row
<1>3. MemoryOf(p)'
  BY DEF GuardInv, TypeOK, LockoutBounded, MemoryBounded, MemoryOf, Crash, At, Touch, Goto, End,
     Refuse, Grant, NoEntry, NoRow, Idle, Asking, Entry, Row, GuardPcs, RefusalPcs, GrantPcs
<1>4. MemoryBounded'
  BY <1>1, <1>3, OthersRemember DEF Crash, GuardInv, TypeOK, MemoryBounded, At, Touch, Goto, End,
     Refuse, Grant
<1> QED
  BY <1>1, <1>2, <1>4 DEF GuardInv

\* A request that begins touches nobody's memory but its own; those it joins
\* lose their history marks.
LEMMA JoinedTyped ==
    ASSUME TypeOK, NEW s \in Subjects
    PROVE  /\ Joined(s) \in [Requests -> Asking]
           /\ \A q \in Requests :
                /\ Joined(s)[q].pc = request[q].pc
                /\ Joined(s)[q].subject = request[q].subject
                /\ Joined(s)[q].data = request[q].data
                /\ Joined(s)[q].wait = request[q].wait
                /\ Joined(s)[q].row = request[q].row
  BY DEF TypeOK, Joined, Asking

LEMMA StartTyped ==
    ASSUME NEW s \in Subjects, NEW patient \in BOOLEAN, NEW obeyed \in BOOLEAN
    PROVE  LET r == Starting(s, patient, obeyed) IN
           /\ r \in Asking /\ r.pc = "check" /\ r.subject = s
           /\ r.data = NoEntry /\ r.wait = 0 /\ r.row = NoRow
  BY NullTypes DEF Starting, Idle, Asking, GuardPcs

LEMMA AskSafe ==
    ASSUME GuardInv, NEW p \in Requests, NEW s \in Subjects, Ask(p, s)
    PROVE  GuardInv'
<1> USE LongestNat, GuardAssumption
<1>1. Joined(s) \in [Requests -> Asking]
  BY JoinedTyped DEF GuardInv
<1>2. PICK r \in Asking :
          /\ r.pc = "check" /\ r.subject = s
          /\ r.data = NoEntry /\ r.wait = 0 /\ r.row = NoRow
          /\ request' = [Joined(s) EXCEPT ![p] = r]
  <2> DEFINE alone   == \A q \in Requests : request[q].subject # s
             patient == alone /\ now >= touched[s] + Longest
             obeyed  == alone /\ told[s] > 0 /\ now >= told[s]
  <2>1. request' = [Joined(s) EXCEPT ![p] = Starting(s, patient, obeyed)]
    BY DEF Ask
  <2>2. patient \in BOOLEAN /\ obeyed \in BOOLEAN
    OBVIOUS
  <2> HIDE DEF patient, obeyed
  <2> QED
    BY <2>1, <2>2, StartTyped
<1>3. TypeOK'
  BY <1>1, <1>2 DEF GuardInv, TypeOK, Ask, Touch
<1>4. LockoutBounded'
  BY DEF GuardInv, LockoutBounded, Ask
<1>5. MemoryBounded'
  <2> SUFFICES ASSUME NEW q \in Requests PROVE MemoryOf(q)'
    BY DEF MemoryBounded, MemoryOf
  <2>1. CASE q = p
    BY <1>1, <1>2, <2>1
    DEF MemoryOf, GuardInv, TypeOK, MemoryBounded, Ask, At, NoEntry, NoRow
  <2>2. CASE q # p
    BY <1>1, <1>2, <2>2, JoinedTyped
    DEF MemoryOf, GuardInv, MemoryBounded, Ask, At
  <2> QED
    BY <2>1, <2>2
<1> QED
  BY <1>3, <1>4, <1>5 DEF GuardInv

LEMMA GenerateSafe ==
    ASSUME GuardInv, NEW p \in Requests, NEW s \in Subjects, Generate(p, s)
    PROVE  GuardInv'
<1> USE LongestNat, GuardAssumption
<1>1. NewRow(s) \in Row /\ NewRow(s).last = now /\ now \in Nat
  BY DEF GuardInv, TypeOK, NewRow, Row
<1>2. TypeOK'
  BY <1>1, JoinedTyped DEF GuardInv, TypeOK, Generate, Touch
<1>3. LockoutBounded'
  BY <1>1 DEF GuardInv, TypeOK, LockoutBounded, Generate
<1>4. MemoryBounded'
  BY JoinedTyped DEF GuardInv, MemoryBounded, Generate, At
<1> QED
  BY <1>2, <1>3, <1>4 DEF GuardInv

LEMMA DiscardSafe ==
    ASSUME GuardInv, NEW p \in Requests, NEW s \in Subjects, Discard(p, s)
    PROVE  GuardInv'
<1> USE LongestNat, GuardAssumption
<1>1. TypeOK'
  BY DEF GuardInv, TypeOK, Discard
<1>2. LockoutBounded'
  BY DEF GuardInv, TypeOK, LockoutBounded, Discard
<1>3. MemoryBounded'
  BY DEF GuardInv, MemoryBounded, Discard, At
<1> QED
  BY <1>1, <1>2, <1>3 DEF GuardInv

LEMMA TickSafe == ASSUME GuardInv, Tick PROVE GuardInv'
<1> USE LongestNat, GuardAssumption, NullTypes
<1>1. now \in Nat /\ now' = now + 1
  BY DEF GuardInv, TypeOK, Tick
<1>2. TypeOK'
  BY DEF GuardInv, TypeOK, Tick
<1>3. LockoutBounded'
  <2> SUFFICES ASSUME NEW s \in Subjects
               PROVE  /\ entry'[s].remaining <= Longest
                      /\ entry'[s].expires <= now' + Longest
                      /\ told'[s] <= now' + Longest
                      /\ \A row \in active'[s] : row.last <= now'
    BY DEF LockoutBounded
  <2>1. entry'[s] = entry[s] \/ entry'[s] = NoEntry
    BY DEF Tick
  <2> QED
    BY <1>1, <2>1 DEF GuardInv, TypeOK, LockoutBounded, Tick, Entry, Row, NoEntry
<1>4. MemoryBounded'
  BY <1>1 DEF GuardInv, TypeOK, MemoryBounded, Tick, At, Asking, Row
<1> QED
  BY <1>2, <1>3, <1>4 DEF GuardInv

-----------------------------------------------------------------------------
(* The theorems. *)

\* Any step of any request, and the clock, preserve the invariant.
LEMMA NextSafe == ASSUME GuardInv, [Next]_guardVars PROVE GuardInv'
<1>1. CASE UNCHANGED guardVars
  BY <1>1 DEF guardVars, GuardInv, TypeOK, LockoutBounded, MemoryBounded, At
<1>2. CASE Tick
  BY <1>2, TickSafe
<1>3. ASSUME NEW p \in Requests, NEW s \in Subjects,
             Ask(p, s) \/ Generate(p, s) \/ Discard(p, s)
      PROVE  GuardInv'
  BY <1>3, AskSafe, GenerateSafe, DiscardSafe
<1>4. ASSUME NEW p \in Requests, GuardStep(p) \/ Regenerate(p) \/ Crash(p)
      PROVE  GuardInv'
  BY <1>4, CheckCooldownSafe, UpdateReadSafe, UpdateWriteSafe, ReadRowSafe,
     IncrementAttemptsSafe, StartCooldownSafe, StoreCooldownSafe, AnnounceCooldownSafe,
     FlushReadSafe, FlushWriteSafe, FlushDeleteSafe, RegenerateSafe, CrashSafe DEF GuardStep
<1> QED
  BY <1>1, <1>2, <1>3, <1>4 DEF Next

\* Clock, rows, entries and what requests have read stay within bounds: what
\* can_proceed computes from them never exceeds them.
THEOREM GuardInvariance == Spec => []GuardInv
<1>1. GuardInit => GuardInv
  BY InitGuardInv
<1>2. GuardInv /\ [Next]_guardVars => GuardInv'
  BY NextSafe
<1> QED
  BY <1>1, <1>2, PTL DEF Spec

\* Type correctness of the guard.
THEOREM GuardTypeCorrect == Spec => []TypeOK
<1>1. GuardInv => TypeOK
  BY DEF GuardInv
<1> QED
  BY <1>1, GuardInvariance, PTL

\* However refusals of however many requests chain and interleave, no cooldown
\* reaches more than max(cooldown_seconds, cutoff) into the future.
THEOREM LockoutIsBounded == Spec => []LockoutBounded
<1>1. GuardInv => LockoutBounded
  BY DEF GuardInv
<1> QED
  BY <1>1, GuardInvariance, PTL
=============================================================================
