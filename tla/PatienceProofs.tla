----------------------------- MODULE PatienceProofs -----------------------------
(***************************************************************************)
(* What the guard promises a user, for every value of the constants.  Who   *)
(* stays away long enough is let in, as long as no two requests share a     *)
(* cooldown manager: where they do, a refusal of one user may be stored     *)
(* under the key of another.  Regenerations are spaced and penalties grow,  *)
(* as long as requests come one at a time: where two overlap, both may be   *)
(* granted, or one may store a wait over the other's.                       *)
(***************************************************************************)
EXTENDS AttemptGuardProofs

OwnManagers == \A p, q \in Requests : WorkerOf[p] = WorkerOf[q] => p = q

\* Whatever may still refuse s stems from when a request of s last ran.
Recent(s) ==
    /\ touched[s] <= now
    /\ entry[s] # NoEntry => now < entry[s].expires /\ entry[s].expires <= touched[s] + Longest
    /\ \A row \in active[s] : row.last <= touched[s]

\* The manager holds the key of its only request, and the time that it was told; who is
\* being refused has to wait.
OwnKey(p) == request[p].pc \notin {"idle", "check"} => cache_key[WorkerOf[p]] = request[p].subject
OwnWait(p) ==
    /\ request[p].pc \in {"increment", "start", "store"} => request[p].wait > 0
    /\ request[p].pc = "store" => initial_ttl[WorkerOf[p]] = request[p].wait

\* A patient request is alone, and finds nothing that could refuse it.
Unhindered(p) ==
    /\ request[p].pc \notin RefusalPcs
    /\ request[p].pc \in {"check", "read_row"} =>
         /\ entry[request[p].subject] = NoEntry
         /\ \A row \in active[request[p].subject] : row.last + Longest <= now
Lonely(p) ==
    /\ request[p].subject \in Subjects
    /\ \A q \in Requests : q # p => request[q].subject # request[p].subject
Patient(p) == request[p].patient => Lonely(p) /\ Unhindered(p)

PatienceInv ==
    /\ GuardInv
    /\ \A s \in Subjects : Recent(s)
    /\ \A p \in Requests : OwnKey(p) /\ OwnWait(p) /\ Patient(p)

LEMMA InitPatience == GuardInit => PatienceInv
<1> SUFFICES ASSUME GuardInit PROVE PatienceInv
  OBVIOUS
<1>1. GuardInv
  BY InitGuardInv
<1>2. ASSUME NEW s \in Subjects PROVE Recent(s)
  BY DEF GuardInit, Recent
<1>3. ASSUME NEW p \in Requests PROVE OwnKey(p) /\ OwnWait(p) /\ Patient(p)
  BY DEF GuardInit, OwnKey, OwnWait, Patient, Idle
<1> QED
  BY <1>1, <1>2, <1>3 DEF PatienceInv

\* What the invariant says of the request that takes a step, and of its subject.
LEMMA PatienceFacts ==
    ASSUME PatienceInv, NEW p \in Requests, ~At(p, "idle")
    PROVE  /\ request[p].subject \in Subjects /\ request[p].subject # NoSubject
           /\ request[p] \in Asking /\ request \in [Requests -> Asking]
           /\ now \in Nat /\ Longest \in Nat
           /\ Recent(request[p].subject) /\ OwnKey(p) /\ OwnWait(p) /\ Patient(p)
           /\ entry \in [Subjects -> Entry] /\ active \in [Subjects -> SUBSET Row]
           /\ cache_key \in [Workers -> Subjects \cup {NoSubject}]
           /\ initial_ttl \in [Workers -> Nat]
           /\ touched \in [Subjects -> Nat] /\ WorkerOf[p] \in Workers
  BY GuardAssumption, LongestNat
     DEF PatienceInv, GuardInv, TypeOK, MemoryBounded, At

\* A step of p on behalf of its subject disturbs neither other subjects nor other requests.
LEMMA StepKeepsPatience ==
    ASSUME PatienceInv, GuardInv', OwnManagers, NEW p \in Requests, ~At(p, "idle"),
           NEW s \in Subjects, request[p].subject = s, now' = now, Touch(s),
           \A q \in Requests \ {p} : request'[q] = request[q],
           \A t \in Subjects \ {s} :
               entry'[t] = entry[t] /\ active'[t] = active[t],
           \/ cache_key' = cache_key
           \/ cache_key' = [cache_key EXCEPT ![WorkerOf[p]] = s],
           \/ initial_ttl' = initial_ttl
           \/ \E ttl \in Nat : initial_ttl' = [initial_ttl EXCEPT ![WorkerOf[p]] = ttl],
           Recent(s)', OwnKey(p)', OwnWait(p)',
           \/ request'[p] = Idle
           \/ /\ request'[p].subject = s
              /\ request'[p].patient = request[p].patient
              /\ request[p].patient => Unhindered(p)'
    PROVE  PatienceInv'
<1>1. s \in Subjects /\ s # NoSubject /\ touched \in [Subjects -> Nat]
  BY PatienceFacts
<1>2. ASSUME NEW t \in Subjects PROVE Recent(t)'
  <2>1. CASE t = s
    BY <2>1
  <2>2. CASE t # s
    <3>1. entry'[t] = entry[t] /\ active'[t] = active[t] /\ touched'[t] = touched[t]
      BY <1>1, <2>2 DEF Touch
    <3> QED
      BY <3>1 DEF PatienceInv, Recent
  <2> QED
    BY <2>1, <2>2
<1>3. request'[p].subject \in {s, NoSubject}
  BY DEF Idle
<1>4. ASSUME NEW q \in Requests PROVE OwnKey(q)' /\ OwnWait(q)' /\ Patient(q)'
  <2>1. CASE q = p
    <3>1. CASE request'[p] = Idle
      BY <2>1, <3>1 DEF Patient, Idle
    <3>2. CASE request'[p] # Idle
      <4>1. ASSUME request'[p].patient PROVE Lonely(p)'
        <5>1. Lonely(p)
          BY <3>2, <4>1 DEF PatienceInv, Patient
        <5> QED
          BY <3>2, <5>1 DEF Lonely
      <4> QED
        BY <2>1, <3>2, <4>1 DEF Patient
    <3> QED
      BY <3>1, <3>2
  <2>2. CASE q # p
    <3>1. request'[q] = request[q] /\ OwnKey(q) /\ OwnWait(q) /\ Patient(q)
      BY <2>2 DEF PatienceInv
    <3>2. /\ cache_key'[WorkerOf[q]] = cache_key[WorkerOf[q]]
          /\ initial_ttl'[WorkerOf[q]] = initial_ttl[WorkerOf[q]]
      <4>1. WorkerOf[q] # WorkerOf[p] /\ WorkerOf[q] \in Workers
        BY <2>2, GuardAssumption DEF OwnManagers
      <4> QED
        BY <4>1, PatienceFacts
    <3>3. ASSUME request[q].patient PROVE Lonely(q)' /\ Unhindered(q)'
      <4>1. Lonely(q) /\ Unhindered(q)
        BY <3>1, <3>3 DEF Patient
      <4>2. request[q].subject \in Subjects \ {s}
        BY <2>2, <4>1 DEF Lonely
      <4>3. entry'[request[q].subject] = entry[request[q].subject]
            /\ active'[request[q].subject] = active[request[q].subject]
        BY <4>2
      <4>4. Unhindered(q)'
        BY <3>1, <4>1, <4>3 DEF Unhindered
      <4>5. \A r \in Requests : r # q => request'[r].subject # request'[q].subject
        <5> SUFFICES ASSUME NEW r \in Requests, r # q
                     PROVE  request'[r].subject # request'[q].subject
          OBVIOUS
        <5>1. CASE r = p
          BY <1>3, <3>1, <4>2, <5>1, GuardAssumption
        <5>2. CASE r # p
          BY <3>1, <4>1, <5>2 DEF Lonely
        <5> QED
          BY <5>1, <5>2
      <4> QED
        BY <3>1, <4>1, <4>4, <4>5 DEF Lonely
    <3> QED
      BY <3>1, <3>2, <3>3 DEF OwnKey, OwnWait, Patient
  <2> QED
    BY <2>1, <2>2
<1> QED
  BY <1>2, <1>4 DEF PatienceInv
-----------------------------------------------------------------------------
(***************************************************************************)
(* One lemma per step.                                                      *)
(***************************************************************************)

LEMMA GotoFields ==
    ASSUME PatienceInv, NEW p \in Requests, ~At(p, "idle"), NEW pc, Goto(p, pc)
    PROVE  /\ request'[p].pc = pc /\ request'[p].subject = request[p].subject
           /\ request'[p].patient = request[p].patient /\ request'[p].wait = request[p].wait
           /\ \A q \in Requests \ {p} : request'[q] = request[q]
<1>1. request[p] \in Asking /\ request \in [Requests -> Asking]
  BY PatienceFacts
<1> QED
  BY <1>1 DEF Goto, Asking

LEMMA EndFields ==
    ASSUME PatienceInv, NEW p \in Requests, ~At(p, "idle"), End(p)
    PROVE  /\ request'[p] = Idle /\ OwnKey(p)' /\ OwnWait(p)'
           /\ \A q \in Requests \ {p} : request'[q] = request[q]
<1>1. request'[p] = Idle /\ \A q \in Requests \ {p} : request'[q] = request[q]
  BY PatienceFacts DEF End
<1> QED
  BY <1>1 DEF OwnKey, OwnWait, Idle

\* Nothing of a subject changes but when one of its requests last ran.
LEMMA RecentAgain ==
    ASSUME PatienceInv, NEW s \in Subjects, now' = now, Touch(s),
           entry'[s] = entry[s], active'[s] = active[s]
    PROVE  Recent(s)'
<1>1. /\ Recent(s) /\ touched'[s] = now /\ touched[s] \in Nat /\ now \in Nat
      /\ entry[s] \in Entry /\ active[s] \in SUBSET Row /\ Longest \in Nat
  BY LongestNat DEF PatienceInv, GuardInv, TypeOK, Touch
<1> QED
  BY <1>1 DEF Recent, Entry, Row

LEMMA CheckCooldownPatient ==
    ASSUME PatienceInv, GuardInv', OwnManagers, NEW p \in Requests, CheckCooldown(p)
    PROVE  PatienceInv'
<1>0. PICK s \in Subjects : request[p].subject = s
  BY PatienceFacts DEF CheckCooldown, At
<1>1. ~At(p, "idle") /\ At(p, "check") /\ now' = now /\ Touch(s)
      /\ entry' = entry /\ active' = active /\ initial_ttl' = initial_ttl
  BY <1>0 DEF CheckCooldown, At
<1>2. cache_key' = [cache_key EXCEPT ![WorkerOf[p]] = s]
  BY <1>0 DEF CheckCooldown
<1>3. PICK pc \in {"update_read", "read_row"} :
        Goto(p, pc) /\ (pc = "update_read" => entry[s].remaining > 0)
  BY <1>0 DEF CheckCooldown
<1>4. /\ request'[p].pc = pc /\ request'[p].subject = s
      /\ request'[p].patient = request[p].patient
      /\ \A q \in Requests \ {p} : request'[q] = request[q]
  BY <1>0, <1>1, <1>3, GotoFields
<1>5. Recent(s)'
  BY <1>1, RecentAgain
<1>6. OwnKey(p)' /\ OwnWait(p)'
  BY <1>1, <1>2, <1>4, PatienceFacts DEF OwnKey, OwnWait
<1>7. ASSUME request[p].patient PROVE Unhindered(p)'
  <2>1. entry[s] = NoEntry /\ \A row \in active[s] : row.last + Longest <= now
    BY <1>0, <1>1, <1>7, PatienceFacts DEF Patient, Unhindered, At
  <2>2. pc = "read_row"
    BY <1>3, <2>1 DEF NoEntry
  <2> QED
    BY <1>1, <1>4, <2>1, <2>2 DEF Unhindered, RefusalPcs
<1> QED
  BY <1>0, <1>1, <1>2, <1>4, <1>5, <1>6, <1>7, StepKeepsPatience

LEMMA UpdateReadPatient ==
    ASSUME PatienceInv, GuardInv', OwnManagers, NEW p \in Requests, UpdateRead(p)
    PROVE  PatienceInv'
<1>0. PICK s \in Subjects : request[p].subject = s
  BY PatienceFacts DEF UpdateRead, At
<1>1. /\ ~At(p, "idle") /\ At(p, "update_read") /\ now' = now /\ Touch(s)
      /\ entry' = entry /\ active' = active /\ cache_key' = cache_key /\ initial_ttl' = initial_ttl
  BY <1>0 DEF UpdateRead, At
<1>2. /\ request'[p].pc = "update_write" /\ request'[p].subject = s
      /\ request'[p].patient = request[p].patient
      /\ \A q \in Requests \ {p} : request'[q] = request[q]
  BY <1>0, <1>1, PatienceFacts DEF UpdateRead, Asking
<1>3. Recent(s)'
  BY <1>1, RecentAgain
<1>4. OwnKey(p)' /\ OwnWait(p)'
  BY <1>0, <1>1, <1>2, PatienceFacts DEF OwnKey, OwnWait, At
<1>5. ~request[p].patient
  BY <1>1, PatienceFacts DEF Patient, Unhindered, RefusalPcs, At
<1> QED
  BY <1>0, <1>1, <1>2, <1>3, <1>4, <1>5, StepKeepsPatience

LEMMA UpdateWritePatient ==
    ASSUME PatienceInv, GuardInv', OwnManagers, NEW p \in Requests, UpdateWrite(p)
    PROVE  PatienceInv'
<1>0. PICK s \in Subjects : request[p].subject = s
  BY PatienceFacts DEF UpdateWrite, At
<1>1. /\ ~At(p, "idle") /\ At(p, "update_write") /\ now' = now /\ Touch(s)
      /\ active' = active /\ cache_key' = cache_key
      /\ initial_ttl' = [initial_ttl EXCEPT ![WorkerOf[p]] = request[p].data.remaining]
  BY <1>0 DEF UpdateWrite, At
<1>2. cache_key[WorkerOf[p]] = s
  BY <1>0, <1>1, PatienceFacts DEF OwnKey, At
<1>3. End(p)
  BY DEF UpdateWrite, Refuse
<1>4. /\ request'[p] = Idle /\ OwnKey(p)' /\ OwnWait(p)'
      /\ \A q \in Requests \ {p} : request'[q] = request[q]
  BY <1>1, <1>3, EndFields
<1> DEFINE ttl == request[p].data.remaining
<1>5. ttl \in Nat /\ ttl <= Longest
  BY PatienceFacts, <1>1 DEF PatienceInv, GuardInv, MemoryBounded, Asking, Entry
<1>6. entry' = [entry EXCEPT ![s] = Stored(next_cooldown(ttl), ttl)]
  BY <1>2 DEF UpdateWrite
<1> HIDE DEF ttl
<1>7. entry'[s] = NoEntry
      \/ (entry'[s].expires = now + ttl /\ ttl # 0)
  BY <1>1, <1>6, PatienceFacts DEF Stored
<1>8. Recent(s)'
  <2>1. touched'[s] = now /\ now \in Nat /\ Longest \in Nat /\ touched[s] <= now
    BY <1>0, <1>1, PatienceFacts DEF Touch, Recent
  <2>2. \A row \in active[s] : row.last <= now
    BY DEF PatienceInv, GuardInv, LockoutBounded
  <2> QED
    BY <1>1, <1>5, <1>7, <2>1, <2>2 DEF Recent
<1>9. \A t \in Subjects \ {s} : entry'[t] = entry[t] /\ active'[t] = active[t]
  BY <1>1, <1>6, PatienceFacts
<1>10. \E t \in Nat : initial_ttl' = [initial_ttl EXCEPT ![WorkerOf[p]] = t]
  BY <1>1, <1>5 DEF ttl
<1> QED
  BY <1>0, <1>1, <1>4, <1>8, <1>9, <1>10, StepKeepsPatience

LEMMA ReadRowPatient ==
    ASSUME PatienceInv, GuardInv', OwnManagers, NEW p \in Requests, ReadRow(p)
    PROVE  PatienceInv'
<1>0. PICK s \in Subjects : request[p].subject = s
  BY PatienceFacts DEF ReadRow, At
<1>1. /\ ~At(p, "idle") /\ At(p, "read_row") /\ now' = now /\ Touch(s)
      /\ entry' = entry /\ active' = active /\ cache_key' = cache_key /\ initial_ttl' = initial_ttl
  BY <1>0 DEF ReadRow, At
<1>2. Recent(s)'
  BY <1>1, RecentAgain
<1>3. cache_key[WorkerOf[p]] = s
  BY <1>0, <1>1, PatienceFacts DEF OwnKey, At
<1>4. CASE End(p)
  <2>1. /\ request'[p] = Idle /\ OwnKey(p)' /\ OwnWait(p)'
        /\ \A q \in Requests \ {p} : request'[q] = request[q]
    BY <1>1, <1>4, EndFields
  <2> QED
    BY <1>0, <1>1, <1>2, <2>1, StepKeepsPatience
<1>5. CASE Grant(p)
  <2>1. Goto(p, "granted")
    BY <1>5 DEF Grant
  <2>2. /\ request'[p].pc = "granted" /\ request'[p].subject = s
        /\ request'[p].patient = request[p].patient
        /\ \A q \in Requests \ {p} : request'[q] = request[q]
    BY <1>0, <1>1, <2>1, GotoFields
  <2>3. OwnKey(p)' /\ OwnWait(p)' /\ Unhindered(p)'
    BY <1>1, <1>3, <2>2 DEF OwnKey, OwnWait, Unhindered, RefusalPcs
  <2> QED
    BY <1>0, <1>1, <1>2, <2>2, <2>3, StepKeepsPatience
<1>6. ASSUME NEW row \in active[s], request' = [request EXCEPT ![p] = Fetched(request[p], row)]
      PROVE  PatienceInv'
  <2>1. row \in Row /\ Remaining(row) \in Nat /\ row.last <= now
    <3>1. row \in Row /\ row.last <= now /\ now \in Nat
      BY <1>1, <1>6, PatienceFacts DEF PatienceInv, GuardInv, LockoutBounded
    <3> QED
      BY <3>1, RemainingBounded
  <2>2. /\ request'[p].pc = IF Remaining(row) > 0 THEN "increment" ELSE "flush_read"
        /\ request'[p].wait = Remaining(row) /\ request'[p].subject = s
        /\ request'[p].patient = request[p].patient
        /\ \A q \in Requests \ {p} : request'[q] = request[q]
    <3> DEFINE pc == IF Remaining(row) > 0 THEN "increment" ELSE "flush_read"
               new == [request[p] EXCEPT !.row = row, !.wait = Remaining(row), !.pc = pc]
    <3>1. Fetched(request[p], row) = new
      BY DEF Fetched
    <3>2. request'[p] = new /\ \A q \in Requests \ {p} : request'[q] = request[q]
      BY <1>1, <1>6, <3>1, PatienceFacts
    <3>3. request[p] \in Asking
      BY <1>1, PatienceFacts
    <3> HIDE DEF pc
    <3>4. /\ new.pc = pc /\ new.wait = Remaining(row)
          /\ new.subject = request[p].subject /\ new.patient = request[p].patient
      BY <3>3 DEF Asking
    <3> QED
      BY <1>0, <3>2, <3>4 DEF pc
  <2>3. OwnKey(p)' /\ OwnWait(p)'
    BY <1>1, <1>3, <2>1, <2>2 DEF OwnKey, OwnWait
  <2>4. ASSUME request[p].patient PROVE Unhindered(p)'
    <3>1. row.last + Longest <= now
      BY <1>0, <1>1, <1>6, <2>4, PatienceFacts DEF Patient, Unhindered, At
    <3>2. Remaining(row) = 0
      <4>1. row.last \in Nat /\ now \in Nat /\ Cooldown \in Nat
        BY <1>1, <2>1, PatienceFacts, GuardAssumption DEF Row
      <4> QED
        BY <3>1, <4>1, LongestNat DEF Remaining
    <3> QED
      BY <2>2, <3>2 DEF Unhindered, RefusalPcs
  <2> QED
    BY <1>0, <1>1, <1>2, <2>2, <2>3, <2>4, StepKeepsPatience
<1> QED
  BY <1>0, <1>4, <1>5, <1>6 DEF ReadRow

LEMMA IncrementAttemptsPatient ==
    ASSUME PatienceInv, GuardInv', OwnManagers, NEW p \in Requests, IncrementAttempts(p)
    PROVE  PatienceInv'
<1>0. PICK s \in Subjects : request[p].subject = s
  BY PatienceFacts DEF IncrementAttempts, At
<1>1. /\ ~At(p, "idle") /\ At(p, "increment") /\ now' = now /\ Touch(s)
      /\ entry' = entry /\ cache_key' = cache_key /\ initial_ttl' = initial_ttl
  BY <1>0 DEF IncrementAttempts, At
<1>2. Goto(p, "start")
  BY DEF IncrementAttempts
<1>3. /\ request'[p].pc = "start" /\ request'[p].subject = s
      /\ request'[p].patient = request[p].patient /\ request'[p].wait = request[p].wait
      /\ \A q \in Requests \ {p} : request'[q] = request[q]
  BY <1>0, <1>1, <1>2, GotoFields
<1>4. OwnKey(p)' /\ OwnWait(p)' /\ ~request[p].patient
  BY <1>0, <1>1, <1>3, PatienceFacts
     DEF OwnKey, OwnWait, Patient, Unhindered, RefusalPcs, At
<1>5. /\ \A t \in Subjects \ {s} : active'[t] = active[t]
      /\ \A row \in active'[s] : row \in active[s] \/ row.last = now
  <2>1. active' = [active EXCEPT ![s] =
           {r \in active[s] : r.id # request[p].row.id} \cup {[request[p].row EXCEPT !.last = now]}]
    BY <1>0 DEF IncrementAttempts
  <2>2. request[p].row \in Row
    BY <1>1, PatienceFacts DEF Asking
  <2>3. [request[p].row EXCEPT !.last = now].last = now
    BY <2>2 DEF Row
  <2> QED
    BY <1>1, <2>1, <2>3, PatienceFacts
<1>6. Recent(s)'
  <2>1. Recent(s) /\ touched'[s] = now /\ now \in Nat /\ touched[s] \in Nat
        /\ entry[s] \in Entry /\ Longest \in Nat /\ active[s] \in SUBSET Row
    BY <1>0, <1>1, PatienceFacts DEF Touch
  <2> QED
    BY <1>1, <1>5, <2>1 DEF Recent, Row, Entry
<1>7. \A t \in Subjects \ {s} : entry'[t] = entry[t] /\ active'[t] = active[t]
  BY <1>1, <1>5
<1> QED
  BY <1>0, <1>1, <1>3, <1>4, <1>6, <1>7, StepKeepsPatience

LEMMA StartCooldownPatient ==
    ASSUME PatienceInv, GuardInv', OwnManagers, NEW p \in Requests, StartCooldown(p)
    PROVE  PatienceInv'
<1>0. PICK s \in Subjects : request[p].subject = s
  BY PatienceFacts DEF StartCooldown, At
<1>1. /\ ~At(p, "idle") /\ At(p, "start") /\ now' = now /\ Touch(s)
      /\ entry' = entry /\ active' = active
      /\ cache_key' = [cache_key EXCEPT ![WorkerOf[p]] = s]
      /\ initial_ttl' = [initial_ttl EXCEPT ![WorkerOf[p]] = request[p].wait]
      /\ Goto(p, "store")
  BY <1>0 DEF StartCooldown, At
<1>2. /\ request'[p].pc = "store" /\ request'[p].subject = s
      /\ request'[p].patient = request[p].patient /\ request'[p].wait = request[p].wait
      /\ \A q \in Requests \ {p} : request'[q] = request[q]
  BY <1>0, <1>1, GotoFields
<1>3. request[p].wait \in Nat /\ request[p].wait > 0
  BY <1>1, PatienceFacts DEF OwnWait, At, Asking
<1>4. Recent(s)'
  BY <1>1, RecentAgain
<1>5. OwnKey(p)' /\ OwnWait(p)' /\ ~request[p].patient
  BY <1>1, <1>2, <1>3, PatienceFacts
     DEF OwnKey, OwnWait, Patient, Unhindered, RefusalPcs, At
<1> QED
  BY <1>0, <1>1, <1>2, <1>3, <1>4, <1>5, StepKeepsPatience

LEMMA StoreCooldownPatient ==
    ASSUME PatienceInv, GuardInv', OwnManagers, NEW p \in Requests, StoreCooldown(p)
    PROVE  PatienceInv'
<1>0. PICK s \in Subjects : request[p].subject = s
  BY PatienceFacts DEF StoreCooldown, At
<1>1. /\ ~At(p, "idle") /\ At(p, "store") /\ now' = now /\ Touch(s) /\ active' = active
      /\ cache_key' = cache_key /\ initial_ttl' = initial_ttl /\ Goto(p, "announce")
  BY <1>0 DEF StoreCooldown, At
<1>2. /\ request'[p].pc = "announce" /\ request'[p].subject = s
      /\ request'[p].patient = request[p].patient
      /\ \A q \in Requests \ {p} : request'[q] = request[q]
  BY <1>0, <1>1, GotoFields
<1>3. /\ request[p].wait \in Nat /\ request[p].wait > 0 /\ request[p].wait <= Longest
      /\ cache_key[WorkerOf[p]] = s /\ initial_ttl[WorkerOf[p]] = request[p].wait
  BY <1>0, <1>1, PatienceFacts
     DEF OwnKey, OwnWait, At, Asking, PatienceInv, GuardInv, MemoryBounded
<1>4. entry' = [entry EXCEPT ![s] = Stored(request[p].wait, request[p].wait)]
  BY <1>3 DEF StoreCooldown
<1>5. /\ entry'[s].expires = now + request[p].wait
      /\ \A t \in Subjects \ {s} : entry'[t] = entry[t] /\ active'[t] = active[t]
  BY <1>1, <1>3, <1>4, PatienceFacts DEF Stored
<1>6. Recent(s)'
  <2>1. touched'[s] = now /\ now \in Nat /\ Longest \in Nat
    BY <1>0, <1>1, PatienceFacts DEF Touch
  <2>2. \A row \in active[s] : row.last <= now
    BY DEF PatienceInv, GuardInv, LockoutBounded
  <2> QED
    BY <1>1, <1>3, <1>5, <2>1, <2>2 DEF Recent
<1>7. OwnKey(p)' /\ OwnWait(p)' /\ ~request[p].patient
  BY <1>0, <1>1, <1>2, <1>3, PatienceFacts
     DEF OwnKey, OwnWait, Patient, Unhindered, RefusalPcs, At
<1> QED
  BY <1>0, <1>1, <1>2, <1>5, <1>6, <1>7, StepKeepsPatience

LEMMA AnnounceCooldownPatient ==
    ASSUME PatienceInv, GuardInv', OwnManagers, NEW p \in Requests, AnnounceCooldown(p)
    PROVE  PatienceInv'
<1>0. PICK s \in Subjects : request[p].subject = s
  BY PatienceFacts DEF AnnounceCooldown, At
<1>1. /\ ~At(p, "idle") /\ now' = now /\ Touch(s) /\ entry' = entry /\ active' = active
      /\ cache_key' = cache_key /\ initial_ttl' = initial_ttl /\ End(p)
  BY <1>0 DEF AnnounceCooldown, Refuse, At
<1>2. /\ request'[p] = Idle /\ OwnKey(p)' /\ OwnWait(p)'
      /\ \A q \in Requests \ {p} : request'[q] = request[q]
  BY <1>1, EndFields
<1>3. Recent(s)'
  BY <1>1, RecentAgain
<1> QED
  BY <1>0, <1>1, <1>2, <1>3, StepKeepsPatience

LEMMA FlushReadPatient ==
    ASSUME PatienceInv, GuardInv', OwnManagers, NEW p \in Requests, FlushRead(p)
    PROVE  PatienceInv'
<1>0. PICK s \in Subjects : request[p].subject = s
  BY PatienceFacts DEF FlushRead, At
<1>1. /\ ~At(p, "idle") /\ At(p, "flush_read") /\ now' = now /\ Touch(s)
      /\ entry' = entry /\ active' = active /\ cache_key' = cache_key /\ initial_ttl' = initial_ttl
  BY <1>0 DEF FlushRead, At
<1>2. /\ request'[p].pc = "flush_write" /\ request'[p].subject = s
      /\ request'[p].patient = request[p].patient
      /\ \A q \in Requests \ {p} : request'[q] = request[q]
  BY <1>0, <1>1, PatienceFacts DEF FlushRead, Asking
<1>3. Recent(s)'
  BY <1>1, RecentAgain
<1>4. OwnKey(p)' /\ OwnWait(p)' /\ Unhindered(p)'
  BY <1>0, <1>1, <1>2, PatienceFacts DEF OwnKey, OwnWait, At, Unhindered, RefusalPcs
<1> QED
  BY <1>0, <1>1, <1>2, <1>3, <1>4, StepKeepsPatience

LEMMA FlushWritePatient ==
    ASSUME PatienceInv, GuardInv', OwnManagers, NEW p \in Requests, FlushWrite(p)
    PROVE  PatienceInv'
<1>0. PICK s \in Subjects : request[p].subject = s
  BY PatienceFacts DEF FlushWrite, At
<1>1. /\ ~At(p, "idle") /\ At(p, "flush_write") /\ now' = now /\ Touch(s)
      /\ entry' = entry /\ cache_key' = cache_key /\ initial_ttl' = initial_ttl
  BY <1>0 DEF FlushWrite, At
<1>2. PICK pc \in {"granted", "flush_delete"} : Goto(p, pc)
  BY DEF FlushWrite, Grant
<1>3. /\ request'[p].pc = pc /\ request'[p].subject = s
      /\ request'[p].patient = request[p].patient
      /\ \A q \in Requests \ {p} : request'[q] = request[q]
  BY <1>0, <1>1, <1>2, GotoFields
<1>4. OwnKey(p)' /\ OwnWait(p)' /\ Unhindered(p)'
  BY <1>0, <1>1, <1>3, PatienceFacts DEF OwnKey, OwnWait, At, Unhindered, RefusalPcs
<1>5. /\ \A t \in Subjects \ {s} : active'[t] = active[t]
      /\ \A row \in active'[s] : row \in active[s] \/ row.last = now
  <2>1. CASE active' = active
    BY <2>1
  <2>2. CASE active' = [active EXCEPT ![s] =
               {IF r.id = request[p].row.id THEN Flushed(r) ELSE r : r \in active[s]}]
    <3>1. ASSUME NEW r \in active[s] PROVE Flushed(r).last = now
      BY <1>1, <3>1, PatienceFacts DEF Flushed, Row
    <3> DEFINE flushed == {IF r.id = request[p].row.id THEN Flushed(r) ELSE r : r \in active[s]}
    <3>2. \A row \in flushed : row \in active[s] \/ row.last = now
      BY <3>1
    <3> HIDE DEF flushed
    <3> QED
      BY <1>1, <2>2, <3>2, PatienceFacts DEF flushed
  <2> QED
    BY <1>0, <2>1, <2>2 DEF FlushWrite
<1>6. Recent(s)'
  <2>1. Recent(s) /\ touched'[s] = now /\ now \in Nat /\ touched[s] \in Nat
        /\ entry[s] \in Entry /\ Longest \in Nat /\ active[s] \in SUBSET Row
    BY <1>0, <1>1, PatienceFacts DEF Touch
  <2> QED
    BY <1>1, <1>5, <2>1 DEF Recent, Row, Entry
<1>7. \A t \in Subjects \ {s} : entry'[t] = entry[t] /\ active'[t] = active[t]
  BY <1>1, <1>5
<1> QED
  BY <1>0, <1>1, <1>3, <1>4, <1>6, <1>7, StepKeepsPatience

LEMMA FlushDeletePatient ==
    ASSUME PatienceInv, GuardInv', OwnManagers, NEW p \in Requests, FlushDelete(p)
    PROVE  PatienceInv'
<1>0. PICK s \in Subjects : request[p].subject = s
  BY PatienceFacts DEF FlushDelete, At
<1>1. /\ ~At(p, "idle") /\ At(p, "flush_delete") /\ now' = now /\ Touch(s)
      /\ active' = active /\ cache_key' = cache_key /\ initial_ttl' = initial_ttl /\ entry' = [entry EXCEPT ![s] = NoEntry]
  BY <1>0 DEF FlushDelete, At
<1>2. Goto(p, "granted")
  BY DEF FlushDelete, Grant
<1>3. /\ request'[p].pc = "granted" /\ request'[p].subject = s
      /\ request'[p].patient = request[p].patient
      /\ \A q \in Requests \ {p} : request'[q] = request[q]
  BY <1>0, <1>1, <1>2, GotoFields
<1>4. OwnKey(p)' /\ OwnWait(p)' /\ Unhindered(p)'
  BY <1>0, <1>1, <1>3, PatienceFacts DEF OwnKey, OwnWait, At, Unhindered, RefusalPcs
<1>5. entry'[s] = NoEntry /\ \A t \in Subjects \ {s} : entry'[t] = entry[t]
  BY <1>1, PatienceFacts
<1>6. Recent(s)'
  <2>1. touched'[s] = now /\ now \in Nat
    BY <1>0, <1>1, PatienceFacts DEF Touch
  <2>2. \A row \in active[s] : row.last <= now
    BY DEF PatienceInv, GuardInv, LockoutBounded
  <2> QED
    BY <1>1, <1>5, <2>1, <2>2 DEF Recent
<1> QED
  BY <1>0, <1>1, <1>3, <1>4, <1>5, <1>6, StepKeepsPatience

LEMMA RegeneratePatient ==
    ASSUME PatienceInv, GuardInv', OwnManagers, NEW p \in Requests, Regenerate(p)
    PROVE  PatienceInv'
<1>0. PICK s \in Subjects : request[p].subject = s
  BY PatienceFacts DEF Regenerate, At
<1>1. /\ ~At(p, "idle") /\ now' = now /\ Touch(s) /\ End(p)
      /\ entry' = entry /\ cache_key' = cache_key /\ initial_ttl' = initial_ttl /\ active' = [active EXCEPT ![s] = {NewRow(s)}]
  BY <1>0 DEF Regenerate, At
<1>2. /\ request'[p] = Idle /\ OwnKey(p)' /\ OwnWait(p)'
      /\ \A q \in Requests \ {p} : request'[q] = request[q]
  BY <1>1, EndFields
<1>3. active'[s] = {NewRow(s)} /\ \A t \in Subjects \ {s} : active'[t] = active[t]
  BY <1>1, PatienceFacts
<1>4. Recent(s)'
  <2>1. Recent(s) /\ touched'[s] = now /\ now \in Nat /\ touched[s] \in Nat
        /\ entry[s] \in Entry /\ Longest \in Nat
    BY <1>0, <1>1, PatienceFacts DEF Touch
  <2> QED
    BY <1>1, <1>3, <2>1 DEF Recent, NewRow, Entry
<1> QED
  BY <1>0, <1>1, <1>2, <1>3, <1>4, StepKeepsPatience
-----------------------------------------------------------------------------
(* Requests that come and go, and the clock. *)

\* When s is joined, nobody of s is patient any more; the others have nothing to do with s.
LEMMA JoinedFields ==
    ASSUME TypeOK, NEW s, NEW q \in Requests
    PROVE  /\ Joined(s)[q].pc = request[q].pc /\ Joined(s)[q].subject = request[q].subject
           /\ Joined(s)[q].wait = request[q].wait
           /\ Joined(s)[q].patient => request[q].patient /\ request[q].subject # s
           /\ request[q].subject # s => Joined(s)[q] = request[q]
<1>1. request[q] \in Asking
  BY DEF TypeOK
<1>2. CASE request[q].subject # s
  BY <1>2 DEF Joined
<1>3. CASE request[q].subject = s
  <2>1. Joined(s)[q] = [request[q] EXCEPT !.patient = FALSE, !.obeyed = FALSE]
    BY <1>3 DEF Joined
  <2> QED
    BY <1>1, <1>3, <2>1 DEF Asking
<1> QED
  BY <1>2, <1>3

\* What was recorded of s is older than now, and of the others as it was.
LEMMA TouchedRecent ==
    ASSUME PatienceInv, NEW s \in Subjects, now' = now, Touch(s), entry' = entry,
           \A t \in Subjects \ {s} : active'[t] = active[t],
           \A row \in active'[s] : row \in active[s] \/ row.last = now,
           NEW t \in Subjects
    PROVE  Recent(t)'
<1>1. /\ Recent(t) /\ touched[t] \in Nat /\ now \in Nat /\ entry[t] \in Entry
      /\ active[t] \in SUBSET Row /\ Longest \in Nat
      /\ touched'[t] = IF t = s THEN now ELSE touched[t]
  BY LongestNat DEF PatienceInv, GuardInv, TypeOK, Touch
<1>2. CASE t = s
  BY <1>1, <1>2 DEF Recent, Row, Entry
<1>3. CASE t # s
  BY <1>1, <1>3 DEF Recent
<1> QED
  BY <1>2, <1>3

LEMMA AskPatient ==
    ASSUME PatienceInv, GuardInv', OwnManagers, NEW p \in Requests, NEW s \in Subjects, Ask(p, s)
    PROVE  PatienceInv'
<1> DEFINE alone == \A q \in Requests : request[q].subject # s
           patient == alone /\ now >= touched[s] + Longest
           obeyed == alone /\ told[s] > 0 /\ now >= told[s]
<1>1. /\ At(p, "idle") /\ now' = now /\ Touch(s) /\ entry' = entry /\ active' = active
      /\ cache_key' = cache_key /\ initial_ttl' = initial_ttl
  BY DEF Ask
<1>2. request' = [Joined(s) EXCEPT ![p] = Starting(s, patient, obeyed)]
  BY DEF Ask
<1>3. /\ Starting(s, patient, obeyed).pc = "check"
      /\ Starting(s, patient, obeyed).subject = s
      /\ Starting(s, patient, obeyed).patient = patient
  <2> HIDE DEF patient, obeyed
  <2> QED
    BY DEF Starting, Idle
<1>4. request'[p] = Starting(s, patient, obeyed)
      /\ \A q \in Requests \ {p} : request'[q] = Joined(s)[q]
  <2> HIDE DEF patient, obeyed
  <2>1. DOMAIN Joined(s) = Requests
    BY DEF Joined
  <2> QED
    BY <1>2, <2>1 DEF Joined
<1>5. TypeOK /\ now \in Nat /\ Longest \in Nat /\ touched[s] \in Nat /\ entry[s] \in Entry
      /\ active[s] \in SUBSET Row
  BY LongestNat DEF PatienceInv, GuardInv, TypeOK
<1>6. ASSUME NEW t \in Subjects PROVE Recent(t)'
  BY <1>1, TouchedRecent
<1>7. /\ request'[p].pc = "check" /\ request'[p].subject = s
      /\ request'[p].patient = patient
  BY <1>3, <1>4
<1>8. OwnKey(p)' /\ OwnWait(p)'
  BY <1>7 DEF OwnKey, OwnWait
<1>9. ASSUME patient PROVE Lonely(p)' /\ Unhindered(p)'
  <2>1. Recent(s)
    BY DEF PatienceInv
  <2>2. entry[s] = NoEntry
    BY <1>5, <1>9, <2>1 DEF Recent, Entry
  <2>3. \A row \in active[s] : row.last + Longest <= now
    BY <1>5, <1>9, <2>1 DEF Recent, Row
  <2>4. \A q \in Requests : q # p => request'[q].subject # s
    BY <1>4, <1>5, <1>9, JoinedFields
  <2> QED
    BY <1>1, <1>7, <2>2, <2>3, <2>4 DEF Lonely, Unhindered, RefusalPcs
<1>10. Patient(p)'
  BY <1>7, <1>9 DEF Patient
<1> HIDE DEF patient, obeyed
<1>11. ASSUME NEW q \in Requests, q # p PROVE OwnKey(q)' /\ OwnWait(q)' /\ Patient(q)'
  <2>1. /\ request'[q].pc = request[q].pc /\ request'[q].subject = request[q].subject
        /\ request'[q].wait = request[q].wait
        /\ request'[q].patient => request[q].patient /\ request[q].subject # s
    BY <1>4, <1>5, <1>11, JoinedFields
  <2>2. OwnKey(q)' /\ OwnWait(q)'
    BY <1>1, <2>1 DEF PatienceInv, OwnKey, OwnWait
  <2>3. ASSUME request'[q].patient PROVE Lonely(q)' /\ Unhindered(q)'
    <3>1. Lonely(q) /\ Unhindered(q) /\ request[q].subject # s
      BY <2>1, <2>3 DEF PatienceInv, Patient
    <3>2. Unhindered(q)'
      BY <1>1, <2>1, <3>1 DEF Unhindered
    <3>3. \A r \in Requests : r # q => request'[r].subject # request'[q].subject
      BY <1>4, <1>5, <1>7, <2>1, <3>1, JoinedFields DEF Lonely
    <3> QED
      BY <2>1, <3>1, <3>2, <3>3 DEF Lonely
  <2> QED
    BY <2>2, <2>3 DEF Patient
<1> QED
  BY <1>6, <1>8, <1>10, <1>11 DEF PatienceInv

\* Generating and discarding start no request, and those that go on are not of the subject.
LEMMA OutsidePatient ==
    ASSUME PatienceInv, GuardInv', NEW s \in Subjects, now' = now, entry' = entry,
           cache_key' = cache_key /\ initial_ttl' = initial_ttl,
           \A t \in Subjects : Recent(t)',
           \A t \in Subjects \ {s} : active'[t] = active[t],
           request' = Joined(s) \/ (request' = request /\ active'[s] = {})
    PROVE  PatienceInv'
<1>1. TypeOK
  BY DEF PatienceInv, GuardInv
<1>2. ASSUME NEW q \in Requests PROVE OwnKey(q)' /\ OwnWait(q)' /\ Patient(q)'
  <2>1. \A r \in Requests :
           /\ request'[r].pc = request[r].pc /\ request'[r].subject = request[r].subject
           /\ request'[r].wait = request[r].wait
    BY <1>1, JoinedFields
  <2>2. request'[q].patient => request[q].patient
                               /\ (request[q].subject # s \/ active'[s] = {})
    BY <1>1, JoinedFields
  <2>3. OwnKey(q)' /\ OwnWait(q)'
    BY <2>1 DEF PatienceInv, OwnKey, OwnWait
  <2>4. ASSUME request'[q].patient PROVE Lonely(q)' /\ Unhindered(q)'
    <3>1. Lonely(q) /\ Unhindered(q)
      BY <2>2, <2>4 DEF PatienceInv, Patient
    <3>2. active'[request[q].subject] \subseteq active[request[q].subject]
      BY <2>2, <2>4, <3>1 DEF Lonely
    <3>3. Unhindered(q)'
      BY <2>1, <3>1, <3>2 DEF Unhindered
    <3>4. Lonely(q)'
      BY <2>1, <3>1 DEF Lonely
    <3> QED
      BY <3>3, <3>4
  <2> QED
    BY <2>3, <2>4 DEF Patient
<1> QED
  BY <1>2 DEF PatienceInv

LEMMA GeneratePatient ==
    ASSUME PatienceInv, GuardInv', NEW p \in Requests, NEW s \in Subjects, Generate(p, s)
    PROVE  PatienceInv'
<1>1. /\ now' = now /\ Touch(s) /\ entry' = entry /\ cache_key' = cache_key /\ initial_ttl' = initial_ttl
      /\ request' = Joined(s) /\ active' = [active EXCEPT ![s] = {NewRow(s)}]
  BY DEF Generate
<1>2. active \in [Subjects -> SUBSET Row]
  BY DEF PatienceInv, GuardInv, TypeOK
<1>3. /\ \A t \in Subjects \ {s} : active'[t] = active[t]
      /\ \A row \in active'[s] : row.last = now
  BY <1>1, <1>2 DEF NewRow
<1>4. \A t \in Subjects : Recent(t)'
  BY <1>1, <1>3, TouchedRecent
<1> QED
  BY <1>1, <1>3, <1>4, OutsidePatient

LEMMA DiscardPatient ==
    ASSUME PatienceInv, GuardInv', NEW p \in Requests, NEW s \in Subjects, Discard(p, s)
    PROVE  PatienceInv'
<1>1. /\ now' = now /\ entry' = entry /\ cache_key' = cache_key /\ initial_ttl' = initial_ttl /\ request' = request
      /\ touched' = touched /\ active' = [active EXCEPT ![s] = {}]
  BY DEF Discard
<1>2. active \in [Subjects -> SUBSET Row]
  BY DEF PatienceInv, GuardInv, TypeOK
<1>3. active'[s] = {} /\ \A t \in Subjects \ {s} : active'[t] = active[t]
  BY <1>1, <1>2
<1>4. ASSUME NEW t \in Subjects PROVE Recent(t)'
  <2>1. Recent(t) /\ active'[t] \subseteq active[t]
    BY <1>3 DEF PatienceInv
  <2> QED
    BY <1>1, <2>1 DEF Recent
<1> QED
  BY <1>1, <1>3, <1>4, OutsidePatient

LEMMA CrashPatient ==
    ASSUME PatienceInv, GuardInv', NEW p \in Requests, Crash(p)
    PROVE  PatienceInv'
<1>1. /\ now' = now /\ entry' = entry /\ cache_key' = cache_key /\ initial_ttl' = initial_ttl /\ active' = active
      /\ touched' = touched /\ ~At(p, "idle") /\ End(p)
  BY DEF Crash
<1>2. /\ request'[p] = Idle /\ OwnKey(p)' /\ OwnWait(p)'
      /\ \A q \in Requests \ {p} : request'[q] = request[q]
  BY <1>1, EndFields
<1>3. ASSUME NEW t \in Subjects PROVE Recent(t)'
  BY <1>1 DEF PatienceInv, Recent
<1>4. Patient(p)'
  BY <1>2 DEF Patient, Idle
<1>5. ASSUME NEW q \in Requests, q # p PROVE OwnKey(q)' /\ OwnWait(q)' /\ Patient(q)'
  <2>1. request'[q] = request[q]
    BY <1>2, <1>5
  <2>2. OwnKey(q)' /\ OwnWait(q)'
    BY <1>1, <2>1 DEF PatienceInv, OwnKey, OwnWait
  <2>3. ASSUME request[q].patient PROVE Lonely(q)' /\ Unhindered(q)'
    <3>1. Lonely(q) /\ Unhindered(q)
      BY <2>3 DEF PatienceInv, Patient
    <3>2. request'[p].subject \notin Subjects
      BY <1>2, GuardAssumption DEF Idle
    <3>3. Lonely(q)'
      BY <1>2, <2>1, <3>1, <3>2 DEF Lonely
    <3>4. Unhindered(q)'
      BY <1>1, <2>1, <3>1 DEF Unhindered
    <3> QED
      BY <3>3, <3>4
  <2> QED
    BY <2>1, <2>2, <2>3 DEF Patient
<1> QED
  BY <1>2, <1>3, <1>4, <1>5 DEF PatienceInv

LEMMA TickPatient ==
    ASSUME PatienceInv, GuardInv', Tick
    PROVE  PatienceInv'
<1>1. /\ now' = now + 1 /\ cache_key' = cache_key /\ initial_ttl' = initial_ttl /\ active' = active
      /\ touched' = touched /\ request' = request /\ now \in Nat
      /\ \A t \in Subjects : entry'[t] = IF entry[t].expires <= now + 1 THEN NoEntry ELSE entry[t]
  BY DEF Tick, PatienceInv, GuardInv, TypeOK
<1>2. ASSUME NEW t \in Subjects PROVE Recent(t)'
  <2>1. Recent(t) /\ entry[t] \in Entry /\ touched[t] \in Nat
    BY DEF PatienceInv, GuardInv, TypeOK
  <2>2. CASE entry[t].expires <= now + 1
    BY <1>1, <2>1, <2>2 DEF Recent
  <2>3. CASE ~(entry[t].expires <= now + 1)
    BY <1>1, <2>1, <2>3 DEF Recent, Entry
  <2> QED
    BY <2>2, <2>3
<1>3. ASSUME NEW q \in Requests PROVE OwnKey(q)' /\ OwnWait(q)' /\ Patient(q)'
  <2>1. OwnKey(q)' /\ OwnWait(q)'
    BY <1>1 DEF PatienceInv, OwnKey, OwnWait
  <2>2. ASSUME request[q].patient PROVE Lonely(q)' /\ Unhindered(q)'
    <3>1. Lonely(q) /\ Unhindered(q)
      BY <2>2 DEF PatienceInv, Patient
    <3>2. entry[request[q].subject] = NoEntry => entry'[request[q].subject] = NoEntry
      BY <1>1, <3>1 DEF Lonely
    <3>3. ASSUME NEW row \in active[request[q].subject], row.last + Longest <= now
          PROVE  row.last + Longest <= now'
      <4>1. row.last \in Nat
        BY <3>1 DEF PatienceInv, GuardInv, TypeOK, Lonely, Row
      <4> QED
        BY <1>1, <3>3, <4>1, LongestNat
    <3>4. Unhindered(q)'
      BY <1>1, <3>1, <3>2, <3>3 DEF Unhindered
    <3>5. Lonely(q)'
      BY <1>1, <3>1 DEF Lonely
    <3> QED
      BY <3>4, <3>5
  <2> QED
    BY <1>1, <2>1, <2>2 DEF Patient
<1> QED
  BY <1>2, <1>3 DEF PatienceInv
-----------------------------------------------------------------------------
LEMMA NextPatient ==
    ASSUME OwnManagers, PatienceInv, [Next]_guardVars
    PROVE  PatienceInv'
<1>0. GuardInv'
  BY NextSafe DEF PatienceInv
<1>1. CASE UNCHANGED guardVars
  <2>1. ASSUME NEW s \in Subjects PROVE Recent(s)'
    BY <1>1 DEF guardVars, PatienceInv, Recent
  <2>2. ASSUME NEW p \in Requests PROVE OwnKey(p)' /\ OwnWait(p)' /\ Patient(p)'
    BY <1>1 DEF guardVars, PatienceInv, OwnKey, OwnWait, Patient, Lonely, Unhindered
  <2> QED
    BY <1>0, <2>1, <2>2 DEF PatienceInv
<1>2. CASE Tick
  BY <1>0, <1>2, TickPatient
<1>3. ASSUME NEW p \in Requests, NEW s \in Subjects,
             Ask(p, s) \/ Generate(p, s) \/ Discard(p, s)
      PROVE  PatienceInv'
  BY <1>0, <1>3, AskPatient, GeneratePatient, DiscardPatient
<1>4. ASSUME NEW p \in Requests, GuardStep(p) \/ Regenerate(p) \/ Crash(p)
      PROVE  PatienceInv'
  BY <1>0, <1>4, CheckCooldownPatient, UpdateReadPatient, UpdateWritePatient, ReadRowPatient,
     IncrementAttemptsPatient, StartCooldownPatient, StoreCooldownPatient,
     AnnounceCooldownPatient, FlushReadPatient, FlushWritePatient, FlushDeletePatient,
     RegeneratePatient, CrashPatient DEF GuardStep
<1> QED
  BY <1>1, <1>2, <1>3, <1>4 DEF Next

\* However refusals have moved the cached cooldown and last_attempt before: a user who
\* stays away for max(cooldown_seconds, cutoff) and then asks alone is let in by
\* can_proceed, if every request has a cooldown_manager of its own.
THEOREM PatienceIsServed == OwnManagers => (Spec => []PatienceServed)
<1> SUFFICES ASSUME OwnManagers PROVE Spec => []PatienceServed
  OBVIOUS
<1>1. GuardInit => PatienceInv
  BY InitPatience
<1>2. PatienceInv /\ [Next]_guardVars => PatienceInv'
  BY NextPatient
<1>3. PatienceInv => PatienceServed
  BY DEF PatienceInv, Patient, Unhindered, PatienceServed
<1> QED
  BY <1>1, <1>2, <1>3, PTL DEF Spec
-----------------------------------------------------------------------------
(***************************************************************************)
(* Requests that come one at a time: no two of them are ever under way.     *)
(***************************************************************************)

OneRequest == \A p, q \in Requests : p = q

LEMMA AloneFacts ==
    ASSUME PatienceInv, AloneInv, NEW p \in Requests, ~At(p, "idle")
    PROVE  LET s == request[p].subject IN
           /\ s \in Subjects /\ request[p] \in Asking /\ request \in [Requests -> Asking]
           /\ now \in Nat /\ Cooldown \in Nat
           /\ Standing(s) /\ Earned(p) /\ Fresh(p) /\ OwnKey(p) /\ OwnWait(p)
           /\ entry \in [Subjects -> Entry] /\ active \in [Subjects -> SUBSET Row]
           /\ next \in [Subjects -> Nat]
           /\ entry[s] \in Entry /\ active[s] \in SUBSET Row /\ next[s] \in Nat
  BY PatienceFacts, GuardAssumption DEF AloneInv, PatienceInv, GuardInv, TypeOK

\* The raised wait is never zero, and no shorter than the wait unless the cutoff is.
LEMMA NextCooldownPositive ==
    ASSUME NEW ttl \in Nat
    PROVE  next_cooldown(ttl) > 0 /\ (ttl <= Cutoff => next_cooldown(ttl) >= ttl)
<1> DEFINE raised == IF ttl * Multiplier = 0 THEN 1 ELSE ttl * Multiplier
<1>1. ttl * Multiplier \in Nat /\ ttl * Multiplier >= ttl
  BY GuardAssumption
<1>2. raised \in Nat /\ raised > 0 /\ raised >= ttl
  BY <1>1
<1>3. next_cooldown(ttl) = IF raised > Cutoff THEN Cutoff ELSE raised
  BY DEF next_cooldown
<1> HIDE DEF raised
<1> QED
  BY <1>2, <1>3, GuardAssumption

\* What update stores over a cooldown that is still cached is no shorter.
LEMMA UpdateRaises ==
    ASSUME Cooldown <= Cutoff, PatienceInv, AloneInv, NEW p \in Requests, UpdateWrite(p),
           NEW s \in Subjects, request[p].subject = s,
           entry[s] # NoEntry, entry'[s] # NoEntry
    PROVE  entry'[s].remaining >= entry[s].remaining
<1> DEFINE ttl == request[p].data.remaining
<1>1. ~At(p, "idle") /\ At(p, "update_write")
  BY DEF UpdateWrite, At
<1>2. cache_key[WorkerOf[p]] = s /\ entry[s] = request[p].data /\ ttl \in Nat
  BY <1>1, AloneFacts DEF OwnKey, Fresh, At, Asking, Entry
<1>3. entry' = [entry EXCEPT ![s] = Stored(next_cooldown(ttl), ttl)]
  BY <1>2 DEF UpdateWrite
<1>4. ttl <= Cutoff
  <2>1. ttl <= Longest
    BY <1>2 DEF PatienceInv, GuardInv, LockoutBounded
  <2>2. Longest = Cutoff
    BY GuardAssumption DEF Longest
  <2> QED
    BY <2>1, <2>2
<1>5. entry[s].remaining = ttl
  BY <1>2
<1> HIDE DEF ttl
<1>6. entry'[s].remaining = next_cooldown(ttl)
  BY <1>1, <1>3, AloneFacts DEF Stored
<1> QED
  BY <1>2, <1>4, <1>5, <1>6, NextCooldownPositive

\* A step of the one request leaves other subjects alone.
LEMMA StepKeepsAlone ==
    ASSUME OneRequest, AloneInv, NEW p \in Requests, NEW s \in Subjects, now' = now,
           \A t \in Subjects \ {s} :
               entry'[t] = entry[t] /\ active'[t] = active[t] /\ next'[t] = next[t],
           Standing(s)', Earned(p)', Fresh(p)'
    PROVE  AloneInv'
<1>1. ASSUME NEW t \in Subjects PROVE Standing(t)'
  <2>1. CASE t = s
    BY <2>1
  <2>2. CASE t # s
    BY <2>2 DEF AloneInv, Standing
  <2> QED
    BY <2>1, <2>2
<1>2. ASSUME NEW q \in Requests PROVE Earned(q)' /\ Fresh(q)'
  <2>1. q = p
    BY DEF OneRequest
  <2> QED
    BY <2>1
<1> QED
  BY <1>1, <1>2 DEF AloneInv

\* Neither a row nor a cached cooldown nor the date of the next regeneration changes.
LEMMA StandingAgain ==
    ASSUME AloneInv, NEW s \in Subjects, now' = now,
           entry' = entry, active' = active, next' = next
    PROVE  Standing(s)'
  BY DEF AloneInv, Standing

LEMMA CheckCooldownAlone ==
    ASSUME OneRequest, PatienceInv, AloneInv, NEW p \in Requests, CheckCooldown(p)
    PROVE  AloneInv'
<1>0. PICK s \in Subjects : request[p].subject = s
  BY PatienceFacts DEF CheckCooldown, At
<1>1. /\ ~At(p, "idle") /\ now' = now /\ entry' = entry /\ active' = active /\ next' = next
  BY DEF CheckCooldown, At
<1>2. PICK pc \in {"update_read", "read_row"} :
        Goto(p, pc) /\ (pc = "read_row" => ~(entry[s].remaining > 0))
  BY <1>0 DEF CheckCooldown
<1>3. request'[p].pc = pc /\ request'[p].subject = s
  BY <1>0, <1>1, <1>2, GotoFields
<1>4. pc = "read_row" => entry[s] = NoEntry
  BY <1>0, <1>1, <1>2, AloneFacts DEF Standing
<1>5. Earned(p)' /\ Fresh(p)'
  BY <1>1, <1>3, <1>4 DEF Earned, Fresh, GrantPcs
<1> QED
  BY <1>1, <1>5, StandingAgain, StepKeepsAlone

LEMMA UpdateReadAlone ==
    ASSUME OneRequest, PatienceInv, AloneInv, NEW p \in Requests, UpdateRead(p)
    PROVE  AloneInv'
<1>0. PICK s \in Subjects : request[p].subject = s
  BY PatienceFacts DEF UpdateRead, At
<1>1. /\ ~At(p, "idle") /\ At(p, "update_read")
      /\ now' = now /\ entry' = entry /\ active' = active /\ next' = next
  BY DEF UpdateRead, At
<1>2. cache_key[WorkerOf[p]] = s
  BY <1>0, <1>1, AloneFacts DEF OwnKey, At
<1>3. /\ request'[p].pc = "update_write" /\ request'[p].subject = s
      /\ request'[p].data = entry[s]
  BY <1>0, <1>1, <1>2, AloneFacts DEF UpdateRead, Asking
<1>4. Earned(p)' /\ Fresh(p)'
  BY <1>1, <1>3 DEF Earned, Fresh, GrantPcs
<1> QED
  BY <1>1, <1>4, StandingAgain, StepKeepsAlone

LEMMA UpdateWriteAlone ==
    ASSUME OneRequest, PatienceInv, AloneInv, NEW p \in Requests, UpdateWrite(p)
    PROVE  AloneInv'
<1>0. PICK s \in Subjects : request[p].subject = s
  BY PatienceFacts DEF UpdateWrite, At
<1> DEFINE ttl == request[p].data.remaining
<1>1. /\ ~At(p, "idle") /\ At(p, "update_write")
      /\ now' = now /\ active' = active /\ next' = next
  BY DEF UpdateWrite, At
<1>2. cache_key[WorkerOf[p]] = s
  BY <1>0, <1>1, AloneFacts DEF OwnKey, At
<1>3. entry' = [entry EXCEPT ![s] = Stored(next_cooldown(ttl), ttl)]
  BY <1>2 DEF UpdateWrite
<1>4. request'[p] = Idle
  BY <1>1, EndFields DEF UpdateWrite, Refuse
<1>5. ttl \in Nat
  BY <1>1, AloneFacts DEF Asking, Entry
<1> HIDE DEF ttl
<1>6. entry'[s] = NoEntry \/ (ttl # 0 /\ entry'[s].remaining = next_cooldown(ttl))
  BY <1>0, <1>1, <1>3, AloneFacts DEF Stored
<1>7. next_cooldown(ttl) > 0
  BY <1>5, NextCooldownPositive
<1>8. Standing(s)'
  BY <1>0, <1>1, <1>6, <1>7, AloneFacts DEF Standing
<1>9. \A t \in Subjects \ {s} : entry'[t] = entry[t] /\ active'[t] = active[t] /\ next'[t] = next[t]
  BY <1>1, <1>3, AloneFacts
<1>10. Earned(p)' /\ Fresh(p)'
  BY <1>4 DEF Earned, Fresh, GrantPcs, Idle
<1> QED
  BY <1>1, <1>8, <1>9, <1>10, StepKeepsAlone

LEMMA ReadRowAlone ==
    ASSUME OneRequest, PatienceInv, AloneInv, NEW p \in Requests, ReadRow(p)
    PROVE  AloneInv'
<1>0. PICK s \in Subjects : request[p].subject = s
  BY PatienceFacts DEF ReadRow, At
<1>1. /\ ~At(p, "idle") /\ At(p, "read_row")
      /\ now' = now /\ entry' = entry /\ active' = active /\ next' = next
  BY DEF ReadRow, At
<1>2. Standing(s) /\ entry[s] = NoEntry /\ now \in Nat /\ next[s] \in Nat /\ Cooldown \in Nat
  BY <1>0, <1>1, AloneFacts DEF Fresh, At
<1>3. CASE End(p)
  <2>1. request'[p] = Idle
    BY <1>1, <1>3, EndFields
  <2>2. Earned(p)' /\ Fresh(p)'
    BY <2>1 DEF Earned, Fresh, GrantPcs, Idle
  <2> QED
    BY <1>1, <2>2, StandingAgain, StepKeepsAlone
<1>4. CASE active[s] = {} /\ Grant(p)
  <2>1. request'[p].pc = "granted" /\ request'[p].subject = s
    BY <1>0, <1>1, <1>4, GotoFields DEF Grant
  <2>2. next[s] = 0
    BY <1>2, <1>4 DEF Standing
  <2>3. Earned(p)' /\ Fresh(p)'
    BY <1>1, <1>2, <2>1, <2>2 DEF Earned, Fresh
  <2> QED
    BY <1>1, <2>3, StandingAgain, StepKeepsAlone
<1>5. ASSUME NEW row \in active[s], request' = [request EXCEPT ![p] = Fetched(request[p], row)]
      PROVE  AloneInv'
  <2> DEFINE pc == IF Remaining(row) > 0 THEN "increment" ELSE "flush_read"
  <2>1. request'[p].pc = pc /\ request'[p].subject = s
    <3> DEFINE new == [request[p] EXCEPT !.row = row, !.wait = Remaining(row), !.pc = pc]
    <3>1. Fetched(request[p], row) = new
      BY DEF Fetched
    <3>2. request'[p] = new
      BY <1>1, <1>5, <3>1, AloneFacts
    <3> HIDE DEF pc
    <3>3. new.pc = pc /\ new.subject = request[p].subject
      BY <1>1, AloneFacts DEF Asking
    <3> QED
      BY <1>0, <3>2, <3>3
  <2>2. pc \in {"increment", "flush_read"}
    OBVIOUS
  <2>3. ASSUME pc = "flush_read" PROVE next[s] <= now
    <3>1. row.last \in Nat /\ (next[s] > 0 => next[s] <= row.last + Cooldown)
      BY <1>0, <1>1, <1>2, <1>5, AloneFacts DEF Standing, Row
    <3>2. ~(Remaining(row) > 0)
      BY <2>3
    <3>3. row.last + Cooldown <= now
      BY <1>2, <3>1, <3>2 DEF Remaining
    <3> QED
      BY <1>2, <3>1, <3>3
  <2> HIDE DEF pc
  <2>4. Earned(p)' /\ Fresh(p)'
    BY <1>1, <1>2, <2>1, <2>2, <2>3 DEF Earned, Fresh, GrantPcs
  <2> QED
    BY <1>1, <2>4, StandingAgain, StepKeepsAlone
<1> QED
  BY <1>0, <1>3, <1>4, <1>5 DEF ReadRow

LEMMA IncrementAttemptsAlone ==
    ASSUME OneRequest, PatienceInv, AloneInv, NEW p \in Requests, IncrementAttempts(p)
    PROVE  AloneInv'
<1>0. PICK s \in Subjects : request[p].subject = s
  BY PatienceFacts DEF IncrementAttempts, At
<1>1. /\ ~At(p, "idle") /\ At(p, "increment")
      /\ now' = now /\ entry' = entry /\ next' = next /\ Goto(p, "start")
  BY DEF IncrementAttempts, At
<1>2. request'[p].pc = "start" /\ request'[p].subject = s
  BY <1>0, <1>1, GotoFields
<1> DEFINE saved == [request[p].row EXCEPT !.last = now]
<1>3. active' = [active EXCEPT ![s] =
           {r \in active[s] : r.id # request[p].row.id} \cup {saved}]
  BY <1>0 DEF IncrementAttempts
<1>4. saved.last = now
  BY <1>1, AloneFacts DEF Asking, Row
<1> HIDE DEF saved
<1>5. /\ active'[s] # {} /\ \A row \in active'[s] : row \in active[s] \/ row.last = now
      /\ \A t \in Subjects \ {s} : active'[t] = active[t]
  BY <1>0, <1>1, <1>3, <1>4, AloneFacts
<1>6. Standing(s)'
  BY <1>0, <1>1, <1>5, AloneFacts DEF Standing
<1>7. Earned(p)' /\ Fresh(p)'
  BY <1>0, <1>1, <1>2, AloneFacts DEF Earned, Fresh, GrantPcs, At
<1> QED
  BY <1>1, <1>5, <1>6, <1>7, StepKeepsAlone

LEMMA StartCooldownAlone ==
    ASSUME OneRequest, PatienceInv, AloneInv, NEW p \in Requests, StartCooldown(p)
    PROVE  AloneInv'
<1>0. PICK s \in Subjects : request[p].subject = s
  BY PatienceFacts DEF StartCooldown, At
<1>1. /\ ~At(p, "idle") /\ At(p, "start") /\ Goto(p, "store")
      /\ now' = now /\ entry' = entry /\ active' = active /\ next' = next
  BY DEF StartCooldown, At
<1>2. request'[p].pc = "store" /\ request'[p].subject = s
  BY <1>0, <1>1, GotoFields
<1>3. Earned(p)' /\ Fresh(p)'
  BY <1>0, <1>1, <1>2, AloneFacts DEF Earned, Fresh, GrantPcs, At
<1> QED
  BY <1>1, <1>3, StandingAgain, StepKeepsAlone

LEMMA StoreCooldownAlone ==
    ASSUME OneRequest, PatienceInv, AloneInv, NEW p \in Requests, StoreCooldown(p)
    PROVE  AloneInv'
<1>0. PICK s \in Subjects : request[p].subject = s
  BY PatienceFacts DEF StoreCooldown, At
<1>1. /\ ~At(p, "idle") /\ At(p, "store") /\ Goto(p, "announce")
      /\ now' = now /\ active' = active /\ next' = next
  BY DEF StoreCooldown, At
<1>2. request[p].wait > 0 /\ request[p].wait \in Nat
      /\ cache_key[WorkerOf[p]] = s /\ initial_ttl[WorkerOf[p]] = request[p].wait
  BY <1>0, <1>1, AloneFacts DEF OwnKey, OwnWait, At, Asking
<1>3. entry' = [entry EXCEPT ![s] = Stored(request[p].wait, request[p].wait)]
  BY <1>2 DEF StoreCooldown
<1>4. request'[p].pc = "announce"
  BY <1>1, GotoFields
<1>5. /\ entry'[s].remaining = request[p].wait
      /\ \A t \in Subjects \ {s} :
           entry'[t] = entry[t] /\ active'[t] = active[t] /\ next'[t] = next[t]
  BY <1>1, <1>2, <1>3, AloneFacts DEF Stored
<1>6. Standing(s)'
  BY <1>0, <1>1, <1>2, <1>5, AloneFacts DEF Standing
<1>7. Earned(p)' /\ Fresh(p)'
  BY <1>4 DEF Earned, Fresh, GrantPcs
<1> QED
  BY <1>1, <1>5, <1>6, <1>7, StepKeepsAlone

LEMMA AnnounceCooldownAlone ==
    ASSUME OneRequest, PatienceInv, AloneInv, NEW p \in Requests, AnnounceCooldown(p)
    PROVE  AloneInv'
<1>0. PICK s \in Subjects : request[p].subject = s
  BY PatienceFacts DEF AnnounceCooldown, At
<1>1. /\ ~At(p, "idle") /\ End(p)
      /\ now' = now /\ entry' = entry /\ active' = active /\ next' = next
  BY DEF AnnounceCooldown, Refuse, At
<1>2. request'[p] = Idle
  BY <1>1, EndFields
<1>3. Earned(p)' /\ Fresh(p)'
  BY <1>2 DEF Earned, Fresh, GrantPcs, Idle
<1> QED
  BY <1>1, <1>3, StandingAgain, StepKeepsAlone

LEMMA FlushReadAlone ==
    ASSUME OneRequest, PatienceInv, AloneInv, NEW p \in Requests, FlushRead(p)
    PROVE  AloneInv'
<1>0. PICK s \in Subjects : request[p].subject = s
  BY PatienceFacts DEF FlushRead, At
<1>1. /\ ~At(p, "idle") /\ At(p, "flush_read")
      /\ now' = now /\ entry' = entry /\ active' = active /\ next' = next
  BY DEF FlushRead, At
<1>2. request'[p].pc = "flush_write" /\ request'[p].subject = s
  BY <1>0, <1>1, AloneFacts DEF FlushRead, Asking
<1>3. Earned(p)' /\ Fresh(p)'
  BY <1>0, <1>1, <1>2, AloneFacts DEF Earned, Fresh, GrantPcs, At
<1> QED
  BY <1>1, <1>3, StandingAgain, StepKeepsAlone

LEMMA FlushWriteAlone ==
    ASSUME OneRequest, PatienceInv, AloneInv, NEW p \in Requests, FlushWrite(p)
    PROVE  AloneInv'
<1>0. PICK s \in Subjects : request[p].subject = s
  BY PatienceFacts DEF FlushWrite, At
<1>1. /\ ~At(p, "idle") /\ At(p, "flush_write")
      /\ now' = now /\ entry' = entry /\ next' = next
  BY DEF FlushWrite, At
<1>2. PICK pc \in {"granted", "flush_delete"} : Goto(p, pc)
  BY DEF FlushWrite, Grant
<1>3. request'[p].pc = pc /\ request'[p].subject = s
  BY <1>0, <1>1, <1>2, GotoFields
<1> DEFINE Flush(r) == IF r.id = request[p].row.id THEN Flushed(r) ELSE r
<1>4. active' = active \/ active' = [active EXCEPT ![s] = {Flush(r) : r \in active[s]}]
  BY <1>0 DEF FlushWrite
<1>5. ASSUME NEW r \in active[s] PROVE Flush(r) = r \/ Flush(r).last = now
  <2>1. r \in Row
    BY <1>0, <1>1, AloneFacts
  <2> QED
    BY <2>1 DEF Flushed, Row
<1> HIDE DEF Flush
<1>6. /\ active[s] # {} => active'[s] # {}
      /\ \A row \in active'[s] : row \in active[s] \/ row.last = now
      /\ \A t \in Subjects \ {s} : active'[t] = active[t]
  <2>1. active \in [Subjects -> SUBSET Row] /\ s \in Subjects
    BY <1>0, <1>1, AloneFacts
  <2>2. CASE active' = active
    BY <2>2
  <2>3. CASE active' = [active EXCEPT ![s] = {Flush(r) : r \in active[s]}]
    <3>1. active'[s] = {Flush(r) : r \in active[s]}
          /\ \A t \in Subjects \ {s} : active'[t] = active[t]
      BY <2>1, <2>3
    <3>2. \A row \in active'[s] : row \in active[s] \/ row.last = now
      BY <1>5, <3>1
    <3>3. active[s] # {} => active'[s] # {}
      BY <3>1
    <3> QED
      BY <3>1, <3>2, <3>3
  <2> QED
    BY <1>4, <2>2, <2>3
<1>7. Standing(s)'
  BY <1>0, <1>1, <1>6, AloneFacts DEF Standing
<1>8. Earned(p)' /\ Fresh(p)'
  BY <1>0, <1>1, <1>3, AloneFacts DEF Earned, Fresh, GrantPcs, At
<1> QED
  BY <1>1, <1>6, <1>7, <1>8, StepKeepsAlone

LEMMA FlushDeleteAlone ==
    ASSUME OneRequest, PatienceInv, AloneInv, NEW p \in Requests, FlushDelete(p)
    PROVE  AloneInv'
<1>0. PICK s \in Subjects : request[p].subject = s
  BY PatienceFacts DEF FlushDelete, At
<1>1. /\ ~At(p, "idle") /\ At(p, "flush_delete") /\ now' = now
      /\ active' = active /\ next' = next /\ entry' = [entry EXCEPT ![s] = NoEntry]
  BY <1>0 DEF FlushDelete, At
<1>2. request'[p].pc = "granted" /\ request'[p].subject = s
  BY <1>0, <1>1, GotoFields DEF FlushDelete, Grant
<1>3. /\ entry'[s] = NoEntry
      /\ \A t \in Subjects \ {s} :
           entry'[t] = entry[t] /\ active'[t] = active[t] /\ next'[t] = next[t]
  BY <1>1, AloneFacts
<1>4. Standing(s)'
  BY <1>0, <1>1, <1>3, AloneFacts DEF Standing
<1>5. Earned(p)' /\ Fresh(p)'
  BY <1>0, <1>1, <1>2, AloneFacts DEF Earned, Fresh, GrantPcs, At
<1> QED
  BY <1>1, <1>3, <1>4, <1>5, StepKeepsAlone

LEMMA RegenerateAlone ==
    ASSUME OneRequest, PatienceInv, AloneInv, NEW p \in Requests, Regenerate(p)
    PROVE  AloneInv'
<1>0. PICK s \in Subjects : request[p].subject = s
  BY PatienceFacts DEF Regenerate, At
<1>1. /\ ~At(p, "idle") /\ now' = now /\ entry' = entry /\ End(p)
      /\ active' = [active EXCEPT ![s] = {NewRow(s)}]
      /\ next' = [next EXCEPT ![s] = now + Cooldown]
  BY <1>0 DEF Regenerate, At
<1>2. request'[p] = Idle
  BY <1>1, EndFields
<1>3. /\ active'[s] = {NewRow(s)} /\ NewRow(s).last = now /\ next'[s] = now + Cooldown
      /\ \A t \in Subjects \ {s} :
           entry'[t] = entry[t] /\ active'[t] = active[t] /\ next'[t] = next[t]
  BY <1>1, AloneFacts DEF NewRow
<1>4. Standing(s)'
  BY <1>0, <1>1, <1>3, AloneFacts DEF Standing
<1>5. Earned(p)' /\ Fresh(p)'
  BY <1>2 DEF Earned, Fresh, GrantPcs, Idle
<1> QED
  BY <1>1, <1>3, <1>4, <1>5, StepKeepsAlone

LEMMA CrashAlone ==
    ASSUME OneRequest, PatienceInv, AloneInv, NEW p \in Requests, Crash(p)
    PROVE  AloneInv'
<1>0. PICK s \in Subjects : request[p].subject = s
  BY PatienceFacts DEF Crash
<1>1. /\ ~At(p, "idle") /\ End(p)
      /\ now' = now /\ entry' = entry /\ active' = active /\ next' = next
  BY DEF Crash
<1>2. request'[p] = Idle
  BY <1>1, EndFields
<1>3. Earned(p)' /\ Fresh(p)'
  BY <1>2 DEF Earned, Fresh, GrantPcs, Idle
<1> QED
  BY <1>1, <1>3, StandingAgain, StepKeepsAlone

\* Asking, generating and discarding are for who has no request under way.
LEMMA IdleAlone ==
    ASSUME OneRequest, PatienceInv, AloneInv, NEW p \in Requests, NEW s \in Subjects,
           Ask(p, s) \/ Generate(p, s) \/ Discard(p, s)
    PROVE  AloneInv'
<1>1. /\ At(p, "idle") /\ now' = now /\ entry' = entry /\ now \in Nat /\ Cooldown \in Nat
      /\ active \in [Subjects -> SUBSET Row] /\ next \in [Subjects -> Nat] /\ Standing(s)
  BY GuardAssumption DEF PatienceInv, GuardInv, TypeOK, AloneInv, Ask, Generate, Discard
<1>2. request'[p].pc \in {"idle", "check"}
  <2>1. CASE Ask(p, s)
    <3>1. PICK patient, obeyed :
            request' = [Joined(s) EXCEPT ![p] = Starting(s, patient, obeyed)]
      BY <2>1 DEF Ask
    <3>2. p \in DOMAIN Joined(s)
      BY DEF Joined
    <3> QED
      BY <3>1, <3>2 DEF Starting, Idle
  <2>2. CASE Generate(p, s)
    BY <1>1, <2>2, JoinedFields DEF Generate, At, PatienceInv, GuardInv
  <2>3. CASE Discard(p, s)
    BY <1>1, <2>3 DEF Discard, At
  <2> QED
    BY <2>1, <2>2, <2>3
<1>3. Earned(p)' /\ Fresh(p)'
  BY <1>2 DEF Earned, Fresh, GrantPcs
<1>4. /\ Standing(s)'
      /\ \A t \in Subjects \ {s} :
           entry'[t] = entry[t] /\ active'[t] = active[t] /\ next'[t] = next[t]
  <2>1. CASE Ask(p, s)
    BY <1>1, <2>1 DEF Ask, Standing
  <2>2. CASE Generate(p, s)
    <3>1. active'[s] = {NewRow(s)} /\ NewRow(s).last = now /\ next' = next
          /\ \A t \in Subjects \ {s} : active'[t] = active[t]
      BY <1>1, <2>2 DEF Generate, NewRow
    <3> QED
      BY <1>1, <3>1 DEF Standing
  <2>3. CASE Discard(p, s)
    <3>1. next'[s] = 0
          /\ \A t \in Subjects \ {s} : active'[t] = active[t] /\ next'[t] = next[t]
      BY <1>1, <2>3 DEF Discard
    <3> QED
      BY <1>1, <3>1 DEF Standing
  <2> QED
    BY <2>1, <2>2, <2>3
<1> QED
  BY <1>1, <1>3, <1>4, StepKeepsAlone

LEMMA TickAlone ==
    ASSUME PatienceInv, AloneInv, Tick
    PROVE  AloneInv'
<1>1. /\ now' = now + 1 /\ active' = active /\ request' = request /\ next' = next
      /\ now \in Nat /\ Cooldown \in Nat /\ next \in [Subjects -> Nat]
      /\ \A t \in Subjects : entry'[t] = NoEntry \/ entry'[t] = entry[t]
  BY GuardAssumption DEF Tick, PatienceInv, GuardInv, TypeOK
<1>2. ASSUME NEW t \in Subjects PROVE Standing(t)'
  <2>1. Standing(t) /\ next[t] \in Nat
    BY <1>1 DEF AloneInv
  <2> QED
    BY <1>1, <2>1 DEF Standing
<1>3. ASSUME NEW q \in Requests PROVE Earned(q)' /\ Fresh(q)'
  <2>1. Earned(q) /\ Fresh(q)
    BY DEF AloneInv
  <2>2. CASE request[q].pc = "idle"
    BY <1>1, <2>2 DEF Earned, Fresh, GrantPcs
  <2>3. CASE request[q].pc # "idle"
    <3>1. request[q].subject \in Subjects
      BY <2>3, PatienceFacts DEF At
    <3>2. Earned(q)'
      BY <1>1, <2>1, <3>1 DEF Earned
    <3>3. Fresh(q)'
      BY <1>1, <2>1, <3>1 DEF Fresh
    <3> QED
      BY <3>2, <3>3
  <2> QED
    BY <2>2, <2>3
<1> QED
  BY <1>2, <1>3 DEF AloneInv

LEMMA InitAlone == GuardInit => AloneInv
<1> SUFFICES ASSUME GuardInit PROVE AloneInv
  OBVIOUS
<1>1. ASSUME NEW s \in Subjects PROVE Standing(s)
  BY GuardAssumption DEF GuardInit, Standing
<1>2. ASSUME NEW p \in Requests PROVE Earned(p) /\ Fresh(p)
  BY DEF GuardInit, Earned, Fresh, Idle, GrantPcs
<1> QED
  BY <1>1, <1>2 DEF AloneInv

LEMMA NextAlone ==
    ASSUME OneRequest, PatienceInv, AloneInv, [Next]_guardVars
    PROVE  AloneInv'
<1>1. CASE UNCHANGED guardVars
  BY <1>1 DEF guardVars, AloneInv, Standing, Earned, Fresh
<1>2. CASE Tick
  BY <1>2, TickAlone
<1>3. ASSUME NEW p \in Requests, NEW s \in Subjects,
             Ask(p, s) \/ Generate(p, s) \/ Discard(p, s)
      PROVE  AloneInv'
  BY <1>3, IdleAlone
<1>4. ASSUME NEW p \in Requests, GuardStep(p) \/ Regenerate(p) \/ Crash(p)
      PROVE  AloneInv'
  BY <1>4, CheckCooldownAlone, UpdateReadAlone, UpdateWriteAlone, ReadRowAlone,
     IncrementAttemptsAlone, StartCooldownAlone, StoreCooldownAlone, AnnounceCooldownAlone,
     FlushReadAlone, FlushWriteAlone, FlushDeleteAlone, RegenerateAlone, CrashAlone
     DEF GuardStep
<1> QED
  BY <1>1, <1>2, <1>3, <1>4 DEF Next

LEMMA OneRequestOwnManagers == OneRequest => OwnManagers
  BY DEF OneRequest, OwnManagers

\* While requests come one at a time, rows are as young as the last regeneration says,
\* and what the request has read of the cache can only have expired since.
THEOREM AloneInvariance == OneRequest => (Spec => []AloneInv)
<1> SUFFICES ASSUME OneRequest PROVE Spec => []AloneInv
  OBVIOUS
<1>1. GuardInit => PatienceInv /\ AloneInv
  BY InitPatience, InitAlone
<1>2. PatienceInv /\ AloneInv /\ [Next]_guardVars => (PatienceInv /\ AloneInv)'
  BY OneRequestOwnManagers, NextPatient, NextAlone
<1> QED
  BY <1>1, <1>2, PTL DEF Spec

\* Nobody regenerates their codes within cooldown_seconds of the last time, unless they
\* have discarded them, wherever workers die, while requests come one at a time.
THEOREM RegenerationsAreSpaced == OneRequest => (Spec => RegenerationsSpaced)
<1> SUFFICES ASSUME OneRequest PROVE Spec => RegenerationsSpaced
  OBVIOUS
<1> DEFINE Spaced == \A p \in Requests :
             At(p, "granted") /\ request'[p] # request[p] /\ issued' # issued
                 => now >= next[request[p].subject]
<1>1. GuardInv /\ AloneInv /\ [Next]_guardVars => [Spaced]_guardVars
  <2> SUFFICES ASSUME GuardInv, AloneInv, NEW p \in Requests, At(p, "granted")
               PROVE  now >= next[request[p].subject]
    OBVIOUS
  <2>1. request[p].subject \in Subjects
    BY DEF GuardInv, MemoryBounded, At
  <2>2. next[request[p].subject] <= now
    BY DEF AloneInv, Earned, At, GrantPcs
  <2> QED
    BY <2>1, <2>2 DEF GuardInv, TypeOK
<1> QED
  BY <1>1, AloneInvariance, GuardInvariance, PTL DEF Spec, RegenerationsSpaced

\* Asking again while a cooldown is cached never makes it shorter, if no cooldown of a
\* row is longer than the cutoff, while requests come one at a time.
THEOREM PenaltiesGrow == OneRequest /\ Cooldown <= Cutoff => (Spec => PenaltyGrows)
<1> SUFFICES ASSUME OneRequest, Cooldown <= Cutoff PROVE Spec => PenaltyGrows
  OBVIOUS
<1> DEFINE Grows == \A s \in Subjects :
             entry[s] # NoEntry /\ entry'[s] # NoEntry
                 => entry'[s].remaining >= entry[s].remaining
<1>1. GuardInit => PatienceInv /\ AloneInv
  BY InitPatience, InitAlone
<1>2. PatienceInv /\ AloneInv /\ [Next]_guardVars => (PatienceInv /\ AloneInv)'
  BY OneRequestOwnManagers, NextPatient, NextAlone
<1>3. PatienceInv /\ AloneInv /\ [Next]_guardVars => [Grows]_guardVars
  <2> SUFFICES ASSUME PatienceInv, AloneInv, Next, NEW s \in Subjects,
                      entry[s] # NoEntry, entry'[s] # NoEntry
               PROVE  entry'[s].remaining >= entry[s].remaining
    OBVIOUS
  <2>1. entry \in [Subjects -> Entry]
    BY DEF PatienceInv, GuardInv, TypeOK
  <2>2. entry'[s] = entry[s] => entry'[s].remaining >= entry[s].remaining
    BY <2>1 DEF Entry
  <2>3. CASE Tick
    BY <2>1, <2>2, <2>3 DEF Tick
  <2>4. ASSUME NEW p \in Requests, UpdateWrite(p)
        PROVE  entry'[s].remaining >= entry[s].remaining
    <3>1. CASE request[p].subject = s
      BY <2>4, <3>1, UpdateRaises
    <3>2. CASE request[p].subject # s
      <4>1. ~At(p, "idle") /\ At(p, "update_write")
        BY <2>4 DEF UpdateWrite, At
      <4>2. cache_key[WorkerOf[p]] # s
        BY <3>2, <4>1, AloneFacts DEF OwnKey, At
      <4>3. entry'[s] = entry[s]
        BY <2>1, <2>4, <4>2 DEF UpdateWrite
      <4> QED
        BY <2>2, <4>3
    <3> QED
      BY <3>1, <3>2
  <2>5. ASSUME NEW p \in Requests, StoreCooldown(p)
        PROVE  entry'[s].remaining >= entry[s].remaining
    <3>1. ~At(p, "idle") /\ At(p, "store")
      BY <2>5 DEF StoreCooldown, At
    <3>2. cache_key[WorkerOf[p]] # s
      BY <3>1, AloneFacts DEF Fresh, OwnKey, At
    <3>3. entry'[s] = entry[s]
      BY <2>1, <2>5, <3>2 DEF StoreCooldown
    <3> QED
      BY <2>2, <3>3
  <2>6. ASSUME NEW p \in Requests, FlushDelete(p)
        PROVE  entry'[s].remaining >= entry[s].remaining
    BY <2>1, <2>2, <2>6 DEF FlushDelete
  <2>7. \/ Tick
        \/ \E p \in Requests : UpdateWrite(p) \/ StoreCooldown(p) \/ FlushDelete(p)
        \/ entry' = entry
    BY DEF Next, GuardStep, Ask, Generate, Discard, CheckCooldown, UpdateRead, ReadRow,
           IncrementAttempts, StartCooldown, AnnounceCooldown, FlushRead, FlushWrite,
           Regenerate, Crash
  <2> QED
    BY <2>2, <2>3, <2>4, <2>5, <2>6, <2>7
<1> QED
  BY <1>1, <1>2, <1>3, PTL DEF Spec, PenaltyGrows
=============================================================================
