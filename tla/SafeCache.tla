------------------------------ MODULE SafeCache ------------------------------
(***************************************************************************)
(* utils/cache/safe_cache.py: one key of the cache and its lock.            *)
(*                                                                         *)
(* get_cache_or_set computes a missing value under the lock; a caller that  *)
(* does not get the lock returns None.  The lock is an entry that expires,  *)
(* and that whoever has put one there deletes.  set_cache and the           *)
(* operations with retries are one step: they take the lock for a single    *)
(* access, and make it whether they get the lock or not.                    *)
(***************************************************************************)
EXTENDS Naturals, FiniteSets

CONSTANTS Callers,      \* who may be in get_cache_or_set
          Values,       \* what may be cached
          MaxExpiries   \* bound: how often the lock may expire

ASSUME CacheAssumption == IsFiniteSet(Callers) /\ MaxExpiries \in Nat

VARIABLES entry,      \* what the key holds: {} or {value}
          lock,       \* is there a <key>_lock entry?
          call,       \* get_cache_or_set of each caller
          expiries    \* history: how often the lock has expired

cacheVars == <<entry, lock, call, expiries>>

CallPcs == {"none", "lookup", "acquire", "recheck", "compute", "fill",
            "release", "returned"}

Call == [pc: CallPcs, value: SUBSET Values]
\* What value_or_func comes to: a value, or nothing when it raises.
Results == {{}} \cup {{v} : v \in Values}

NoCall == [pc |-> "none", value |-> {}]
Calling == [pc |-> "lookup", value |-> {}]

CallAt(c, pc) == call[c].pc = pc
CallTo(c, pc, value) == call' = [call EXCEPT ![c] = [pc |-> pc, value |-> value]]

\* The callers that have been given the lock, and have not given it back.
Holders == {c \in Callers : call[c].pc \in {"recheck", "compute", "fill", "release"}}

CacheInit ==
    /\ entry = {}
    /\ lock = FALSE
    /\ call = [c \in Callers |-> NoCall]
    /\ expiries = 0

EnterCall(c) ==
    /\ CallAt(c, "none")
    /\ CallTo(c, "lookup", {})
    /\ UNCHANGED <<entry, lock, expiries>>

\* cache.get(key), before the lock.
Lookup(c) ==
    /\ CallAt(c, "lookup")
    /\ CallTo(c, IF entry = {} THEN "acquire" ELSE "returned", entry)
    /\ UNCHANGED <<entry, lock, expiries>>

\* Mutant: the lock is looked at, and not taken.
AcquireUnlocked(c) ==
    /\ CallAt(c, "acquire")
    /\ CallTo(c, IF lock THEN "returned" ELSE "recheck", {})
    /\ UNCHANGED <<entry, lock, expiries>>

\* cache.add(lock_key, ...): the loser neither waits nor computes, and gets None.
Acquire(c) ==
    /\ CallAt(c, "acquire")
    /\ lock' = TRUE
    /\ CallTo(c, IF lock THEN "returned" ELSE "recheck", {})
    /\ UNCHANGED <<entry, expiries>>

\* Somebody else has the lock for the moment of one access.
AcquireBusy(c) ==
    /\ CallAt(c, "acquire")
    /\ CallTo(c, "returned", {})
    /\ UNCHANGED <<entry, lock, expiries>>

\* cache.get(key) once more, under the lock.
Recheck(c) ==
    /\ CallAt(c, "recheck")
    /\ CallTo(c, IF entry = {} THEN "compute" ELSE "release", entry)
    /\ UNCHANGED <<entry, lock, expiries>>

\* value_or_func().  When it raises, the lock is given back all the same.
Compute(c, value) ==
    /\ CallAt(c, "compute")
    /\ CallTo(c, IF value = {} THEN "release" ELSE "fill", value)
    /\ UNCHANGED <<entry, lock, expiries>>

Fill(c) ==
    /\ CallAt(c, "fill")
    /\ entry' = call[c].value
    /\ CallTo(c, "release", call[c].value)
    /\ UNCHANGED <<lock, expiries>>

\* The lock entry is deleted, whoever has put it there.
Release(c) ==
    /\ CallAt(c, "release")
    /\ lock' = FALSE
    /\ CallTo(c, "returned", call[c].value)
    /\ UNCHANGED <<entry, expiries>>

LeaveCall(c) == call' = [call EXCEPT ![c] = NoCall]

\* set_cache, set_cache_with_retry
Put(value) == entry' = {value} /\ UNCHANGED <<lock, call, expiries>>

\* A caller dies: its lock stays, and so does the one of an access it was making.
CallerDies(c) ==
    /\ LeaveCall(c)
    /\ lock' \in {lock, TRUE}
    /\ UNCHANGED <<entry, expiries>>

\* The lock expires, also under a slow holder.
LockExpires ==
    /\ lock
    /\ expiries < MaxExpiries
    /\ lock' = FALSE
    /\ expiries' = expiries + 1
    /\ UNCHANGED <<entry, call>>

\* The time to live of the entry is over.
EntryExpires ==
    /\ entry # {}
    /\ entry' = {}
    /\ UNCHANGED <<lock, call, expiries>>

\* What get_cache_or_set does without asking the caller for the value.
CacheStep(c) == Lookup(c) \/ Acquire(c) \/ Recheck(c) \/ Fill(c) \/ Release(c)

\* The cache by itself, whatever its callers compute and put.
CacheNext ==
    \/ \E c \in Callers :
         \/ EnterCall(c) \/ CacheStep(c) \/ AcquireBusy(c) \/ CallerDies(c)
         \/ \E value \in Results : Compute(c, value)
         \/ CallAt(c, "returned") /\ LeaveCall(c) /\ UNCHANGED <<entry, lock, expiries>>
    \/ \E value \in Values : Put(value)
    \/ LockExpires
    \/ EntryExpires

CacheSpec == CacheInit /\ [][CacheNext]_cacheVars
-----------------------------------------------------------------------------
CacheTypeOK ==
    /\ entry \in SUBSET Values
    /\ lock \in BOOLEAN
    /\ call \in [Callers -> Call]
    /\ expiries \in 0 .. MaxExpiries

\* However the lock expires under its holders, and however late these delete the
\* lock of others: there is never more than one holder beyond the number of times
\* that the lock has expired, and without an expiry none while it is free.
LockHoldersBounded == Cardinality(Holders) <= (IF lock THEN 1 ELSE 0) + expiries
=============================================================================
