---------------------------- MODULE SafeCacheProofs ----------------------------
(* Proofs about SafeCache, for every number of callers, values and expiries. *)
EXTENDS SafeCache, FiniteSetTheorems, TLAPS

CacheInv == CacheTypeOK /\ LockHoldersBounded

\* The holders are finitely many.
LEMMA HoldersFinite == IsFiniteSet(Holders) /\ Cardinality(Holders) \in Nat
<1>1. Holders \in SUBSET Callers
  BY DEF Holders
<1>2. IsFiniteSet(Holders)
  BY <1>1, FS_Subset, CacheAssumption
<1> QED
  BY <1>2, FS_CardinalityType

LEMMA InitCacheInv == CacheInit => CacheInv
<1> SUFFICES ASSUME CacheInit PROVE CacheInv
  OBVIOUS
<1>1. CacheTypeOK
  <2>1. NoCall \in Call
    BY DEF NoCall, Call, CallPcs
  <2>2. call \in [Callers -> Call] /\ entry \in SUBSET Values
    BY <2>1 DEF CacheInit
  <2>3. lock \in BOOLEAN
    BY ZenonT(20) DEF CacheInit
  <2>4. expiries \in 0 .. MaxExpiries
    BY CacheAssumption DEF CacheInit
  <2> QED
    BY <2>2, <2>3, <2>4 DEF CacheTypeOK
<1>2. Holders = {}
  BY DEF CacheInit, Holders, NoCall
<1>3. LockHoldersBounded
  BY <1>2, FS_EmptySet DEF CacheInit, LockHoldersBounded
<1> QED
  BY <1>1, <1>3 DEF CacheInv
-----------------------------------------------------------------------------
(***************************************************************************)
(* Steps of one caller, by what they do to the set of holders.              *)
(***************************************************************************)

\* A caller that goes to another place is a holder or not by where it is now.
LEMMA HoldersMove ==
    ASSUME CacheTypeOK, NEW c \in Callers, NEW pc, NEW value, CallTo(c, pc, value)
    PROVE  Holders' = IF pc \in {"recheck", "compute", "fill", "release"}
                      THEN Holders \cup {c} ELSE Holders \ {c}
  BY DEF CacheTypeOK, CallTo, Holders

LEMMA HoldersLeave ==
    ASSUME CacheTypeOK, NEW c \in Callers, LeaveCall(c)
    PROVE  Holders' = Holders \ {c}
  BY DEF CacheTypeOK, LeaveCall, Holders, NoCall

\* With fewer holders, or as many, and as much to account for them, the bound is kept.
LEMMA FewerHolders ==
    ASSUME CacheInv, Holders' \subseteq Holders, UNCHANGED <<lock, expiries>>
    PROVE  LockHoldersBounded'
<1>1. IsFiniteSet(Holders)
  BY HoldersFinite
<1>2. IsFiniteSet(Holders') /\ Cardinality(Holders') <= Cardinality(Holders)
  BY <1>1, FS_Subset
<1>3. Cardinality(Holders') \in Nat /\ Cardinality(Holders) \in Nat
  BY <1>1, <1>2, FS_CardinalityType
<1> QED
  BY <1>2, <1>3 DEF CacheInv, LockHoldersBounded, CacheTypeOK

\* Whoever takes the lock while it is free is one more, and so is what accounts for it.
LEMMA AcquireBounded ==
    ASSUME CacheInv, NEW c \in Callers, Acquire(c)
    PROVE  LockHoldersBounded'
<1>1. CASE lock
  <2>1. Holders' = Holders \ {c}
    BY <1>1, HoldersMove DEF Acquire, CacheInv
  <2> QED
    BY <1>1, <2>1, FewerHolders DEF Acquire
<1>2. CASE ~lock
  <2>1. Holders' = Holders \cup {c}
    BY <1>2, HoldersMove DEF Acquire, CacheInv
  <2>2. Cardinality(Holders') \in Nat /\ Cardinality(Holders') <= Cardinality(Holders) + 1
    BY <2>1, HoldersFinite, FS_AddElement
  <2>3. lock' = TRUE /\ expiries' = expiries
    BY DEF Acquire
  <2> QED
    BY <1>2, <2>2, <2>3, HoldersFinite DEF CacheInv, CacheTypeOK, LockHoldersBounded
<1> QED
  BY <1>1, <1>2

\* Whoever releases is one less, if the lock it deletes was there: its own or another's.
LEMMA ReleaseBounded ==
    ASSUME CacheInv, NEW c \in Callers, Release(c)
    PROVE  LockHoldersBounded'
<1>1. Holders' = Holders \ {c}
  BY HoldersMove DEF Release, CacheInv
<1>2. c \in Holders
  BY DEF Release, CallAt, Holders
<1>3. Cardinality(Holders') = Cardinality(Holders) - 1
  BY <1>1, <1>2, HoldersFinite, FS_RemoveElement
<1>4. lock' = FALSE /\ expiries' = expiries
  BY DEF Release
<1> QED
  BY <1>3, <1>4, HoldersFinite DEF CacheInv, CacheTypeOK, LockHoldersBounded

\* A lock that expires, or stays behind, accounts for no fewer holders.
LEMMA LockChanges ==
    ASSUME CacheInv, Holders' \subseteq Holders, lock' \in BOOLEAN,
           \/ lock' = TRUE /\ expiries' = expiries
           \/ lock' = FALSE /\ expiries' = expiries + 1
    PROVE  LockHoldersBounded'
<1>1. IsFiniteSet(Holders)
  BY HoldersFinite
<1>2. IsFiniteSet(Holders') /\ Cardinality(Holders') <= Cardinality(Holders)
  BY <1>1, FS_Subset
<1>3. Cardinality(Holders') \in Nat /\ Cardinality(Holders) \in Nat
  BY <1>1, <1>2, FS_CardinalityType
<1> QED
  BY <1>2, <1>3 DEF CacheInv, LockHoldersBounded, CacheTypeOK
-----------------------------------------------------------------------------
LEMMA NextCacheType == CacheTypeOK /\ [CacheNext]_cacheVars => CacheTypeOK'
<1> SUFFICES ASSUME CacheTypeOK, [CacheNext]_cacheVars PROVE CacheTypeOK'
  OBVIOUS
<1> USE DEF CacheTypeOK, Call, CallPcs
<1>1. ASSUME NEW c \in Callers, EnterCall(c) \/ Lookup(c) PROVE CacheTypeOK'
  BY <1>1 DEF EnterCall, Lookup, CallTo
<1>2. ASSUME NEW c \in Callers, Acquire(c) \/ AcquireBusy(c) PROVE CacheTypeOK'
  <2>1. CASE Acquire(c)
    <3>1. call' \in [Callers -> Call] /\ entry' \in SUBSET Values
      BY <2>1 DEF Acquire, CallTo
    <3>2. lock' \in BOOLEAN
      BY <2>1, Zenon DEF Acquire
    <3>3. expiries' \in 0 .. MaxExpiries
      BY <2>1 DEF Acquire
    <3> QED
      BY <3>1, <3>2, <3>3
  <2>2. CASE AcquireBusy(c)
    BY <2>2 DEF AcquireBusy, CallTo
  <2> QED
    BY <1>2, <2>1, <2>2
<1>3. ASSUME NEW c \in Callers, Recheck(c) PROVE CacheTypeOK'
  BY <1>3 DEF Recheck, CallTo
<1>4. ASSUME NEW c \in Callers, NEW value \in Results, Compute(c, value)
      PROVE CacheTypeOK'
  <2>1. value \in SUBSET Values
    BY DEF Results
  <2> QED
    BY <1>4, <2>1 DEF Compute, CallTo
<1>5. ASSUME NEW c \in Callers, Fill(c) \/ Release(c) PROVE CacheTypeOK'
  <2>1. CASE Fill(c)
    BY <2>1 DEF Fill, CallTo
  <2>2. CASE Release(c)
    <3>1. call' \in [Callers -> Call] /\ entry' \in SUBSET Values
      BY <2>2 DEF Release, CallTo
    <3>2. lock' \in BOOLEAN
      BY <2>2, Zenon DEF Release
    <3>3. expiries' \in 0 .. MaxExpiries
      BY <2>2 DEF Release
    <3> QED
      BY <3>1, <3>2, <3>3
  <2> QED
    BY <1>5, <2>1, <2>2
<1>6. ASSUME NEW c \in Callers, CallerDies(c) PROVE CacheTypeOK'
  BY <1>6 DEF CallerDies, LeaveCall, NoCall
<1>7. ASSUME NEW c \in Callers, LeaveCall(c), UNCHANGED <<entry, lock, expiries>>
      PROVE CacheTypeOK'
  BY <1>7 DEF LeaveCall, NoCall
<1>8. ASSUME NEW value \in Values, Put(value) PROVE CacheTypeOK'
  BY <1>8 DEF Put
<1>9. CASE LockExpires \/ EntryExpires
  <2>1. CASE LockExpires
    <3>1. lock' \in BOOLEAN
      BY <2>1, Zenon DEF LockExpires
    <3>2. entry' = entry /\ call' = call /\ expiries' \in 0 .. MaxExpiries
      BY <2>1, CacheAssumption DEF LockExpires
    <3> QED
      BY <3>1, <3>2
  <2>2. CASE EntryExpires
    BY <2>2 DEF EntryExpires
  <2> QED
    BY <1>9, <2>1, <2>2
<1>10. CASE UNCHANGED cacheVars
  BY <1>10 DEF cacheVars
<1> QED
  BY <1>1, <1>2, <1>3, <1>4, <1>5, <1>6, <1>7, <1>8, <1>9, <1>10
     DEF CacheNext, CacheStep

LEMMA NextHolders == CacheInv /\ [CacheNext]_cacheVars => LockHoldersBounded'
<1> SUFFICES ASSUME CacheInv, [CacheNext]_cacheVars PROVE LockHoldersBounded'
  OBVIOUS
<1>0. CacheTypeOK
  BY DEF CacheInv
<1>1. ASSUME NEW c \in Callers, EnterCall(c) \/ Lookup(c) \/ AcquireBusy(c)
      PROVE LockHoldersBounded'
  <2>1. Holders' = Holders \ {c}
    BY <1>0, <1>1, HoldersMove DEF EnterCall, Lookup, AcquireBusy
  <2> QED
    BY <1>1, <2>1, FewerHolders DEF EnterCall, Lookup, AcquireBusy
<1>2. ASSUME NEW c \in Callers, Recheck(c) \/ Fill(c) PROVE LockHoldersBounded'
  <2>1. Holders' = Holders \cup {c}
    BY <1>0, <1>2, HoldersMove DEF Recheck, Fill
  <2>2. c \in Holders
    BY <1>2 DEF Recheck, Fill, CallAt, Holders
  <2> QED
    BY <1>2, <2>1, <2>2, FewerHolders DEF Recheck, Fill
<1>3. ASSUME NEW c \in Callers, NEW value \in Results, Compute(c, value)
      PROVE LockHoldersBounded'
  <2>1. Holders' = Holders \cup {c}
    BY <1>0, <1>3, HoldersMove DEF Compute
  <2>2. c \in Holders
    BY <1>3 DEF Compute, CallAt, Holders
  <2> QED
    BY <1>3, <2>1, <2>2, FewerHolders DEF Compute
<1>4. ASSUME NEW c \in Callers, Acquire(c) PROVE LockHoldersBounded'
  BY <1>4, AcquireBounded
<1>5. ASSUME NEW c \in Callers, Release(c) PROVE LockHoldersBounded'
  BY <1>5, ReleaseBounded
<1>6. ASSUME NEW c \in Callers, CallerDies(c) PROVE LockHoldersBounded'
  <2>1. Holders' \subseteq Holders
    BY <1>0, <1>6, HoldersLeave DEF CallerDies
  <2>2. CASE lock' = TRUE
    BY <1>6, <2>1, <2>2, LockChanges DEF CallerDies
  <2>3. CASE lock' = lock
    BY <1>6, <2>1, <2>3, FewerHolders DEF CallerDies
  <2> QED
    BY <1>6, <2>2, <2>3 DEF CallerDies
<1>7. ASSUME NEW c \in Callers, LeaveCall(c), UNCHANGED <<entry, lock, expiries>>
      PROVE LockHoldersBounded'
  BY <1>0, <1>7, HoldersLeave, FewerHolders
<1>8. CASE LockExpires
  BY <1>8, LockChanges DEF LockExpires, Holders
<1>9. CASE EntryExpires \/ (\E value \in Values : Put(value)) \/ UNCHANGED cacheVars
  BY <1>9, FewerHolders DEF EntryExpires, Put, cacheVars, Holders
<1> QED
  BY <1>1, <1>2, <1>3, <1>4, <1>5, <1>6, <1>7, <1>8, <1>9 DEF CacheNext, CacheStep

LEMMA CacheInvariant == CacheSpec => []CacheInv
<1>1. CacheInv /\ [CacheNext]_cacheVars => CacheInv'
  BY NextCacheType, NextHolders DEF CacheInv
<1> QED
  BY InitCacheInv, <1>1, PTL DEF CacheSpec

\* Type correctness of the cache.
THEOREM CacheTypeCorrect == CacheSpec => []CacheTypeOK
<1>1. CacheInv => CacheTypeOK
  BY DEF CacheInv
<1> QED
  BY CacheInvariant, <1>1, PTL

\* However many callers there are, and whoever deletes whose lock (cache_lock of
\* safe_cache.py deletes it whoever has put it there): holders beyond the one of the
\* lock entry are paid for by expiries.
THEOREM LockHoldersAreBounded == CacheSpec => []LockHoldersBounded
<1>1. CacheInv => LockHoldersBounded
  BY DEF CacheInv
<1> QED
  BY CacheInvariant, <1>1, PTL
=============================================================================
