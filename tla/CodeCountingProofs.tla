------------------------- MODULE CodeCountingProofs -------------------------
(* What is counted of a user's codes: the logins with the codes of a batch,  *)
(* however requests overlap, and all counters as long as they do not.        *)
EXTENDS CodeLifecycleProofs

-----------------------------------------------------------------------------
(* Sums over a finite set.  MapThenSumSet is a recursive function; that it is *)
(* one, and what it adds up to, is shown by the smallest counterexample.      *)

Below == {ij \in Nat \X Nat : ij[1] < ij[2]}

\* A set of natural numbers that is not empty has a least element.
LEMMA LeastNat ==
    ASSUME NEW T \in SUBSET Nat, T # {}
    PROVE  \E n \in T : \A m \in T : ~ (m < n)
<1>1. Below = OpToRel(<, Nat)
    BY DEF Below, OpToRel
<1>2. IsWellFoundedOn(Below, Nat)
    BY <1>1, NatLessThanWellFounded
<1>3. \E x \in T : \A y \in T : <<y, x>> \notin Below
    BY <1>2, WFMin, Zenon
<1> QED BY <1>3 DEF Below

\* A set of subsets of a finite set that is not empty has a minimal element.
LEMMA MinimalSubset ==
    ASSUME NEW S, IsFiniteSet(S), NEW F, F \subseteq SUBSET S, F # {}
    PROVE  \E T \in F : \A U \in F : U \subseteq T => U = T
<1>1. IsWellFoundedOn(StrictSubsetOrdering(S), SUBSET S)
    BY FS_FiniteSubsetsOfFinite, FS_StrictSubsetOrderingWellFounded
<1>2. \E T \in F : \A U \in F : <<U, T>> \notin StrictSubsetOrdering(S)
    BY <1>1, WFMin, Zenon
<1> QED BY <1>2 DEF StrictSubsetOrdering

\* The sum that MapThenSumSet stands for, written without operator parameters.
Pick(s) == CHOOSE x \in s : TRUE
Added(f, g, s) == IF s = {} THEN 0 ELSE f[Pick(s)] + g[s \ {Pick(s)}]
Sums(f, S) == CHOOSE g : g = [s \in SUBSET S |-> Added(f, g, s)]

LEMMA LoginsAdded == \A b : LoginsWith(b) = Sums(logins, CodesOf(b))[CodesOf(b)]
  BY DEF LoginsWith, MapThenSumSet, MapThenFoldSet, Sums, Added, Pick

LEMMA LoginsAddedNext == \A b : LoginsWith(b)' = Sums(logins', CodesOf(b))[CodesOf(b)]
  BY DEF LoginsWith, MapThenSumSet, MapThenFoldSet, Sums, Added, Pick, CodesOf

LEMMA LoginsUnchanged ==
    ASSUME UNCHANGED logins
    PROVE  \A b : LoginsWith(b)' = LoginsWith(b)
  BY LoginsAdded, LoginsAddedNext

LEMMA Picked ==
    ASSUME NEW s, s # {}
    PROVE  Pick(s) \in s
  BY DEF Pick

\* The recursive definition has a solution: one on the subsets of at most n elements
\* extends to those of n + 1.
LEMMA SumsEquation ==
    ASSUME NEW S, IsFiniteSet(S), NEW f
    PROVE  /\ Sums(f, S)[{}] = 0
           /\ \A s \in SUBSET S : s # {} =>
                 Sums(f, S)[s] = f[Pick(s)] + Sums(f, S)[s \ {Pick(s)}]
<1> DEFINE Dom(n) == {s \in SUBSET S : Cardinality(s) <= n}
           Good(n) == \E g : g = [s \in Dom(n) |-> Added(f, g, s)]
<1>1. ASSUME NEW n \in Nat, n = 0 \/ Good(n - 1)
      PROVE  Good(n)
    <2>1. CASE n = 0
        <3>1. \A s \in Dom(n) : s = {}
            BY <2>1, FS_EmptySet, FS_Subset, FS_CardinalityType
        <3>2. [s \in Dom(n) |-> 0] = [s \in Dom(n) |-> Added(f, [t \in Dom(n) |-> 0], s)]
            BY <3>1 DEF Added
        <3> QED BY <3>2
    <2>2. CASE n # 0
        <3>1. PICK g : g = [s \in Dom(n - 1) |-> Added(f, g, s)]
            BY <1>1, <2>2
        <3> DEFINE h == [s \in Dom(n) |-> Added(f, g, s)]
        <3>2. \A s \in Dom(n - 1) : s \in Dom(n)
            BY FS_Subset, FS_CardinalityType
        <3>3. \A s \in Dom(n - 1) : h[s] = g[s]
            <4> HIDE DEF Dom
            <4>1. \A s \in Dom(n - 1) : g[s] = Added(f, g, s)
                BY <3>1
            <4> QED BY <3>2, <4>1
        <3>4. ASSUME NEW s \in Dom(n), s # {}
              PROVE  s \ {Pick(s)} \in Dom(n - 1)
            <4>1. IsFiniteSet(s) /\ Pick(s) \in s /\ Cardinality(s) \in Nat
                BY <3>4, Picked, FS_Subset, FS_CardinalityType
            <4>2. Cardinality(s \ {Pick(s)}) = Cardinality(s) - 1
                BY <4>1, FS_RemoveElement
            <4> QED BY <4>1, <4>2
        <3>5. \A s \in Dom(n) : Added(f, h, s) = Added(f, g, s)
            <4> HIDE DEF Dom, h
            <4> QED BY <3>3, <3>4 DEF Added
        <3>6. h = [s \in Dom(n) |-> Added(f, h, s)]
            <4> HIDE DEF Dom
            <4> SUFFICES [s \in Dom(n) |-> Added(f, g, s)] = [s \in Dom(n) |-> Added(f, h, s)]
                OBVIOUS
            <4> HIDE DEF h
            <4> QED BY <3>5
        <3> HIDE DEF h
        <3> QED BY <3>6
    <2> QED BY <2>1, <2>2
<1>2. \A n \in Nat : Good(n)
    <2> HIDE DEF Good
    <2> DEFINE Bad == {n \in Nat : ~Good(n)}
    <2> SUFFICES ASSUME Bad # {} PROVE FALSE
        OBVIOUS
    <2>1. PICK n \in Bad : \A m \in Bad : ~ (m < n)
        <3> HIDE DEF Bad
        <3>1. Bad \in SUBSET Nat
            BY DEF Bad
        <3> QED BY <3>1, LeastNat, Zenon
    <2> QED BY <1>1, <2>1
<1>3. Cardinality(S) \in Nat /\ SUBSET S = Dom(Cardinality(S))
    BY FS_CardinalityType, FS_Subset
<1>4. \E g : g = [s \in SUBSET S |-> Added(f, g, s)]
    <2> HIDE DEF Dom
    <2> QED BY <1>2, <1>3
<1> DEFINE G == Sums(f, S)
<1>5. G = [s \in SUBSET S |-> Added(f, G, s)]
    BY <1>4 DEF Sums
<1> HIDE DEF G
<1>6. \A s \in SUBSET S : G[s] = Added(f, G, s)
    BY <1>5
<1>7. G[{}] = 0 /\ \A s \in SUBSET S : s # {} => G[s] = f[Pick(s)] + G[s \ {Pick(s)}]
    BY <1>6 DEF Added
<1> QED BY <1>7 DEF G

LEMMA SumNat ==
    ASSUME NEW S, IsFiniteSet(S), NEW f, \A x \in S : f[x] \in Nat
    PROVE  \A s \in SUBSET S : Sums(f, S)[s] \in Nat
<1> DEFINE G == Sums(f, S)
           Bad == {s \in SUBSET S : G[s] \notin Nat}
<1>1. G[{}] = 0 /\ \A s \in SUBSET S : s # {} => G[s] = f[Pick(s)] + G[s \ {Pick(s)}]
    BY SumsEquation
<1> HIDE DEF G
<1> SUFFICES ASSUME Bad # {} PROVE FALSE
    BY DEF G
<1>2. PICK s \in Bad : \A t \in Bad : t \subseteq s => t = s
    <2>1. Bad \subseteq SUBSET S
        OBVIOUS
    <2> HIDE DEF Bad
    <2> QED BY <2>1, MinimalSubset
<1>3. s # {}
    BY <1>1
<1>4. Pick(s) \in s /\ s \ {Pick(s)} \notin Bad
    BY <1>2, <1>3, Picked
<1> DEFINE t == s \ {Pick(s)}
<1>5. s \in SUBSET S /\ t \in SUBSET S /\ Pick(s) \in S /\ t \notin Bad
    BY <1>4
<1>6. G[s] = f[Pick(s)] + G[t]
    BY <1>1, <1>3, <1>5
<1> HIDE DEF t
<1> QED BY <1>5, <1>6

\* One more in one summand is one more in the sum.
LEMMA SumStep ==
    ASSUME NEW S, IsFiniteSet(S), NEW f, NEW g, NEW c,
           \A x \in S : f[x] \in Nat /\ g[x] \in Nat,
           \A x \in S : g[x] = IF x = c THEN f[x] + 1 ELSE f[x]
    PROVE  Sums(g, S)[S] = IF c \in S THEN Sums(f, S)[S] + 1 ELSE Sums(f, S)[S]
<1> DEFINE F == Sums(f, S)
           G == Sums(g, S)
           Right(s) == G[s] = IF c \in s THEN F[s] + 1 ELSE F[s]
           Bad == {s \in SUBSET S : ~Right(s)}
<1>1. F[{}] = 0 /\ \A s \in SUBSET S : s # {} => F[s] = f[Pick(s)] + F[s \ {Pick(s)}]
    BY SumsEquation
<1>2. G[{}] = 0 /\ \A s \in SUBSET S : s # {} => G[s] = g[Pick(s)] + G[s \ {Pick(s)}]
    BY SumsEquation
<1>3. \A s \in SUBSET S : F[s] \in Nat /\ G[s] \in Nat
    BY SumNat
<1> HIDE DEF F, G
<1> SUFFICES ASSUME Bad # {} PROVE FALSE
    BY DEF F, G
<1>4. PICK s \in Bad : \A t \in Bad : t \subseteq s => t = s
    <2>1. Bad \subseteq SUBSET S
        OBVIOUS
    <2> HIDE DEF Bad
    <2> QED BY <2>1, MinimalSubset
<1>5. s # {}
    BY <1>1, <1>2
<1>6. Pick(s) \in s /\ s \ {Pick(s)} \notin Bad
    BY <1>4, <1>5, Picked
<1> DEFINE x == Pick(s)
           t == s \ {x}
<1>7. /\ x \in s /\ x \in S /\ t \in SUBSET S /\ Right(t)
      /\ F[s] = f[x] + F[t] /\ G[s] = g[x] + G[t]
    BY <1>1, <1>2, <1>5, <1>6
<1>8. /\ F[t] \in Nat /\ G[t] \in Nat /\ f[x] \in Nat /\ g[x] \in Nat
      /\ g[x] = IF x = c THEN f[x] + 1 ELSE f[x]
    BY <1>3, <1>7
<1>9. c \in s <=> (c = x \/ c \in t)
    BY <1>7
<1>10. c = x => c \notin t
    OBVIOUS
<1> HIDE DEF x, t
<1> QED BY <1>7, <1>8, <1>9, <1>10

LEMMA SumZero ==
    ASSUME NEW S, IsFiniteSet(S), NEW f, \A x \in S : f[x] = 0
    PROVE  Sums(f, S)[S] = 0
<1> DEFINE F == Sums(f, S)
           Bad == {s \in SUBSET S : F[s] # 0}
<1>1. F[{}] = 0 /\ \A s \in SUBSET S : s # {} => F[s] = f[Pick(s)] + F[s \ {Pick(s)}]
    BY SumsEquation
<1> HIDE DEF F
<1> SUFFICES ASSUME Bad # {} PROVE FALSE
    BY DEF F
<1>2. PICK s \in Bad : \A t \in Bad : t \subseteq s => t = s
    <2>1. Bad \subseteq SUBSET S
        OBVIOUS
    <2> HIDE DEF Bad
    <2> QED BY <2>1, MinimalSubset
<1>3. s # {}
    BY <1>1
<1>4. Pick(s) \in s /\ s \ {Pick(s)} \notin Bad
    BY <1>2, <1>3, Picked
<1> DEFINE t == s \ {Pick(s)}
<1>5. s \in SUBSET S /\ t \in SUBSET S /\ Pick(s) \in S /\ t \notin Bad
    BY <1>4
<1>6. F[s] = f[Pick(s)] + F[t]
    BY <1>1, <1>3, <1>5
<1> HIDE DEF t
<1> QED BY <1>5, <1>6

-----------------------------------------------------------------------------
(* Logins are counted. *)

Counted(b) == /\ IsFiniteSet(LoginsUnderWay(b))
              /\ LoginsWith(b) + Cardinality(LoginsUnderWay(b)) <= history[b].number_used

LEMMA CountingParts ==
    /\ CountingInv <=> /\ \A p \in Requests : OwnBatch(request[p])
                       /\ \A b \in Batches : Counted(b)
    /\ CountingInv' <=> /\ \A p \in Requests : OwnBatch(request[p])'
                        /\ \A b \in Batches : Counted(b)'
  BY DEF CountingInv, Counted

LEMMA SumTyped ==
    ASSUME TypeOK, NEW b \in Batches
    PROVE  LoginsWith(b) \in Nat /\ IsFiniteSet(CodesOf(b)) /\ CodesOf(b) \subseteq Codes
<1>1. IsFiniteSet(CodesOf(b)) /\ CodesOf(b) \subseteq Codes
    BY IssuedNat DEF CodesOf
<1>2. \A c \in CodesOf(b) : logins[c] \in Nat
    BY <1>1 DEF TypeOK
<1>3. Sums(logins, CodesOf(b))[CodesOf(b)] \in Nat
    BY <1>1, <1>2, SumNat
<1> QED BY <1>1, <1>3, LoginsAdded

BornStays == \A b \in Batches : batch[b].row # "unborn" => batch'[b].row # "unborn"

\* The codes a request works on are not moved between batches, so that what the
\* others hold stays right.
LEMMA OwnBatchesKept ==
    ASSUME IndInv, CountingInv, NEW p \in Requests, OnlyMoves(p), BornStays,
           OwnBatch(request[p])'
    PROVE  \A q \in Requests : OwnBatch(request[q])'
<1> SUFFICES ASSUME NEW q \in Requests, q # p
             PROVE  OwnBatch(request[q])'
    OBVIOUS
<1>1. request'[q] = request[q] /\ OwnBatch(request[q]) /\ CodeOperationOK(request[q])
    BY CountingParts DEF OnlyMoves, IndInv, RequestOK
<1> QED BY <1>1 DEF OwnBatch, BornStays, CodeOperationOK

\* A step that neither counts nor logs in.
LEMMA UncountedStep ==
    ASSUME IndInv, CountingInv, NEW p \in Requests, OnlyMoves(p), BornStays,
           UNCHANGED logins, OwnBatch(request[p])',
           request'[p].pc # "save_code" \/ request'[p].op # "use",
           \A b \in Batches : history'[b].number_used = history[b].number_used
    PROVE  CountingInv'
<1>1. ASSUME NEW b \in Batches
      PROVE  Counted(b)'
    <2>1. LoginsUnderWay(b)' \subseteq LoginsUnderWay(b)
        BY DEF LoginsUnderWay, At, OnlyMoves
    <2>2. Counted(b) /\ LoginsWith(b)' = LoginsWith(b) /\ LoginsWith(b) \in Nat
          /\ history[b].number_used \in Nat
        BY CountingParts, SumTyped, LoginsUnchanged DEF IndInv, TypeOK, BatchRow
    <2>3. /\ IsFiniteSet(LoginsUnderWay(b)')
          /\ Cardinality(LoginsUnderWay(b)') <= Cardinality(LoginsUnderWay(b))
          /\ Cardinality(LoginsUnderWay(b)) \in Nat /\ Cardinality(LoginsUnderWay(b)') \in Nat
        BY <2>1, <2>2, FS_Subset, FS_CardinalityType DEF Counted
    <2> QED BY <2>2, <2>3 DEF Counted
<1> QED BY <1>1, OwnBatchesKept, CountingParts

\* A step that leaves p without a code in its hands.
LEMMA OtherStep ==
    ASSUME IndInv, CountingInv, NEW p \in Requests, OnlyMoves(p), BornStays,
           UNCHANGED logins,
           request'[p].pc \notin {"count_batch", "count_history", "save_code"},
           \A b \in Batches : history'[b].number_used = history[b].number_used
    PROVE  CountingInv'
<1>1. OwnBatch(request[p])'
    BY DEF OwnBatch
<1> QED BY <1>1, UncountedStep

LEMMA EndMoves ==
    ASSUME IndInv, NEW p \in Requests, End(p)
    PROVE  OnlyMoves(p) /\ request'[p] = Idle /\ request'[p].pc = "idle"
           /\ request'[p].op = "none"
  BY RowTypes, RequestTyped DEF End, OnlyMoves, Idle

LEMMA GotoMoves ==
    ASSUME IndInv, NEW p \in Requests, NEW pc \in Pcs, Goto(p, pc)
    PROVE  /\ OnlyMoves(p) /\ request'[p].pc = pc /\ request'[p].op = request[p].op
           /\ request'[p].code = request[p].code /\ request'[p].batch = request[p].batch
  BY RequestTyped DEF Goto, OnlyMoves, Request

LEMMA LookupCounting ==
    ASSUME IndInv, CountingInv, NEW p \in Requests, NEW op \in CodeOperations,
           NEW c \in Codes, Lookup(p, op, c)
    PROVE  CountingInv'
<1> DEFINE x == [Idle EXCEPT !.pc = IF op = "use" THEN "count_batch" ELSE "save_code",
                             !.op = op, !.code = c, !.batch = BatchOf[c]]
<1>1. x \in Request /\ BatchOf[c] \in Batches
    BY RowTypes, ConstantsAssumption DEF Request, Pcs
<1>2. /\ x.pc = "save_code" => x.op # "use"
      /\ x.code = c /\ x.batch = BatchOf[c]
    BY DEF Idle
<1>3. OnlyMoves(p) /\ request'[p] = x
    BY <1>1, RequestTyped DEF Lookup, OnlyMoves
<1>4. batch[BatchOf[c]].row # "unborn"
    BY DEF Lookup, IndInv, RetiredBatchIsDead
<1>5. OwnBatch(request[p])'
    BY <1>2, <1>3, <1>4 DEF Lookup, OwnBatch
<1> QED BY <1>2, <1>3, <1>5, UncountedStep DEF Lookup, BornStays

LEMMA CountBatchCounting ==
    ASSUME IndInv, CountingInv, NEW p \in Requests, CountBatch(p)
    PROVE  CountingInv'
<1>1. request[p].batch \in Batches /\ request[p].op \in CodeOperations
    BY RequestTyped DEF CountBatch, At, RequestOK, CodeOperationOK
<1>2. \A b \in Batches : batch'[b].row = batch[b].row
    BY <1>1, IncrementRow DEF CountBatch, IndInv, TypeOK
<1>3. /\ OnlyMoves(p) /\ request'[p].pc = "count_history" 
      /\ request'[p].code = request[p].code /\ request'[p].batch = request[p].batch
    BY GotoMoves DEF CountBatch, Pcs
<1>4. OwnBatch(request[p])'
    BY <1>1, <1>2, <1>3, CountingParts DEF CountBatch, At, OwnBatch
<1> QED BY <1>2, <1>3, <1>4, UncountedStep DEF CountBatch, BornStays

\* The row of a batch, or of its history, that an operation was counted in.
LEMMA IncrementColumns ==
    ASSUME NEW row \in BatchRow, NEW op \in CodeOperations
    PROVE  /\ Increment(row, op).number_used =
                 IF op = "use" THEN row.number_used + 1 ELSE row.number_used
           /\ Increment(row, op).number_removed =
                 IF op = "delete" THEN row.number_removed + 1 ELSE row.number_removed
           /\ Increment(row, op).number_invalidated =
                 IF op = "invalidate" THEN row.number_invalidated + 1
                                      ELSE row.number_invalidated
           /\ Increment(row, op).row = row.row /\ Increment(row, op).status = row.status
  BY DEF Increment, BatchRow, CodeOperations

\* The history counts a use when its login gets under way.
LEMMA CountHistoryCounting ==
    ASSUME IndInv, CountingInv, NEW p \in Requests, CountHistory(p)
    PROVE  CountingInv'
<1> DEFINE b == request[p].batch
           op == request[p].op
<1>1. b \in Batches /\ op \in CodeOperations
    BY RequestTyped DEF CountHistory, At, RequestOK, CodeOperationOK
<1>2. /\ history'[b].number_used =
             IF op = "use" THEN history[b].number_used + 1 ELSE history[b].number_used
      /\ \A a \in Batches : a # b => history'[a] = history[a]
    BY <1>1, IncrementColumns DEF CountHistory, IndInv, TypeOK
<1>3. /\ OnlyMoves(p) /\ BornStays /\ UNCHANGED <<logins, batch>>
      /\ request'[p].pc = "save_code" =>
            /\ op = "use" /\ request'[p].code = request[p].code /\ request'[p].batch = b
      /\ request'[p].pc \in {"save_code", "idle"}
    BY EndMoves, GotoMoves DEF CountHistory, BornStays, Pcs
<1>4. OwnBatch(request[p])'
    BY <1>3, CountingParts DEF CountHistory, At, OwnBatch
<1>5. CASE op # "use"
    <2>1. request'[p].pc # "save_code"
        BY <1>3, <1>5
    <2>2. \A a \in Batches : history'[a].number_used = history[a].number_used
        BY <1>1, <1>2, <1>5
    <2> QED BY <1>3, <1>4, <2>1, <2>2, UncountedStep
<1>6. CASE op = "use"
    <2>1. ASSUME NEW a \in Batches
          PROVE  Counted(a)'
        <3>1. Counted(a) /\ LoginsWith(a)' = LoginsWith(a) /\ LoginsWith(a) \in Nat
              /\ history[a].number_used \in Nat
            BY <1>3, CountingParts, SumTyped, LoginsUnchanged DEF IndInv, TypeOK, BatchRow
        <3> DEFINE before == LoginsUnderWay(a)
                   now == LoginsUnderWay(a)'
        <3>2. IF a = b THEN now \subseteq before \cup {p} ELSE now \subseteq before
            BY <1>3 DEF LoginsUnderWay, At, OnlyMoves
        <3>3. /\ IsFiniteSet(before) /\ Cardinality(before) \in Nat
              /\ IsFiniteSet(before \cup {p}) /\ Cardinality(before \cup {p}) \in Nat
              /\ Cardinality(before \cup {p}) <= Cardinality(before) + 1
            <4>1. IsFiniteSet(before) /\ Cardinality(before) \in Nat
                BY <3>1, FS_CardinalityType DEF Counted
            <4> HIDE DEF before
            <4>2. /\ IsFiniteSet(before \cup {p})
                  /\ Cardinality(before \cup {p}) =
                        IF p \in before THEN Cardinality(before) ELSE Cardinality(before) + 1
                BY <4>1, FS_AddElement
            <4> QED BY <4>1, <4>2
        <3>4. /\ IsFiniteSet(now) /\ Cardinality(now) \in Nat
              /\ Cardinality(now) <= IF a = b THEN Cardinality(before) + 1
                                              ELSE Cardinality(before)
            <4>1. CASE a = b
                BY <4>1, <3>2, <3>3, FS_Subset, FS_CardinalityType
            <4>2. CASE a # b
                BY <4>2, <3>2, <3>3, FS_Subset, FS_CardinalityType
            <4> QED BY <4>1, <4>2
        <3>5. history'[a].number_used = IF a = b THEN history[a].number_used + 1
                                                 ELSE history[a].number_used
            BY <1>2, <1>6
        <3> QED BY <3>1, <3>3, <3>4, <3>5 DEF Counted
    <2> QED BY <1>3, <1>4, <2>1, OwnBatchesKept, CountingParts
<1> QED BY <1>5, <1>6

\* A login that was under way becomes one that was made.
LEMMA SaveCodeCounting ==
    ASSUME IndInv, CountingInv, NEW p \in Requests, SaveCode(p)
    PROVE  CountingInv'
<1> DEFINE c == request[p].code
           op == request[p].op
           b == request[p].batch
<1>1. /\ c \in Codes /\ b \in Batches /\ op \in CodeOperations
      /\ b = BatchOf[c] /\ batch[b].row # "unborn"
      /\ BornStays /\ UNCHANGED <<batch, history>>
    BY RequestTyped, CountingParts
    DEF SaveCode, At, RequestOK, CodeOperationOK, OwnBatch, BornStays
<1>2. CASE End(p) /\ UNCHANGED logins
    <2>1. OnlyMoves(p) /\ request'[p].pc = "idle"
        BY <1>2, EndMoves
    <2> QED BY <1>1, <1>2, <2>1, OtherStep
<1>3. CASE op # "use" /\ UNCHANGED logins /\ Goto(p, "count_batch")
    <2>1. /\ OnlyMoves(p) /\ request'[p].pc = "count_batch"
          /\ request'[p].code = c /\ request'[p].batch = b
        BY <1>3, GotoMoves DEF Pcs
    <2>2. OwnBatch(request[p])'
        BY <1>1, <2>1 DEF OwnBatch
    <2> QED BY <1>1, <1>3, <2>1, <2>2, UncountedStep
<1>4. CASE op = "use" /\ logins' = [logins EXCEPT ![c] = @ + 1] /\ End(p)
    <2>1. OnlyMoves(p) /\ request'[p].pc = "idle" /\ OwnBatch(request[p])'
        BY <1>4, EndMoves DEF OwnBatch
    <2>2. ASSUME NEW a \in Batches
          PROVE  Counted(a)'
        <3> DEFINE S == CodesOf(a)
        <3>1. Counted(a) /\ LoginsWith(a) \in Nat /\ IsFiniteSet(S) /\ S \subseteq Codes
              /\ history[a].number_used \in Nat
            BY CountingParts, SumTyped DEF IndInv, TypeOK, BatchRow
        <3>2. /\ \A x \in S : logins[x] \in Nat /\ logins'[x] \in Nat
              /\ \A x \in S : logins'[x] = IF x = c THEN logins[x] + 1 ELSE logins[x]
            BY <1>1, <1>4, <3>1 DEF IndInv, TypeOK
        <3>3. c \in S <=> a = b
            BY <1>1 DEF CodesOf
        <3>4. LoginsWith(a)' = IF c \in S THEN LoginsWith(a) + 1 ELSE LoginsWith(a)
            <4> HIDE DEF c, S
            <4>1. Sums(logins', S)[S] = IF c \in S THEN Sums(logins, S)[S] + 1
                                                   ELSE Sums(logins, S)[S]
                BY <3>1, <3>2, SumStep
            <4>2. LoginsWith(a)' = Sums(logins', S)[S]
                BY LoginsAddedNext DEF S
            <4> QED BY <4>1, <4>2, LoginsAdded DEF S
        <3> DEFINE before == LoginsUnderWay(a)
                   now == LoginsUnderWay(a)'
        <3>5. now \subseteq before \ {p}
            BY <2>1 DEF LoginsUnderWay, At, OnlyMoves
        <3>6. a = b => p \in before
            BY <1>4 DEF SaveCode, LoginsUnderWay
        <3>7. /\ IsFiniteSet(before) /\ Cardinality(before) \in Nat
              /\ IsFiniteSet(before \ {p}) /\ Cardinality(before \ {p}) \in Nat
              /\ Cardinality(before \ {p}) = IF p \in before THEN Cardinality(before) - 1
                                                             ELSE Cardinality(before)
            BY <3>1, FS_CardinalityType, FS_RemoveElement DEF Counted
        <3>8. /\ IsFiniteSet(now) /\ Cardinality(now) \in Nat
              /\ Cardinality(now) <= Cardinality(before \ {p})
            BY <3>5, <3>7, FS_Subset, FS_CardinalityType
        <3> QED BY <1>1, <3>1, <3>3, <3>4, <3>6, <3>7, <3>8 DEF Counted
    <2> QED BY <1>1, <2>1, <2>2, OwnBatchesKept, CountingParts
<1> QED BY <1>2, <1>3, <1>4 DEF SaveCode

\* The batch that a creation inserts has no logins, and none are under way.
LEMMA CreateCommitCounting ==
    ASSUME IndInv, CountingInv, NEW p \in Requests, CreateCommit(p)
    PROVE  CountingInv'
<1> DEFINE r == request[p]
           n == r.new
<1>1. /\ n \in Batches /\ batch[n].row = "unborn" /\ UNCHANGED logins
      /\ OnlyMoves(p) /\ request'[p].pc = "idle" /\ OwnBatch(request[p])'
    BY RequestTyped, EndMoves
    DEF CreateCommit, At, RequestOK, NewKeyOK, CreatePcs, OwnBatch
<1>2. BornStays
    <2>1. \A b \in Batches : batch[b] \in BatchRow
        BY DEF IndInv, TypeOK
    <2> QED BY <2>1 DEF CreateCommit, BornStays, NewBatch, BatchRow
<1>3. /\ history'[n].number_used = 0
      /\ \A b \in Batches : b # n => history'[b].number_used = history[b].number_used
    <2>1. \A b \in Batches : history[b] \in BatchRow
        BY DEF IndInv, TypeOK
    <2> QED BY <1>1, <2>1 DEF CreateCommit, NewBatch, BatchRow
<1>4. ASSUME NEW b \in Batches
      PROVE  Counted(b)'
    <2>1. Counted(b) /\ LoginsWith(b)' = LoginsWith(b) /\ LoginsWith(b) \in Nat
          /\ history[b].number_used \in Nat
        BY <1>1, CountingParts, SumTyped, LoginsUnchanged DEF IndInv, TypeOK, BatchRow
    <2>2. LoginsUnderWay(b)' \subseteq LoginsUnderWay(b)
        BY <1>1 DEF LoginsUnderWay, At, OnlyMoves
    <2>3. /\ IsFiniteSet(LoginsUnderWay(b)')
          /\ Cardinality(LoginsUnderWay(b)') <= Cardinality(LoginsUnderWay(b))
          /\ Cardinality(LoginsUnderWay(b)) \in Nat /\ Cardinality(LoginsUnderWay(b)') \in Nat
        BY <2>1, <2>2, FS_Subset, FS_CardinalityType DEF Counted
    <2>4. CASE b # n
        BY <1>3, <2>1, <2>3, <2>4 DEF Counted
    <2>5. CASE b = n
        <3>1. \A c \in CodesOf(b) : logins[c] = 0
            BY <1>1, <2>5 DEF CodesOf, IndInv, BornTogether, TypeOK
        <3>2. LoginsWith(b) = 0
            BY <3>1, SumZero, SumTyped, LoginsAdded DEF IndInv
        <3>3. LoginsUnderWay(b) = {}
            BY <1>1, <2>5, CountingParts DEF LoginsUnderWay, At, OwnBatch
        <3>4. LoginsUnderWay(b)' = {}
            BY <2>2, <3>3
        <3> QED BY <1>3, <2>1, <2>5, <3>2, <3>4, FS_EmptySet DEF Counted
    <2> QED BY <2>4, <2>5
<1> QED BY <1>1, <1>2, <1>4, OwnBatchesKept, CountingParts

LEMMA SameHistory ==
    ASSUME UNCHANGED history
    PROVE  \A b \in Batches : history'[b].number_used = history[b].number_used
  OBVIOUS

LEMMA StartCounting ==
    ASSUME IndInv, CountingInv, NEW p \in Requests, Start(p)
    PROVE  CountingInv'
<1> DEFINE Other(x) == /\ x \in Request /\ request' = [request EXCEPT ![p] = x]
                       /\ x.pc \notin {"count_batch", "count_history", "save_code"}
                       /\ UNCHANGED <<batch, code, history, logins, crashes>>
<1>1. ASSUME NEW x, Other(x)
      PROVE  CountingInv'
    <2>1. OnlyMoves(p) /\ request'[p] = x /\ BornStays
        BY <1>1, RequestTyped DEF OnlyMoves, BornStays
    <2> QED BY <1>1, <2>1, SameHistory, OtherStep
<1>2. ASSUME NEW b \in Batches, DiscardRead(p, b)
      PROVE  CountingInv'
    <2>1. Other([Idle EXCEPT !.pc = "discard_lock", !.batch = b, !.copy = batch[b]])
        BY <1>2, RowTypes DEF DiscardRead, IndInv, TypeOK, Request, Pcs
    <2> QED BY <1>1, <2>1
<1>3. ASSUME NEW b \in Batches, GuardRead(p, b)
      PROVE  CountingInv'
    <2>1. CASE Other([Idle EXCEPT !.pc = "guard_save", !.batch = b, !.copy = batch[b]])
        BY <1>1, <2>1
    <2>2. ASSUME NEW n \in FreshBatches,
                 request' = [request EXCEPT ![p] =
                     [Idle EXCEPT !.pc = "guard_flush", !.batch = b, !.new = n]]
          PROVE  Other([Idle EXCEPT !.pc = "guard_flush", !.batch = b, !.new = n])
        BY <1>3, <2>2, RowTypes DEF GuardRead, Request, Pcs, FreshBatches
    <2>3. ASSUME request' = [request EXCEPT ![p] =
                     [Idle EXCEPT !.pc = "guard_save", !.batch = b, !.copy = batch[b]]]
          PROVE  Other([Idle EXCEPT !.pc = "guard_save", !.batch = b, !.copy = batch[b]])
        BY <1>3, <2>3, RowTypes DEF GuardRead, IndInv, TypeOK, Request, Pcs
    <2> HIDE DEF Other
    <2> QED BY <1>1, <1>3, <2>2, <2>3 DEF GuardRead
<1>4. ASSUME NEW n \in Batches, StartCreate(p, n)
      PROVE  CountingInv'
    <2>1. Other([Idle EXCEPT !.pc = "create_lock", !.new = n, !.rows = ActiveBatches])
        BY <1>4, RowTypes
        DEF StartCreate, BeginCreate, Request, Pcs, CreatePcs, ActiveBatches
    <2> QED BY <1>1, <2>1
<1>5. ASSUME NEW b \in Batches, PurgeStart(p, b)
      PROVE  CountingInv'
    <2>1. Other([Idle EXCEPT !.pc = "purge", !.batch = b])
        BY <1>5, RowTypes DEF PurgeStart, Request, Pcs
    <2> QED BY <1>1, <2>1
<1> QED BY <1>2, <1>3, <1>4, <1>5, LookupCounting DEF Start

LEMMA EndCounting ==
    ASSUME IndInv, CountingInv, NEW p \in Requests, End(p), BornStays,
           UNCHANGED <<history, logins>>
    PROVE  CountingInv'
<1>1. OnlyMoves(p) /\ request'[p].pc = "idle"
    BY EndMoves
<1> QED BY <1>1, SameHistory, OtherStep

\* The steps of the requests that work on whole batches.
LEMMA BatchStepCounting ==
    ASSUME IndInv, CountingInv, NEW p \in Requests,
           \/ DiscardLock(p) \/ DiscardCommit(p) \/ GuardSave(p) \/ GuardFlush(p)
           \/ CreateLock(p) \/ CreateHistory(p) \/ CreateCodes(p)
           \/ (\E chunk \in SUBSET Codes : PurgeChunk(p, chunk)) \/ PurgeFinish(p)
    PROVE  CountingInv'
<1> DEFINE r == request[p]
<1>1. r \in Request /\ RequestOK(r)
    BY RequestTyped
<1>2. ASSUME UNCHANGED <<batch, history, logins>>, NEW x \in Request,
             request' = [request EXCEPT ![p] = x],
             x.pc \notin {"count_batch", "count_history", "save_code"}
      PROVE  CountingInv'
    <2>1. OnlyMoves(p) /\ request'[p] = x /\ BornStays
        BY <1>2, RequestTyped DEF OnlyMoves, BornStays
    <2> QED BY <1>2, <2>1, SameHistory, OtherStep
<1>3. CASE DiscardLock(p)
    <2> DEFINE found == {c \in CodesOf(r.batch) : code[c].row = "stored"}
               x == [r EXCEPT !.pc = "discard_commit", !.codes = found]
    <2>1. found \subseteq Codes
        BY DEF CodesOf
    <2>2. x \in Request /\ x.pc = "discard_commit"
        BY <1>1, <2>1 DEF Request, Pcs
    <2>3. request' = [request EXCEPT ![p] = x] /\ UNCHANGED <<batch, history, logins>>
        BY <1>3 DEF DiscardLock
    <2> HIDE DEF x
    <2> QED BY <1>2, <2>2, <2>3
<1>4. CASE DiscardCommit(p)
    <2>1. r.batch \in Batches /\ r.copy \in BatchRow /\ r.copy.row = "stored"
        BY <1>1, <1>4 DEF DiscardCommit, At, RequestOK, HoldsBatchOK, CopyOK, Request
    <2>2. BornStays
        BY <1>4, <2>1 DEF DiscardCommit, BornStays, BatchRow, IndInv, TypeOK
    <2> QED BY <1>4, <2>2, EndCounting DEF DiscardCommit
<1>5. CASE GuardSave(p)
    <2>1. r.batch \in Batches /\ r.copy \in BatchRow /\ r.copy.row = "stored"
        BY <1>1, <1>5 DEF GuardSave, At, RequestOK, HoldsBatchOK, CopyOK, Request
    <2>2. BornStays
        BY <1>5, <2>1 DEF GuardSave, BornStays, BatchRow, IndInv, TypeOK
    <2> QED BY <1>5, <2>2, EndCounting DEF GuardSave
<1>6. CASE GuardFlush(p)
    <2>1. CASE End(p)
        BY <1>6, <2>1, EndCounting DEF GuardFlush, BornStays
    <2>2. CASE BeginCreate(p, r.new)
        <3> DEFINE x == [Idle EXCEPT !.pc = "create_lock", !.new = r.new,
                                     !.rows = ActiveBatches]
        <3>1. x \in Request /\ x.pc = "create_lock"
            BY <1>1, RowTypes DEF Request, Pcs, CreatePcs, ActiveBatches
        <3>2. request' = [request EXCEPT ![p] = x] /\ UNCHANGED <<batch, history, logins>>
            BY <1>6, <2>2 DEF GuardFlush, BeginCreate
        <3> HIDE DEF x
        <3> QED BY <1>2, <3>1, <3>2
    <2> QED BY <1>6, <2>1, <2>2 DEF GuardFlush
<1>7. CASE CreateLock(p)
    <2> DEFINE x == [r EXCEPT !.pc = "create_history", !.rows = r.rows \cap ActiveBatches]
    <2>1. x \in Request /\ x.pc = "create_history"
        BY <1>1 DEF Request, Pcs, CreatePcs
    <2>2. request' = [request EXCEPT ![p] = x] /\ UNCHANGED <<batch, history, logins>>
        BY <1>7 DEF CreateLock
    <2> HIDE DEF x
    <2> QED BY <1>2, <2>1, <2>2
<1>8. CASE CreateHistory(p)
    <2> DEFINE x == [r EXCEPT !.pc = "create_codes", !.ledger = ActiveLedger]
    <2>1. x \in Request /\ x.pc = "create_codes"
        BY <1>1 DEF Request, Pcs, CreatePcs, ActiveLedger
    <2>2. request' = [request EXCEPT ![p] = x] /\ UNCHANGED <<batch, history, logins>>
        BY <1>8 DEF CreateHistory
    <2> HIDE DEF x
    <2> QED BY <1>2, <2>1, <2>2
<1>9. CASE CreateCodes(p)
    <2> DEFINE x == [r EXCEPT !.pc = "create_commit", !.codes = ActiveCodes]
    <2>1. x \in Request /\ x.pc = "create_commit"
        BY <1>1 DEF Request, Pcs, CreatePcs, ActiveCodes
    <2>2. request' = [request EXCEPT ![p] = x] /\ UNCHANGED <<batch, history, logins>>
        BY <1>9 DEF CreateCodes
    <2> HIDE DEF x
    <2> QED BY <1>2, <2>1, <2>2
<1>10. ASSUME NEW chunk \in SUBSET Codes, PurgeChunk(p, chunk)
       PROVE  CountingInv'
    <2> DEFINE x == [r EXCEPT !.codes = r.codes \cup chunk]
    <2>1. x \in Request /\ x.pc = "purge"
        BY <1>1, <1>10 DEF PurgeChunk, At, Request
    <2>2. request' = [request EXCEPT ![p] = x] /\ UNCHANGED <<batch, history, logins>>
        BY <1>10 DEF PurgeChunk
    <2> HIDE DEF x
    <2> QED BY <1>2, <2>1, <2>2
<1>11. CASE PurgeFinish(p)
    <2>1. BornStays
        BY <1>11 DEF PurgeFinish, BornStays, BatchRow, IndInv, TypeOK
    <2> QED BY <1>11, <2>1, EndCounting DEF PurgeFinish
<1> QED BY <1>3, <1>4, <1>5, <1>6, <1>7, <1>8, <1>9, <1>10, <1>11

LEMMA InitCounting == Init => CountingInv
<1> SUFFICES ASSUME Init PROVE CountingInv
    OBVIOUS
<1>1. TypeOK
    BY InitIndInv DEF IndInv
<1>2. ASSUME NEW b \in Batches
      PROVE  Counted(b)
    <2>1. \A c \in CodesOf(b) : logins[c] = 0
        BY DEF Init, CodesOf
    <2>2. LoginsWith(b) = 0
        BY <1>1, <2>1, SumZero, SumTyped, LoginsAdded
    <2>3. LoginsUnderWay(b) = {}
        BY DEF Init, Idle, LoginsUnderWay, At
    <2>4. history[b].number_used = 0
        BY DEF Init, NoBatchRow, NewBatch
    <2> QED BY <2>2, <2>3, <2>4, FS_EmptySet DEF Counted
<1>3. \A p \in Requests : OwnBatch(request[p])
    BY DEF Init, Idle, OwnBatch
<1> QED BY <1>2, <1>3, CountingParts

LEMMA NextCounting == IndInv /\ CountingInv /\ [Next]_vars => CountingInv'
<1> SUFFICES ASSUME IndInv, CountingInv, [Next]_vars PROVE CountingInv'
    OBVIOUS
<1>1. ASSUME NEW p \in Requests, Continue(p)
      PROVE  CountingInv'
    BY <1>1, CountBatchCounting, CountHistoryCounting, SaveCodeCounting,
       BatchStepCounting, CreateCommitCounting DEF Continue
<1>2. ASSUME NEW p \in Requests, Crash(p)
      PROVE  CountingInv'
    BY <1>2, EndCounting DEF Crash, BornStays
<1>3. ASSUME NEW p \in Requests, NEW q \in Requests, DeadlockAbort(p, q)
      PROVE  CountingInv'
    BY <1>3, EndCounting DEF DeadlockAbort, BornStays
<1>4. CASE UNCHANGED vars
    <2>1. /\ \A b : LoginsWith(b)' = LoginsWith(b) /\ LoginsUnderWay(b)' = LoginsUnderWay(b)
          /\ UNCHANGED <<request, history, batch>>
        BY <1>4, LoginsUnchanged DEF vars, LoginsUnderWay, At
    <2> QED BY <2>1, CountingParts DEF Counted, OwnBatch
<1> QED BY <1>1, <1>2, <1>3, <1>4, StartCounting DEF Next, Rest

\* Of every instance, and of any number of overlapping requests: logins that were
\* made and logins under way together are no more than the counted uses.
THEOREM CountingInvariance == Spec => []CountingInv
<1>1. Init => IndInv /\ CountingInv
    BY InitIndInv, InitCounting
<1>2. IndInv /\ CountingInv /\ [Next]_vars => (IndInv /\ CountingInv)'
    BY NextIndInv, NextCounting
<1> QED BY <1>1, <1>2, PTL DEF Spec

\* The history shows every login: for any number of requests that overlap, stale
\* saves and dying workers, a batch has no more logins than counted uses.
THEOREM EveryLoginCounted == Spec => []LoginsCounted
<1>1. IndInv /\ CountingInv => LoginsCounted
    <2> SUFFICES ASSUME IndInv, CountingInv, NEW b \in Batches
                 PROVE  LoginsWith(b) <= history[b].number_used
        BY DEF LoginsCounted
    <2>1. Counted(b) /\ LoginsWith(b) \in Nat /\ history[b].number_used \in Nat
        BY CountingParts, SumTyped DEF IndInv, TypeOK, BatchRow
    <2>2. Cardinality(LoginsUnderWay(b)) \in Nat
        BY <2>1, FS_CardinalityType DEF Counted
    <2> QED BY <2>1, <2>2 DEF Counted
<1> QED BY <1>1, Invariance, CountingInvariance, PTL

-----------------------------------------------------------------------------
(* Requests that do not overlap. *)

CodePcs == {"count_batch", "count_history", "save_code"}

\* A request that has counted, in the batch or in its history, what has not
\* happened to the code yet, or the other way round.
Halfway(r) == \/ r.pc = "count_history"
              \/ r.pc = "save_code" /\ r.op = "use"
              \/ r.pc = "count_batch" /\ r.op # "use"

LEMMA StandingOf ==
    ASSUME OneRequest, NEW p \in Requests
    PROVE  \A b, op, pcs :
             /\ Standing(b, op, pcs) =
                   IF request[p].batch = b /\ request[p].op = op /\ request[p].pc \in pcs
                   THEN 1 ELSE 0
             /\ Standing(b, op, pcs)' =
                   IF request'[p].batch = b /\ request'[p].op = op /\ request'[p].pc \in pcs
                   THEN 1 ELSE 0
  BY DEF OneRequest, Standing

\* What each counter is off by, and when the history is, for the only request.
LEMMA OffBy ==
    ASSUME OneRequest, NEW p \in Requests, NEW b
    PROVE  LET r == request[p] IN
           /\ AheadBy(b) = IF r.batch = b /\ r.op = "use" /\ r.pc \in {"count_history", "save_code"}
                           THEN 1 ELSE 0
           /\ BehindBy(b, "delete") =
                 IF r.batch = b /\ r.op = "delete" /\ r.pc = "count_batch" THEN 1 ELSE 0
           /\ BehindBy(b, "invalidate") =
                 IF r.batch = b /\ r.op = "invalidate" /\ r.pc = "count_batch" THEN 1 ELSE 0
           /\ Recorded(b) <=>
                 IF r.pc = "count_history" /\ r.batch = b
                 THEN batch[b] = Increment(history[b], r.op)
                 ELSE history[b] = batch[b]
  BY StandingOf DEF AheadBy, BehindBy, Recorded, At, OneRequest

LEMMA OffByNext ==
    ASSUME OneRequest, NEW p \in Requests, NEW b
    PROVE  LET r == request'[p] IN
           /\ AheadBy(b)' = IF r.batch = b /\ r.op = "use" /\ r.pc \in {"count_history", "save_code"}
                            THEN 1 ELSE 0
           /\ BehindBy(b, "delete")' =
                 IF r.batch = b /\ r.op = "delete" /\ r.pc = "count_batch" THEN 1 ELSE 0
           /\ BehindBy(b, "invalidate")' =
                 IF r.batch = b /\ r.op = "invalidate" /\ r.pc = "count_batch" THEN 1 ELSE 0
           /\ Recorded(b)' <=>
                 IF r.pc = "count_history" /\ r.batch = b
                 THEN batch'[b] = Increment(history'[b], r.op)
                 ELSE history'[b] = batch'[b]
  BY StandingOf DEF AheadBy, BehindBy, Recorded, At, OneRequest

LEMMA CountsAreNumbers ==
    ASSUME NEW b \in Batches
    PROVE  /\ IsFiniteSet(UsedIn(b)) /\ Cardinality(UsedIn(b)) \in Nat
           /\ IsFiniteSet(RemovedIn(b)) /\ Cardinality(RemovedIn(b)) \in Nat
           /\ IsFiniteSet(InvalidatedIn(b)) /\ Cardinality(InvalidatedIn(b)) \in Nat
<1>1. IsFiniteSet(CodesOf(b))
    BY IssuedNat
<1>2. UsedIn(b) \subseteq CodesOf(b) /\ RemovedIn(b) \subseteq CodesOf(b)
      /\ InvalidatedIn(b) \subseteq CodesOf(b)
    BY DEF UsedIn, RemovedIn, InvalidatedIn
<1> QED BY <1>1, <1>2, FS_Subset, FS_CardinalityType

LEMMA BatchNumbers ==
    ASSUME TypeOK, NEW b \in Batches
    PROVE  /\ batch[b] \in BatchRow /\ history[b] \in BatchRow
           /\ batch[b].number_used \in Nat /\ batch[b].number_removed \in Nat
           /\ batch[b].number_invalidated \in Nat
  BY DEF TypeOK, BatchRow

SameColumns(c) == /\ code'[c].is_used = code[c].is_used
                  /\ code'[c].status = code[c].status
                  /\ code'[c].mark_for_deletion = code[c].mark_for_deletion

LEMMA SameCounts ==
    ASSUME NEW b, \A c \in CodesOf(b) : SameColumns(c)
    PROVE  /\ UsedIn(b)' = UsedIn(b) /\ RemovedIn(b)' = RemovedIn(b)
           /\ InvalidatedIn(b)' = InvalidatedIn(b)
  BY DEF UsedIn, RemovedIn, InvalidatedIn, CodesOf, SameColumns

LEMMA ActiveUnique ==
    ASSUME SequentialInv, ActiveBatches' \subseteq ActiveBatches
    PROVE  \A a, b \in ActiveBatches' : a = b
  BY DEF SequentialInv

LEMMA SequentialParts ==
    ASSUME OneRequest, NEW p \in Requests, UpToDate(request[p])',
           \A a, b \in ActiveBatches' : a = b,
           \A b \in ActiveBatches' : Directed(b)',
           \A b \in ActiveBatches' : crashes' = 0 => Exact(b)' /\ Recorded(b)'
    PROVE  SequentialInv'
  BY DEF SequentialInv, OneRequest

\* A step that counts nothing and changes nothing that is counted.
LEMMA NothingCounted ==
    ASSUME IndInv, SequentialInv, OneRequest, NEW p \in Requests,
           ~Halfway(request[p]) \/ crashes' # 0, crashes' = crashes \/ crashes' # 0,
           ~Halfway(request'[p]), UpToDate(request[p])',
           \A b \in ActiveBatches' : /\ b \in ActiveBatches
                                     /\ batch'[b] = batch[b] /\ history'[b] = history[b],
           \A c \in Codes : BatchOf[c] \in ActiveBatches' => SameColumns(c)
    PROVE  SequentialInv'
<1>1. ASSUME NEW b \in ActiveBatches'
      PROVE  Directed(b)' /\ (crashes' = 0 => Exact(b)' /\ Recorded(b)')
    <2>1. /\ b \in Batches /\ b \in ActiveBatches
          /\ batch'[b] = batch[b] /\ history'[b] = history[b]
        BY DEF ActiveBatches
    <2>2. /\ UsedIn(b)' = UsedIn(b) /\ RemovedIn(b)' = RemovedIn(b)
          /\ InvalidatedIn(b)' = InvalidatedIn(b)
        BY SameCounts DEF CodesOf
    <2>3. /\ AheadBy(b)' = 0 /\ BehindBy(b, "delete")' = 0 /\ BehindBy(b, "invalidate")' = 0
          /\ Recorded(b)' <=> history'[b] = batch'[b]
        BY OffByNext DEF Halfway
    <2>4. /\ AheadBy(b) \in 0 .. 1 /\ BehindBy(b, "delete") \in 0 .. 1
          /\ BehindBy(b, "invalidate") \in 0 .. 1
        BY OffBy
    <2>5. ~Halfway(request[p]) =>
             /\ AheadBy(b) = 0 /\ BehindBy(b, "delete") = 0 /\ BehindBy(b, "invalidate") = 0
             /\ Recorded(b) <=> history[b] = batch[b]
        BY OffBy DEF Halfway
    <2>6. Directed(b) /\ (crashes = 0 => Exact(b) /\ Recorded(b))
        BY <2>1 DEF SequentialInv
    <2>7. Directed(b)'
        BY <2>1, <2>2, <2>3, <2>4, <2>6, CountsAreNumbers, BatchNumbers DEF Directed, IndInv
    <2>8. ASSUME crashes' = 0 PROVE Exact(b)' /\ Recorded(b)'
        <3>1. crashes = 0 /\ ~Halfway(request[p])
            BY <2>8
        <3>2. Exact(b)'
            BY <2>1, <2>2, <2>3, <2>5, <2>6, <3>1, CountsAreNumbers, BatchNumbers
            DEF Exact, IndInv
        <3>3. Recorded(b)'
            BY <2>1, <2>3, <2>5, <2>6, <3>1
        <3> QED BY <3>2, <3>3
    <2> QED BY <2>7, <2>8
<1>2. \A a, b \in ActiveBatches' : a = b
    BY ActiveUnique
<1> QED BY <1>1, <1>2, SequentialParts

\* A step that writes no batch and no code.
LEMMA RowsUntouched ==
    ASSUME IndInv, SequentialInv, OneRequest, NEW p \in Requests,
           UNCHANGED <<batch, code, history>>,
           ~Halfway(request[p]) \/ crashes' # 0, crashes' = crashes \/ crashes' # 0,
           ~Halfway(request'[p]), UpToDate(request[p])'
    PROVE  SequentialInv'
<1>1. ActiveBatches' = ActiveBatches /\ \A c \in Codes : SameColumns(c)
    BY DEF ActiveBatches, SameColumns
<1> QED BY <1>1, NothingCounted

LEMMA IdleIsUpToDate ==
    ASSUME IndInv, NEW p \in Requests, End(p)
    PROVE  ~Halfway(request'[p]) /\ UpToDate(request[p])'
<1>1. request'[p] = Idle
    BY EndMoves
<1> QED BY <1>1 DEF Idle, Halfway, UpToDate, CreatePcs

LEMMA StartSequential ==
    ASSUME IndInv, SequentialInv, OneRequest, NEW p \in Requests, Start(p)
    PROVE  SequentialInv'
<1> DEFINE Begins(x) == /\ request'[p] = x /\ ~Halfway(x)
                        /\ UNCHANGED <<batch, code, history, logins, crashes>>
                        /\ UpToDate(request[p])'
<1>1. ~Halfway(request[p]) /\ request \in [Requests -> Request]
    BY RequestTyped DEF Start, Lookup, DiscardRead, GuardRead, StartCreate, PurgeStart,
                        At, Halfway
<1>2. ASSUME NEW x, Begins(x)
      PROVE  SequentialInv'
    BY <1>1, <1>2, RowsUntouched
<1>3. ASSUME NEW op \in CodeOperations, NEW c \in Codes, Lookup(p, op, c)
      PROVE  SequentialInv'
    <2> DEFINE x == [Idle EXCEPT !.pc = IF op = "use" THEN "count_batch" ELSE "save_code",
                                 !.op = op, !.code = c, !.batch = BatchOf[c]]
    <2>1. /\ request'[p] = x /\ UNCHANGED <<batch, code, history, logins, crashes>>
          /\ Usable(c)
        BY <1>1, <1>3 DEF Lookup
    <2>2. /\ x.pc = (IF op = "use" THEN "count_batch" ELSE "save_code")
          /\ x.op = op /\ x.code = c /\ x.batch = BatchOf[c]
        BY DEF Idle
    <2>3. ~Halfway(x) /\ Usable(c)'
        BY <2>1, <2>2 DEF Halfway, Usable
    <2>4. UpToDate(request[p])'
        BY <2>1, <2>2, <2>3 DEF UpToDate, CreatePcs
    <2> HIDE DEF x
    <2> QED BY <1>2, <2>1, <2>3, <2>4
<1>4. ASSUME NEW b \in Batches, DiscardRead(p, b)
      PROVE  SequentialInv'
    <2> DEFINE x == [Idle EXCEPT !.pc = "discard_lock", !.batch = b, !.copy = batch[b]]
    <2>1. request'[p] = x /\ UNCHANGED <<batch, code, history, logins, crashes>>
        BY <1>1, <1>4 DEF DiscardRead
    <2>2. x.pc = "discard_lock" /\ x.op = "none" /\ x.batch = b /\ x.copy = batch[b]
        BY DEF Idle
    <2>3. ~Halfway(x) /\ UpToDate(request[p])'
        BY <2>1, <2>2 DEF Halfway, UpToDate, CreatePcs
    <2> HIDE DEF x
    <2> QED BY <1>2, <2>1, <2>3
<1>5. ASSUME NEW b \in Batches, GuardRead(p, b)
      PROVE  SequentialInv'
    <2> DEFINE x == [Idle EXCEPT !.pc = "guard_save", !.batch = b, !.copy = batch[b]]
               y(n) == [Idle EXCEPT !.pc = "guard_flush", !.batch = b, !.new = n]
    <2>1. /\ request'[p] = x \/ \E n \in FreshBatches : request'[p] = y(n)
          /\ UNCHANGED <<batch, code, history, logins, crashes>>
        BY <1>1, <1>5 DEF GuardRead
    <2>2. x.pc = "guard_save" /\ x.op = "none" /\ x.batch = b /\ x.copy = batch[b]
        BY DEF Idle
    <2>3. \A n : y(n).pc = "guard_flush" /\ y(n).op = "none"
        BY DEF Idle
    <2> HIDE DEF x, y
    <2>4. CASE request'[p] = x
        <3>1. ~Halfway(x) /\ UpToDate(request[p])'
            BY <2>1, <2>2, <2>4 DEF Halfway, UpToDate, CreatePcs
        <3> QED BY <1>2, <2>1, <2>4, <3>1
    <2>5. ASSUME NEW n \in FreshBatches, request'[p] = y(n)
          PROVE  SequentialInv'
        <3>1. ~Halfway(y(n)) /\ UpToDate(request[p])'
            BY <2>3, <2>5 DEF Halfway, UpToDate, CreatePcs
        <3> QED BY <1>2, <2>1, <2>5, <3>1
    <2> QED BY <2>1, <2>4, <2>5
<1>6. ASSUME NEW n \in Batches, StartCreate(p, n)
      PROVE  SequentialInv'
    <2> DEFINE x == [Idle EXCEPT !.pc = "create_lock", !.new = n, !.rows = ActiveBatches]
    <2>1. request'[p] = x /\ UNCHANGED <<batch, code, history, logins, crashes>>
        BY <1>1, <1>6 DEF StartCreate, BeginCreate
    <2>2. x.pc = "create_lock" /\ x.op = "none" /\ x.rows = ActiveBatches
        BY DEF Idle
    <2>3. ActiveBatches' = ActiveBatches
        BY <2>1 DEF ActiveBatches
    <2>4. ~Halfway(x) /\ UpToDate(request[p])'
        BY <2>1, <2>2, <2>3 DEF Halfway, UpToDate
    <2> HIDE DEF x
    <2> QED BY <1>2, <2>1, <2>4
<1>7. ASSUME NEW b \in Batches, PurgeStart(p, b)
      PROVE  SequentialInv'
    <2> DEFINE x == [Idle EXCEPT !.pc = "purge", !.batch = b]
    <2>1. request'[p] = x /\ UNCHANGED <<batch, code, history, logins, crashes>>
        BY <1>1, <1>7 DEF PurgeStart
    <2>2. x.pc = "purge" /\ x.op = "none"
        BY DEF Idle
    <2>3. ~Halfway(x) /\ UpToDate(request[p])'
        BY <2>1, <2>2 DEF Halfway, UpToDate, CreatePcs
    <2> HIDE DEF x
    <2> QED BY <1>2, <2>1, <2>3
<1> QED BY <1>3, <1>4, <1>5, <1>6, <1>7 DEF Start

\* Two UPDATEs count one operation: here the first, ahead of the history.
LEMMA CountBatchSequential ==
    ASSUME IndInv, SequentialInv, OneRequest, NEW p \in Requests, CountBatch(p)
    PROVE  SequentialInv'
<1> DEFINE r == request[p]
           b == r.batch
           op == r.op
<1>1. /\ b \in Batches /\ op \in CodeOperations /\ r.pc = "count_batch"
      /\ UpToDate(r) /\ UNCHANGED <<code, history, logins, crashes>>
    BY RequestTyped DEF CountBatch, At, RequestOK, CodeOperationOK, SequentialInv
<1>2. /\ OnlyMoves(p) /\ request'[p].pc = "count_history" /\ request'[p].op = op
      /\ request'[p].code = r.code /\ request'[p].batch = b
    BY GotoMoves DEF CountBatch, Pcs
<1>3. \A a \in Batches : batch'[a] = IF a = b /\ batch[b].row = "stored"
                                     THEN Increment(batch[b], op) ELSE batch[a]
    BY <1>1 DEF CountBatch, IndInv, TypeOK
<1>4. \A a \in Batches : batch'[a].row = batch[a].row /\ batch'[a].status = batch[a].status
    BY <1>1, <1>3, IncrementColumns, BatchNumbers DEF IndInv
<1>5. ActiveBatches' = ActiveBatches
    BY <1>4 DEF ActiveBatches
<1>6. UpToDate(request[p])'
    BY <1>1, <1>2 DEF UpToDate, Usable, CreatePcs
<1>7. ASSUME NEW a \in ActiveBatches'
      PROVE  Directed(a)' /\ (crashes' = 0 => Exact(a)' /\ Recorded(a)')
    <2>1. a \in Batches /\ a \in ActiveBatches /\ batch[a].row = "stored"
        BY <1>5 DEF ActiveBatches
    <2>2. /\ UsedIn(a)' = UsedIn(a) /\ RemovedIn(a)' = RemovedIn(a)
          /\ InvalidatedIn(a)' = InvalidatedIn(a)
        BY <1>1, SameCounts DEF SameColumns, CodesOf
    <2>3. Directed(a) /\ (crashes = 0 => Exact(a) /\ Recorded(a))
        BY <2>1 DEF SequentialInv
    <2>4. CASE a # b
        <3>1. batch'[a] = batch[a] /\ history'[a] = history[a]
            BY <1>1, <1>3, <2>1, <2>4
        <3>2. /\ AheadBy(a)' = AheadBy(a) /\ BehindBy(a, "delete")' = BehindBy(a, "delete")
              /\ BehindBy(a, "invalidate")' = BehindBy(a, "invalidate")
              /\ Recorded(a)' <=> Recorded(a)
            BY <1>2, <2>4, <3>1, OffBy, OffByNext
        <3> QED BY <1>1, <2>2, <2>3, <3>1, <3>2 DEF Directed, Exact
    <2>5. CASE a = b
        <3>1. /\ batch'[a] = Increment(batch[a], op) /\ history'[a] = history[a]
            BY <1>1, <1>3, <2>1, <2>5
        <3>2. /\ batch'[a].number_used =
                    IF op = "use" THEN batch[a].number_used + 1 ELSE batch[a].number_used
              /\ batch'[a].number_removed =
                    IF op = "delete" THEN batch[a].number_removed + 1
                                     ELSE batch[a].number_removed
              /\ batch'[a].number_invalidated =
                    IF op = "invalidate" THEN batch[a].number_invalidated + 1
                                         ELSE batch[a].number_invalidated
            BY <1>1, <2>1, <3>1, IncrementColumns, BatchNumbers DEF IndInv
        <3>3. /\ AheadBy(a) = 0
              /\ BehindBy(a, "delete") = IF op = "delete" THEN 1 ELSE 0
              /\ BehindBy(a, "invalidate") = IF op = "invalidate" THEN 1 ELSE 0
              /\ Recorded(a) <=> history[a] = batch[a]
            BY <1>1, <2>5, OffBy
        <3>4. /\ AheadBy(a)' = IF op = "use" THEN 1 ELSE 0
              /\ BehindBy(a, "delete")' = 0 /\ BehindBy(a, "invalidate")' = 0
              /\ Recorded(a)' <=> batch'[a] = Increment(history'[a], op)
            BY <1>2, <2>5, OffByNext
        <3>5. Directed(a)'
            BY <2>1, <2>2, <2>3, <3>2, <3>3, <3>4, CountsAreNumbers, BatchNumbers
            DEF Directed, IndInv
        <3>6. crashes' = 0 => Exact(a)'
            BY <1>1, <2>1, <2>2, <2>3, <3>2, <3>3, <3>4, CountsAreNumbers, BatchNumbers
            DEF Exact, IndInv
        <3>7. crashes' = 0 => Recorded(a)'
            BY <1>1, <2>3, <3>1, <3>3, <3>4
        <3> QED BY <3>5, <3>6, <3>7
    <2> QED BY <2>4, <2>5
<1>8. \A a, d \in ActiveBatches' : a = d
    BY <1>5, ActiveUnique
<1> QED BY <1>6, <1>7, <1>8, SequentialParts

LEMMA CountHistorySequential ==
    ASSUME IndInv, SequentialInv, OneRequest, NEW p \in Requests, CountHistory(p)
    PROVE  SequentialInv'
<1> DEFINE r == request[p]
           b == r.batch
           op == r.op
<1>1. /\ b \in Batches /\ op \in CodeOperations /\ r.pc = "count_history"
      /\ UpToDate(r) /\ UNCHANGED <<batch, code, logins, crashes>>
    BY RequestTyped DEF CountHistory, At, RequestOK, CodeOperationOK, SequentialInv
<1>2. /\ op = "use" => batch[b].row = "stored"
      /\ op = "use" => Usable(r.code) /\ r.code \in Codes /\ b = BatchOf[r.code]
    BY <1>1 DEF UpToDate, IndInv, RetiredBatchIsDead
<1>3. /\ OnlyMoves(p)
      /\ op = "use" => /\ request'[p].pc = "save_code" /\ request'[p].op = op
                       /\ request'[p].code = r.code /\ request'[p].batch = b
      /\ op # "use" => request'[p] = Idle
    BY <1>2, GotoMoves, EndMoves DEF CountHistory, Pcs
<1>4. /\ \A a \in Batches : a # b => history'[a] = history[a]
      /\ history'[b] = Increment(history[b], op)
    BY <1>1 DEF CountHistory, IndInv, TypeOK
<1>5. ActiveBatches' = ActiveBatches
    BY <1>1 DEF ActiveBatches
<1>6. UpToDate(request[p])'
    <2>1. CASE op = "use"
        BY <1>1, <1>2, <1>3, <2>1 DEF UpToDate, Usable, CreatePcs
    <2>2. CASE op # "use"
        BY <1>3, <2>2 DEF UpToDate, Idle, CreatePcs
    <2> QED BY <2>1, <2>2
<1>7. ASSUME NEW a \in ActiveBatches'
      PROVE  Directed(a)' /\ (crashes' = 0 => Exact(a)' /\ Recorded(a)')
    <2>1. a \in Batches /\ a \in ActiveBatches
        BY <1>5 DEF ActiveBatches
    <2>2. /\ UsedIn(a)' = UsedIn(a) /\ RemovedIn(a)' = RemovedIn(a)
          /\ InvalidatedIn(a)' = InvalidatedIn(a)
        BY <1>1, SameCounts DEF SameColumns, CodesOf
    <2>3. Directed(a) /\ (crashes = 0 => Exact(a) /\ Recorded(a))
        BY <2>1 DEF SequentialInv
    <2>4. /\ AheadBy(a) = IF a = b /\ op = "use" THEN 1 ELSE 0
          /\ BehindBy(a, "delete") = 0 /\ BehindBy(a, "invalidate") = 0
          /\ Recorded(a) <=> IF a = b THEN batch[a] = Increment(history[a], op)
                                      ELSE history[a] = batch[a]
        BY <1>1, OffBy
    <2>5. /\ AheadBy(a)' = IF a = b /\ op = "use" THEN 1 ELSE 0
          /\ BehindBy(a, "delete")' = 0 /\ BehindBy(a, "invalidate")' = 0
          /\ Recorded(a)' <=> history'[a] = batch'[a]
        <3>1. CASE op = "use"
            BY <1>3, <3>1, OffByNext
        <3>2. CASE op # "use"
            BY <1>3, <3>2, OffByNext DEF Idle
        <3> QED BY <3>1, <3>2
    <2>6. Directed(a)' /\ (crashes' = 0 => Exact(a)')
        BY <1>1, <2>2, <2>3, <2>4, <2>5 DEF Directed, Exact
    <2>7. crashes' = 0 => Recorded(a)'
        BY <1>1, <1>4, <2>1, <2>3, <2>4, <2>5
    <2> QED BY <2>6, <2>7
<1>8. \A a, d \in ActiveBatches' : a = d
    BY <1>5, ActiveUnique
<1> QED BY <1>6, <1>7, <1>8, SequentialParts

\* What spending a usable code does to the three sets that are counted.
LEMMA SpentColumns ==
    ASSUME NEW row \in CodeRow, NEW op \in CodeOperations
    PROVE  /\ Spent(row, op).is_used = (op = "use" \/ row.is_used)
           /\ Spent(row, op).mark_for_deletion =
                 (op \in {"use", "delete"} \/ row.mark_for_deletion)
           /\ Spent(row, op).status = IF op = "invalidate" THEN "INVALIDATE"
                                                           ELSE "PENDING_DELETE"
<1>1. row.is_used \in BOOLEAN /\ row.mark_for_deletion \in BOOLEAN
    BY DEF CodeRow
<1>2. CASE op = "use"
    BY <1>1, <1>2 DEF Spent, CodeRow
<1>3. CASE op = "delete"
    BY <1>1, <1>3 DEF Spent, CodeRow
<1>4. CASE op = "invalidate"
    BY <1>1, <1>4 DEF Spent, CodeRow
<1> QED BY <1>2, <1>3, <1>4 DEF CodeOperations

LEMMA SpendingCounts ==
    ASSUME IndInv, NEW c \in Codes, Usable(c), NEW op \in CodeOperations,
           code' = [code EXCEPT ![c] = Spent(@, op)], NEW a \in Batches
    PROVE  /\ Cardinality(UsedIn(a)') =
                 Cardinality(UsedIn(a)) + IF a = BatchOf[c] /\ op = "use" THEN 1 ELSE 0
           /\ Cardinality(RemovedIn(a)') =
                 Cardinality(RemovedIn(a)) + IF a = BatchOf[c] /\ op = "delete" THEN 1 ELSE 0
           /\ Cardinality(InvalidatedIn(a)') =
                 Cardinality(InvalidatedIn(a))
                     + IF a = BatchOf[c] /\ op = "invalidate" THEN 1 ELSE 0
<1>1. /\ code[c] \in CodeRow /\ code[c].is_used = FALSE
      /\ code[c].mark_for_deletion = FALSE /\ code[c].status = "ACTIVE"
    BY DEF IndInv, TypeOK, ColumnsAgree, Usable, CodeRow
<1>2. /\ \A d \in Codes : d # c => code'[d] = code[d]
      /\ code'[c] = Spent(code[c], op)
    BY DEF IndInv, TypeOK
<1>3. /\ code'[c].is_used = (op = "use")
      /\ code'[c].mark_for_deletion = (op \in {"use", "delete"})
      /\ code'[c].status = IF op = "invalidate" THEN "INVALIDATE" ELSE "PENDING_DELETE"
    BY <1>1, <1>2, SpentColumns
<1>4. c \notin UsedIn(a) /\ c \notin RemovedIn(a) /\ c \notin InvalidatedIn(a)
    BY <1>1 DEF UsedIn, RemovedIn, InvalidatedIn
<1>5. c \in CodesOf(a) <=> a = BatchOf[c]
    BY DEF CodesOf
<1>6. UsedIn(a)' = IF a = BatchOf[c] /\ op = "use" THEN UsedIn(a) \cup {c} ELSE UsedIn(a)
    BY <1>1, <1>2, <1>3, <1>5 DEF UsedIn, CodesOf
<1>7. RemovedIn(a)' = IF a = BatchOf[c] /\ op = "delete"
                      THEN RemovedIn(a) \cup {c} ELSE RemovedIn(a)
    BY <1>1, <1>2, <1>3, <1>5 DEF RemovedIn, UsedIn, CodesOf, CodeOperations
<1>8. InvalidatedIn(a)' = IF a = BatchOf[c] /\ op = "invalidate"
                          THEN InvalidatedIn(a) \cup {c} ELSE InvalidatedIn(a)
    BY <1>1, <1>2, <1>3, <1>5 DEF InvalidatedIn, CodesOf
<1>9. /\ Cardinality(UsedIn(a) \cup {c}) = Cardinality(UsedIn(a)) + 1
      /\ Cardinality(RemovedIn(a) \cup {c}) = Cardinality(RemovedIn(a)) + 1
      /\ Cardinality(InvalidatedIn(a) \cup {c}) = Cardinality(InvalidatedIn(a)) + 1
    BY <1>4, CountsAreNumbers, FS_AddElement
<1> QED BY <1>6, <1>7, <1>8, <1>9, CountsAreNumbers

\* The code is spent: a use was counted before, the others are counted next.
LEMMA SaveCodeSequential ==
    ASSUME IndInv, SequentialInv, OneRequest, NEW p \in Requests, SaveCode(p)
    PROVE  SequentialInv'
<1> DEFINE r == request[p]
           b == r.batch
           c == r.code
           op == r.op
<1>1. /\ b \in Batches /\ c \in Codes /\ op \in CodeOperations /\ r.pc = "save_code"
      /\ UpToDate(r) /\ UNCHANGED <<batch, history, crashes>>
    BY RequestTyped DEF SaveCode, At, RequestOK, CodeOperationOK, SequentialInv
<1>2. Usable(c) /\ b = BatchOf[c] /\ code[c].row = "stored"
    BY <1>1 DEF UpToDate, Usable
<1>3. /\ code' = [code EXCEPT ![c] = Spent(@, op)]
      /\ IF op = "use" THEN End(p) ELSE Goto(p, "count_batch")
    BY <1>2 DEF SaveCode
<1>4. /\ op = "use" => request'[p] = Idle
      /\ op # "use" => /\ request'[p].pc = "count_batch" /\ request'[p].op = op
                       /\ request'[p].batch = b
    BY <1>3, GotoMoves, EndMoves DEF Pcs
<1>5. ActiveBatches' = ActiveBatches
    BY <1>1 DEF ActiveBatches
<1>6. UpToDate(request[p])'
    <2>1. CASE op = "use"
        BY <1>4, <2>1 DEF UpToDate, Idle, CreatePcs
    <2>2. CASE op # "use"
        BY <1>4, <2>2 DEF UpToDate, CreatePcs
    <2> QED BY <2>1, <2>2
<1>7. ASSUME NEW a \in ActiveBatches'
      PROVE  Directed(a)' /\ (crashes' = 0 => Exact(a)' /\ Recorded(a)')
    <2>1. a \in Batches /\ a \in ActiveBatches
        BY <1>5 DEF ActiveBatches
    <2>2. Directed(a) /\ (crashes = 0 => Exact(a) /\ Recorded(a))
        BY <2>1 DEF SequentialInv
    <2>3. /\ AheadBy(a) = IF a = b /\ op = "use" THEN 1 ELSE 0
          /\ BehindBy(a, "delete") = 0 /\ BehindBy(a, "invalidate") = 0
          /\ Recorded(a) <=> history[a] = batch[a]
        BY <1>1, OffBy
    <2>4. /\ AheadBy(a)' = 0
          /\ BehindBy(a, "delete")' = IF a = b /\ op = "delete" THEN 1 ELSE 0
          /\ BehindBy(a, "invalidate")' = IF a = b /\ op = "invalidate" THEN 1 ELSE 0
          /\ Recorded(a)' <=> history'[a] = batch'[a]
        <3>1. CASE op = "use"
            BY <1>4, <3>1, OffByNext DEF Idle
        <3>2. CASE op # "use"
            BY <1>4, <3>2, OffByNext
        <3> QED BY <3>1, <3>2
    <2>5. /\ Cardinality(UsedIn(a)') =
                 Cardinality(UsedIn(a)) + IF a = b /\ op = "use" THEN 1 ELSE 0
          /\ Cardinality(RemovedIn(a)') =
                 Cardinality(RemovedIn(a)) + IF a = b /\ op = "delete" THEN 1 ELSE 0
          /\ Cardinality(InvalidatedIn(a)') =
                 Cardinality(InvalidatedIn(a)) + IF a = b /\ op = "invalidate" THEN 1 ELSE 0
        <3>1. /\ c \in Codes /\ Usable(c) /\ op \in CodeOperations /\ b = BatchOf[c]
              /\ code' = [code EXCEPT ![c] = Spent(code[c], op)]
            BY <1>1, <1>2, <1>3
        <3> HIDE DEF c, op, b
        <3> QED BY <2>1, <3>1, SpendingCounts
    <2>6. batch'[a] = batch[a] /\ history'[a] = history[a]
        BY <1>1
    <2>7. Directed(a)'
        BY <2>1, <2>2, <2>3, <2>4, <2>5, <2>6, CountsAreNumbers, BatchNumbers
        DEF Directed, IndInv
    <2>8. crashes' = 0 => Exact(a)'
        BY <1>1, <2>1, <2>2, <2>3, <2>4, <2>5, <2>6, CountsAreNumbers, BatchNumbers
        DEF Exact, IndInv
    <2>9. crashes' = 0 => Recorded(a)'
        BY <1>1, <2>2, <2>3, <2>4, <2>6
    <2> QED BY <2>7, <2>8, <2>9
<1>8. \A a, d \in ActiveBatches' : a = d
    BY <1>5, ActiveUnique
<1> QED BY <1>6, <1>7, <1>8, SequentialParts

\* The new batch is the only ACTIVE one, and nothing has happened to its codes.
LEMMA CreateCommitSequential ==
    ASSUME IndInv, SequentialInv, OneRequest, NEW p \in Requests, CreateCommit(p)
    PROVE  SequentialInv'
<1> DEFINE r == request[p]
           n == r.new
<1>1. /\ r \in Request /\ n \in Batches /\ r.rows = ActiveBatches /\ End(p)
    BY RequestTyped
    DEF CreateCommit, At, RequestOK, NewKeyOK, CreatePcs, SequentialInv, UpToDate
<1>2. request'[p] = Idle /\ UpToDate(request[p])'
    BY <1>1, EndMoves, IdleIsUpToDate
<1>3. /\ batch'[n] = NewBatch /\ history'[n] = NewBatch
      /\ \A b \in Batches : b # n /\ b \in r.rows => batch'[b].status # "ACTIVE"
      /\ \A b \in Batches : b # n /\ b \notin r.rows => batch'[b] = batch[b]
    BY <1>1, BatchNumbers DEF CreateCommit, BatchRow, IndInv
<1>4. \A b \in ActiveBatches' : b = n
    BY <1>1, <1>3 DEF ActiveBatches
<1>5. \A c \in Codes : BatchOf[c] = n => code'[c] = NewCode
    BY DEF CreateCommit
<1>6. ASSUME NEW b \in ActiveBatches'
      PROVE  Directed(b)' /\ Exact(b)' /\ Recorded(b)'
    <2>1. b = n
        BY <1>4
    <2>2. \A c \in CodesOf(b) : code'[c] = NewCode
        BY <1>5, <2>1 DEF CodesOf
    <2>3. UsedIn(b)' = {} /\ RemovedIn(b)' = {} /\ InvalidatedIn(b)' = {}
        BY <2>2 DEF UsedIn, RemovedIn, InvalidatedIn, CodesOf, NewCode
    <2>4. batch'[b] = NewBatch /\ history'[b] = NewBatch
        BY <1>3, <2>1
    <2>5. /\ AheadBy(b)' = 0 /\ BehindBy(b, "delete")' = 0
          /\ BehindBy(b, "invalidate")' = 0
          /\ Recorded(b)' <=> history'[b] = batch'[b]
        BY <1>2, OffByNext DEF Idle
    <2> QED BY <2>3, <2>4, <2>5, FS_EmptySet DEF Directed, Exact, NewBatch
<1>7. \A a, d \in ActiveBatches' : a = d
    BY <1>4
<1> QED BY <1>2, <1>6, <1>7, SequentialParts

LEMMA EndSequential ==
    ASSUME IndInv, SequentialInv, OneRequest, NEW p \in Requests, End(p),
           request[p].pc \notin CodePcs, UNCHANGED <<batch, code, history, crashes>>
    PROVE  SequentialInv'
  BY IdleIsUpToDate, RowsUntouched DEF Halfway, CodePcs

LEMMA BatchStepSequential ==
    ASSUME IndInv, SequentialInv, OneRequest, NEW p \in Requests,
           \/ DiscardLock(p) \/ DiscardCommit(p) \/ GuardSave(p) \/ GuardFlush(p)
           \/ CreateLock(p) \/ CreateHistory(p) \/ CreateCodes(p)
           \/ (\E chunk \in SUBSET Codes : PurgeChunk(p, chunk)) \/ PurgeFinish(p)
    PROVE  SequentialInv'
<1> DEFINE r == request[p]
<1>1. /\ r \in Request /\ RequestOK(r) /\ UpToDate(r) /\ crashes' = crashes
      /\ request \in [Requests -> Request] /\ r.pc \notin CodePcs /\ ~Halfway(r)
    BY RequestTyped
    DEF SequentialInv, DiscardLock, DiscardCommit, GuardSave, GuardFlush, CreateLock,
        CreateHistory, CreateCodes, PurgeChunk, PurgeFinish, At, CodePcs, Halfway
<1>2. ASSUME UNCHANGED <<batch, code, history>>, NEW x, request'[p] = x,
             x.pc \notin CodePcs, UpToDate(request[p])'
      PROVE  SequentialInv'
    BY <1>1, <1>2, RowsUntouched DEF Halfway, CodePcs
<1>3. CASE DiscardLock(p)
    <2>1. /\ request'[p].pc = "discard_commit" /\ r.pc = "discard_lock"
          /\ request'[p].copy = r.copy /\ request'[p].batch = r.batch
          /\ UNCHANGED <<batch, code, history>>
        BY <1>1, <1>3 DEF DiscardLock, At, Request
    <2>2. UpToDate(request[p])'
        BY <1>1, <2>1 DEF UpToDate, CreatePcs
    <2> QED BY <1>2, <2>1, <2>2 DEF CodePcs
<1>4. CASE DiscardCommit(p)
    <2> DEFINE b == r.batch
    <2>1. /\ b \in Batches /\ r.copy \in BatchRow /\ r.codes \subseteq Codes
          /\ \A c \in r.codes : BatchOf[c] = b
          /\ UNCHANGED <<history, logins, crashes>> /\ End(p)
        BY <1>1, <1>4
        DEF DiscardCommit, At, RequestOK, HoldsBatchOK, CopyOK, DiscardOK, Request
    <2>2. /\ \A a \in Batches : a # b => batch'[a] = batch[a]
          /\ batch'[b].status = "PENDING_DELETE"
        BY <1>4, <2>1 DEF DiscardCommit, IndInv, TypeOK, BatchRow
    <2>3. \A a \in ActiveBatches' : a # b /\ a \in ActiveBatches /\ batch'[a] = batch[a]
        BY <2>2 DEF ActiveBatches
    <2>4. \A c \in Codes : BatchOf[c] # b => SameColumns(c)
        BY <1>4, <2>1 DEF DiscardCommit, SameColumns
    <2> QED BY <1>1, <2>1, <2>3, <2>4, IdleIsUpToDate, NothingCounted
<1>5. CASE GuardSave(p)
    <2>1. r.batch \in Batches /\ r.copy = batch[r.batch]
        BY <1>1, <1>5 DEF GuardSave, At, RequestOK, HoldsBatchOK, UpToDate
    <2>2. batch' = batch
        BY <1>5, <2>1 DEF GuardSave, IndInv, TypeOK
    <2> QED BY <1>1, <1>5, <2>2, EndSequential DEF GuardSave
<1>6. CASE GuardFlush(p)
    <2>1. CASE End(p)
        BY <1>1, <1>6, <2>1, EndSequential DEF GuardFlush
    <2>2. CASE BeginCreate(p, r.new)
        <3> DEFINE x == [Idle EXCEPT !.pc = "create_lock", !.new = r.new,
                                     !.rows = ActiveBatches]
        <3>1. request'[p] = x /\ UNCHANGED <<batch, code, history>>
            BY <1>1, <1>6, <2>2 DEF GuardFlush, BeginCreate
        <3>2. x.pc = "create_lock" /\ x.rows = ActiveBatches
            BY DEF Idle
        <3>3. ActiveBatches' = ActiveBatches
            BY <3>1 DEF ActiveBatches
        <3> HIDE DEF x
        <3>4. UpToDate(request[p])'
            BY <3>1, <3>2, <3>3 DEF UpToDate
        <3> QED BY <1>2, <3>1, <3>2, <3>4 DEF CodePcs
    <2> QED BY <1>6, <2>1, <2>2 DEF GuardFlush
<1>7. ASSUME CreateLock(p) \/ CreateHistory(p) \/ CreateCodes(p)
      PROVE  SequentialInv'
    <2>1. r.rows = ActiveBatches
        BY <1>1, <1>7 DEF UpToDate, CreateLock, CreateHistory, CreateCodes, At, CreatePcs
    <2>2. /\ request'[p].pc \in CreatePcs /\ request'[p].rows = ActiveBatches
          /\ UNCHANGED <<batch, code, history>>
        <3>1. CASE CreateLock(p)
            BY <1>1, <2>1, <3>1 DEF CreateLock, CreatePcs, Request
        <3>2. CASE CreateHistory(p)
            BY <1>1, <2>1, <3>2 DEF CreateHistory, CreatePcs, Request
        <3>3. CASE CreateCodes(p)
            BY <1>1, <2>1, <3>3 DEF CreateCodes, CreatePcs, Request
        <3> QED BY <1>7, <3>1, <3>2, <3>3
    <2>3. ActiveBatches' = ActiveBatches
        BY <2>2 DEF ActiveBatches
    <2>4. UpToDate(request[p])'
        BY <2>2, <2>3 DEF UpToDate, CreatePcs
    <2> QED BY <1>2, <2>2, <2>4 DEF CodePcs, CreatePcs
<1>8. ASSUME NEW chunk \in SUBSET Codes, PurgeChunk(p, chunk)
      PROVE  SequentialInv'
    <2>1. /\ r.pc = "purge" /\ request'[p].pc = "purge"
          /\ UNCHANGED <<batch, history, crashes>>
        BY <1>1, <1>8 DEF PurgeChunk, At, Request
    <2>2. \A c \in Codes : SameColumns(c)
        BY <1>8 DEF PurgeChunk, SameColumns, IndInv, TypeOK, CodeRow
    <2>3. ActiveBatches' = ActiveBatches
        BY <2>1 DEF ActiveBatches
    <2>4. UpToDate(request[p])' /\ ~Halfway(request'[p])
        BY <2>1 DEF UpToDate, Halfway, CreatePcs
    <2> QED BY <1>1, <2>1, <2>2, <2>3, <2>4, NothingCounted
<1>9. CASE PurgeFinish(p)
    <2>1. CASE UNCHANGED <<batch, code>>
        BY <1>1, <1>9, <2>1, EndSequential DEF PurgeFinish
    <2>2. CASE /\ batch' = [batch EXCEPT ![r.batch].row = "gone"]
               /\ code' = [c \in Codes |-> IF BatchOf[c] = r.batch
                                           THEN [code[c] EXCEPT !.row = "gone"] ELSE code[c]]
        <3>1. \A a \in ActiveBatches' : a \in ActiveBatches /\ batch'[a] = batch[a]
            BY <2>2, BatchNumbers DEF ActiveBatches, IndInv, TypeOK, BatchRow
        <3>2. \A c \in Codes : SameColumns(c)
            BY <2>2 DEF SameColumns, IndInv, TypeOK, CodeRow
        <3>3. End(p) /\ UNCHANGED history
            BY <1>9 DEF PurgeFinish
        <3> QED BY <1>1, <3>1, <3>2, <3>3, IdleIsUpToDate, NothingCounted
    <2> QED BY <1>9, <2>1, <2>2 DEF PurgeFinish
<1> QED BY <1>3, <1>4, <1>5, <1>6, <1>7, <1>8, <1>9

LEMMA NextSequential ==
    ASSUME OneRequest, IndInv, SequentialInv, [Next]_vars
    PROVE  SequentialInv'
<1>1. ASSUME NEW p \in Requests, Continue(p)
      PROVE  SequentialInv'
    BY <1>1, CountBatchSequential, CountHistorySequential, SaveCodeSequential,
       BatchStepSequential, CreateCommitSequential DEF Continue
<1>2. ASSUME NEW p \in Requests, Crash(p)
      PROVE  SequentialInv'
    <2>1. /\ crashes' # 0 /\ End(p) /\ UNCHANGED <<batch, code, history>>
        BY <1>2 DEF Crash, IndInv, TypeOK
    <2> QED BY <2>1, IdleIsUpToDate, RowsUntouched
<1>3. ASSUME NEW p \in Requests, NEW q \in Requests, DeadlockAbort(p, q)
      PROVE  FALSE
    BY <1>3 DEF DeadlockAbort, At, OneRequest
<1>4. CASE UNCHANGED vars
    <2>1. UNCHANGED <<batch, code, history, request, crashes>>
        BY <1>4 DEF vars
    <2>2. ActiveBatches' = ActiveBatches
        BY <2>1 DEF ActiveBatches
    <2>3. \A p \in Requests : UpToDate(request[p])' <=> UpToDate(request[p])
        BY <2>1, <2>2 DEF UpToDate, Usable
    <2>4. \A b : /\ UsedIn(b)' = UsedIn(b) /\ RemovedIn(b)' = RemovedIn(b)
                 /\ InvalidatedIn(b)' = InvalidatedIn(b)
        BY <2>1 DEF UsedIn, RemovedIn, InvalidatedIn, CodesOf
    <2>5. \A b, op, pcs : Standing(b, op, pcs)' = Standing(b, op, pcs)
        BY <2>1 DEF Standing
    <2>6. \A b \in Batches : /\ Directed(b)' <=> Directed(b)
                             /\ Exact(b)' <=> Exact(b)
                             /\ Recorded(b)' <=> Recorded(b)
        BY <2>1, <2>4, <2>5 DEF Directed, Exact, Recorded, AheadBy, BehindBy, At
    <2>7. ActiveBatches \subseteq Batches
        BY DEF ActiveBatches
    <2> QED BY <2>1, <2>2, <2>3, <2>6, <2>7 DEF SequentialInv
<1> QED BY <1>1, <1>2, <1>3, <1>4, StartSequential DEF Next, Rest

LEMMA InitSequential == Init => SequentialInv
<1> SUFFICES ASSUME Init PROVE SequentialInv
    OBVIOUS
<1>1. ActiveBatches = {}
    BY DEF Init, ActiveBatches, NoBatchRow, NewBatch
<1>2. \A p \in Requests : UpToDate(request[p])
    BY DEF Init, Idle, UpToDate, CreatePcs
<1> QED BY <1>1, <1>2 DEF SequentialInv

\* Of every instance whose requests do not overlap, with any number of batches,
\* codes and crashes.
THEOREM SequentialInvariance == OneRequest => (Spec => [](IndInv /\ SequentialInv))
<1> SUFFICES ASSUME OneRequest PROVE Spec => [](IndInv /\ SequentialInv)
    OBVIOUS
<1>1. Init => IndInv /\ SequentialInv
    BY InitIndInv, InitSequential
<1>2. IndInv /\ SequentialInv /\ [Next]_vars => (IndInv /\ SequentialInv)'
    BY NextIndInv, NextSequential
<1> QED BY <1>1, <1>2, PTL DEF Spec

\* As long as the requests of a user do not overlap there is at most one ACTIVE
\* batch, crashes included, so that no objects.get of the code meets several.
THEOREM AtMostOneActive == OneRequest => (Spec => []OneActiveBatch)
<1> SUFFICES ASSUME OneRequest PROVE Spec => []OneActiveBatch
    OBVIOUS
<1>1. SequentialInv => OneActiveBatch
    <2> SUFFICES ASSUME SequentialInv PROVE Cardinality(ActiveBatches) <= 1
        BY DEF OneActiveBatch
    <2>1. CASE ActiveBatches = {}
        BY <2>1, FS_EmptySet
    <2>2. ASSUME NEW b \in ActiveBatches
          PROVE  Cardinality(ActiveBatches) <= 1
        <3>1. ActiveBatches = {b}
            BY DEF SequentialInv
        <3> QED BY <3>1, FS_Singleton
    <2> QED BY <2>1, <2>2
<1> QED BY <1>1, SequentialInvariance, PTL

\* Between requests that do not overlap, and as long as no worker dies, the
\* counters of the ACTIVE batch and of its history say what happened to its codes.
THEOREM CountersExact == OneRequest => (Spec => []CountersMatchCodes)
<1> SUFFICES ASSUME OneRequest PROVE Spec => []CountersMatchCodes
    OBVIOUS
<1>1. IndInv /\ SequentialInv => CountersMatchCodes
    <2> SUFFICES ASSUME IndInv, SequentialInv, Quiet, crashes = 0,
                        NEW b \in ActiveBatches
                 PROVE  /\ batch[b].number_used = Cardinality(UsedIn(b))
                        /\ batch[b].number_removed = Cardinality(RemovedIn(b))
                        /\ batch[b].number_invalidated = Cardinality(InvalidatedIn(b))
                        /\ history[b] = batch[b]
        BY DEF CountersMatchCodes
    <2>1. b \in Batches /\ Exact(b) /\ Recorded(b)
        BY DEF SequentialInv, ActiveBatches
    <2>2. AheadBy(b) = 0 /\ BehindBy(b, "delete") = 0 /\ BehindBy(b, "invalidate") = 0
        BY DEF Quiet, At, AheadBy, BehindBy, Standing
    <2>3. history[b] = batch[b]
        BY <2>1 DEF Recorded, Quiet, At
    <2> QED BY <2>1, <2>2, <2>3, CountsAreNumbers, BatchNumbers DEF Exact, IndInv
<1> QED BY <1>1, SequentialInvariance, PTL

\* A worker that dies leaves the counters off in one direction only: too many uses,
\* too few removals and deactivations.
THEOREM CrashesErrOneWay == OneRequest => (Spec => []CrashKeepsDirection)
<1> SUFFICES ASSUME OneRequest PROVE Spec => []CrashKeepsDirection
    OBVIOUS
<1>1. IndInv /\ SequentialInv => CrashKeepsDirection
    <2> SUFFICES ASSUME IndInv, SequentialInv, NEW b \in ActiveBatches
                 PROVE  /\ batch[b].number_used >= Cardinality(UsedIn(b))
                        /\ batch[b].number_removed <= Cardinality(RemovedIn(b))
                        /\ batch[b].number_invalidated <= Cardinality(InvalidatedIn(b))
        BY DEF CrashKeepsDirection
    <2>1. b \in Batches /\ Directed(b)
        BY DEF SequentialInv, ActiveBatches
    <2>2. AheadBy(b) \in Nat /\ BehindBy(b, "delete") \in Nat
          /\ BehindBy(b, "invalidate") \in Nat
        BY DEF AheadBy, BehindBy, Standing
    <2> QED BY <2>1, <2>2, CountsAreNumbers, BatchNumbers DEF Directed, IndInv
<1> QED BY <1>1, SequentialInvariance, PTL
=============================================================================
