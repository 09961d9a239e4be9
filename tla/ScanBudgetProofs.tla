--------------------------- MODULE ScanBudgetProofs ---------------------------
(***************************************************************************)
(* The safety properties of ScanBudget, for every number of reclaimers,    *)
(* administrators, snapshot writers, cgroups and breakers.                 *)
(*                                                                         *)
(* The snapshot keeps the invariant of PredictionSnapshotProofs whatever   *)
(* the scan budget does.  A call carries what it has read: what it was     *)
(* told still entitles it to what it goes on to do, although the mode, the *)
(* enabled cgroup, the parameters and the snapshot may have changed since. *)
(* The breakers are counted against the calls that can still charge them:  *)
(* those that read the snapshot before the breaker was reset.              *)
(***************************************************************************)
EXTENDS ScanBudget, PredictionSnapshotProofs, FiniteSetTheorems, WellFoundedInduction

GuardType == [domain : Domains \cup {0}, generation : Nat, failures : Nat, tripped : BOOLEAN]

CallFields == {"pc", "domain", "native", "pressure", "now", "input", "allowed", "reason",
               "proposed", "applied", "armed", "targeted", "stale"}

\* What is known of reclaimer r's call.
CallInv(r) ==
    /\ DOMAIN req[r] = CallFields
    /\ req[r].domain \in Domains \cup {0}
    /\ req[r].input.generation \in Nat /\ req[r].input.generation <= snap.generation
    /\ req[r].pc # "idle" => /\ mode = "apply" => req[r].armed
                             /\ applyDomain = req[r].domain => req[r].targeted
    /\ req[r].pc # "return" => req[r].applied = req[r].native
    /\ req[r].pc \in {"compute", "mode", "domain"} => req[r].domain # 0 /\ req[r].allowed
    /\ req[r].pc \in {"compute", "mode", "domain", "report"} => context_valid(req[r].input)
    /\ req[r].pc = "domain" => req[r].armed
    /\ req[r].applied # req[r].native =>
          /\ req[r].domain # 0 /\ req[r].allowed /\ context_valid(req[r].input)
          /\ req[r].armed /\ req[r].targeted

\* The calls that read the snapshot before d's breaker was reset and can still
\* charge it.
Pending(d) ==
    {r \in Reclaimers :
        /\ req[r].domain = d /\ req[r].stale
        /\ \/ req[r].pc = "guard"
           \/ req[r].pc \in {"validate", "report"} /\ context_valid(req[r].input)}

CountInv ==
    \A i \in 1..MaxDomains :
        guards[i].domain # 0 =>
            guards[i].failures + Cardinality(Pending(guards[i].domain))
                <= fresh[guards[i].domain] + Cardinality(Reclaimers)

FreeIsClear == \A i \in 1..MaxDomains : guards[i].domain = 0 => guards[i].failures = 0

BreakerInv ==
    /\ FreeIsClear
    /\ guards \in [1..MaxDomains -> GuardType]
    /\ fresh \in [Domains -> Nat]
    /\ OneGuardPerDomain
    /\ BreakerCanClose

BudgetInv ==
    /\ IInv
    /\ DOMAIN req = Reclaimers
    /\ \A r \in Reclaimers : CallInv(r)
    /\ BreakerInv
    /\ CountInv

-----------------------------------------------------------------------------
(* The lowest slot of a set, and the slot of a cgroup.                     *)

\* A non-empty set of slots has a lowest one.
LEMMA LowestExists ==
    ASSUME NEW S, S \subseteq Nat, S # {}
    PROVE  LowestOf(S) \in S
<1> DEFINE R == OpToRel(<, Nat)
<1>0. IsWellFoundedOn(R, Nat)
  BY NatLessThanWellFounded
<1>1. \A x, y \in Nat : ~(<<y, x>> \in R) => x <= y
  BY DEF OpToRel
<1> HIDE DEF R
<1>2. PICK x \in S : \A y \in S : x <= y
  <2>1. PICK x \in S : \A y \in S : ~(<<y, x>> \in R)
    BY <1>0, WFMin
  <2> QED BY <1>1, <2>1
<1> QED
  BY <1>2 DEF LowestOf

\* guard_find() returns the cgroup's own slot, or a free one when it has none.
LEMMA GuardFound ==
    ASSUME guards \in [1..MaxDomains -> GuardType], NEW d \in Domains, guard_find(d) # 0
    PROVE  /\ guard_find(d) \in 1..MaxDomains
           /\ \/ guards[guard_find(d)].domain = d
              \/ /\ guards[guard_find(d)].domain = 0
                 /\ \A i \in 1..MaxDomains : guards[i].domain # d
<1> DEFINE own == {i \in DOMAIN guards : guards[i].domain = d}
           free == {i \in DOMAIN guards : guards[i].domain = 0}
<1>1. own \subseteq Nat /\ free \subseteq Nat /\ DOMAIN guards = 1..MaxDomains
  BY SizeAssumption
<1>2. CASE own # {}
  <2>1. guard_find(d) = LowestOf(own)
    BY <1>2 DEF guard_find
  <2>2. guard_find(d) \in own
    BY <1>1, <1>2, <2>1, LowestExists
  <2> QED BY <1>1, <2>2
<1>3. CASE own = {}
  <2>1. free # {} /\ guard_find(d) = LowestOf(free)
    BY <1>3 DEF guard_find
  <2>2. guard_find(d) \in free
    BY <1>1, <2>1, LowestExists
  <2> QED BY <1>1, <1>3, <2>2
<1> QED
  BY <1>2, <1>3

-----------------------------------------------------------------------------
(* Breakers.                                                               *)

\* The entry parp_scan_budget_guard() makes is tripped exactly at the limit.
LEMMA ConsultedEntry ==
    ASSUME NEW g \in GuardType, NEW d \in Domains, NEW n \in Nat, NEW valid \in BOOLEAN,
           g.failures <= GuardFailures, g.tripped <=> g.failures = GuardFailures
    PROVE  LET x == Consulted(g, d, n, valid)
           IN  /\ x \in GuardType /\ x.domain = d
               /\ x.failures <= GuardFailures /\ (x.tripped <=> x.failures = GuardFailures)
               /\ x.generation = g.generation \/ x.generation = n
               /\ Resets(g, n, valid) => x.failures = 0
               /\ ~Resets(g, n, valid) /\ Counts(g, valid) => x.failures = g.failures + 1
               /\ ~Resets(g, n, valid) /\ ~Counts(g, valid) => x.failures = g.failures
<1> DEFINE e == [g EXCEPT !.domain = d]
           x == Consulted(g, d, n, valid)
<1>1. /\ e \in GuardType /\ e.domain = d /\ e.failures = g.failures /\ e.tripped = g.tripped
      /\ e.generation = g.generation /\ GuardFailures \in Nat \ {0} /\ g.failures \in Nat
  BY GuardAssumption DEF GuardType
<1>2. /\ Resets(e, n, valid) = Resets(g, n, valid) /\ Counts(e, valid) = Counts(g, valid)
      /\ x = IF Resets(e, n, valid) THEN Reset(e, n)
             ELSE IF Counts(e, valid)
                  THEN [e EXCEPT !.failures = @ + 1, !.tripped = e.failures + 1 >= GuardFailures]
                  ELSE e
  BY <1>1 DEF Consulted, Resets, Counts
<1>3. CASE Resets(g, n, valid)
  <2>1. x = [e EXCEPT !.generation = n, !.failures = 0, !.tripped = FALSE]
    BY <1>2, <1>3 DEF Reset
  <2> HIDE DEF e, x
  <2>2. /\ x \in GuardType /\ x.domain = d /\ x.failures = 0 /\ x.tripped = FALSE /\ x.generation = n
    BY <1>1, <2>1 DEF GuardType
  <2> QED BY <1>1, <1>3, <2>2 DEF x
<1>4. CASE ~Resets(g, n, valid) /\ Counts(g, valid)
  <2> DEFINE k == g.failures + 1
             t == k >= GuardFailures
  <2>1. t \in BOOLEAN /\ k \in Nat
    BY <1>1
  <2>2. ~g.tripped /\ g.failures # GuardFailures
    BY <1>4 DEF Counts
  <2>3. k <= GuardFailures /\ (t <=> k = GuardFailures)
    BY <1>1, <2>2
  <2>4. x = [e EXCEPT !.failures = k, !.tripped = t]
    BY <1>1, <1>2, <1>4
  <2> HIDE DEF e, x, t, k
  <2>5. /\ x \in GuardType /\ x.domain = d /\ x.failures = k /\ x.tripped = t
        /\ x.generation = g.generation
    BY <1>1, <2>1, <2>4 DEF GuardType
  <2> QED BY <1>4, <2>3, <2>5 DEF x, k
<1>5. CASE ~Resets(g, n, valid) /\ ~Counts(g, valid)
  <2>1. x = e
    BY <1>2, <1>5
  <2> HIDE DEF e, x
  <2> QED BY <1>1, <1>5, <2>1 DEF x
<1> QED
  BY <1>3, <1>4, <1>5

\* Sets of reclaimers are finite and counted.
LEMMA PendingCounted ==
    ASSUME NEW S, S \subseteq Reclaimers
    PROVE  /\ IsFiniteSet(S) /\ Cardinality(S) \in Nat /\ Cardinality(Reclaimers) \in Nat
           /\ Cardinality(S) <= Cardinality(Reclaimers)
           /\ \A T : T \subseteq S => Cardinality(T) \in Nat /\ Cardinality(T) <= Cardinality(S)
           /\ \A T, r : r \in S /\ T \subseteq S \ {r} => Cardinality(T) <= Cardinality(S) - 1
<1>1. IsFiniteSet(Reclaimers)
  BY GuardAssumption
<1>2. /\ IsFiniteSet(S) /\ Cardinality(S) \in Nat /\ Cardinality(Reclaimers) \in Nat
      /\ Cardinality(S) <= Cardinality(Reclaimers)
  BY <1>1, FS_Subset, FS_CardinalityType
<1>3. \A T : T \subseteq S => Cardinality(T) \in Nat /\ Cardinality(T) <= Cardinality(S)
  BY <1>2, FS_Subset, FS_CardinalityType
<1>4. ASSUME NEW T, NEW r, r \in S, T \subseteq S \ {r}
      PROVE  Cardinality(T) <= Cardinality(S) - 1
  <2>1. IsFiniteSet(S \ {r}) /\ Cardinality(S \ {r}) = Cardinality(S) - 1
    BY <1>2, <1>4, FS_RemoveElement
  <2> QED BY <1>4, <2>1, FS_Subset
<1> QED
  BY <1>2, <1>3, <1>4

\* A step that resets no breaker and adds no pending call keeps the count.
LEMMA CountKeeps ==
    ASSUME BreakerInv, CountInv, UNCHANGED <<guards, fresh>>,
           \A d \in Domains : Pending(d)' \subseteq Pending(d)
    PROVE  CountInv'
<1> SUFFICES ASSUME NEW i \in 1..MaxDomains, NEW d \in Domains, d # 0, guards[i].domain = d
             PROVE  guards[i].failures + Cardinality(Pending(d)')
                        <= fresh[d] + Cardinality(Reclaimers)
  <2>1. \A i \in 1..MaxDomains : guards[i].domain # 0 => guards[i].domain \in Domains
    BY DEF BreakerInv, GuardType
  <2> QED BY <2>1 DEF CountInv
<1>1. d \in Domains /\ guards[i].failures \in Nat /\ fresh[d] \in Nat
  BY DEF BreakerInv, GuardType
<1>2. guards[i].failures + Cardinality(Pending(d)) <= fresh[d] + Cardinality(Reclaimers)
  BY DEF CountInv
<1>3. /\ Cardinality(Pending(d)) \in Nat /\ Cardinality(Reclaimers) \in Nat
      /\ Cardinality(Pending(d)') \in Nat /\ Cardinality(Pending(d)') <= Cardinality(Pending(d))
  <2>1. Pending(d) \subseteq Reclaimers /\ Pending(d)' \subseteq Pending(d)
    BY <1>1 DEF Pending
  <2> QED BY <2>1, PendingCounted
<1> QED
  BY <1>1, <1>2, <1>3

\* parp_scan_budget_guard(), as either caller uses it, keeps one breaker per
\* cgroup, and charges a stale call's failure at most once.
LEMMA GuardKeeps ==
    ASSUME BudgetInv, NEW r \in Reclaimers, NEW valid \in BOOLEAN, NEW next, Guard(r, valid, next),
           \/ req[r].pc = "guard" /\ (valid <=> context_valid(req[r].input)) /\ next = "validate"
           \/ req[r].pc = "report" /\ ~valid /\ next = "return",
           UNCHANGED <<snap, mode, applyDomain>>
    PROVE  /\ BreakerInv' /\ CountInv' /\ DOMAIN req' = Reclaimers
           /\ \A q \in Reclaimers : CallInv(q)'
<1> DEFINE d == req[r].domain
           n == req[r].input.generation
           i == IF d = 0 THEN 0 ELSE guard_find(d)
           resets == i # 0 /\ Resets(guards[i], n, valid)
           counts == i # 0 /\ ~resets /\ Counts(guards[i], valid)
           ok == i # 0 /\ ~guards'[i].tripped
<1>1. /\ BreakerInv /\ CountInv /\ DOMAIN req = Reclaimers /\ \A q \in Reclaimers : CallInv(q)
  BY DEF BudgetInv
<1>2. /\ guards' = IF i = 0 THEN guards ELSE [guards EXCEPT ![i] = Consulted(@, d, n, valid)]
      /\ fresh' = IF resets THEN [fresh EXCEPT ![d] = 0]
                  ELSE IF counts /\ ~req[r].stale THEN [fresh EXCEPT ![d] = @ + 1]
                  ELSE fresh
      /\ req' = [q \in Reclaimers |->
                   IF q = r THEN [req[r] EXCEPT !.pc = next, !.allowed = ok]
                   ELSE [req[q] EXCEPT !.stale = @ \/ (resets /\ req[q].domain = d)]]
  BY DEF Guard
<1>3. /\ d \in Domains \cup {0} /\ n \in Nat /\ n <= snap.generation
      /\ guards \in [1..MaxDomains -> GuardType] /\ fresh \in [Domains -> Nat]
  BY <1>1 DEF CallInv, BreakerInv
<1>3a. \A j \in 1..MaxDomains : /\ guards[j].failures <= GuardFailures
                                /\ guards[j].tripped <=> guards[j].failures = GuardFailures
  <2>1. OneGuardPerDomain
    BY <1>1 DEF BreakerInv
  <2> QED BY <2>1 DEF OneGuardPerDomain
<1>4. i # 0 => /\ i \in 1..MaxDomains /\ d \in Domains /\ d # 0
               /\ \/ guards[i].domain = d
                  \/ guards[i].domain = 0 /\ \A j \in 1..MaxDomains : guards[j].domain # d
  <2>0. d \in Domains => d # 0
    BY InputAssumption
  <2>1. d # 0 => d \in Domains
    BY <1>3
  <2> QED BY <1>3, <2>0, <2>1, GuardFound
<1> HIDE DEF i, resets, counts, ok
<1>5. /\ DOMAIN req' = Reclaimers /\ \A q \in Reclaimers : DOMAIN req'[q] = CallFields
      /\ req'[r].pc = next /\ req'[r].stale = req[r].stale
      /\ req'[r].domain = d /\ req'[r].input = req[r].input /\ req'[r].applied = req[r].applied
      /\ req'[r].native = req[r].native /\ req'[r].armed = req[r].armed
      /\ req'[r].targeted = req[r].targeted
  BY <1>1, <1>2 DEF CallInv, CallFields
<1>6. \A q \in Reclaimers : q # r =>
        /\ req'[q].pc = req[q].pc /\ req'[q].domain = req[q].domain /\ req'[q].input = req[q].input
        /\ req'[q].applied = req[q].applied /\ req'[q].native = req[q].native
        /\ req'[q].armed = req[q].armed /\ req'[q].targeted = req[q].targeted
        /\ req'[q].allowed = req[q].allowed
        /\ req'[q].stale => req[q].stale \/ (resets /\ req[q].domain = d)
  BY <1>1, <1>2 DEF CallInv, CallFields
<1>7. \A q \in Reclaimers : CallInv(q)'
  <2>1. CallInv(r)'
    BY <1>1, <1>5 DEF CallInv
  <2>2. \A q \in Reclaimers : q # r => CallInv(q)'
    BY <1>1, <1>5, <1>6 DEF CallInv
  <2> QED BY <2>1, <2>2
<1> DEFINE x == Consulted(guards[i], d, n, valid)
<1>8. i # 0 =>
        /\ x \in GuardType /\ x.domain = d
        /\ x.failures <= GuardFailures /\ (x.tripped <=> x.failures = GuardFailures)
        /\ x.generation = guards[i].generation \/ x.generation = n
        /\ resets => x.failures = 0
        /\ counts => x.failures = guards[i].failures + 1
        /\ ~resets /\ ~counts => x.failures = guards[i].failures
  <2>1. i # 0 => guards[i] \in GuardType
    BY <1>3, <1>4
  <2> QED BY <1>3, <1>3a, <1>4, <2>1, ConsultedEntry DEF resets, counts
<1> HIDE DEF x
<1>9. /\ i # 0 => guards' = [guards EXCEPT ![i] = x]
      /\ i = 0 => guards' = guards
  BY <1>2 DEF x
<1>10. BreakerInv'
  <2>1. guards' \in [1..MaxDomains -> GuardType]
    BY <1>3, <1>4, <1>8, <1>9
  <2>2. fresh' \in [Domains -> Nat]
    BY <1>2, <1>3, <1>4 DEF resets, counts
  <2>3. OneGuardPerDomain'
    <3>1. CASE i = 0
      BY <1>1, <1>9, <3>1 DEF BreakerInv, OneGuardPerDomain
    <3>2. CASE i # 0
      <4>1. \A j \in 1..MaxDomains : guards'[j] = IF j = i THEN x ELSE guards[j]
        BY <1>3, <1>4, <1>9, <3>2
      <4>2. ASSUME NEW j \in 1..MaxDomains, NEW k \in 1..MaxDomains,
                   guards'[j].domain # 0, guards'[j].domain = guards'[k].domain
            PROVE  j = k
        <5>1. \A l, m \in 1..MaxDomains : guards[l].domain # 0 /\ guards[l].domain = guards[m].domain => l = m
          BY <1>1 DEF BreakerInv, OneGuardPerDomain
        <5> QED BY <1>4, <1>8, <3>2, <4>1, <4>2, <5>1
      <4>3. \A j \in 1..MaxDomains : /\ guards'[j].failures <= GuardFailures
                                     /\ guards'[j].tripped <=> guards'[j].failures = GuardFailures
        BY <1>3a, <1>8, <3>2, <4>1
      <4> QED BY <4>2, <4>3 DEF OneGuardPerDomain
    <3> QED BY <3>1, <3>2
  <2>4. BreakerCanClose'
    BY <1>1, <1>3, <1>4, <1>8, <1>9 DEF BreakerInv, BreakerCanClose, GuardType
  <2>5. FreeIsClear'
    BY <1>1, <1>3, <1>4, <1>8, <1>9 DEF BreakerInv, FreeIsClear
  <2> QED BY <2>1, <2>2, <2>3, <2>4, <2>5 DEF BreakerInv
<1>11. CountInv'
  <2> SUFFICES ASSUME NEW j \in 1..MaxDomains, NEW e \in Domains, guards'[j].domain = e
               PROVE  guards'[j].failures + Cardinality(Pending(e)')
                        <= fresh'[e] + Cardinality(Reclaimers)
    <3>1. \A j \in 1..MaxDomains : guards'[j].domain # 0 => guards'[j].domain \in Domains
      BY <1>10 DEF BreakerInv, GuardType
    <3> QED BY <3>1 DEF CountInv, Pending
  <2> DEFINE C(S) == Cardinality(S)
  <2>1. e \in Domains /\ fresh'[e] \in Nat /\ e # 0
    BY <1>10, InputAssumption DEF BreakerInv
  <2>2. /\ Pending(e) \subseteq Reclaimers /\ Pending(e)' \subseteq Reclaimers
    BY DEF Pending
  <2>3. CASE e # d
    <3>1. guards'[j] = guards[j]
      BY <1>3, <1>4, <1>8, <1>9, <2>3
    <3>2. fresh'[e] = fresh[e]
      BY <1>2, <1>3, <1>4, <2>1, <2>3 DEF resets, counts
    <3>3. Pending(e)' \subseteq Pending(e)
      BY <1>5, <1>6, <2>3 DEF Pending
    <3>4. guards[j].failures + C(Pending(e)) <= fresh[e] + C(Reclaimers)
      BY <1>1, <2>1, <3>1 DEF CountInv
    <3>5. guards[j].failures \in Nat
      BY <1>3 DEF GuardType
    <3>6. /\ C(Pending(e)') <= C(Pending(e)) /\ C(Pending(e)) \in Nat /\ C(Pending(e)') \in Nat
          /\ C(Reclaimers) \in Nat
      BY <2>2, <3>3, PendingCounted
    <3> QED BY <2>1, <3>1, <3>2, <3>4, <3>5, <3>6
  <2>4. CASE e = d
    <3>0. d # 0 /\ C(Reclaimers) \in Nat /\ C(Pending(e)) \in Nat /\ C(Pending(e)') \in Nat
          /\ C(Pending(e)) <= C(Reclaimers) /\ C(Pending(e)') <= C(Reclaimers)
      BY <2>1, <2>2, <2>4, PendingCounted
    <3>1. CASE i = 0
      <4>1. guards' = guards /\ fresh' = fresh
        BY <1>2, <1>9, <3>1 DEF resets, counts
      <4>2. Pending(e)' \subseteq Pending(e)
        <5>1. ~resets
          BY <3>1 DEF resets
        <5>2. r \in Pending(e)' => r \in Pending(e)
          BY <1>1, <1>5, <2>4 DEF Pending
        <5>3. \A q \in Reclaimers : q # r /\ q \in Pending(e)' => q \in Pending(e)
          BY <1>6, <5>1 DEF Pending
        <5> QED BY <2>2, <5>2, <5>3
      <4>3. C(Pending(e)') <= C(Pending(e))
        BY <2>2, <4>2, PendingCounted
      <4>4. guards[j].failures + C(Pending(e)) <= fresh[e] + C(Reclaimers) /\ guards[j].failures \in Nat
        BY <1>1, <1>3, <2>1, <4>1 DEF CountInv, GuardType
      <4> QED BY <2>1, <3>0, <4>1, <4>3, <4>4
    <3>2. CASE i # 0
      <4>1. j = i
        <5>1. guards'[i].domain = d
          BY <1>3, <1>4, <1>8, <1>9, <3>2
        <5> QED BY <1>4, <1>10, <2>4, <3>2, <5>1 DEF BreakerInv, OneGuardPerDomain
      <4>2. guards'[j] = x
        BY <1>3, <1>4, <1>9, <3>2, <4>1
      <4>3. CASE resets
        BY <1>8, <2>1, <3>0, <3>2, <4>2, <4>3
      <4>4. guards[i].failures \in Nat /\ fresh[d] \in Nat
        BY <1>3, <1>4, <3>2 DEF GuardType
      <4>5. guards[i].failures + C(Pending(e)) <= fresh[d] + C(Reclaimers)
        <5>1. CASE guards[i].domain = d
          BY <1>1, <1>4, <2>4, <3>2, <5>1 DEF CountInv
        <5>2. CASE guards[i].domain = 0
          <6>1. guards[i].failures = 0
            BY <1>1, <1>4, <3>2, <5>2 DEF FreeIsClear, BreakerInv
          <6> QED BY <3>0, <4>4, <6>1
        <5> QED BY <1>4, <3>2, <5>1, <5>2
      <4>6. CASE ~resets
        <5>1. \A q \in Reclaimers : q # r /\ q \in Pending(e)' => q \in Pending(e)
          BY <1>6, <4>6 DEF Pending
        <5>2. CASE ~counts
          <6>1. r \in Pending(e)' => r \in Pending(e)
            BY <1>1, <1>5, <2>4 DEF Pending
          <6>2. C(Pending(e)') <= C(Pending(e))
            BY <2>2, <5>1, <6>1, PendingCounted
          <6>3. fresh' = fresh
            BY <1>2, <4>6, <5>2
          <6> QED BY <1>8, <2>4, <3>0, <3>2, <4>2, <4>4, <4>5, <4>6, <5>2, <6>2, <6>3
        <5>3. CASE counts
          <6>1. ~valid
            BY <5>3 DEF counts, Counts
          <6>2. r \notin Pending(e)'
            BY <1>5, <6>1 DEF Pending
          <6>3. CASE ~req[r].stale
            <7>1. fresh'[d] = fresh[d] + 1
              BY <1>2, <1>3, <1>4, <3>2, <4>6, <5>3, <6>3
            <7>2. C(Pending(e)') <= C(Pending(e))
              BY <2>2, <5>1, <6>2, PendingCounted
            <7> QED BY <1>8, <2>4, <3>0, <3>2, <4>2, <4>4, <4>5, <5>3, <7>1, <7>2
          <6>4. CASE req[r].stale
            <7>1. r \in Pending(e)
              BY <1>1, <2>4, <6>4 DEF Pending, CallInv
            <7>2. Pending(e)' \subseteq Pending(e) \ {r}
              BY <2>2, <5>1, <6>2
            <7>3. C(Pending(e)') <= C(Pending(e)) - 1
              BY <2>2, <7>1, <7>2, PendingCounted
            <7>4. fresh' = fresh
              BY <1>2, <4>6, <6>4
            <7> QED BY <1>8, <2>4, <3>0, <3>2, <4>2, <4>4, <4>5, <5>3, <7>3, <7>4
          <6> QED BY <6>3, <6>4
        <5> QED BY <5>2, <5>3
      <4> QED BY <4>3, <4>6
    <3> QED BY <3>1, <3>2
  <2> QED BY <2>3, <2>4
<1> QED
  BY <1>5, <1>7, <1>10, <1>11

-----------------------------------------------------------------------------
(* The other steps.                                                        *)

\* A published generation is never followed by an older one.
LEMMA GenerationGrows ==
    ASSUME IInv, SnapshotNext
    PROVE  snap.generation \in Nat /\ snap'.generation \in Nat /\ snap.generation <= snap'.generation
<1>1. IInv'
  BY NextIInv
<1>2. snap.generation \in Nat /\ snap'.generation \in Nat
  BY <1>1 DEF IInv, Sound, WellFormed, SnapshotType
<1>3. CASE snap' = snap
  BY <1>2, <1>3
<1>4. CASE \E w \in Writers : Publish(w)
  <2>1. PICK w \in Writers : Publish(w)
    BY <1>4
  <2>2. Follows(snap, snap')
    BY <2>1 DEF Publish, IInv, WriterOK
  <2> QED BY <1>2, <2>2 DEF Follows
<1> QED
  BY <1>3, <1>4 DEF SnapshotNext, WriterStep, Tick, snapshotVars, Bind, Prior, PriorBatch, Update,
                    UpdateFails

\* A call's input names no generation the snapshot has not reached.
LEMMA InputGeneration ==
    ASSUME IInv, NEW d, NEW t
    PROVE  /\ fill_scan_budget_input(snap, d, t).generation \in Nat
           /\ fill_scan_budget_input(snap, d, t).generation <= snap.generation
           /\ snap.generation \in Nat
<1>1. snap.generation \in Nat
  BY DEF IInv, Sound, WellFormed, SnapshotType
<1>2. fill_scan_budget_input(snap, d, t).generation \in {snap.generation, 0}
  BY DEF fill_scan_budget_input
<1> QED
  BY <1>1, <1>2

\* A step of call r that leaves the breakers alone, and either starts or ends
\* the call or does not make it pending.
LEMMA CallKeeps ==
    ASSUME BudgetInv, NEW r \in Reclaimers, NEW c, req' = [req EXCEPT ![r] = c],
           UNCHANGED <<sources, mode, applyDomain, guards, fresh>>,
           DOMAIN c = CallFields, c.domain \in Domains \cup {0},
           c.input.generation \in Nat, c.input.generation <= snap.generation,
           c.pc # "idle" => /\ mode = "apply" => c.armed
                            /\ applyDomain = c.domain => c.targeted,
           c.pc # "return" => c.applied = c.native,
           c.pc \in {"compute", "mode", "domain"} => c.domain # 0 /\ c.allowed,
           c.pc \in {"compute", "mode", "domain", "report"} => context_valid(c.input),
           c.pc = "domain" => c.armed,
           c.applied # c.native => /\ c.domain # 0 /\ c.allowed /\ context_valid(c.input)
                                   /\ c.armed /\ c.targeted,
           \/ c.pc \notin {"guard", "validate", "report"}
           \/ ~c.stale
           \/ /\ req[r].pc \in {"validate", "report"} /\ c.pc \in {"validate", "report"}
              /\ c.stale = req[r].stale /\ c.domain = req[r].domain /\ c.input = req[r].input
    PROVE  BudgetInv'
<1>1. /\ IInv /\ BreakerInv /\ CountInv /\ DOMAIN req = Reclaimers
      /\ \A q \in Reclaimers : CallInv(q)
  BY DEF BudgetInv
<1>2. \A q \in Reclaimers : req'[q] = IF q = r THEN c ELSE req[q]
  BY <1>1
<1>3. IInv'
  BY <1>1 DEF IInv, WriterOK, sources, snapshotVars
<1>4. BreakerInv'
  BY <1>1 DEF BreakerInv, FreeIsClear, OneGuardPerDomain, BreakerCanClose, sources, snapshotVars
<1>5. \A q \in Reclaimers : CallInv(q)'
  <2>1. CallInv(r)'
    BY <1>2 DEF CallInv, sources, snapshotVars
  <2>2. \A q \in Reclaimers : q # r => CallInv(q)'
    BY <1>1, <1>2 DEF CallInv, sources, snapshotVars
  <2> QED BY <2>1, <2>2
<1>6. \A d \in Domains : Pending(d)' \subseteq Pending(d)
  BY <1>2 DEF Pending
<1>7. CountInv'
  BY <1>1, <1>6, CountKeeps
<1>8. DOMAIN req' = Reclaimers
  BY <1>1
<1> QED
  BY <1>3, <1>4, <1>5, <1>7, <1>8 DEF BudgetInv

\* Each step of a call keeps the invariant.
LEMMA ReclaimerKeeps ==
    ASSUME BudgetInv, NEW r \in Reclaimers, ReclaimerStep(r)
    PROVE  BudgetInv'
<1>1. /\ IInv /\ BreakerInv /\ CountInv /\ DOMAIN req = Reclaimers
      /\ \A q \in Reclaimers : CallInv(q)
  BY DEF BudgetInv
<1>2. CallInv(r) /\ DOMAIN req[r] = CallFields
  BY <1>1 DEF CallInv
<1>3. snap.generation \in Nat
  BY <1>1 DEF IInv, Sound, WellFormed, SnapshotType
<1>4. CASE Prepare(r)
  <2>1. PICK d \in Domains \cup {0}, n \in Natives, p \in UsedPressures :
          req' = [req EXCEPT ![r] = [IdleCall EXCEPT
                    !.pc = "fill", !.domain = d, !.native = n, !.applied = n, !.proposed = n,
                    !.pressure = p, !.now = now,
                    !.armed = mode = "apply", !.targeted = applyDomain = d]]
    BY <1>4 DEF Prepare
  <2> DEFINE am == mode = "apply"
             td == applyDomain = d
             c == [IdleCall EXCEPT
                    !.pc = "fill", !.domain = d, !.native = n, !.applied = n, !.proposed = n,
                    !.pressure = p, !.now = now, !.armed = am, !.targeted = td]
  <2>2. am \in BOOLEAN /\ td \in BOOLEAN /\ req' = [req EXCEPT ![r] = c]
    BY <2>1
  <2>3. IdleCall.input.generation = 0
    BY DEF IdleCall, NoInput, fill_scan_budget_input, NoSnapshot
  <2>4. /\ DOMAIN c = CallFields /\ c.pc = "fill" /\ c.domain = d /\ c.input = IdleCall.input
        /\ c.applied = n /\ c.native = n /\ c.armed = am /\ c.targeted = td
    <3> HIDE DEF am, td
    <3> QED BY DEF IdleCall, CallFields
  <2>5. UNCHANGED <<sources, mode, applyDomain, guards, fresh>>
    BY <1>4 DEF Prepare
  <2>6. /\ mode = "apply" => c.armed
        /\ applyDomain = c.domain => c.targeted
    <3>1. (mode = "apply" => am) /\ (applyDomain = d => td)
      OBVIOUS
    <3> HIDE DEF am, td, c
    <3> QED BY <2>4, <3>1
  <2> HIDE DEF c, am, td
  <2>7. c.input.generation \in Nat /\ c.input.generation <= snap.generation
    BY <1>3, <2>3, <2>4
  <2> QED BY <2>2, <2>4, <2>5, <2>6, <2>7, CallKeeps
<1>5. CASE Fill(r)
  <2> DEFINE x == fill_scan_budget_input(snap, req[r].domain, req[r].now)
             c == [req[r] EXCEPT !.pc = "guard", !.stale = FALSE, !.input = x]
  <2>1. x.generation \in Nat /\ x.generation <= snap.generation
    BY <1>1, InputGeneration
  <2>2. req' = [req EXCEPT ![r] = c]
    BY <1>1, <1>5 DEF Fill
  <2> HIDE DEF x
  <2>3. /\ DOMAIN c = CallFields /\ c.pc = "guard" /\ c.stale = FALSE /\ c.input = x
        /\ c.domain = req[r].domain /\ c.applied = req[r].applied /\ c.native = req[r].native
        /\ c.armed = req[r].armed /\ c.targeted = req[r].targeted
    BY <1>2 DEF CallFields
  <2>4. UNCHANGED <<sources, mode, applyDomain, guards, fresh>> /\ req[r].pc = "fill"
    BY <1>5 DEF Fill
  <2>5. /\ c.domain \in Domains \cup {0} /\ c.applied = c.native
        /\ mode = "apply" => c.armed
        /\ applyDomain = c.domain => c.targeted
    BY <1>2, <2>3, <2>4 DEF CallInv
  <2> HIDE DEF c
  <2> QED BY <2>1, <2>2, <2>3, <2>4, <2>5, CallKeeps
<1>6. ASSUME NEW valid \in BOOLEAN, NEW next, Guard(r, valid, next),
             \/ req[r].pc = "guard" /\ (valid <=> context_valid(req[r].input)) /\ next = "validate"
             \/ req[r].pc = "report" /\ ~valid /\ next = "return",
             UNCHANGED <<sources, mode, applyDomain>>
      PROVE  BudgetInv'
  <2>1. UNCHANGED <<snap, mode, applyDomain>>
    BY <1>6 DEF sources, snapshotVars
  <2>2. IInv'
    BY <1>1, <1>6 DEF IInv, WriterOK, sources, snapshotVars
  <2>3. /\ BreakerInv' /\ CountInv' /\ DOMAIN req' = Reclaimers
        /\ \A q \in Reclaimers : CallInv(q)'
    BY <1>6, <2>1, GuardKeeps
  <2> QED BY <2>2, <2>3 DEF BudgetInv
<1>7. CASE ConsultGuard(r)
  <2> DEFINE v == context_valid(req[r].input)
  <2>1. v \in BOOLEAN
    BY DEF context_valid
  <2>2. Guard(r, v, "validate") /\ req[r].pc = "guard" /\ UNCHANGED <<sources, mode, applyDomain>>
    BY <1>7 DEF ConsultGuard
  <2>3. v <=> context_valid(req[r].input)
    OBVIOUS
  <2> HIDE DEF v
  <2> QED BY <1>6, <2>1, <2>2, <2>3
<1>8. CASE ReportConfig(r)
  <2>1. Guard(r, FALSE, "return") /\ req[r].pc = "report" /\ UNCHANGED <<sources, mode, applyDomain>>
    BY <1>8 DEF ReportConfig
  <2> QED BY <1>6, <2>1
<1>9. CASE Validate(r)
  <2> DEFINE reason == invalid_reason(req[r])
             native == req[r].native = 0 \/ req[r].pressure = "emergency"
             next == IF reason = "circuit_breaker" /\ req[r].allowed THEN "report"
                     ELSE IF reason # None \/ native THEN "return" ELSE "compute"
             c == [req[r] EXCEPT !.reason = reason, !.pc = next]
  <2>1. req' = [req EXCEPT ![r] = c] /\ req[r].pc = "validate"
        /\ UNCHANGED <<sources, mode, applyDomain, guards, fresh>>
    BY <1>1, <1>9 DEF Validate
  <2>2. /\ next \in {"report", "return", "compute"}
        /\ next = "report" => context_valid(req[r].input)
        /\ next = "compute" => context_valid(req[r].input) /\ req[r].domain # 0 /\ req[r].allowed
    BY DEF invalid_reason, None
  <2> HIDE DEF next, reason
  <2>3. /\ DOMAIN c = CallFields /\ c.pc = next /\ c.stale = req[r].stale /\ c.input = req[r].input
        /\ c.domain = req[r].domain /\ c.applied = req[r].applied /\ c.native = req[r].native
        /\ c.armed = req[r].armed /\ c.targeted = req[r].targeted /\ c.allowed = req[r].allowed
    BY <1>2 DEF CallFields
  <2>4. /\ c.domain \in Domains \cup {0} /\ c.applied = c.native
        /\ mode = "apply" => c.armed
        /\ applyDomain = c.domain => c.targeted
        /\ c.input.generation \in Nat /\ c.input.generation <= snap.generation
    BY <1>2, <2>1, <2>3 DEF CallInv
  <2> HIDE DEF c
  <2> QED BY <2>1, <2>2, <2>3, <2>4, CallKeeps
<1>10. CASE Compute(r)
  <2> DEFINE x == propose(params, req[r].native, req[r].input.foreground, req[r].input.score,
                          req[r].pressure)
             c == [req[r] EXCEPT !.pc = "mode", !.proposed = x]
  <2>1. req' = [req EXCEPT ![r] = c] /\ req[r].pc = "compute"
        /\ UNCHANGED <<sources, mode, applyDomain, guards, fresh>>
    BY <1>1, <1>10 DEF Compute
  <2> HIDE DEF x
  <2>3. /\ DOMAIN c = CallFields /\ c.pc = "mode" /\ c.stale = req[r].stale /\ c.input = req[r].input
        /\ c.domain = req[r].domain /\ c.applied = req[r].applied /\ c.native = req[r].native
        /\ c.armed = req[r].armed /\ c.targeted = req[r].targeted /\ c.allowed = req[r].allowed
    BY <1>2 DEF CallFields
  <2> HIDE DEF c
  <2> QED BY <1>2, <2>1, <2>3, CallKeeps DEF CallInv
<1>11. CASE ReadMode(r)
  <2> DEFINE next == IF ModeApplies THEN "domain" ELSE "return"
             c == [req[r] EXCEPT !.pc = next]
  <2>1. req' = [req EXCEPT ![r] = c] /\ req[r].pc = "mode"
        /\ UNCHANGED <<sources, mode, applyDomain, guards, fresh>>
    BY <1>1, <1>11 DEF ReadMode
  <2>2. next \in {"domain", "return"} /\ (next = "domain" => mode = "apply")
    BY DEF ModeApplies
  <2> HIDE DEF next
  <2>3. /\ DOMAIN c = CallFields /\ c.pc = next /\ c.stale = req[r].stale /\ c.input = req[r].input
        /\ c.domain = req[r].domain /\ c.applied = req[r].applied /\ c.native = req[r].native
        /\ c.armed = req[r].armed /\ c.targeted = req[r].targeted /\ c.allowed = req[r].allowed
    BY <1>2 DEF CallFields
  <2> HIDE DEF c
  <2> QED BY <1>2, <2>1, <2>2, <2>3, CallKeeps DEF CallInv
<1>12. CASE ReadDomain(r)
  <2> DEFINE x == IF req[r].domain = applyDomain THEN req[r].proposed ELSE req[r].applied
             c == [req[r] EXCEPT !.pc = "return", !.applied = x]
  <2>1. req' = [req EXCEPT ![r] = c] /\ req[r].pc = "domain"
        /\ UNCHANGED <<sources, mode, applyDomain, guards, fresh>>
    BY <1>1, <1>12 DEF ReadDomain
  <2>2. x # req[r].applied => req[r].domain = applyDomain
    OBVIOUS
  <2> HIDE DEF x
  <2>3. /\ DOMAIN c = CallFields /\ c.pc = "return" /\ c.stale = req[r].stale /\ c.input = req[r].input
        /\ c.domain = req[r].domain /\ c.applied = x /\ c.native = req[r].native
        /\ c.armed = req[r].armed /\ c.targeted = req[r].targeted /\ c.allowed = req[r].allowed
    BY <1>2 DEF CallFields
  <2> HIDE DEF c
  <2> QED BY <1>2, <2>1, <2>2, <2>3, CallKeeps DEF CallInv
<1>13. CASE Return(r)
  <2>1. req' = [req EXCEPT ![r] = IdleCall]
        /\ UNCHANGED <<sources, mode, applyDomain, guards, fresh>>
    BY <1>13 DEF Return
  <2>2. IdleCall.input.generation = 0
    BY DEF IdleCall, NoInput, fill_scan_budget_input, NoSnapshot
  <2>3. /\ DOMAIN IdleCall = CallFields /\ IdleCall.pc = "idle" /\ IdleCall.domain = 0
        /\ IdleCall.applied = IdleCall.native
    BY DEF IdleCall, CallFields
  <2>4. IdleCall.input.generation \in Nat /\ IdleCall.input.generation <= snap.generation
    BY <1>3, <2>2
  <2> QED BY <2>1, <2>3, <2>4, CallKeeps
<1> QED
  BY <1>4, <1>5, <1>7, <1>8, <1>9, <1>10, <1>11, <1>12, <1>13 DEF ReclaimerStep

\* A step that only adds to what calls have seen, whatever it does to the mode
\* and the enabled cgroup, keeps the invariant.
LEMMA WitnessedKeeps ==
    ASSUME BudgetInv, UNCHANGED <<sources, guards, fresh>>, DOMAIN req' = Reclaimers,
           \A r \in Reclaimers :
              /\ DOMAIN req'[r] = CallFields
              /\ req'[r].pc = req[r].pc /\ req'[r].domain = req[r].domain
              /\ req'[r].input = req[r].input /\ req'[r].applied = req[r].applied
              /\ req'[r].native = req[r].native /\ req'[r].allowed = req[r].allowed
              /\ req'[r].stale = req[r].stale,
           \A r \in Reclaimers :
              /\ req[r].armed => req'[r].armed
              /\ req[r].targeted => req'[r].targeted,
           \A r \in Reclaimers : req[r].pc # "idle" =>
              /\ mode' = "apply" => req'[r].armed
              /\ applyDomain' = req[r].domain => req'[r].targeted
    PROVE  BudgetInv'
<1>1. /\ IInv /\ BreakerInv /\ CountInv /\ DOMAIN req = Reclaimers
      /\ \A q \in Reclaimers : CallInv(q)
  BY DEF BudgetInv
<1>2. IInv'
  BY <1>1 DEF IInv, WriterOK, sources, snapshotVars
<1>3. BreakerInv'
  BY <1>1 DEF BreakerInv, FreeIsClear, OneGuardPerDomain, BreakerCanClose, sources, snapshotVars
<1>4. \A q \in Reclaimers : CallInv(q)'
  BY <1>1 DEF CallInv, sources, snapshotVars
<1>5. \A d \in Domains : Pending(d)' \subseteq Pending(d)
  BY DEF Pending
<1>6. CountInv'
  BY <1>1, <1>5, CountKeeps
<1> QED
  BY <1>2, <1>3, <1>4, <1>6 DEF BudgetInv

\* Each step of an administrator keeps the invariant.
LEMMA AdminKeeps ==
    ASSUME BudgetInv, NEW a \in Admins, AdminStep(a)
    PROVE  BudgetInv'
<1>1. DOMAIN req = Reclaimers /\ \A q \in Reclaimers : CallInv(q)
  BY DEF BudgetInv
<1>2. CASE UNCHANGED <<sources, mode, applyDomain, guards, req, fresh>>
  BY <1>1, <1>2, WitnessedKeeps DEF CallInv
<1>3. CASE StoreMode(a)
  <2> DEFINE am == admin[a].arg = "apply"
  <2>1. /\ mode' = admin[a].arg /\ UNCHANGED <<sources, applyDomain, guards, fresh>>
        /\ req' = [r \in Reclaimers |->
                     IF req[r].pc = "idle" THEN req[r] ELSE [req[r] EXCEPT !.armed = @ \/ am]]
    BY <1>3 DEF StoreMode
  <2>2. mode' = "apply" => am
    BY <2>1
  <2> HIDE DEF am
  <2>3. /\ DOMAIN req' = Reclaimers
        /\ \A r \in Reclaimers :
             /\ DOMAIN req'[r] = CallFields
             /\ req'[r].pc = req[r].pc /\ req'[r].domain = req[r].domain
             /\ req'[r].input = req[r].input /\ req'[r].applied = req[r].applied
             /\ req'[r].native = req[r].native /\ req'[r].allowed = req[r].allowed
             /\ req'[r].stale = req[r].stale /\ req'[r].targeted = req[r].targeted
             /\ req[r].armed => req'[r].armed
             /\ req[r].pc # "idle" /\ am => req'[r].armed
    BY <1>1, <2>1 DEF CallInv, CallFields
  <2>4. \A r \in Reclaimers : req[r].pc # "idle" =>
              /\ mode' = "apply" => req'[r].armed
              /\ applyDomain' = req[r].domain => req'[r].targeted
    <3> SUFFICES ASSUME NEW r \in Reclaimers, req[r].pc # "idle"
                 PROVE  /\ mode' = "apply" => req'[r].armed
                        /\ applyDomain' = req[r].domain => req'[r].targeted
      OBVIOUS
    <3>1. mode' = "apply" => req'[r].armed
      BY <2>2, <2>3
    <3>2. (applyDomain = req[r].domain => req[r].targeted) /\ req'[r].targeted = req[r].targeted
      BY <1>1, <2>3 DEF CallInv
    <3> QED BY <2>1, <3>1, <3>2
  <2> QED BY <2>1, <2>3, <2>4, WitnessedKeeps
<1>4. CASE StoreDomain(a)
  <2> DEFINE td(r) == admin[a].arg = req[r].domain
  <2>1. /\ applyDomain' = admin[a].arg /\ UNCHANGED <<sources, mode, guards, fresh>>
        /\ req' = [r \in Reclaimers |->
                     IF req[r].pc = "idle" THEN req[r]
                     ELSE [req[r] EXCEPT !.targeted = @ \/ td(r)]]
    BY <1>4 DEF StoreDomain
  <2>2. \A r \in Reclaimers : applyDomain' = req[r].domain => td(r)
    BY <2>1
  <2> HIDE DEF td
  <2>3. /\ DOMAIN req' = Reclaimers
        /\ \A r \in Reclaimers :
             /\ DOMAIN req'[r] = CallFields
             /\ req'[r].pc = req[r].pc /\ req'[r].domain = req[r].domain
             /\ req'[r].input = req[r].input /\ req'[r].applied = req[r].applied
             /\ req'[r].native = req[r].native /\ req'[r].allowed = req[r].allowed
             /\ req'[r].stale = req[r].stale /\ req'[r].armed = req[r].armed
             /\ req[r].targeted => req'[r].targeted
             /\ req[r].pc # "idle" /\ td(r) => req'[r].targeted
    BY <1>1, <2>1 DEF CallInv, CallFields
  <2>4. \A r \in Reclaimers : req[r].pc # "idle" =>
              /\ mode' = "apply" => req'[r].armed
              /\ applyDomain' = req[r].domain => req'[r].targeted
    <3> SUFFICES ASSUME NEW r \in Reclaimers, req[r].pc # "idle"
                 PROVE  /\ mode' = "apply" => req'[r].armed
                        /\ applyDomain' = req[r].domain => req'[r].targeted
      OBVIOUS
    <3>1. applyDomain' = req[r].domain => req'[r].targeted
      BY <2>2, <2>3
    <3>2. (mode = "apply" => req[r].armed) /\ req'[r].armed = req[r].armed
      BY <1>1, <2>3 DEF CallInv
    <3> QED BY <2>1, <3>1, <3>2
  <2> QED BY <2>1, <2>3, <2>4, WitnessedKeeps
<1> QED
  BY <1>2, <1>3, <1>4 DEF AdminStep, SetMode, SetApplyDomain

\* Clearing a breaker keeps the invariant: the calls it makes stale are counted
\* against the empty slot, never against another cgroup's breaker.
LEMMA ClearKeeps ==
    ASSUME BudgetInv, ClearGuard
    PROVE  BudgetInv'
<1>1. /\ IInv /\ BreakerInv /\ CountInv /\ DOMAIN req = Reclaimers
      /\ \A q \in Reclaimers : CallInv(q)
  BY DEF BudgetInv
<1>2. PICK d \in Domains :
        /\ guard_find(d) # 0 /\ guards[guard_find(d)].domain = d
        /\ guards' = [guards EXCEPT ![guard_find(d)] = NoGuard]
        /\ fresh' = [fresh EXCEPT ![d] = 0]
        /\ req' = [r \in Reclaimers |-> [req[r] EXCEPT !.stale = @ \/ req[r].domain = d]]
  BY DEF ClearGuard
<1> DEFINE i == guard_find(d)
<1>3. guards \in [1..MaxDomains -> GuardType] /\ fresh \in [Domains -> Nat]
  BY <1>1 DEF BreakerInv
<1>4. i \in 1..MaxDomains /\ guards[i].domain = d /\ guards' = [guards EXCEPT ![i] = NoGuard]
  BY <1>2, <1>3, GuardFound
<1> HIDE DEF i
<1>5. /\ NoGuard \in GuardType /\ NoGuard.domain = 0 /\ NoGuard.failures = 0
      /\ NoGuard.tripped = FALSE /\ NoGuard.generation = 0
  BY DEF NoGuard, GuardType
<1>6. UNCHANGED <<sources, mode, applyDomain>>
  BY DEF ClearGuard
<1>7. snap' = snap /\ snap.generation \in Nat
  BY <1>1, <1>6 DEF IInv, Sound, WellFormed, SnapshotType, sources, snapshotVars
<1>8. \A j \in 1..MaxDomains : guards'[j] = IF j = i THEN NoGuard ELSE guards[j]
  BY <1>3, <1>4
<1>9. BreakerInv'
  <2>1. guards' \in [1..MaxDomains -> GuardType] /\ fresh' \in [Domains -> Nat]
    BY <1>2, <1>3, <1>4, <1>5
  <2>2. OneGuardPerDomain'
    <3>0. OneGuardPerDomain /\ 0 <= GuardFailures /\ GuardFailures # 0
      BY <1>1, GuardAssumption DEF BreakerInv
    <3>1. \A j, k \in 1..MaxDomains : guards'[j].domain # 0 /\ guards'[j].domain = guards'[k].domain => j = k
      BY <1>5, <1>8, <3>0 DEF OneGuardPerDomain
    <3>2. \A j \in 1..MaxDomains : /\ guards'[j].failures <= GuardFailures
                                   /\ guards'[j].tripped <=> guards'[j].failures = GuardFailures
      BY <1>5, <1>8, <3>0 DEF OneGuardPerDomain
    <3> QED BY <3>1, <3>2 DEF OneGuardPerDomain
  <2>3. BreakerCanClose'
    BY <1>1, <1>5, <1>7, <1>8 DEF BreakerInv, BreakerCanClose
  <2>4. FreeIsClear'
    BY <1>1, <1>5, <1>8 DEF BreakerInv, FreeIsClear
  <2> QED BY <2>1, <2>2, <2>3, <2>4 DEF BreakerInv
<1>10. /\ DOMAIN req' = Reclaimers
       /\ \A r \in Reclaimers :
             /\ DOMAIN req'[r] = CallFields
             /\ req'[r].pc = req[r].pc /\ req'[r].domain = req[r].domain
             /\ req'[r].input = req[r].input /\ req'[r].applied = req[r].applied
             /\ req'[r].native = req[r].native /\ req'[r].allowed = req[r].allowed
             /\ req'[r].armed = req[r].armed /\ req'[r].targeted = req[r].targeted
             /\ req[r].domain # d => req'[r].stale = req[r].stale \/ (req'[r].stale <=> req[r].stale)
  BY <1>1, <1>2 DEF CallInv, CallFields
<1>11. \A q \in Reclaimers : CallInv(q)'
  BY <1>1, <1>6, <1>7, <1>10 DEF CallInv
<1>12. CountInv'
  <2> SUFFICES ASSUME NEW j \in 1..MaxDomains, NEW e \in Domains, guards'[j].domain = e
               PROVE  guards'[j].failures + Cardinality(Pending(e)')
                        <= fresh'[e] + Cardinality(Reclaimers)
    <3>1. \A j \in 1..MaxDomains : guards'[j].domain # 0 => guards'[j].domain \in Domains
      BY <1>9 DEF BreakerInv, GuardType
    <3> QED BY <3>1 DEF CountInv, Pending
  <2>1. e # 0
    BY InputAssumption
  <2>2. j # i /\ guards'[j] = guards[j]
    BY <1>5, <1>8, <2>1
  <2>3. e # d
    BY <1>1, <1>4, <2>1, <2>2 DEF BreakerInv, OneGuardPerDomain
  <2>4. fresh'[e] = fresh[e]
    BY <1>2, <1>3, <2>3
  <2>5. Pending(e)' \subseteq Pending(e) /\ Pending(e) \subseteq Reclaimers
    BY <1>10, <2>3 DEF Pending
  <2>6. /\ Cardinality(Pending(e)) \in Nat /\ Cardinality(Reclaimers) \in Nat
        /\ Cardinality(Pending(e)') \in Nat /\ Cardinality(Pending(e)') <= Cardinality(Pending(e))
    BY <2>5, PendingCounted
  <2>7. guards[j].failures + Cardinality(Pending(e)) <= fresh[e] + Cardinality(Reclaimers)
    BY <1>1, <2>1, <2>2 DEF CountInv
  <2>8. guards[j].failures \in Nat /\ fresh[e] \in Nat
    BY <1>3 DEF GuardType
  <2> QED BY <2>2, <2>4, <2>6, <2>7, <2>8
<1>13. IInv'
  BY <1>1, <1>6 DEF IInv, WriterOK, sources, snapshotVars
<1> QED
  BY <1>9, <1>10, <1>11, <1>12, <1>13 DEF BudgetInv

\* A new snapshot keeps the invariant: what calls have read is never newer.
LEMMA SnapshotKeeps ==
    ASSUME BudgetInv, SnapshotNext, UNCHANGED budgetVars
    PROVE  BudgetInv'
<1>1. /\ IInv /\ BreakerInv /\ CountInv /\ DOMAIN req = Reclaimers
      /\ \A q \in Reclaimers : CallInv(q)
  BY DEF BudgetInv
<1>2. IInv'
  BY <1>1, NextIInv
<1>3. UNCHANGED <<mode, applyDomain, guards, req, fresh>>
  BY DEF budgetVars
<1>4. snap.generation \in Nat /\ snap'.generation \in Nat /\ snap.generation <= snap'.generation
  BY <1>1, GenerationGrows
<1>5. BreakerInv'
  <2>1. BreakerCanClose'
    BY <1>1, <1>3, <1>4 DEF BreakerInv, BreakerCanClose, GuardType
  <2> QED BY <1>1, <1>3, <2>1 DEF BreakerInv, FreeIsClear, OneGuardPerDomain
<1>6. \A q \in Reclaimers : CallInv(q)'
  BY <1>1, <1>3, <1>4 DEF CallInv
<1>7. CountInv'
  BY <1>1, <1>3 DEF CountInv, Pending
<1> QED
  BY <1>1, <1>2, <1>3, <1>5, <1>6, <1>7 DEF BudgetInv

-----------------------------------------------------------------------------
(* The theorems.                                                           *)

\* No call, no breaker and no snapshot satisfy the invariant.
LEMMA InitBudgetInv == Init => BudgetInv
<1> SUFFICES ASSUME Init
             PROVE  BudgetInv
  OBVIOUS
<1>1. IInv /\ snap.generation = 0
  BY InitIInv DEF Init, SnapshotInit, NoSnapshot
<1>2. /\ DOMAIN IdleCall = CallFields /\ IdleCall.pc = "idle" /\ IdleCall.domain = 0
      /\ IdleCall.applied = IdleCall.native
  BY DEF IdleCall, CallFields
<1>3. IdleCall.input.generation = 0
  BY DEF IdleCall, NoInput, fill_scan_budget_input, NoSnapshot
<1>4. DOMAIN req = Reclaimers /\ \A r \in Reclaimers : req[r] = IdleCall
  BY DEF Init
<1>5. \A r \in Reclaimers : CallInv(r)
  BY <1>1, <1>2, <1>3, <1>4 DEF CallInv
<1>6. /\ NoGuard \in GuardType /\ NoGuard.domain = 0 /\ NoGuard.failures = 0
      /\ NoGuard.tripped = FALSE /\ NoGuard.generation = 0
  BY DEF NoGuard, GuardType
<1>7. guards = [i \in 1..MaxDomains |-> NoGuard] /\ fresh = [d \in Domains |-> 0]
  BY DEF Init
<1>8. \A i \in 1..MaxDomains : guards[i] = NoGuard
  BY <1>7
<1>9. BreakerInv
  <2>1. OneGuardPerDomain
    BY <1>6, <1>8, GuardAssumption DEF OneGuardPerDomain
  <2> QED BY <1>1, <1>6, <1>7, <1>8, <2>1 DEF BreakerInv, FreeIsClear, BreakerCanClose
<1>10. CountInv
  BY <1>6, <1>8 DEF CountInv
<1> QED
  BY <1>1, <1>4, <1>5, <1>9, <1>10 DEF BudgetInv

\* Every step of every task keeps the invariant.
LEMMA NextBudgetInv == BudgetInv /\ [Next]_vars => BudgetInv'
<1> SUFFICES ASSUME BudgetInv, [Next]_vars
             PROVE  BudgetInv'
  OBVIOUS
<1>1. CASE UNCHANGED <<sources, mode, applyDomain, guards, req, fresh>>
  <2>1. DOMAIN req = Reclaimers /\ \A q \in Reclaimers : CallInv(q)
    BY DEF BudgetInv
  <2> QED BY <1>1, <2>1, WitnessedKeeps DEF CallInv
<1>2. SetParams => UNCHANGED <<sources, mode, applyDomain, guards, req, fresh>>
  BY DEF SetParams
<1>3. UNCHANGED vars => UNCHANGED <<sources, mode, applyDomain, guards, req, fresh>>
  BY DEF vars, budgetVars, sources
<1> QED
  BY <1>1, <1>2, <1>3, SnapshotKeeps, ReclaimerKeeps, AdminKeeps, ClearKeeps DEF Next

\* The inductive invariant of the scan budget holds in every behaviour.
THEOREM BudgetInductive == Spec => []BudgetInv
<1>1. Init => BudgetInv
  BY InitBudgetInv
<1>2. BudgetInv /\ [Next]_vars => BudgetInv'
  BY NextBudgetInv
<1> QED
  BY <1>1, <1>2, PTL DEF Spec

\* A cgroup never has two breakers, whatever slots guard_clear has freed, and a
\* breaker is tripped exactly when its failures have reached the limit.
THEOREM OneBreaker == Spec => []OneGuardPerDomain
<1>1. BudgetInv => OneGuardPerDomain
  BY DEF BudgetInv, BreakerInv
<1> QED
  BY <1>1, BudgetInductive, PTL

\* parp_adapter_prepare_scan_budget() returns another than the native number
\* only for a cgroup with a valid context and a closed breaker, when the mode
\* was APPLY and that cgroup the enabled one during the same call.
THEOREM OnlyAuthorised == Spec => []AppliedWasAuthorised
<1>1. BudgetInv => AppliedWasAuthorised
  BY DEF BudgetInv, CallInv, AppliedWasAuthorised
<1> QED
  BY <1>1, BudgetInductive, PTL

\* A breaker's failures exceed the fresh ones by at most one per reclaimer.
THEOREM StaleFailuresBounded == Spec => []FailuresAreFresh
<1>1. BudgetInv => FailuresAreFresh
  <2> SUFFICES ASSUME BudgetInv, NEW i \in 1..MaxDomains, NEW d, guards[i].domain = d, d # 0
               PROVE  guards[i].failures <= fresh[d] + Cardinality(Reclaimers)
    BY DEF FailuresAreFresh
  <2>1. /\ guards[i].failures \in Nat /\ d \in Domains /\ fresh[d] \in Nat
    BY DEF BudgetInv, BreakerInv, GuardType
  <2>2. guards[i].failures + Cardinality(Pending(d)) <= fresh[d] + Cardinality(Reclaimers)
    BY DEF BudgetInv, CountInv
  <2>3. Cardinality(Pending(d)) \in Nat /\ Cardinality(Reclaimers) \in Nat
    <3>1. Pending(d) \subseteq Reclaimers
      BY DEF Pending
    <3> QED BY <3>1, PendingCounted
  <2> QED BY <2>1, <2>2, <2>3
<1> QED
  BY <1>1, BudgetInductive, PTL

\* No breaker remembers a generation the snapshot has not reached, so that the
\* next accepted batch closes it.
THEOREM BreakersCanClose == Spec => []BreakerCanClose
<1>1. BudgetInv => BreakerCanClose
  BY DEF BudgetInv, BreakerInv
<1> QED
  BY <1>1, BudgetInductive, PTL

\* Reclaim, its administrators and its breakers only read the snapshot: under
\* the scan budget the writers do what they do alone.
THEOREM BudgetOnlyReads == Spec => SnapshotInit /\ [][SnapshotNext]_sources
<1>1. [Next]_vars => [SnapshotNext]_sources
  <2>1. \A r \in Reclaimers : ReclaimerStep(r) => UNCHANGED sources
    BY DEF ReclaimerStep, Prepare, Fill, ConsultGuard, Validate, Compute, ReadMode, ReadDomain,
           ReportConfig, Return
  <2>2. \A a \in Admins : AdminStep(a) => UNCHANGED sources
    BY DEF AdminStep, SetMode, StoreMode, SetApplyDomain, StoreDomain
  <2>3. ClearGuard \/ SetParams \/ UNCHANGED vars => UNCHANGED sources
    BY DEF ClearGuard, SetParams, vars, sources
  <2> QED BY <2>1, <2>2, <2>3 DEF Next
<1> QED
  BY <1>1, PTL DEF Spec, Init

\* Hence everything proved of the snapshot alone holds while reclaim uses it:
\* what Fill reads is well formed and of one batch, its validity is what
\* parp_context_lookup() would say at the same time, and publications form one
\* line.
THEOREM SnapshotSoundUnderReclaim ==
    Spec => [](SnapshotOK /\ OneGeneration /\ ReadersAgree) /\ UpdatesAreSerial
<1>1. BudgetInv => IInv /\ SnapshotOK /\ OneGeneration /\ ReadersAgree
  BY ReadersAgreeInIInv DEF BudgetInv, IInv, Sound, SnapshotOK, OneGeneration
<1>2. IInv /\ [SnapshotNext]_sources => [snap' # snap => Follows(snap, snap')]_snap
  BY StepIsSerial DEF sources
<1> QED
  BY <1>1, <1>2, BudgetInductive, BudgetOnlyReads, PTL DEF UpdatesAreSerial
=============================================================================
