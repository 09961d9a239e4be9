------------------------ MODULE Tier2WatermarkProofs ------------------------
(***************************************************************************)
(* Proofs about Tier2Watermark for every number of tasks and every value   *)
(* of the limits, usages, scales and bounds.                               *)
(***************************************************************************)
EXTENDS Tier2Watermark, TLAPS

-----------------------------------------------------------------------------
(* Arithmetic *)

\* parp_tier2_ewma_next() computes exactly floor((15 * previous + sample) / 16),
\* as its comment claims, although it never forms the product that overflows.
THEOREM EwmaExact ==
    ASSUME NEW previous \in Nat, NEW sample \in Nat
    PROVE  ewma_next(previous, sample) = (previous * 15 + sample) \div 16
  BY DEF ewma_next

\* The average lies between the old value and the sample.
LEMMA EwmaBetween ==
    ASSUME NEW previous \in Nat, NEW sample \in Nat
    PROVE  /\ ewma_next(previous, sample) \in Nat
           /\ ewma_next(previous, sample) =< Maximum(previous, sample)
           /\ ewma_next(previous, sample) >= Minimum(previous, sample)
  BY DEF ewma_next, Maximum, Minimum

\* A quotient of naturals is a natural.
LEMMA DivNat ==
    ASSUME NEW a \in Nat, NEW b \in Nat \ {0}
    PROVE  a \div b \in Nat
  OBVIOUS

\* A product of naturals is a natural.
LEMMA TimesNat ==
    ASSUME NEW a \in Nat, NEW b \in Nat
    PROVE  a * b \in Nat
  OBVIOUS

\* Watermarks are naturals.
LEMMA WmarkNat ==
    ASSUME NEW limit \in Nat, NEW a \in Nat, NEW d \in Nat
    PROVE  demote_wmark(limit, a, d) \in Nat
<1>1. ASSUME NEW scale \in Nat
      PROVE  scaled_wmark(limit, scale, PageSize) \in Nat
  <2>1. limit * scale \in Nat
    BY TimesNat
  <2>2. (limit * scale) \div ScaleBase \in Nat
    BY <2>1, DivNat, UnitAssumption
  <2> QED
    BY <2>2, UnitAssumption DEF scaled_wmark, Maximum
<1> QED
  BY <1>1 DEF demote_wmark, Maximum

\* The unsigned difference of two clock readings is a natural.
LEMMA Sub64Nat ==
    ASSUME NEW a \in Nat, NEW b \in Nat, b =< U64Max
    PROVE  Sub64(a, b) \in Nat
  BY UnitAssumption DEF Sub64

\* Headroom never exceeds the limit it was computed from.
LEMMA HeadroomType ==
    ASSUME NEW limit \in 0..U64Max, NEW used \in 0..U64Max
    PROVE  /\ Headroom(limit, used) \in 0..U64Max
           /\ Headroom(limit, used) =< limit
  BY UnitAssumption DEF Headroom

\* The prediction is -1 or a natural.
LEMMA PredictType ==
    ASSUME NEW p \in Nat, NEW e \in Nat, NEW h \in Nat, NEW d \in Nat, NEW t \in Nat
    PROVE  predict_ms(p, e, h, d, t) \in Nat \cup {-1}
<1>1. CASE h =< d \/ t = 0 \/ e >= p
  BY <1>1 DEF predict_ms
<1>2. CASE ~(h =< d \/ t = 0 \/ e >= p)
  <2>1. h - d \in Nat /\ p - e \in Nat \ {0}
    BY <1>2
  <2>2. ((h - d) * t) \div (p - e) \in Nat
    BY <2>1, TimesNat, DivNat
  <2>3. U64Max \div 2 \in Nat
    BY UnitAssumption
  <2> QED
    BY <1>2, <2>2, <2>3 DEF predict_ms, Minimum
<1> QED
  BY <1>1, <1>2

\* The delay is a natural.
LEMMA DelayType ==
    ASSUME NEW p \in Nat \cup {-1}
    PROVE  ScheduleDelay(p) \in Nat
<1>1. LatencyMs * HorizonRatio \in Nat
  BY TimesNat, UnitAssumption
<1> QED
  BY <1>1, UnitAssumption DEF ScheduleDelay

\* The reclaim target is a natural number of pages.
LEMMA ReclaimType ==
    ASSUME NEW h \in Nat, NEW d \in Nat
    PROVE  nr_to_reclaim(h, d) \in Nat
<1>1. CASE d - h > 0
  <2>1. d - h + PageSize - 1 \in Nat
    BY <1>1, UnitAssumption
  <2>2. (d - h + PageSize - 1) \div PageSize \in Nat
    BY <2>1, DivNat, UnitAssumption
  <2> QED
    BY <1>1, <2>2, UnitAssumption DEF nr_to_reclaim, Minimum, Maximum
<1>2. CASE ~(d - h > 0)
  BY <1>2, UnitAssumption DEF nr_to_reclaim, Minimum, Maximum
<1> QED
  BY <1>1, <1>2

-----------------------------------------------------------------------------
(* The critical section of parp_tier2_memcg_sample() *)

\* What Decide returns: a well-typed state with the same history.
LEMMA DecideType ==
    ASSUME NEW s \in PredictorState, NEW t \in 0..U64Max, NEW c \in BOOLEAN
    PROVE  LET r == Decide(s, t, c)
           IN  /\ r.s \in PredictorState
               /\ r.act \in {"done", "arm", "disarm"}
               /\ r.due \in Nat
               /\ r.s.ewmaValid = s.ewmaValid
               /\ r.s.ewma = s.ewma
               /\ r.s.limit = s.limit
               /\ r.s.enabled = s.enabled
               /\ r.s.online = s.online
<1> DEFINE delay == ScheduleDelay(s.predicted)
<1>1. delay \in Nat
  BY DelayType DEF PredictorState
<1>2. delay * NsPerMs \in Nat
  BY <1>1, TimesNat, UnitAssumption
<1>3. t + delay * NsPerMs \in Nat
  BY <1>2, UnitAssumption
<1> HIDE DEF delay
<1> QED
  BY <1>1, <1>3 DEF Decide, Outcome, PredictorState, delay

\* What NoteLimit returns.
LEMMA NoteLimitType ==
    ASSUME NEW s \in PredictorState, NEW limit \in 0..U64Max
    PROVE  LET n == NoteLimit(s, limit)
           IN  /\ n \in PredictorState
               /\ n.limit = limit
               /\ n.enabled = s.enabled
               /\ n.online = s.online
               /\ n.ewma = s.ewma
               /\ n.ewmaValid => s.ewmaValid /\ (s.limit = 0 \/ s.limit = limit)
<1>0. s.allocScale \in Nat /\ s.demoteScale \in Nat /\ limit \in Nat
  BY UnitAssumption DEF PredictorState
<1>1. demote_wmark(limit, s.allocScale, s.demoteScale) \in Nat
  BY <1>0, WmarkNat
<1> QED
  BY <1>1 DEF NoteLimit, LimitChanged, PredictorState

\* The critical section keeps the types, never revives an inactive predictor,
\* records a deadline only when active, and keeps the EWMA within the limit.
LEMMA SampleLockedSafe ==
    ASSUME NEW s \in PredictorState,
           NEW limit \in 0..U64Max, NEW h \in 0..U64Max, NEW t \in 0..U64Max,
           h =< limit,
           s.ewmaValid => s.ewma =< s.limit,
           s.schedFor # 0 => s.enabled /\ s.online
    PROVE  LET r == SampleLocked(s, limit, h, t)
           IN  /\ r.s \in PredictorState
               /\ r.act \in {"done", "arm", "disarm"}
               /\ r.due \in Nat
               /\ r.s.enabled = s.enabled
               /\ r.s.online = s.online
               /\ r.s.ewmaValid => r.s.ewma =< r.s.limit
               /\ r.s.schedFor # 0 => s.enabled /\ s.online
<1> DEFINE n == NoteLimit(s, limit)
           c == s.schedFor # 0 /\ n.schedFor = 0
<1>1. /\ n \in PredictorState
      /\ n.limit = limit
      /\ n.enabled = s.enabled
      /\ n.online = s.online
      /\ n.ewma = s.ewma
      /\ n.ewmaValid => s.ewmaValid /\ (s.limit = 0 \/ s.limit = limit)
  BY NoteLimitType
<1>2. c \in BOOLEAN
  OBVIOUS
<1>n. /\ h \in Nat /\ limit \in Nat /\ t \in Nat
      /\ s.ewma \in Nat /\ s.limit \in Nat
      /\ n.demote \in Nat /\ n.lastSample \in Nat /\ n.lastSample =< U64Max
  BY <1>1, UnitAssumption DEF PredictorState
<1>e. n.ewmaValid => n.ewma =< limit
  BY <1>1, <1>n
<1> HIDE DEF n, c
<1>3. CASE ~Active(s)
  BY <1>3 DEF SampleLocked, Outcome
<1>4. CASE Active(s) /\ (n.demote = 0 \/ h = U64Max)
  BY <1>4, <1>1 DEF SampleLocked, Outcome, Forget, PredictorState, Active, n
<1>5. CASE Active(s) /\ ~(n.demote = 0 \/ h = U64Max) /\ ~n.ewmaValid
  <2> DEFINE q == Seed(n, h, t)
  <2>1. /\ q \in PredictorState
        /\ q.ewma = h /\ q.limit = limit
        /\ q.enabled = s.enabled /\ q.online = s.online
    BY <1>1, <1>n DEF Seed, PredictorState
  <2>2. SampleLocked(s, limit, h, t) = Decide(q, t, c)
    BY <1>5 DEF SampleLocked, n, c
  <2> HIDE DEF q
  <2> DEFINE r == Decide(q, t, c)
  <2>3. /\ r.s \in PredictorState
        /\ r.act \in {"done", "arm", "disarm"}
        /\ r.due \in Nat
        /\ r.s.ewmaValid = q.ewmaValid
        /\ r.s.ewma = q.ewma
        /\ r.s.limit = q.limit
        /\ r.s.enabled = q.enabled
        /\ r.s.online = q.online
    BY <1>2, <2>1, DecideType
  <2> HIDE DEF r
  <2>4. r.s.ewma =< r.s.limit
    BY <2>1, <2>3
  <2> QED
    BY <1>5, <2>1, <2>2, <2>3, <2>4 DEF Active, r
<1>6. CASE Active(s) /\ ~(n.demote = 0 \/ h = U64Max) /\ n.ewmaValid
            /\ Coalesced(n, h, t)
  <2>1. SampleLocked(s, limit, h, t) = Outcome(n, "done", 0)
    BY <1>6 DEF SampleLocked, n
  <2> DEFINE r == SampleLocked(s, limit, h, t)
  <2>2. r.s = n /\ r.act = "done" /\ r.due = 0
    BY <2>1 DEF Outcome
  <2> HIDE DEF r
  <2>3. n.ewma =< n.limit
    BY <1>1, <1>6, <1>e
  <2>4. s.enabled /\ s.online
    BY <1>6 DEF Active
  <2>5. /\ r.s \in PredictorState
        /\ r.act \in {"done", "arm", "disarm"}
        /\ r.due \in Nat
        /\ r.s.enabled = s.enabled
        /\ r.s.online = s.online
        /\ r.s.ewma =< r.s.limit
    BY <1>1, <2>2, <2>3
  <2> QED
    BY <2>4, <2>5 DEF r
<1>7. CASE Active(s) /\ ~(n.demote = 0 \/ h = U64Max) /\ n.ewmaValid
            /\ ~Coalesced(n, h, t)
  <2> DEFINE q == Measure(n, h, t)
  <2>1. s.ewma =< limit
    BY <1>1, <1>7, <1>e
  <2>2. /\ ewma_next(s.ewma, h) \in Nat
        /\ ewma_next(s.ewma, h) =< limit
    <3>1. /\ ewma_next(s.ewma, h) \in Nat
          /\ ewma_next(s.ewma, h) =< Maximum(s.ewma, h)
      BY <1>n, EwmaBetween
    <3>2. Maximum(s.ewma, h) \in Nat /\ Maximum(s.ewma, h) =< limit
      BY <1>n, <2>1 DEF Maximum
    <3> QED
      BY <3>1, <3>2, <1>n
  <2>3. Sub64(t, n.lastSample) \div NsPerMs \in Nat
    BY <1>n, Sub64Nat, DivNat, UnitAssumption
  <2>4. predict_ms(n.ewma, ewma_next(n.ewma, h), h, n.demote,
                   Sub64(t, n.lastSample) \div NsPerMs) \in Nat \cup {-1}
    <3>1. n.ewma \in Nat /\ ewma_next(n.ewma, h) \in Nat
      BY <1>1, <1>n, <2>2
    <3> QED
      BY <3>1, <1>n, <2>3, PredictType
  <2>5. /\ q \in PredictorState
        /\ q.ewma = ewma_next(s.ewma, h) /\ q.limit = limit
        /\ q.enabled = s.enabled /\ q.online = s.online
    BY <1>1, <1>n, <2>2, <2>4 DEF Measure, PredictorState
  <2>6. SampleLocked(s, limit, h, t) = Decide(q, t, c)
    BY <1>7 DEF SampleLocked, n, c
  <2> HIDE DEF q
  <2> DEFINE r == Decide(q, t, c)
  <2>7. /\ r.s \in PredictorState
        /\ r.act \in {"done", "arm", "disarm"}
        /\ r.due \in Nat
        /\ r.s.ewmaValid = q.ewmaValid
        /\ r.s.ewma = q.ewma
        /\ r.s.limit = q.limit
        /\ r.s.enabled = q.enabled
        /\ r.s.online = q.online
    BY <1>2, <2>5, DecideType
  <2> HIDE DEF r
  <2>8. r.s.ewma =< r.s.limit
    BY <2>2, <2>5, <2>7
  <2> QED
    BY <1>7, <2>5, <2>6, <2>7, <2>8 DEF Active, r
<1> QED
  BY <1>3, <1>4, <1>5, <1>6, <1>7

-----------------------------------------------------------------------------
(* The inductive invariant *)

\* Queueing is refused exactly while a task waits for the work to finish, and
\* then nothing is pending.
SyncInv ==
    /\ \A t \in Tasks : t \in blocked <=> pc[t] = "flush"
    /\ blocked # {} => timer = 0

\* While the memcg is being freed its css is offline and nobody else uses it.
DestroyInv ==
    \A t \in Tasks : op[t] = "destroy" =>
        /\ life = "offline"
        /\ pc[t] \in {"sync", "flush"}
        /\ \A u \in Tasks \ {t} : pc[u] = "idle"

\* A sampler carries a headroom that fits the limit it read.
RegInv == \A p \in Procs : pc[p] = "locked" => reg[p].headroom =< reg[p].limit

\* A worker past its check of "active" either serves an active predictor or is
\* being waited for by the task that deactivated it.
WorkerInv ==
    pc[Worker] \in {"check", "reclaim"} =>
        Active(st) \/ \E t \in Tasks : pc[t] \in {"sync", "flush"}

IInv ==
    /\ TypeOK
    /\ SyncInv
    /\ DestroyInv
    /\ RegInv
    /\ WorkerInv
    /\ DeadlineOnlyWhenActive
    /\ EwmaWithinLimit
    /\ NoWorkAfterFree
\* The initial state satisfies the invariant.
LEMMA InitInv == Init => IInv
<1> SUFFICES ASSUME Init PROVE IInv
  OBVIOUS
<1>1. TypeOK
  BY UnitAssumption, InputAssumption
  DEF Init, TypeOK, PredictorState, memcg_init, Registers, NoReg, Procs,
      SamplePcs, WorkPcs, TaskPcs, CssOps
<1> QED
  BY <1>1
  DEF Init, IInv, SyncInv, DestroyInv, RegInv, WorkerInv, memcg_init,
      DeadlineOnlyWhenActive, EwmaWithinLimit, NoWorkAfterFree, Procs

\* Every step preserves the invariant.
LEMMA NextInv == IInv /\ [Next]_vars => IInv'
<1> SUFFICES ASSUME IInv, [Next]_vars PROVE IInv'
  OBVIOUS
<1> USE DEF IInv
<1>1. ASSUME NEW t \in Tasks, SyncBegin(t) PROVE IInv'
  <2> USE <1>1, TaskAssumption DEF SyncBegin
  <2>1. TypeOK'
    BY UnitAssumption, InputAssumption DEF TypeOK, Procs, SamplePcs, WorkPcs, TaskPcs, CssOps
  <2>2. SyncInv'
    BY DEF SyncInv, TypeOK, Procs
  <2>3. DestroyInv'
    BY DEF DestroyInv, TypeOK, Procs, CssOps
  <2>4. RegInv'
    BY DEF RegInv, TypeOK, Procs
  <2>5. WorkerInv'
    BY DEF WorkerInv, TypeOK, Procs, Active
  <2>6. NoWorkAfterFree'
    BY DEF NoWorkAfterFree, TypeOK, Procs
  <2>7. (DeadlineOnlyWhenActive /\ EwmaWithinLimit)'
    BY DEF DeadlineOnlyWhenActive, EwmaWithinLimit
  <2> QED
    BY <2>1, <2>2, <2>3, <2>4, <2>5, <2>6, <2>7
<1>2. ASSUME NEW t \in Tasks, SyncEnd(t) PROVE IInv'
  <2> USE <1>2, TaskAssumption DEF SyncEnd
  <2>1. TypeOK'
    BY UnitAssumption, InputAssumption DEF TypeOK, Procs, SamplePcs, WorkPcs, TaskPcs, CssOps
  <2>2. SyncInv'
    BY DEF SyncInv, TypeOK, Procs
  <2>3. DestroyInv'
    BY DEF DestroyInv, TypeOK, Procs, CssOps
  <2>4. RegInv'
    BY DEF RegInv, TypeOK, Procs
  <2>5. WorkerInv'
    BY DEF WorkerInv, TypeOK, Procs, Active
  <2>6. NoWorkAfterFree'
    BY DEF NoWorkAfterFree, TypeOK, Procs, SyncInv, DestroyInv
  <2>7. (DeadlineOnlyWhenActive /\ EwmaWithinLimit)'
    BY DEF DeadlineOnlyWhenActive, EwmaWithinLimit
  <2> QED
    BY <2>1, <2>2, <2>3, <2>4, <2>5, <2>6, <2>7
<1>3. ASSUME NEW p \in Procs, SampleEnter(p) PROVE IInv'
  <2> USE <1>3, TaskAssumption DEF SampleEnter, Return, NoReg
  <2>1. TypeOK'
    BY UnitAssumption, InputAssumption, HeadroomType DEF TypeOK, Procs, SamplePcs, WorkPcs, TaskPcs, CssOps, Registers
  <2>2. SyncInv'
    BY DEF SyncInv, TypeOK, Procs
  <2>3. DestroyInv'
    BY DEF DestroyInv, TypeOK, Procs, CssOps
  <2>h. Headroom(max, usage) =< max
    BY HeadroomType DEF TypeOK
  <2>4. RegInv'
    BY <2>h DEF RegInv, TypeOK, Procs, Registers
  <2>5. WorkerInv'
    BY DEF WorkerInv, TypeOK, Procs, Active
  <2>6. NoWorkAfterFree'
    BY DEF NoWorkAfterFree, TypeOK, Procs
  <2>7. (DeadlineOnlyWhenActive /\ EwmaWithinLimit)'
    BY DEF DeadlineOnlyWhenActive, EwmaWithinLimit
  <2> QED
    BY <2>1, <2>2, <2>3, <2>4, <2>5, <2>6, <2>7
<1>4. ASSUME NEW p \in Procs, SampleDecide(p) PROVE IInv'
  <2> USE <1>4, TaskAssumption DEF SampleDecide, Return, NoReg
  <2> DEFINE r == SampleLocked(st, reg[p].limit, reg[p].headroom, reg[p].now)
  <2>a. /\ r.s \in PredictorState
        /\ r.act \in {"done", "arm", "disarm"}
        /\ r.due \in Nat
        /\ r.s.enabled = st.enabled
        /\ r.s.online = st.online
        /\ r.s.ewmaValid => r.s.ewma =< r.s.limit
        /\ r.s.schedFor # 0 => st.enabled /\ st.online
    <3>1. /\ st \in PredictorState
          /\ reg[p].limit \in 0..U64Max
          /\ reg[p].headroom \in 0..U64Max
          /\ reg[p].now \in 0..U64Max
          /\ reg[p].headroom =< reg[p].limit
          /\ st.ewmaValid => st.ewma =< st.limit
          /\ st.schedFor # 0 => st.enabled /\ st.online
      BY DEF TypeOK, Registers, RegInv, EwmaWithinLimit, DeadlineOnlyWhenActive
    <3> HIDE <1>4
    <3> QED
      BY <3>1, SampleLockedSafe
  <2>b. /\ st' = r.s
        /\ IF r.act = "done" THEN Return(p)
           ELSE /\ pc' = [pc EXCEPT ![p] = r.act]
                /\ reg' = [reg EXCEPT ![p] = [NoReg EXCEPT !.due = r.due]]
                /\ op' = op
    OBVIOUS
  <2> HIDE DEF r
  <2>1. TypeOK'
    BY <2>a, <2>b, UnitAssumption, InputAssumption DEF TypeOK, Procs, SamplePcs, WorkPcs, TaskPcs, CssOps, Registers
  <2>2. SyncInv'
    BY <2>a, <2>b DEF SyncInv, TypeOK, Procs
  <2>3. DestroyInv'
    BY <2>a, <2>b DEF DestroyInv, TypeOK, Procs, CssOps
  <2>4. RegInv'
    BY <2>a, <2>b DEF RegInv, TypeOK, Procs
  <2>5. WorkerInv'
    BY <2>a, <2>b DEF WorkerInv, TypeOK, Procs, Active
  <2>6. DeadlineOnlyWhenActive'
    BY <2>a, <2>b DEF DeadlineOnlyWhenActive, TypeOK
  <2>7. EwmaWithinLimit'
    BY <2>a, <2>b DEF EwmaWithinLimit, TypeOK, PredictorState
  <2>8. NoWorkAfterFree'
    BY <2>a, <2>b DEF NoWorkAfterFree, TypeOK, Procs
  <2> QED
    BY <2>1, <2>2, <2>3, <2>4, <2>5, <2>6, <2>7, <2>8
<1>5. ASSUME NEW p \in Procs, SampleArm(p) PROVE IInv'
  <2> USE <1>5, TaskAssumption DEF SampleArm, Return, NoReg, mod_delayed_work
  <2>1. TypeOK'
    BY UnitAssumption, InputAssumption DEF TypeOK, Procs, SamplePcs, WorkPcs, TaskPcs, CssOps, Registers
  <2>2. SyncInv'
    BY DEF SyncInv, TypeOK, Procs
  <2>3. DestroyInv'
    BY DEF DestroyInv, TypeOK, Procs, CssOps
  <2>4. RegInv'
    BY DEF RegInv, TypeOK, Procs
  <2>5. WorkerInv'
    BY DEF WorkerInv, TypeOK, Procs, Active
  <2>6. NoWorkAfterFree'
    BY DEF NoWorkAfterFree, TypeOK, Procs
  <2>7. (DeadlineOnlyWhenActive /\ EwmaWithinLimit)'
    BY DEF DeadlineOnlyWhenActive, EwmaWithinLimit
  <2> QED
    BY <2>1, <2>2, <2>3, <2>4, <2>5, <2>6, <2>7
<1>6. ASSUME NEW p \in Procs, SampleDisarm(p) PROVE IInv'
  <2> USE <1>6, TaskAssumption DEF SampleDisarm, Return, NoReg, cancel_delayed_work
  <2>1. TypeOK'
    BY UnitAssumption, InputAssumption DEF TypeOK, Procs, SamplePcs, WorkPcs, TaskPcs, CssOps, Registers
  <2>2. SyncInv'
    BY DEF SyncInv, TypeOK, Procs
  <2>3. DestroyInv'
    BY DEF DestroyInv, TypeOK, Procs, CssOps
  <2>4. RegInv'
    BY DEF RegInv, TypeOK, Procs
  <2>5. WorkerInv'
    BY DEF WorkerInv, TypeOK, Procs, Active
  <2>6. NoWorkAfterFree'
    BY DEF NoWorkAfterFree, TypeOK, Procs
  <2>7. (DeadlineOnlyWhenActive /\ EwmaWithinLimit)'
    BY DEF DeadlineOnlyWhenActive, EwmaWithinLimit
  <2> QED
    BY <2>1, <2>2, <2>3, <2>4, <2>5, <2>6, <2>7
<1>7. ASSUME WorkRun PROVE IInv'
  <2> USE <1>7, TaskAssumption DEF WorkRun
  <2>1. TypeOK'
    BY UnitAssumption, InputAssumption DEF TypeOK, Procs, SamplePcs, WorkPcs, TaskPcs, CssOps
  <2>2. SyncInv'
    BY DEF SyncInv, TypeOK, Procs
  <2>3. DestroyInv'
    BY DEF DestroyInv, TypeOK, Procs, CssOps
  <2>4. RegInv'
    BY DEF RegInv, TypeOK, Procs
  <2>5. WorkerInv'
    BY DEF WorkerInv, TypeOK, Procs, Active
  <2>6. NoWorkAfterFree'
    BY DEF NoWorkAfterFree, TypeOK, Procs
  <2>7. (DeadlineOnlyWhenActive /\ EwmaWithinLimit)'
    BY DEF DeadlineOnlyWhenActive, EwmaWithinLimit
  <2> QED
    BY <2>1, <2>2, <2>3, <2>4, <2>5, <2>6, <2>7
<1>8. ASSUME WorkLocked PROVE IInv'
  <2> USE <1>8, TaskAssumption DEF WorkLocked, Return, NoReg
  <2>s. st' \in PredictorState /\ st.demote \in Nat /\ st.predicted \in Nat \cup {-1}
    BY InputAssumption DEF TypeOK, PredictorState
  <2>1. TypeOK'
    BY <2>s, UnitAssumption, InputAssumption DEF TypeOK, Procs, SamplePcs, WorkPcs, TaskPcs, CssOps, Registers
  <2>2. SyncInv'
    BY DEF SyncInv, TypeOK, Procs
  <2>3. DestroyInv'
    BY DEF DestroyInv, TypeOK, Procs, CssOps
  <2>4. RegInv'
    BY DEF RegInv, TypeOK, Procs
  <2>5. WorkerInv'
    BY DEF WorkerInv, TypeOK, Procs, Active, PredictorState
  <2>6. DeadlineOnlyWhenActive'
    BY DEF DeadlineOnlyWhenActive, TypeOK, PredictorState
  <2>7. EwmaWithinLimit'
    BY DEF EwmaWithinLimit, TypeOK, PredictorState
  <2>8. NoWorkAfterFree'
    BY DEF NoWorkAfterFree, TypeOK, Procs
  <2> QED
    BY <2>1, <2>2, <2>3, <2>4, <2>5, <2>6, <2>7, <2>8
<1>9. ASSUME WorkCheck PROVE IInv'
  <2> USE <1>9, TaskAssumption DEF WorkCheck, Return, NoReg
  <2>1. TypeOK'
    BY UnitAssumption, InputAssumption, ReclaimType, HeadroomType DEF TypeOK, Procs, SamplePcs, WorkPcs, TaskPcs, CssOps, Registers
  <2>2. SyncInv'
    BY DEF SyncInv, TypeOK, Procs
  <2>3. DestroyInv'
    BY DEF DestroyInv, TypeOK, Procs, CssOps
  <2>4. RegInv'
    BY DEF RegInv, TypeOK, Procs
  <2>5. WorkerInv'
    BY DEF WorkerInv, TypeOK, Procs, Active
  <2>6. NoWorkAfterFree'
    BY DEF NoWorkAfterFree, TypeOK, Procs
  <2>7. (DeadlineOnlyWhenActive /\ EwmaWithinLimit)'
    BY DEF DeadlineOnlyWhenActive, EwmaWithinLimit
  <2> QED
    BY <2>1, <2>2, <2>3, <2>4, <2>5, <2>6, <2>7
<1>10. ASSUME WorkReclaim PROVE IInv'
  <2> USE <1>10, TaskAssumption DEF WorkReclaim, NoReg
  <2>1. TypeOK'
    BY UnitAssumption, InputAssumption DEF TypeOK, Procs, SamplePcs, WorkPcs, TaskPcs, CssOps, Registers
  <2>2. SyncInv'
    BY DEF SyncInv, TypeOK, Procs
  <2>3. DestroyInv'
    BY DEF DestroyInv, TypeOK, Procs, CssOps
  <2>4. RegInv'
    BY DEF RegInv, TypeOK, Procs
  <2>5. WorkerInv'
    BY DEF WorkerInv, TypeOK, Procs, Active
  <2>6. NoWorkAfterFree'
    BY DEF NoWorkAfterFree, TypeOK, Procs
  <2>7. (DeadlineOnlyWhenActive /\ EwmaWithinLimit)'
    BY DEF DeadlineOnlyWhenActive, EwmaWithinLimit
  <2> QED
    BY <2>1, <2>2, <2>3, <2>4, <2>5, <2>6, <2>7
<1>11. ASSUME NEW t \in Tasks, Charge(t) PROVE IInv'
  <2> USE <1>11, TaskAssumption DEF Charge, Called
  <2>1. TypeOK'
    BY UnitAssumption, InputAssumption DEF TypeOK, Procs, SamplePcs, WorkPcs, TaskPcs, CssOps
  <2>2. SyncInv'
    BY DEF SyncInv, TypeOK, Procs
  <2>3. DestroyInv'
    BY DEF DestroyInv, TypeOK, Procs, CssOps
  <2>4. RegInv'
    BY DEF RegInv, TypeOK, Procs
  <2>5. WorkerInv'
    BY DEF WorkerInv, TypeOK, Procs, Active
  <2>6. NoWorkAfterFree'
    BY DEF NoWorkAfterFree, TypeOK, Procs
  <2>7. (DeadlineOnlyWhenActive /\ EwmaWithinLimit)'
    BY DEF DeadlineOnlyWhenActive, EwmaWithinLimit
  <2> QED
    BY <2>1, <2>2, <2>3, <2>4, <2>5, <2>6, <2>7
<1>12. ASSUME NEW t \in Tasks, NEW b \in BOOLEAN, EnabledWrite(t, b) PROVE IInv'
  <2> USE <1>12, TaskAssumption DEF EnabledWrite, FileBegin, CssIdle, Called, Forget
  <2>s. st' \in PredictorState
    BY InputAssumption DEF TypeOK, PredictorState
  <2>1. TypeOK'
    BY <2>s, UnitAssumption, InputAssumption DEF TypeOK, Procs, SamplePcs, WorkPcs, TaskPcs, CssOps
  <2>2. SyncInv'
    BY DEF SyncInv, TypeOK, Procs
  <2>3. DestroyInv'
    BY DEF DestroyInv, TypeOK, Procs, CssOps
  <2>4. RegInv'
    BY DEF RegInv, TypeOK, Procs
  <2>5. WorkerInv'
    BY DEF WorkerInv, TypeOK, Procs, Active, PredictorState
  <2>6. DeadlineOnlyWhenActive'
    BY DEF DeadlineOnlyWhenActive, TypeOK, PredictorState
  <2>7. EwmaWithinLimit'
    BY DEF EwmaWithinLimit, TypeOK, PredictorState
  <2>8. NoWorkAfterFree'
    BY DEF NoWorkAfterFree, TypeOK, Procs
  <2> QED
    BY <2>1, <2>2, <2>3, <2>4, <2>5, <2>6, <2>7, <2>8
<1>13. ASSUME NEW t \in Tasks, NEW b \in BOOLEAN, NEW x \in Scales, ScaleWrite(t, b, x) PROVE IInv'
  <2> USE <1>13, TaskAssumption DEF ScaleWrite, FileBegin, CssIdle, Called
  <2>s. st' \in PredictorState
    BY InputAssumption DEF TypeOK, PredictorState
  <2>1. TypeOK'
    BY <2>s, UnitAssumption, InputAssumption DEF TypeOK, Procs, SamplePcs, WorkPcs, TaskPcs, CssOps
  <2>2. SyncInv'
    BY DEF SyncInv, TypeOK, Procs
  <2>3. DestroyInv'
    BY DEF DestroyInv, TypeOK, Procs, CssOps
  <2>4. RegInv'
    BY DEF RegInv, TypeOK, Procs
  <2>5. WorkerInv'
    BY DEF WorkerInv, TypeOK, Procs, Active, PredictorState
  <2>6. DeadlineOnlyWhenActive'
    BY DEF DeadlineOnlyWhenActive, TypeOK, PredictorState
  <2>7. EwmaWithinLimit'
    BY DEF EwmaWithinLimit, TypeOK, PredictorState
  <2>8. NoWorkAfterFree'
    BY DEF NoWorkAfterFree, TypeOK, Procs
  <2> QED
    BY <2>1, <2>2, <2>3, <2>4, <2>5, <2>6, <2>7, <2>8
<1>14. ASSUME NEW t \in Tasks, Offline(t) PROVE IInv'
  <2> USE <1>14, TaskAssumption DEF Offline, CssBegin, CssIdle, FilesIdle, Called
  <2>s. st' \in PredictorState
    BY InputAssumption DEF TypeOK, PredictorState
  <2>1. TypeOK'
    BY <2>s, UnitAssumption, InputAssumption DEF TypeOK, Procs, SamplePcs, WorkPcs, TaskPcs, CssOps
  <2>2. SyncInv'
    BY DEF SyncInv, TypeOK, Procs
  <2>3. DestroyInv'
    BY DEF DestroyInv, TypeOK, Procs, CssOps
  <2>4. RegInv'
    BY DEF RegInv, TypeOK, Procs
  <2>5. WorkerInv'
    BY DEF WorkerInv, TypeOK, Procs, Active, PredictorState
  <2>6. DeadlineOnlyWhenActive'
    BY DEF DeadlineOnlyWhenActive, TypeOK, PredictorState
  <2>7. EwmaWithinLimit'
    BY DEF EwmaWithinLimit, TypeOK, PredictorState
  <2>8. NoWorkAfterFree'
    BY DEF NoWorkAfterFree, TypeOK, Procs
  <2> QED
    BY <2>1, <2>2, <2>3, <2>4, <2>5, <2>6, <2>7, <2>8
<1>15. ASSUME NEW t \in Tasks, Reset(t) PROVE IInv'
  <2> USE <1>15, TaskAssumption DEF Reset, CssBegin, CssIdle, FilesIdle, Called, Forget
  <2>s. st' \in PredictorState
    BY InputAssumption DEF TypeOK, PredictorState
  <2>1. TypeOK'
    BY <2>s, UnitAssumption, InputAssumption DEF TypeOK, Procs, SamplePcs, WorkPcs, TaskPcs, CssOps
  <2>2. SyncInv'
    BY DEF SyncInv, TypeOK, Procs
  <2>3. DestroyInv'
    BY DEF DestroyInv, TypeOK, Procs, CssOps
  <2>4. RegInv'
    BY DEF RegInv, TypeOK, Procs
  <2>5. WorkerInv'
    BY DEF WorkerInv, TypeOK, Procs, Active, PredictorState
  <2>6. DeadlineOnlyWhenActive'
    BY DEF DeadlineOnlyWhenActive, TypeOK, PredictorState
  <2>7. EwmaWithinLimit'
    BY DEF EwmaWithinLimit, TypeOK, PredictorState
  <2>8. NoWorkAfterFree'
    BY DEF NoWorkAfterFree, TypeOK, Procs
  <2> QED
    BY <2>1, <2>2, <2>3, <2>4, <2>5, <2>6, <2>7, <2>8
<1>16. ASSUME NEW t \in Tasks, Destroy(t) PROVE IInv'
  <2> USE <1>16, TaskAssumption DEF Destroy, CssBegin, CssIdle, FilesIdle, Called
  <2>1. TypeOK'
    BY UnitAssumption, InputAssumption DEF TypeOK, Procs, SamplePcs, WorkPcs, TaskPcs, CssOps
  <2>2. SyncInv'
    BY DEF SyncInv, TypeOK, Procs
  <2>3. DestroyInv'
    BY DEF DestroyInv, TypeOK, Procs, CssOps
  <2>4. RegInv'
    BY DEF RegInv, TypeOK, Procs
  <2>5. WorkerInv'
    BY DEF WorkerInv, TypeOK, Procs, Active
  <2>6. NoWorkAfterFree'
    BY DEF NoWorkAfterFree, TypeOK, Procs
  <2>7. (DeadlineOnlyWhenActive /\ EwmaWithinLimit)'
    BY DEF DeadlineOnlyWhenActive, EwmaWithinLimit
  <2> QED
    BY <2>1, <2>2, <2>3, <2>4, <2>5, <2>6, <2>7
<1>17. ASSUME Uncharge PROVE IInv'
  <2> USE <1>17, TaskAssumption DEF Uncharge, Called
  <2>1. TypeOK'
    BY UnitAssumption, InputAssumption DEF TypeOK, Procs, SamplePcs, WorkPcs, TaskPcs, CssOps
  <2>2. (SyncInv /\ DestroyInv /\ RegInv /\ WorkerInv /\ DeadlineOnlyWhenActive /\ EwmaWithinLimit /\ NoWorkAfterFree)'
    BY DEF SyncInv, DestroyInv, RegInv, WorkerInv, DeadlineOnlyWhenActive, EwmaWithinLimit, NoWorkAfterFree, Active
  <2> QED
    BY <2>1, <2>2
<1>18. ASSUME NEW l \in Limits, MaxWrite(l) PROVE IInv'
  <2> USE <1>18, TaskAssumption DEF MaxWrite, Called
  <2>1. TypeOK'
    BY UnitAssumption, InputAssumption DEF TypeOK, Procs, SamplePcs, WorkPcs, TaskPcs, CssOps
  <2>2. (SyncInv /\ DestroyInv /\ RegInv /\ WorkerInv /\ DeadlineOnlyWhenActive /\ EwmaWithinLimit /\ NoWorkAfterFree)'
    BY DEF SyncInv, DestroyInv, RegInv, WorkerInv, DeadlineOnlyWhenActive, EwmaWithinLimit, NoWorkAfterFree, Active
  <2> QED
    BY <2>1, <2>2
<1>19. ASSUME SysctlWrite PROVE IInv'
  <2> USE <1>19, TaskAssumption DEF SysctlWrite, Called
  <2>1. TypeOK'
    BY UnitAssumption, InputAssumption DEF TypeOK, Procs, SamplePcs, WorkPcs, TaskPcs, CssOps
  <2>2. (SyncInv /\ DestroyInv /\ RegInv /\ WorkerInv /\ DeadlineOnlyWhenActive /\ EwmaWithinLimit /\ NoWorkAfterFree)'
    BY DEF SyncInv, DestroyInv, RegInv, WorkerInv, DeadlineOnlyWhenActive, EwmaWithinLimit, NoWorkAfterFree, Active
  <2> QED
    BY <2>1, <2>2
<1>20. ASSUME Online PROVE IInv'
  <2> USE <1>20, TaskAssumption DEF Online
  <2>s. st' \in PredictorState
    BY InputAssumption DEF TypeOK, PredictorState
  <2>1. TypeOK'
    BY <2>s, UnitAssumption, InputAssumption DEF TypeOK, Procs, SamplePcs, WorkPcs, TaskPcs, CssOps
  <2>2. DestroyInv'
    BY DEF DestroyInv, TypeOK, Procs, CssOps
  <2>3. WorkerInv'
    BY DEF WorkerInv, TypeOK, Procs, Active, PredictorState
  <2>4. DeadlineOnlyWhenActive'
    BY DEF DeadlineOnlyWhenActive, TypeOK, PredictorState
  <2>5. EwmaWithinLimit'
    BY DEF EwmaWithinLimit, TypeOK, PredictorState
  <2>6. NoWorkAfterFree'
    BY DEF NoWorkAfterFree, TypeOK, Procs
  <2>7. (SyncInv /\ RegInv)'
    BY DEF SyncInv, RegInv
  <2> QED
    BY <2>1, <2>2, <2>3, <2>4, <2>5, <2>6, <2>7
<1>21. ASSUME Tick PROVE IInv'
  <2> USE <1>21, TaskAssumption DEF Tick
  <2>1. TypeOK'
    BY UnitAssumption, InputAssumption DEF TypeOK, Procs, SamplePcs, WorkPcs, TaskPcs, CssOps
  <2>2. (SyncInv /\ DestroyInv /\ RegInv /\ WorkerInv /\ DeadlineOnlyWhenActive /\ EwmaWithinLimit /\ NoWorkAfterFree)'
    BY DEF SyncInv, DestroyInv, RegInv, WorkerInv, DeadlineOnlyWhenActive, EwmaWithinLimit, NoWorkAfterFree, Active
  <2> QED
    BY <2>1, <2>2
<1>22. CASE UNCHANGED vars
  BY <1>22 DEF vars, TypeOK, SyncInv, DestroyInv, RegInv, WorkerInv,
     DeadlineOnlyWhenActive, EwmaWithinLimit, NoWorkAfterFree, Active
<1> QED
  BY <1>1, <1>2, <1>3, <1>4, <1>5, <1>6, <1>7, <1>8, <1>9, <1>10, <1>11, <1>12, <1>13, <1>14, <1>15, <1>16, <1>17, <1>18, <1>19, <1>20, <1>21, <1>22 DEF Next, Sample, Sync, Control, Work

-----------------------------------------------------------------------------
(* Theorems *)

\* The invariant holds in every reachable state.
THEOREM Invariant == Spec => []IInv
  BY InitInv, NextInv, PTL DEF Spec

\* Every variable of the predictor keeps its type: in particular the usage
\* that overshoots the limit, the wrapped clock difference and the retuned
\* scales never lead out of the unsigned ranges of struct parp_tier2_memcg.
THEOREM TypeCorrect == Spec => []TypeOK
  BY Invariant, PTL DEF IInv

\* A sampler overtaken by a disable, a reset or an offline records no deadline.
THEOREM DeadlinesBelongToActive == Spec => []DeadlineOnlyWhenActive
  BY Invariant, PTL DEF IInv

\* After the call that deactivated the predictor has returned, its work is not
\* reclaiming and will not.
THEOREM InactiveIsQuiescent == Spec => []QuiescentWhenInactive
<1>1. IInv => QuiescentWhenInactive
  BY DEF IInv, WorkerInv, QuiescentWhenInactive, Active
<1> QED
  BY <1>1, Invariant, PTL

\* Freeing a memcg leaves no pending or running work behind, with any number of
\* late samplers.
THEOREM FreeLeavesNoWork == Spec => []NoWorkAfterFree
  BY Invariant, PTL DEF IInv

\* The EWMA stays within the limit its samples were taken under.
THEOREM EwmaBelongsToLimit == Spec => []EwmaWithinLimit
  BY Invariant, PTL DEF IInv
=============================================================================
