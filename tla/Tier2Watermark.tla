--------------------------- MODULE Tier2Watermark ---------------------------
(***************************************************************************)
(* The per-memcg secondary-watermark predictor of mm/parp/core/watermark.c *)
(* : one memory cgroup, the tasks that charge it or write its cgroupfs     *)
(* files, the cgroup core that brings it online, resets, offlines and      *)
(* frees it, and the delayed work that reclaims it proactively.            *)
(*                                                                         *)
(* A call of parp_tier2_memcg_sample() is three steps, because the code    *)
(* drops the lock between them:                                            *)
(*   "enter"   the unlocked checks and the reads of limit, usage and clock *)
(*   "locked"  the critical section, which updates the predictor and       *)
(*             decides whether to arm or to cancel the work                *)
(*   "arm" / "disarm"  mod_delayed_work() or cancel_delayed_work(), called *)
(*             after the unlock.                                           *)
(* Bytes, milliseconds and nanoseconds are small integers; the unsigned    *)
(* 64-bit wrap-around of the clock subtraction is kept (U64Max).           *)
(***************************************************************************)
EXTENDS Integers

CONSTANTS
    Tasks,           \* tasks that charge the memcg, write its files or run its css callbacks
    Worker,          \* the workqueue thread that runs predict_work
    U64Max,          \* largest u64; also the limit of an unlimited memcg
    PageSize,        \* PAGE_SIZE in bytes
    ScaleBase,       \* PARP_TIER2_SCALE_BASE
    AllocScale0,     \* PARP_TIER2_DEFAULT_ALLOC_SCALE
    DemoteScale0,    \* PARP_TIER2_DEFAULT_DEMOTE_SCALE
    NsPerMs,         \* NSEC_PER_MSEC
    LatencyMs,       \* vm.tier2_predict_latency_ms
    HorizonRatio,    \* vm.tier2_predict_horizon_ratio
    SwapClusterMax,  \* SWAP_CLUSTER_MAX, in pages
    MaxReclaimPages, \* PARP_TIER2_MAX_RECLAIM_PAGES
    Limits,          \* values memory.max may be given, in bytes
    Usages,          \* values memory.current may take, in bytes
    Scales,          \* values the two scale files may be given
    MaxNow,          \* bound: the clock stops here
    MaxCalls         \* bound: charges, uncharges, writes and css callbacks made

ASSUME TaskAssumption == Worker \notin Tasks

ASSUME UnitAssumption ==
    /\ U64Max \in Nat \ {0}
    /\ PageSize \in Nat \ {0}
    /\ ScaleBase \in Nat \ {0}
    /\ NsPerMs \in Nat \ {0}
    /\ LatencyMs \in Nat
    /\ HorizonRatio \in Nat
    /\ SwapClusterMax \in Nat \ {0}
    /\ MaxReclaimPages \in Nat
    /\ SwapClusterMax =< MaxReclaimPages

ASSUME InputAssumption ==
    /\ Limits \subseteq 0..U64Max
    /\ Usages \subseteq 0..U64Max
    /\ 0 \in Usages
    /\ Scales \subseteq 0..ScaleBase
    /\ AllocScale0 \in 0..ScaleBase
    /\ DemoteScale0 \in 0..ScaleBase
    /\ MaxNow \in 1..U64Max
    /\ MaxCalls \in Nat

VARIABLES
    st,       \* struct parp_tier2_memcg: the fields the lock protects
    max,      \* memory.max of the memcg, in bytes
    usage,    \* memory.current, in bytes
    runtime,  \* sysctl_tier2_predict_enabled
    life,     \* life of the css: "new", "online", "offline", "freed"
    now,      \* ktime_get_mono_fast_ns()
    timer,    \* the pending deadline of predict_work, 0 when it is not pending
    blocked,  \* tasks inside cancel_delayed_work_sync(): queueing is refused
    pc,       \* where each task and the worker are
    op,       \* the operation each task is in
    reg,      \* the locals of each task and of the worker
    calls     \* calls made from outside so far

vars == <<st, max, usage, runtime, life, now, timer, blocked, pc, op, reg, calls>>

Procs == Tasks \cup {Worker}

Maximum(a, b) == IF a >= b THEN a ELSE b
Minimum(a, b) == IF a =< b THEN a ELSE b

-----------------------------------------------------------------------------
(* Pure arithmetic *)

\* Unsigned subtraction of two u64.
Sub64(a, b) == IF a >= b THEN a - b ELSE a - b + U64Max + 1

scaled_wmark(limit, scale, floor) ==
    IF limit = 0 \/ scale = 0 THEN 0
    ELSE Maximum((limit * scale) \div ScaleBase, floor)

ewma_next(previous, sample) ==
    LET quotient  == (previous \div 16) * 15 + (sample \div 16)
        remainder == (previous % 16) * 15 + (sample % 16)
    IN  quotient + (remainder \div 16)

\* Milliseconds until the demote watermark is reached, -1 for never.
predict_ms(previous, ewma, headroom, demote, elapsed) ==
    IF headroom =< demote THEN 0
    ELSE IF elapsed = 0 \/ ewma >= previous THEN -1
    ELSE Minimum(((headroom - demote) * elapsed) \div (previous - ewma),
                 U64Max \div 2)

Headroom_NoClamp(limit, used) == limit - used     \* defect: usage above limit wraps

Headroom(limit, used) ==
    IF limit = U64Max THEN U64Max
    ELSE IF used >= limit THEN 0 ELSE limit - used

\* parp_tier2_watermarks(): only the demote watermark steers the predictor.
demote_wmark(limit, allocScale, demoteScale) ==
    IF limit = 0 \/ limit = U64Max THEN 0
    ELSE Maximum(scaled_wmark(limit, allocScale, PageSize),
                 scaled_wmark(limit, demoteScale, PageSize))

\* The delay in ms after which the work must run, 0 for "do not schedule".
ScheduleDelay(predicted) ==
    CASE predicted = 0 -> 1
      [] predicted > 0 /\ predicted =< LatencyMs * HorizonRatio ->
            IF predicted > LatencyMs THEN predicted - LatencyMs ELSE 1
      [] OTHER -> 0

\* Pages to ask for when headroom is at most demote or falling towards it.
nr_to_reclaim(headroom, demote) ==
    LET gap == demote - headroom
        nr  == IF gap > 0 THEN (gap + PageSize - 1) \div PageSize
                          ELSE SwapClusterMax
    IN  Minimum(Maximum(nr, SwapClusterMax), MaxReclaimPages)

-----------------------------------------------------------------------------
(* The critical section of parp_tier2_memcg_sample() as a function of the  *)
(* state it locks and of the values read before the lock.  act is the call *)
(* made after the unlock, due the deadline it passes.                      *)

Outcome(s, act, due) == [s |-> s, act |-> act, due |-> due]

LimitChanged_Ignored(s, limit) == FALSE     \* defect: memory.max writes go unnoticed

LimitChanged(s, limit) == s.limit # 0 /\ s.limit # limit

\* A limit other than the last one seen invalidates the history.
NoteLimit(s, limit) ==
    LET changed == LimitChanged(s, limit)
    IN  [s EXCEPT !.limit = limit,
                  !.demote = demote_wmark(limit, s.allocScale, s.demoteScale),
                  !.ewmaValid = @ /\ ~changed,
                  !.predicted = IF changed THEN -1 ELSE @,
                  !.schedFor = IF changed THEN 0 ELSE @]

Forget(s) == [s EXCEPT !.ewmaValid = FALSE, !.predicted = -1, !.schedFor = 0]

Seed(s, headroom, t) ==
    [s EXCEPT !.ewmaValid = TRUE, !.ewma = headroom, !.lastSample = t,
              !.predicted = IF headroom =< s.demote THEN 0 ELSE -1]

Coalesced(s, headroom, t) ==
    headroom > s.demote /\ Sub64(t, s.lastSample) < NsPerMs

Measure(s, headroom, t) ==
    LET ewma    == ewma_next(s.ewma, headroom)
        elapsed == Sub64(t, s.lastSample) \div NsPerMs
    IN  [s EXCEPT !.ewma = ewma, !.lastSample = t,
                  !.predicted = predict_ms(s.ewma, ewma, headroom, s.demote, elapsed)]

\* The "decide" label: arm earlier, keep, or cancel the outstanding deadline.
\* cancel says that the limit change above dropped a deadline.
Decide(s, t, cancel) ==
    LET delay == ScheduleDelay(s.predicted)
        due   == t + delay * NsPerMs
    IN  IF delay > 0
        THEN IF s.schedFor = 0 \/ due < s.schedFor
             THEN Outcome([s EXCEPT !.schedFor = due], "arm", due)
             ELSE Outcome(s, "done", 0)
        ELSE Outcome([s EXCEPT !.schedFor = 0],
                     IF cancel \/ s.schedFor # 0 THEN "disarm" ELSE "done", 0)

Active_NotRechecked(s) == TRUE     \* defect: only the unlocked check is made

\* The check that is repeated under the lock.
Active(s) == s.enabled /\ s.online

SampleLocked(s, limit, headroom, t) ==
    LET n      == NoteLimit(s, limit)
        cancel == s.schedFor # 0 /\ n.schedFor = 0
    IN  IF ~Active(s) THEN Outcome(s, "done", 0)
        ELSE IF n.demote = 0 \/ headroom = U64Max
        THEN Outcome(Forget(n), IF n.schedFor # 0 THEN "disarm" ELSE "done", 0)
        ELSE IF ~n.ewmaValid THEN Decide(Seed(n, headroom, t), t, cancel)
        ELSE IF Coalesced(n, headroom, t) THEN Outcome(n, "done", 0)
        ELSE Decide(Measure(n, headroom, t), t, cancel)

-----------------------------------------------------------------------------
(* The workqueue, as predict_work uses it.  A pending deadline is due at    *)
(* timer; the work runs at any later time, and never beside itself.         *)

mod_delayed_work(due) == timer' = IF blocked = {} THEN due ELSE timer
cancel_delayed_work   == timer' = 0

\* cancel_delayed_work_sync(): refuse queueing, drop what is pending ...
SyncBegin(t) ==
    /\ pc[t] = "sync"
    /\ timer' = 0
    /\ blocked' = blocked \cup {t}
    /\ pc' = [pc EXCEPT ![t] = "flush"]
    /\ UNCHANGED <<st, max, usage, runtime, life, now, op, reg, calls>>

\* ... and return once the work no longer runs; the css callback that made
\* the call then completes.
SyncEnd(t) ==
    /\ pc[t] = "flush"
    /\ pc[Worker] = "idle"
    /\ blocked' = blocked \ {t}
    /\ life' = CASE op[t] = "offline" -> "offline"
                 [] op[t] = "destroy" -> "freed"
                 [] OTHER -> life
    /\ pc' = [pc EXCEPT ![t] = "idle"]
    /\ op' = [op EXCEPT ![t] = "none"]
    /\ UNCHANGED <<st, max, usage, runtime, now, timer, reg, calls>>

-----------------------------------------------------------------------------
(* parp_tier2_memcg_sample(), run by tasks and by the worker                *)

NoReg == [limit |-> 0, headroom |-> 0, now |-> 0, due |-> 0,
          demote |-> 0, predicted |-> -1, nr |-> 0]

\* Process p returns from the call it was in.
Return(p) ==
    /\ pc' = [pc EXCEPT ![p] = "idle"]
    /\ op' = [op EXCEPT ![p] = "none"]
    /\ reg' = [reg EXCEPT ![p] = NoReg]

SampleEnter(p) ==
    /\ pc[p] = "enter"
    /\ IF runtime /\ st.enabled /\ st.online
       THEN /\ reg' = [reg EXCEPT ![p].limit = max,
                                  ![p].headroom = Headroom(max, usage),
                                  ![p].now = now]
            /\ pc' = [pc EXCEPT ![p] = "locked"]
            /\ op' = op
       ELSE Return(p)
    /\ UNCHANGED <<st, max, usage, runtime, life, now, timer, blocked, calls>>

SampleDecide(p) ==
    /\ pc[p] = "locked"
    /\ LET r == SampleLocked(st, reg[p].limit, reg[p].headroom, reg[p].now)
       IN  /\ st' = r.s
           /\ IF r.act = "done"
              THEN Return(p)
              ELSE /\ pc' = [pc EXCEPT ![p] = r.act]
                   /\ reg' = [reg EXCEPT ![p] = [NoReg EXCEPT !.due = r.due]]
                   /\ op' = op
    /\ UNCHANGED <<max, usage, runtime, life, now, timer, blocked, calls>>

SampleArm(p) ==
    /\ pc[p] = "arm"
    /\ mod_delayed_work(reg[p].due)
    /\ Return(p)
    /\ UNCHANGED <<st, max, usage, runtime, life, now, blocked, calls>>

SampleDisarm(p) ==
    /\ pc[p] = "disarm"
    /\ cancel_delayed_work
    /\ Return(p)
    /\ UNCHANGED <<st, max, usage, runtime, life, now, blocked, calls>>

-----------------------------------------------------------------------------
(* parp_tier2_predict_work()                                                *)

WorkRun ==
    /\ pc[Worker] = "idle"
    /\ timer # 0
    /\ timer =< now
    /\ timer' = 0
    /\ pc' = [pc EXCEPT ![Worker] = "start"]
    /\ UNCHANGED <<st, max, usage, runtime, life, now, blocked, op, reg, calls>>

WorkLocked ==
    /\ pc[Worker] = "start"
    /\ st' = [st EXCEPT !.schedFor = 0]
    /\ IF st.online /\ st.enabled /\ runtime
       THEN /\ pc' = [pc EXCEPT ![Worker] = "check"]
            /\ reg' = [reg EXCEPT ![Worker].demote = st.demote,
                                  ![Worker].predicted = st.predicted]
            /\ op' = op
       ELSE Return(Worker)
    /\ UNCHANGED <<max, usage, runtime, life, now, timer, blocked, calls>>

\* A recovered workload is not reclaimed on behalf of a stale timer.
Recovered(headroom) ==
    /\ headroom > reg[Worker].demote
    /\ reg[Worker].predicted < 0 \/ headroom > st.ewma

WorkCheck ==
    /\ pc[Worker] = "check"
    /\ LET headroom == Headroom(max, usage)
       IN  IF \/ life # "online"
              \/ reg[Worker].demote = 0
              \/ headroom = U64Max
              \/ Recovered(headroom)
           THEN Return(Worker)
           ELSE /\ pc' = [pc EXCEPT ![Worker] = "reclaim"]
                /\ reg' = [reg EXCEPT ![Worker] = [NoReg EXCEPT
                             !.nr = nr_to_reclaim(headroom, reg[Worker].demote)]]
                /\ op' = op
    /\ UNCHANGED <<st, max, usage, runtime, life, now, timer, blocked, calls>>

WorkReclaim_UntilRecovered ==     \* defect: retry until the gap is closed
    /\ pc[Worker] = "reclaim"
    /\ \E u \in Usages : /\ u =< usage
                         /\ usage - u =< reg[Worker].nr * PageSize
                         /\ usage' = u
    /\ pc' = [pc EXCEPT ![Worker] =
                IF Headroom(max, usage') =< st.demote THEN "reclaim" ELSE "enter"]
    /\ UNCHANGED <<st, max, runtime, life, now, timer, blocked, op, reg, calls>>

\* try_to_free_mem_cgroup_pages() frees up to nr pages; then sample again.
WorkReclaim ==
    /\ pc[Worker] = "reclaim"
    /\ \E u \in Usages : /\ u =< usage
                         /\ usage - u =< reg[Worker].nr * PageSize
                         /\ usage' = u
    /\ pc' = [pc EXCEPT ![Worker] = "enter"]
    /\ reg' = [reg EXCEPT ![Worker] = NoReg]
    /\ UNCHANGED <<st, max, runtime, life, now, timer, blocked, op, calls>>

-----------------------------------------------------------------------------
(* Charges, cgroupfs files and css callbacks                                *)

\* One more call from outside.
Called == calls < MaxCalls /\ calls' = calls + 1

CssOps == {"reset", "offline", "destroy"}

\* css callbacks run under cgroup_mutex, after the files' writers drained.
CssIdle   == \A t \in Tasks : op[t] \notin CssOps
FilesIdle == \A t \in Tasks : op[t] # "file"

\* try_charge(): memory.current grows, then parp_tier2_memcg_charge().  The
\* walk over the ancestors makes one such call per ancestor's own state.
Charge(t) ==
    /\ Called
    /\ pc[t] = "idle"
    /\ life \in {"online", "offline"}
    /\ \A u \in Tasks : op[u] # "destroy"
    /\ \E u \in Usages : u >= usage /\ usage' = u
    /\ pc' = [pc EXCEPT ![t] = "enter"]
    /\ op' = [op EXCEPT ![t] = "charge"]
    /\ UNCHANGED <<st, max, runtime, life, now, timer, blocked, reg>>

Uncharge ==
    /\ Called
    /\ life # "freed"
    /\ \E u \in Usages : u < usage /\ usage' = u
    /\ UNCHANGED <<st, max, runtime, life, now, timer, blocked, pc, op, reg>>

FileBegin(t) ==
    /\ pc[t] = "idle"
    /\ life = "online"
    /\ CssIdle
    /\ op' = [op EXCEPT ![t] = "file"]

EnabledWrite_NoSync(t, enabled) ==     \* defect: a disable does not wait for the work
    /\ Called
    /\ FileBegin(t)
    /\ st' = [Forget(st) EXCEPT !.enabled = enabled]
    /\ pc' = [pc EXCEPT ![t] = "enter"]
    /\ UNCHANGED <<max, usage, runtime, life, now, timer, blocked, reg>>

EnabledWrite(t, enabled) ==
    /\ Called
    /\ FileBegin(t)
    /\ st' = [Forget(st) EXCEPT !.enabled = enabled]
    /\ pc' = [pc EXCEPT ![t] = IF enabled THEN "enter" ELSE "sync"]
    /\ UNCHANGED <<max, usage, runtime, life, now, timer, blocked, reg>>

ScaleWrite(t, demote, scale) ==
    /\ Called
    /\ FileBegin(t)
    /\ st' = IF demote THEN [st EXCEPT !.demoteScale = scale, !.ewmaValid = FALSE]
                       ELSE [st EXCEPT !.allocScale = scale, !.ewmaValid = FALSE]
    /\ pc' = [pc EXCEPT ![t] = "enter"]
    /\ UNCHANGED <<max, usage, runtime, life, now, timer, blocked, reg>>

\* A write of memory.max: it takes effect at once and samples nothing.
MaxWrite(limit) ==
    /\ Called
    /\ life = "online"
    /\ CssIdle
    /\ max' = limit
    /\ UNCHANGED <<st, usage, runtime, life, now, timer, blocked, pc, op, reg>>

SysctlWrite ==
    /\ Called
    /\ runtime' = ~runtime
    /\ UNCHANGED <<st, max, usage, life, now, timer, blocked, pc, op, reg>>

Online ==
    /\ life = "new"
    /\ st' = [st EXCEPT !.online = TRUE, !.ewmaValid = FALSE, !.predicted = -1]
    /\ life' = "online"
    /\ UNCHANGED <<max, usage, runtime, now, timer, blocked, pc, op, reg, calls>>

CssBegin(t, name) ==
    /\ pc[t] = "idle"
    /\ CssIdle
    /\ FilesIdle
    /\ pc' = [pc EXCEPT ![t] = "sync"]
    /\ op' = [op EXCEPT ![t] = name]

Offline(t) ==
    /\ Called
    /\ life = "online"
    /\ CssBegin(t, "offline")
    /\ st' = [st EXCEPT !.online = FALSE, !.schedFor = 0]
    /\ UNCHANGED <<max, usage, runtime, life, now, timer, blocked, reg>>

\* mem_cgroup_css_reset() lifts the limit and resets the predictor.
Reset(t) ==
    /\ Called
    /\ life = "online"
    /\ CssBegin(t, "reset")
    /\ max' = U64Max
    /\ st' = [Forget(st) EXCEPT !.enabled = FALSE]
    /\ UNCHANGED <<usage, runtime, life, now, timer, blocked, reg>>

Destroy_NoCancel(t) ==     \* defect: free without cancelling the work
    /\ Called
    /\ life = "offline"
    /\ \A u \in Tasks : pc[u] = "idle"
    /\ life' = "freed"
    /\ UNCHANGED <<st, max, usage, runtime, now, timer, blocked, pc, op, reg>>

\* css_free: every task has dropped its reference; the work holds none.
Destroy(t) ==
    /\ Called
    /\ life = "offline"
    /\ \A u \in Tasks : pc[u] = "idle"
    /\ CssBegin(t, "destroy")
    /\ UNCHANGED <<st, max, usage, runtime, life, now, timer, blocked, reg>>

Tick ==
    /\ now < MaxNow
    /\ now' = now + 1
    /\ UNCHANGED <<st, max, usage, runtime, life, timer, blocked, pc, op, reg, calls>>

-----------------------------------------------------------------------------

memcg_init ==
    [online |-> TRUE, enabled |-> FALSE, ewmaValid |-> FALSE,
     allocScale |-> AllocScale0, demoteScale |-> DemoteScale0,
     limit |-> 0, demote |-> 0, ewma |-> 0, lastSample |-> 0,
     schedFor |-> 0, predicted |-> -1]

Init ==
    /\ st = memcg_init
    /\ max = U64Max
    /\ usage = 0
    /\ runtime \in BOOLEAN
    /\ life = "new"
    /\ now = 1
    /\ timer = 0
    /\ blocked = {}
    /\ pc = [p \in Procs |-> "idle"]
    /\ op = [p \in Procs |-> "none"]
    /\ reg = [p \in Procs |-> NoReg]
    /\ calls = 0

Sample(p) == SampleEnter(p) \/ SampleDecide(p) \/ SampleArm(p) \/ SampleDisarm(p)

Sync(t) == SyncBegin(t) \/ SyncEnd(t)

Work == WorkRun \/ WorkLocked \/ WorkCheck \/ WorkReclaim

Control(t) ==
    \/ Charge(t)
    \/ \E b \in BOOLEAN : EnabledWrite(t, b)
    \/ \E b \in BOOLEAN, s \in Scales : ScaleWrite(t, b, s)
    \/ Offline(t)
    \/ Reset(t)
    \/ Destroy(t)

Next ==
    \/ \E p \in Procs : Sample(p)
    \/ \E t \in Tasks : Sync(t) \/ Control(t)
    \/ Work
    \/ Uncharge
    \/ \E limit \in Limits : MaxWrite(limit)
    \/ SysctlWrite
    \/ Online
    \/ Tick

Spec == Init /\ [][Next]_vars

\* The workqueue runs what is due and the callers of cancel_delayed_work_sync()
\* are scheduled: the fairness of a kernel whose reclaim passes terminate.
FairSpec ==
    /\ Spec
    /\ WF_vars(Sample(Worker))
    /\ WF_vars(Work)
    /\ \A t \in Tasks : WF_vars(Sync(t))

-----------------------------------------------------------------------------
(* Types *)

PredictorState ==
    [online : BOOLEAN, enabled : BOOLEAN, ewmaValid : BOOLEAN,
     allocScale : 0..ScaleBase, demoteScale : 0..ScaleBase,
     limit : 0..U64Max, demote : Nat, ewma : Nat, lastSample : 0..U64Max,
     schedFor : Nat, predicted : Nat \cup {-1}]

Registers ==
    [limit : 0..U64Max, headroom : 0..U64Max, now : 0..U64Max, due : Nat,
     demote : Nat, predicted : Nat \cup {-1}, nr : Nat]

SamplePcs == {"idle", "enter", "locked", "arm", "disarm"}
WorkPcs   == SamplePcs \cup {"start", "check", "reclaim"}
TaskPcs   == SamplePcs \cup {"sync", "flush"}

\* Every variable keeps its type; the worker never cancels itself and a task
\* never runs the body of predict_work.
TypeOK ==
    /\ st \in PredictorState
    /\ max \in 0..U64Max
    /\ usage \in 0..U64Max
    /\ runtime \in BOOLEAN
    /\ life \in {"new", "online", "offline", "freed"}
    /\ now \in 0..U64Max
    /\ timer \in Nat
    /\ blocked \subseteq Tasks
    /\ pc \in [Procs -> WorkPcs \cup TaskPcs]
    /\ \A t \in Tasks : pc[t] \in TaskPcs
    /\ pc[Worker] \in WorkPcs
    /\ op \in [Procs -> {"none", "charge", "file"} \cup CssOps]
    /\ reg \in [Procs -> Registers]
    /\ calls \in Nat

-----------------------------------------------------------------------------
(* Properties *)

\* A deadline is recorded only for a predictor that is enabled and online: a
\* sampler that passed the unlocked checks of parp_tier2_memcg_sample() before
\* a disable, reset or offline records none after it.
DeadlineOnlyWhenActive == st.schedFor # 0 => st.enabled /\ st.online

\* Once the call that disabled, reset or offlined the predictor has returned,
\* predict_work is not past its check of "active": no proactive reclaim of this
\* memcg is running or can still start, whatever timer was armed late.
QuiescentWhenInactive ==
    /\ ~(st.enabled /\ st.online)
    /\ \A t \in Tasks : pc[t] \notin {"sync", "flush"}
    => pc[Worker] \notin {"check", "reclaim"}

\* parp_tier2_memcg_destroy(): after the memcg is freed its embedded work is
\* neither pending nor running, and no task is inside the predictor, even
\* when a late sampler armed the timer after the offline cancelled it.
NoWorkAfterFree ==
    life = "freed" => /\ timer = 0
                      /\ \A p \in Procs : pc[p] = "idle"

\* The EWMA never mixes headrooms of two limits: while it is valid it stays
\* within the limit it was sampled under, so a lowered memory.max restarts it.
EwmaWithinLimit == st.ewmaValid => st.ewma =< st.limit

\* "The earliest outstanding deadline wins": a deadline recorded in
\* scheduled_for_ns, which holds back every later one, is outstanding.  It has
\* a pending timer, or a caller about to arm it, or the work that clears it has
\* started, or a cancel_delayed_work_sync() is still in progress.
DeadlineHasTimer ==
    st.schedFor # 0 =>
        \/ timer # 0
        \/ \E p \in Procs : pc[p] = "arm"
        \/ pc[Worker] = "start"
        \/ blocked # {}

\* "keep a real timebase": a step that sets a positive prediction measured the
\* rate over at least a millisecond that really elapsed.
RateHasRealTimebase ==
    [][st'.predicted > 0 /\ st'.predicted # st.predicted
        => st'.lastSample - st.lastSample >= NsPerMs]_vars

\* Every cancel_delayed_work_sync() returns, so disable, reset, offline and
\* free complete, although the work re-arms itself after each reclaim.
CancelCompletes == \A t \in Tasks : pc[t] = "sync" ~> pc[t] = "idle"
=============================================================================
