---------------------------- MODULE EffectiveTier ----------------------------
(***************************************************************************)
(* The effective-tier policy around one lruvec (effective_tier.c r11 and   *)
(* its hooks in mm/vmscan.c): administrators switch the mode and replace   *)
(* the configuration while reclaimers open scan batches, decide about      *)
(* folios within the budgets, commit or cancel what they reserved, close   *)
(* the batch and, much later, report how the reclaim went.                 *)
(*                                                                         *)
(* A batch is an RCU read-side section inside lru_lock.  The operations on *)
(* a page's record are atomic here; ReuseState has their steps.            *)
(***************************************************************************)
EXTENDS Integers

CONSTANTS
    Admins,        \* tasks that write the debugfs mode and config files
    Reclaimers,    \* tasks that evict from the lruvec
    Folios,
    Pages,         \* [Folios -> sizes in base pages]
    UsedModes,     \* modes the administrators ask for
    Configs,       \* [max_upgrade, batch, epoch, ratio] records an admin may write
    RatioBase,     \* 10000
    NoProgressLimit, \* PARP_NO_PROGRESS_LIMIT
    EpochIds,      \* u64 epoch ids and their tags: 1..EpochIds, then 1 again
    MaxRuns,       \* U8_MAX: state epochs
    MaxCalls       \* bound: mode and config writes, batches, faults, scans

ASSUME NumberAssumption ==
    /\ Pages \in [Folios -> Nat \ {0}]
    /\ RatioBase \in Nat \ {0} /\ NoProgressLimit \in Nat \ {0}
    /\ EpochIds \in Nat \ {0} /\ MaxRuns \in Nat \ {0} /\ MaxCalls \in Nat
ASSUME ConfigAssumption ==
    Configs \subseteq [max_upgrade : 1..3, batch : Nat \ {0}, epoch : Nat \ {0}, ratio : 1..RatioBase]

VARIABLES
    mode,          \* parp_tier_mode
    key,           \* the static branch parp_effective_tier_enabled
    run,           \* parp_tier_state_epoch
    fault,         \* parp_tier_state_fault
    config,        \* parp_tier_config; an odd seq while it is replaced
    modeLock,      \* holder of parp_tier_mode_lock, or NoTask
    admin,         \* what each administrator is doing
    lv,            \* lrugen->parp_effective_tier[type]
    minSeq,        \* lrugen->min_seq[type]
    lruLock,       \* holder of lru_lock, or NoTask
    ctx,           \* each reclaimer's scan context and progress
    claim,         \* decision_epochs of each folio's page record
    calls,
    fruitless,     \* history: reclaims of this run that freed nothing
    stateChanged   \* history: MGLRU was switched during this run

vars == <<mode, key, run, fault, config, modeLock, admin, lv, minSeq, lruLock, ctx,
          claim, calls, fruitless, stateChanged>>
policy == <<mode, key, run, config, modeLock, admin>>
history == <<fruitless, stateChanged>>

NoTask == "none"
None == "none"
Dirs == {"up", "down"}
ApplyModes == {"protect", "bidir"}
Modes == {"off", "shadow"} \cup ApplyModes

ASSUME ModeAssumption == UsedModes \subseteq Modes
ASSUME TaskAssumption == NoTask \notin Admins \cup Reclaimers

Outside == calls < MaxCalls /\ calls' = calls + 1

-----------------------------------------------------------------------------
(* Pure parts of the decision.                                             *)

action_applies(m, d) == m = "bidir" \/ (m = "protect" /\ d = "up")

\* The absolute limit and the share of the candidates, at least one page.
RatioLimit(candidates, ratio) ==
    LET share == (candidates * ratio) \div RatioBase
    IN  IF candidates > 0 /\ share = 0 THEN 1 ELSE share

budget_allows(used, candidates, pages, limit, ratio) ==
    used + pages <= limit /\ used + pages <= RatioLimit(candidates, ratio)

NoClaim == [up |-> 0, down |-> 0, run |-> 0]
NoPages == [d \in Dirs |-> 0]
IdleCtx == [pc |-> "idle", mode |-> "off", cfg |-> 0, run |-> 0, cand |-> 0, pages |-> NoPages,
            no_progress |-> FALSE, severe |-> FALSE, folio |-> None, dir |-> None, held |-> FALSE,
            isolated |-> FALSE]
IdleAdmin == [pc |-> "idle", arg |-> None, waits |-> {}]

Open(r) == ctx[r].pc \in {"batch", "decided"}
Tag == lv.epoch_id

-----------------------------------------------------------------------------
(* parp_effective_tier_set_mode(), one step per store other CPUs can see.  *)

SetMode(a) ==
    /\ admin[a].pc = "idle" /\ Outside
    /\ \E m \in UsedModes : admin' = [admin EXCEPT ![a] = [IdleAdmin EXCEPT !.pc = "mode", !.arg = m]]
    /\ UNCHANGED <<mode, key, run, fault, config, modeLock, lv, minSeq, lruLock, ctx, claim, history>>

Readable == config.seq % 2 = 0

\* Takes the mutex; an invalid request is refused and the mutex released.
SetModeLocked(a) ==
    LET m == admin[a].arg
        refused == \/ m \in ApplyModes /\ (~Readable \/ config.max_upgrade > 2)
                   \/ mode = m
                   \/ mode # "off" /\ m # "off"
                   \/ mode = "off" /\ run = MaxRuns
    IN  /\ admin[a].pc = "mode" /\ modeLock = NoTask
        /\ admin' = [admin EXCEPT ![a] = IF refused THEN IdleAdmin
                                         ELSE [@ EXCEPT !.pc = IF m = "off" THEN "disable" ELSE "epoch"]]
        /\ modeLock' = IF refused THEN NoTask ELSE a
        /\ UNCHANGED <<mode, key, run, fault, config, lv, minSeq, lruLock, ctx, claim, calls, history>>

Goto(a, pc) == admin' = [admin EXCEPT ![a].pc = pc]

\* OFF -> active: a new state epoch, then the fault is cleared, then the mode.
StoreEpoch(a) ==
    /\ admin[a].pc = "epoch"
    /\ run' = run + 1 /\ fruitless' = 0 /\ Goto(a, "clear")
    /\ UNCHANGED <<mode, key, fault, config, modeLock, lv, minSeq, lruLock, ctx, claim, calls, stateChanged>>

ClearFault(a) ==
    /\ admin[a].pc = "clear"
    /\ fault' = FALSE /\ stateChanged' = FALSE /\ Goto(a, "store")
    /\ UNCHANGED <<mode, key, run, config, modeLock, lv, minSeq, lruLock, ctx, claim, calls, fruitless>>

DisableKey(a) ==
    /\ admin[a].pc = "disable"
    /\ key' = FALSE /\ Goto(a, "store")
    /\ UNCHANGED <<mode, run, fault, config, modeLock, lv, minSeq, lruLock, ctx, claim, calls, history>>

StoreMode(a) ==
    /\ admin[a].pc = "store"
    /\ mode' = admin[a].arg /\ Goto(a, IF admin[a].arg = "off" THEN "sync" ELSE "enable")
    /\ UNCHANGED <<key, run, fault, config, modeLock, lv, minSeq, lruLock, ctx, claim, calls, history>>

EnableKey(a) ==
    /\ admin[a].pc = "enable"
    /\ key' = TRUE /\ Goto(a, "sync")
    /\ UNCHANGED <<mode, run, fault, config, modeLock, lv, minSeq, lruLock, ctx, claim, calls, history>>

\* synchronize_rcu(): waits for the batches that are open now.
SyncBegin(a) ==
    /\ admin[a].pc = "sync"
    /\ admin' = [admin EXCEPT ![a].pc = "wait", ![a].waits = {r \in Reclaimers : Open(r)}]
    /\ UNCHANGED <<mode, key, run, fault, config, modeLock, lv, minSeq, lruLock, ctx, claim, calls, history>>

GracePeriodOver(a) == admin[a].waits = {}

SetModeReturn(a) ==
    /\ admin[a].pc = "wait" /\ GracePeriodOver(a)
    /\ admin' = [admin EXCEPT ![a] = IdleAdmin] /\ modeLock' = NoTask
    /\ UNCHANGED <<mode, key, run, fault, config, lv, minSeq, lruLock, ctx, claim, calls, history>>

-----------------------------------------------------------------------------
(* parp_effective_tier_set_config(): parsed and validated before the lock. *)

SetConfig(a) ==
    /\ admin[a].pc = "idle" /\ Outside
    /\ Readable
    /\ \E c \in Configs : admin' = [admin EXCEPT ![a] = [IdleAdmin EXCEPT !.pc = "config", !.arg = c]]
    /\ UNCHANGED <<mode, key, run, fault, config, modeLock, lv, minSeq, lruLock, ctx, claim, history>>

\* Defect: the mode is not looked at, or looked at before the mutex is taken.
ConfigAllowed_Always == TRUE

ConfigAllowed == mode = "off"

SetConfigLocked(a) ==
    /\ admin[a].pc = "config" /\ modeLock = NoTask
    /\ IF ConfigAllowed
       THEN /\ modeLock' = a /\ Goto(a, "payload")
            /\ config' = [config EXCEPT !.seq = @ + 1]
       ELSE admin' = [admin EXCEPT ![a] = IdleAdmin] /\ UNCHANGED <<modeLock, config>>
    /\ UNCHANGED <<mode, key, run, fault, lv, minSeq, lruLock, ctx, claim, calls, history>>

StoreConfig(a) ==
    LET c == admin[a].arg
    IN  /\ admin[a].pc = "payload" /\ Goto(a, "publish")
        /\ config' = [seq |-> config.seq, max_upgrade |-> c.max_upgrade, batch |-> c.batch,
                      epoch |-> c.epoch, ratio |-> c.ratio]
        /\ UNCHANGED <<mode, key, run, fault, modeLock, lv, minSeq, lruLock, ctx, claim, calls, history>>

PublishConfig(a) ==
    /\ admin[a].pc = "publish"
    /\ config' = [config EXCEPT !.seq = @ + 1]
    /\ admin' = [admin EXCEPT ![a] = IdleAdmin] /\ modeLock' = NoTask
    /\ UNCHANGED <<mode, key, run, fault, lv, minSeq, lruLock, ctx, claim, calls, history>>

-----------------------------------------------------------------------------
(* evict_folios(): the batch.                                              *)

\* Takes lru_lock and reads the static branch; without it nothing happens.
EvictBegin(r) ==
    /\ ctx[r].pc = "idle" /\ lruLock = NoTask /\ key /\ Outside
    /\ lruLock' = r /\ ctx' = [ctx EXCEPT ![r].pc = "prepare"]
    /\ UNCHANGED <<policy, fault, lv, minSeq, claim, history>>

NextEpochId == IF lv.epoch_id = EpochIds THEN 1 ELSE lv.epoch_id + 1

EpochOver == lv.epoch_id = 0 \/ lv.source_seq # minSeq \/ lv.state_epoch # run

\* Defect: the mode is not read again inside the RCU section.
Disabled_KeyOnly == fault \/ ~Readable

Disabled == mode = "off" \/ fault \/ ~Readable

prepare(r) ==
    /\ ctx[r].pc = "prepare"
    /\ IF Disabled
       THEN /\ ctx' = [ctx EXCEPT ![r] = IdleCtx] /\ lruLock' = NoTask
            /\ UNCHANGED lv
       ELSE /\ lv' = IF EpochOver
                     THEN [epoch_id |-> NextEpochId, source_seq |-> minSeq, state_epoch |-> run,
                           cand |-> 0, pages |-> NoPages, no_progress |-> 0]
                     ELSE lv
            /\ \E s \in BOOLEAN :
                  ctx' = [ctx EXCEPT ![r] = [IdleCtx EXCEPT !.pc = "batch", !.mode = mode,
                              !.cfg = config.seq, !.run = run, !.severe = s,
                              !.no_progress = lv'.no_progress >= NoProgressLimit]]
            /\ UNCHANGED lruLock
    /\ UNCHANGED <<policy, fault, minSeq, claim, calls, history>>

\* The counters decide() raises for every candidate, before anything else.
Counted(r, f) == [lv EXCEPT !.cand = IF ctx[r].mode = "shadow" THEN @ ELSE @ + Pages[f]]

\* The batch's context after it has looked at folio f.
Considered(c, f) == [c EXCEPT !.pc = "decided", !.folio = f, !.cand = @ + Pages[f]]

\* No model, no metadata, a gate, a budget or the score itself: native.
DecideNative(r) ==
    /\ ctx[r].pc = "batch" /\ Outside
    /\ \E f \in Folios :
          /\ lv' = Counted(r, f)
          /\ ctx' = [ctx EXCEPT ![r] = Considered(ctx[r], f)]
    /\ UNCHANGED <<policy, fault, minSeq, lruLock, claim, history>>

\* Defect: only the batch has a budget.
WithinBudget_BatchOnly(r, f, d) ==
    budget_allows(ctx[r].pages[d], ctx[r].cand + Pages[f], Pages[f], config.batch, config.ratio)

WithinBudget(r, f, d) ==
    /\ budget_allows(ctx[r].pages[d], ctx[r].cand + Pages[f], Pages[f], config.batch, config.ratio)
    /\ action_applies(ctx[r].mode, d) =>
          budget_allows(lv.pages[d], Counted(r, f).cand, Pages[f], config.epoch, config.ratio)

\* Defect: the reservation is charged to the batch only.
Reserved_BatchOnly(counted, f, d) == counted

Reserved(counted, f, d) == [counted EXCEPT !.pages[d] = @ + Pages[f]]

\* A prediction within the budgets; if the mode applies it, the folio is
\* claimed for this epoch and the pages are reserved.
Predicted(r, f, d) ==
    LET applies == action_applies(ctx[r].mode, d)
    IN  /\ claim[f].run = run
        /\ WithinBudget(r, f, d)
        /\ applies => claim[f][d] # Tag
        /\ lv' = IF applies THEN Reserved(Counted(r, f), f, d) ELSE Counted(r, f)
        /\ claim' = IF applies THEN [claim EXCEPT ![f][d] = Tag] ELSE claim
        /\ ctx' = [ctx EXCEPT ![r] = [Considered(ctx[r], f) EXCEPT
                        !.dir = d, !.held = applies, !.pages[d] = @ + Pages[f]]]

DecidePredicted(r) ==
    /\ ctx[r].pc = "batch" /\ Outside
    /\ ~fault /\ Readable /\ config.seq = ctx[r].cfg
    /\ ~ctx[r].severe /\ ~ctx[r].no_progress
    /\ \E f \in Folios, d \in Dirs : Predicted(r, f, d)
    /\ UNCHANGED <<policy, fault, minSeq, lruLock, history>>

\* The folio is moved, isolated (i), or left alone.
Settled(c, i) ==
    [c EXCEPT !.pc = "batch", !.folio = None, !.dir = None, !.held = FALSE, !.isolated = @ \/ i]

\* commit_revalidate() passed and the action was carried out.
FinishCommitted(r) ==
    /\ ctx[r].pc = "decided" /\ ctx[r].held
    /\ ~fault /\ mode = ctx[r].mode /\ Readable /\ config.seq = ctx[r].cfg
    /\ \E i \in BOOLEAN : ctx' = [ctx EXCEPT ![r] = Settled(ctx[r], i)]
    /\ UNCHANGED <<policy, fault, lv, minSeq, lruLock, claim, calls, history>>

FinishNative(r) ==
    /\ ctx[r].pc = "decided" /\ ~ctx[r].held
    /\ \E i \in BOOLEAN : ctx' = [ctx EXCEPT ![r] = Settled(ctx[r], i)]
    /\ UNCHANGED <<policy, fault, lv, minSeq, lruLock, claim, calls, history>>

\* What a cancelled reservation returns to the batch and to the epoch.
Returned(counted, f, d) == [counted EXCEPT ![d] = @ - Pages[f]]

\* cancel_reservation(): releases the claim and both counters; a counter that
\* would become negative is an accounting fault.
FinishCancelled(r) ==
    LET f == ctx[r].folio
        d == ctx[r].dir
        underflow == ctx[r].pages[d] < Pages[f] \/ lv.pages[d] < Pages[f]
    IN  /\ ctx[r].pc = "decided" /\ ctx[r].held
        /\ claim' = IF claim[f].run = run /\ claim[f][d] = Tag
                    THEN [claim EXCEPT ![f][d] = 0] ELSE claim
        /\ fault' = (fault \/ underflow)
        /\ lv' = IF underflow THEN lv ELSE [lv EXCEPT !.pages = Returned(@, f, d)]
        /\ \E i \in BOOLEAN :
              ctx' = [ctx EXCEPT ![r] = [Settled(ctx[r], i) EXCEPT
                          !.pages = IF underflow THEN @ ELSE Returned(@, f, d)]]
        /\ UNCHANGED <<policy, minSeq, lruLock, calls, history>>

\* Defect: the section is left only while the static branch is on.
rcu_read_unlock_IfKey(r) ==
    IF key THEN [a \in Admins |-> [admin[a] EXCEPT !.waits = @ \ {r}]] ELSE admin

rcu_read_unlock(r) == [a \in Admins |-> [admin[a] EXCEPT !.waits = @ \ {r}]]

\* batch_finish() leaves the RCU section, then lru_lock is dropped.
batch_finish(r) ==
    /\ ctx[r].pc = "batch"
    /\ ctx' = [ctx EXCEPT ![r].pc = IF ctx[r].isolated THEN "shrink" ELSE "idle"]
    /\ admin' = rcu_read_unlock(r)
    /\ lruLock' = NoTask
    /\ UNCHANGED <<mode, key, run, fault, config, modeLock, lv, minSeq, claim, calls, history>>

\* Defect: the feedback of a batch counts whatever run it belongs to.
FeedbackCounts_AnyRun(r) == key

FeedbackCounts(r) == key /\ ctx[r].run = run /\ lv.state_epoch = ctx[r].run

\* After shrink_folio_list(), under lru_lock again; the folios that turned
\* out clean are tried once more.
feedback(r) ==
    /\ ctx[r].pc \in {"shrink", "retry"} /\ lruLock = NoTask
    /\ \E reclaimed \in BOOLEAN :
          /\ lv' = IF ~FeedbackCounts(r) THEN lv
                   ELSE [lv EXCEPT !.no_progress = IF reclaimed THEN 0 ELSE @ + 1]
          /\ fruitless' = IF ctx[r].run = run /\ ~reclaimed THEN fruitless + 1 ELSE fruitless
    /\ \E again \in BOOLEAN :
          /\ again => ctx[r].pc = "shrink"
          /\ ctx' = [ctx EXCEPT ![r] = IF again THEN [@ EXCEPT !.pc = "retry"] ELSE IdleCtx]
    /\ UNCHANGED <<policy, fault, minSeq, lruLock, claim, calls, stateChanged>>

-----------------------------------------------------------------------------
(* Folios, generations and MGLRU itself.                                   *)

\* An access brings the page's record into the current run.
AccessFolio(f) ==
    /\ key /\ claim[f].run # run
    /\ claim' = [claim EXCEPT ![f] = [NoClaim EXCEPT !.run = run]]
    /\ UNCHANGED <<policy, fault, lv, minSeq, lruLock, ctx, calls, history>>

ReallocFolio(f) ==
    /\ Outside /\ \A r \in Reclaimers : ctx[r].folio # f
    /\ claim' = [claim EXCEPT ![f] = NoClaim]
    /\ UNCHANGED <<policy, fault, lv, minSeq, lruLock, ctx, history>>

AdvanceMinSeq ==
    /\ Outside /\ lruLock = NoTask
    /\ minSeq' = minSeq + 1
    /\ UNCHANGED <<policy, fault, lv, lruLock, ctx, claim, history>>

mglru_state_change ==
    /\ Outside /\ key
    /\ fault' = TRUE /\ stateChanged' = TRUE
    /\ UNCHANGED <<policy, lv, minSeq, lruLock, ctx, claim, fruitless>>

-----------------------------------------------------------------------------
Init ==
    /\ mode = "off" /\ key = FALSE /\ run = 0 /\ fault = FALSE
    /\ \E c \in Configs :
          config = [seq |-> 0, max_upgrade |-> c.max_upgrade, batch |-> c.batch,
                    epoch |-> c.epoch, ratio |-> c.ratio]
    /\ modeLock = NoTask /\ admin = [a \in Admins |-> IdleAdmin]
    /\ lv = [epoch_id |-> 0, source_seq |-> 0, state_epoch |-> 0, cand |-> 0,
             pages |-> NoPages, no_progress |-> 0]
    /\ minSeq = 0 /\ lruLock = NoTask /\ ctx = [r \in Reclaimers |-> IdleCtx]
    /\ claim = [f \in Folios |-> NoClaim]
    /\ calls = 0 /\ fruitless = 0 /\ stateChanged = FALSE

AdminCall(a) == SetMode(a) \/ SetConfig(a)

AdminStep(a) ==
    \/ SetModeLocked(a) \/ StoreEpoch(a) \/ ClearFault(a) \/ DisableKey(a) \/ StoreMode(a)
    \/ EnableKey(a) \/ SyncBegin(a) \/ SetModeReturn(a)
    \/ SetConfigLocked(a) \/ StoreConfig(a) \/ PublishConfig(a)

BatchStep(r) ==
    \/ prepare(r) \/ DecideNative(r) \/ DecidePredicted(r)
    \/ FinishCommitted(r) \/ FinishNative(r) \/ FinishCancelled(r)
    \/ batch_finish(r) \/ feedback(r)

Next == \/ \E a \in Admins : AdminCall(a) \/ AdminStep(a)
        \/ \E r \in Reclaimers : EvictBegin(r) \/ BatchStep(r)
        \/ \E f \in Folios : AccessFolio(f) \/ ReallocFolio(f)
        \/ AdvanceMinSeq \/ mglru_state_change

Spec == Init /\ [][Next]_vars

\* Administrators are scheduled, and so is the reclaimer inside a batch,
\* which scans a bounded number of folios.
FairSpec == /\ Spec
            /\ \A a \in Admins : WF_vars(AdminStep(a))
            /\ \A r \in Reclaimers : WF_vars(BatchStep(r))

-----------------------------------------------------------------------------
(* Properties.                                                             *)

\* While a batch is open, neither the run nor the configuration it was
\* prepared under is replaced: set_mode() waits for it before it lets go.  So a
\* batch that applies never sees a configuration its mode would have refused.
OpenBatchIsCurrent ==
    \A r \in Reclaimers : Open(r) =>
        /\ ctx[r].run = run /\ ctx[r].cfg = config.seq
        /\ ctx[r].mode \in ApplyModes => config.max_upgrade <= 2

\* Once a switch to OFF has returned, no reclaimer is inside a batch.
OffMeansOff ==
    mode = "off" /\ modeLock = NoTask => \A r \in Reclaimers : ~Open(r)

\* What a batch and its reclaim epoch have reserved is within the absolute
\* and the relative budget of the configuration in force, and what is given
\* back was reserved.
BudgetsRespected ==
    \A r \in Reclaimers, d \in Dirs : Open(r) =>
        /\ ctx[r].pages[d] \in 0..config.batch
        /\ lv.pages[d] \in 0..config.epoch
        /\ lv.pages[d] <= RatioLimit(lv.cand, config.ratio)

\* The policy disables itself only when MGLRU was switched: the accounting
\* check of a cancelled reservation never fires.
AccountingNeverFaults == fault => stateChanged

\* The rounds without progress that gate the batches of a run happened in
\* that run: feedback that arrives after a mode switch is not counted.
NoProgressIsThisRun == lv.state_epoch = run => lv.no_progress <= fruitless

\* A mode switch that waits for the open batches returns.
SetModeReturns == \A a \in Admins : admin[a].pc = "wait" ~> admin[a].pc = "idle"
=============================================================================
