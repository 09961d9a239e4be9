-------------------------- MODULE EffectiveTierProofs --------------------------
(***************************************************************************)
(* The safety properties of EffectiveTier, for every number of             *)
(* administrators, reclaimers, folios, runs and configurations.            *)
(*                                                                         *)
(* What a batch may rely on is tied to the mode switch through the wait    *)
(* for readers: a batch is open under the mode OFF only while some         *)
(* administrator has yet to wait for it (WaitsFor), and run and            *)
(* configuration change only under the mode lock, with the mode OFF and    *)
(* nobody left to wait for (AdminInv has what each step of the holder      *)
(* knows).  A reservation a batch holds is counted by the batch and by the *)
(* lruvec (CtxInv), so giving it back never takes a counter below zero;    *)
(* the lruvec's counters stay within the budgets of the current            *)
(* configuration as long as a batch may use them (LvInv).  The ratio of    *)
(* the relative budget grows with the candidates counted.                  *)
(***************************************************************************)
EXTENDS EffectiveTier, TLAPS

AdminPcs == {"idle", "mode", "epoch", "clear", "disable", "store", "enable", "sync", "wait",
             "config", "payload", "publish"}
ModePcs == {"mode", "epoch", "clear", "disable", "store", "enable", "sync", "wait"}
ConfigPcs == {"config", "payload", "publish"}
\* Between taking and releasing parp_tier_mode_lock.
LockedPcs == AdminPcs \ {"idle", "mode", "config"}

AdminType == [pc : AdminPcs, arg : Modes \cup {None} \cup Configs, waits : SUBSET Reclaimers]
ConfigType == [seq : Nat, max_upgrade : 1..3, batch : Nat \ {0}, epoch : Nat \ {0},
               ratio : 1..RatioBase]
LruvecType == [epoch_id : Nat, source_seq : Nat, state_epoch : Nat, cand : Nat,
               pages : [Dirs -> Nat], no_progress : Nat]
CtxPcs == {"idle", "prepare", "batch", "decided", "shrink", "retry"}
CtxType == [pc : CtxPcs, mode : Modes, cfg : Nat, run : Nat, cand : Nat, pages : [Dirs -> Nat],
            no_progress : BOOLEAN, severe : BOOLEAN, folio : Folios \cup {None},
            dir : Dirs \cup {None}, held : BOOLEAN, isolated : BOOLEAN]

TypeInv ==
    /\ mode \in Modes /\ run \in Nat /\ minSeq \in Nat /\ fruitless \in Nat
    /\ config \in ConfigType
    /\ admin \in [Admins -> AdminType]
    /\ lv \in LruvecType
    /\ ctx \in [Reclaimers -> CtxType]

\* What holds while administrator a is at a step of set_mode() or set_config().
AdminInv(a) ==
    LET x == admin[a]
    IN  /\ x.pc \in LockedPcs => modeLock = a
        /\ x.pc \in ModePcs => x.arg \in Modes
        /\ x.pc \in ConfigPcs => x.arg \in Configs
        /\ x.pc \in {"epoch", "clear"} => mode = "off" /\ x.arg # "off"
        /\ x.pc = "disable" => mode # "off" /\ x.arg = "off"
        /\ x.pc = "store" => (mode = "off" <=> x.arg # "off")
        /\ x.pc \in {"enable", "sync", "wait"} => mode = x.arg
        /\ x.pc \in {"payload", "publish"} => mode = "off"
        /\ x.pc \in {"epoch", "clear", "store"} /\ x.arg \in ApplyModes => config.max_upgrade <= 2
        /\ x.pc = "clear" \/ (x.pc = "store" /\ x.arg # "off") => lv.state_epoch < run

\* Administrator a switches to OFF and waits, or is about to wait, for r.
WaitsFor(a, r) ==
    /\ admin[a].pc = "sync" \/ (admin[a].pc = "wait" /\ r \in admin[a].waits)
    /\ admin[a].arg = "off"

\* What holds of reclaimer r's scan context.
CtxInv(r) ==
    /\ ctx[r].pc \in {"prepare", "batch", "decided"} => lruLock = r
    /\ ctx[r].run <= run
    /\ Open(r) =>
          /\ ctx[r].run = run /\ ctx[r].cfg = config.seq /\ lv.state_epoch = run
          /\ ctx[r].mode \in ApplyModes => config.max_upgrade <= 2
          /\ mode = "off" => \E a \in Admins : WaitsFor(a, r)
          /\ \A d \in Dirs : ctx[r].pages[d] <= config.batch
    /\ ctx[r].held =>
          /\ ctx[r].pc = "decided" /\ ctx[r].folio \in Folios /\ ctx[r].dir \in Dirs
          /\ Pages[ctx[r].folio] <= ctx[r].pages[ctx[r].dir]
          /\ Pages[ctx[r].folio] <= lv.pages[ctx[r].dir]

\* The reclaim epoch's reservations, while a batch may use them.
EpochWithinBudget ==
    \A d \in Dirs : /\ lv.pages[d] <= config.epoch
                    /\ lv.pages[d] <= RatioLimit(lv.cand, config.ratio)

LvInv ==
    /\ lv.state_epoch <= run
    /\ NoProgressIsThisRun
    /\ lv.state_epoch = run /\ (mode # "off" \/ \E r \in Reclaimers : Open(r)) => EpochWithinBudget

ModeInv == mode \in ApplyModes => config.max_upgrade <= 2

IInv ==
    /\ TypeInv
    /\ \A a \in Admins : AdminInv(a)
    /\ \A r \in Reclaimers : CtxInv(r)
    /\ LvInv
    /\ ModeInv
    /\ AccountingNeverFaults

-----------------------------------------------------------------------------
(* The relative budget.                                                    *)

\* RatioLimit() is a number of pages that does not shrink as more candidates
\* are counted, so counting a candidate never invalidates a reservation.
LEMMA RatioLimitMonotone ==
    ASSUME NEW q \in 1..RatioBase, NEW m \in Nat, NEW n \in Nat, m <= n
    PROVE  /\ RatioLimit(m, q) \in Nat
           /\ RatioLimit(m, q) <= RatioLimit(n, q)
<1> DEFINE B == RatioBase
<1>1. B \in Nat \ {0} /\ q \in Nat
  BY NumberAssumption
<1>2. m * q \in Nat /\ n * q \in Nat /\ m * q <= n * q
  BY <1>1, SMTT(20)
<1>3. ASSUME NEW x \in Nat, NEW y \in Nat, x <= y
      PROVE  x \div B \in Nat /\ x \div B <= y \div B
  BY <1>1, <1>3, SMTT(20)
<1> QED
  BY <1>2, <1>3 DEF RatioLimit

-----------------------------------------------------------------------------
(* Types.                                                                  *)

\* The values the model names, and single fields of its records, have their types.
LEMMA NamedValues ==
    /\ IdleAdmin \in AdminType /\ IdleAdmin.pc = "idle"
    /\ NoPages \in [Dirs -> Nat] /\ \A d \in Dirs : NoPages[d] = 0
    /\ IdleCtx \in CtxType
    /\ IdleCtx.pc = "idle" /\ IdleCtx.held = FALSE /\ IdleCtx.pages = NoPages /\ IdleCtx.run = 0
    /\ Pages \in [Folios -> Nat \ {0}]
<1>1. IdleAdmin \in AdminType /\ IdleAdmin.pc = "idle"
  BY DEF IdleAdmin, AdminType, AdminPcs
<1>2. NoPages \in [Dirs -> Nat] /\ \A d \in Dirs : NoPages[d] = 0
  BY DEF NoPages
<1>3. IdleCtx \in CtxType
  BY <1>2 DEF IdleCtx, CtxType, CtxPcs, Modes
<1>4. IdleCtx.pc = "idle" /\ IdleCtx.held = FALSE /\ IdleCtx.pages = NoPages /\ IdleCtx.run = 0
  BY DEF IdleCtx
<1> QED
  BY <1>1, <1>2, <1>3, <1>4, NumberAssumption

\* Every administrator step keeps the types.
LEMMA AdminTypes ==
    ASSUME TypeInv, NEW a \in Admins, AdminInv(a), AdminCall(a) \/ AdminStep(a)
    PROVE  TypeInv'
<1> USE NamedValues DEF TypeInv
<1>1. ASSUME NEW pc \in AdminPcs PROVE [admin[a] EXCEPT !.pc = pc] \in AdminType
  BY DEF AdminType
<1>2. CASE SetMode(a)
  <2>1. \A m \in UsedModes : [IdleAdmin EXCEPT !.pc = "mode", !.arg = m] \in AdminType
    BY ModeAssumption DEF IdleAdmin, AdminType, AdminPcs
  <2> QED BY <1>2, <2>1 DEF SetMode, history
<1>3. CASE SetModeLocked(a)
  <2>1. \A pc \in {"disable", "epoch"} : [admin[a] EXCEPT !.pc = pc] \in AdminType
    BY <1>1 DEF AdminPcs
  <2>2. admin' \in [Admins -> AdminType]
    BY <1>3, <2>1 DEF SetModeLocked
  <2> QED BY <1>3, <2>2 DEF SetModeLocked, history
<1>4. CASE StoreEpoch(a)
  BY <1>4, <1>1 DEF StoreEpoch, Goto, AdminPcs
<1>5. CASE ClearFault(a)
  BY <1>5, <1>1 DEF ClearFault, Goto, AdminPcs
<1>6. CASE DisableKey(a)
  BY <1>6, <1>1 DEF DisableKey, Goto, AdminPcs, history
<1>7. CASE StoreMode(a) /\ admin[a].arg \in Modes
  BY <1>7, <1>1 DEF StoreMode, Goto, AdminPcs, history
<1>8. CASE EnableKey(a)
  BY <1>8, <1>1 DEF EnableKey, Goto, AdminPcs, history
<1>9. CASE SyncBegin(a)
  <2>1. [admin[a] EXCEPT !.pc = "wait", !.waits = {r \in Reclaimers : Open(r)}] \in AdminType
    BY DEF AdminType, AdminPcs
  <2> QED BY <1>9, <2>1 DEF SyncBegin, history
<1>10. CASE SetModeReturn(a)
  BY <1>10 DEF SetModeReturn, history
<1>11. CASE SetConfig(a)
  <2>1. \A c \in Configs : [IdleAdmin EXCEPT !.pc = "config", !.arg = c] \in AdminType
    BY DEF IdleAdmin, AdminType, AdminPcs
  <2> QED BY <1>11, <2>1 DEF SetConfig, history
<1>12. [config EXCEPT !.seq = @ + 1] \in ConfigType
  BY DEF ConfigType
<1>13. CASE SetConfigLocked(a)
  <2>1. [admin[a] EXCEPT !.pc = "payload"] \in AdminType
    BY <1>1 DEF AdminPcs
  <2> QED BY <1>13, <1>12, <2>1 DEF SetConfigLocked, Goto, history
<1>14. CASE StoreConfig(a) /\ admin[a].arg \in Configs
  <2> DEFINE c == admin[a].arg
  <2>1. [seq |-> config.seq, max_upgrade |-> c.max_upgrade, batch |-> c.batch,
         epoch |-> c.epoch, ratio |-> c.ratio] \in ConfigType
    BY <1>14, ConfigAssumption DEF ConfigType
  <2>2. [admin[a] EXCEPT !.pc = "publish"] \in AdminType
    BY <1>1 DEF AdminPcs
  <2> QED BY <1>14, <2>1, <2>2 DEF StoreConfig, Goto, history
<1>15. CASE PublishConfig(a)
  BY <1>15, <1>12 DEF PublishConfig, history
<1> QED
  BY <1>2, <1>3, <1>4, <1>5, <1>6, <1>7, <1>8, <1>9, <1>10, <1>11, <1>13, <1>14, <1>15
  DEF AdminCall, AdminStep, AdminInv, ModePcs, ConfigPcs, StoreMode, StoreConfig

-----------------------------------------------------------------------------
(* Administrators.                                                         *)

\* parp_tier_mode_lock has one holder, and while the mode is OFF only a switch
\* to OFF that still waits tolerates an open batch.
LEMMA OneSwitch ==
    ASSUME IInv
    PROVE  /\ \A a, b \in Admins :
                 admin[a].pc \in LockedPcs /\ admin[b].pc \in LockedPcs => a = b
           /\ modeLock = NoTask => \A a \in Admins : admin[a].pc \notin LockedPcs
           /\ mode = "off" /\ modeLock = NoTask => \A r \in Reclaimers : ~Open(r)
           /\ \A a \in Admins : mode = "off" /\ admin[a].pc \in LockedPcs \ {"sync", "wait"}
                 => \A r \in Reclaimers : ~Open(r)
<1>1. \A a \in Admins : admin[a].pc \in LockedPcs => modeLock = a
  BY DEF IInv, AdminInv
<1>2. modeLock = NoTask => \A a \in Admins : admin[a].pc \notin LockedPcs
  BY <1>1, TaskAssumption
<1>3. ASSUME mode = "off", NEW r \in Reclaimers, Open(r)
      PROVE  \E a \in Admins : admin[a].pc \in {"sync", "wait"}
  BY <1>3 DEF IInv, CtxInv, WaitsFor
<1>4. {"sync", "wait"} \subseteq LockedPcs
  BY DEF LockedPcs, AdminPcs
<1> QED
  BY <1>1, <1>2, <1>3, <1>4

\* What the steps of set_mode() and set_config() leave alone.
LEMMA AdminFrame ==
    ASSUME TypeInv, NEW a \in Admins, AdminCall(a) \/ AdminStep(a)
    PROVE  /\ UNCHANGED <<lv, ctx, lruLock, minSeq>>
           /\ \A q \in Admins : q # a => admin'[q] = admin[q]
<1>1. UNCHANGED <<lv, ctx, lruLock, minSeq>>
  BY DEF AdminCall, AdminStep, SetMode, SetModeLocked, StoreEpoch, ClearFault, DisableKey,
         StoreMode, EnableKey, SyncBegin, SetModeReturn, SetConfig, SetConfigLocked, StoreConfig,
         PublishConfig
<1>2. \A q \in Admins : q # a => admin'[q] = admin[q]
  BY DEF TypeInv, AdminCall, AdminStep, SetMode, SetModeLocked, StoreEpoch, ClearFault, DisableKey,
         StoreMode, EnableKey, SyncBegin, SetModeReturn, SetConfig, SetConfigLocked, StoreConfig,
         PublishConfig, Goto
<1> QED
  BY <1>1, <1>2

\* A step that leaves the contexts, the mode, the run, the configuration and the
\* lock alone preserves what is known of the contexts and the lruvec.
LEMMA QuietAdmin ==
    ASSUME IInv, NEW a \in Admins, UNCHANGED <<lv, ctx, lruLock, mode, run, config, fruitless>>,
           \A q \in Admins : q # a => admin'[q] = admin[q],
           \A r \in Reclaimers : Open(r) /\ WaitsFor(a, r) => WaitsFor(a, r)'
    PROVE  (\A r \in Reclaimers : CtxInv(r)') /\ LvInv' /\ ModeInv'
<1>1. \A q \in Admins, r \in Reclaimers : Open(r) /\ WaitsFor(q, r) => WaitsFor(q, r)'
  BY DEF WaitsFor
<1>2. \A r \in Reclaimers : CtxInv(r)'
  BY <1>1 DEF IInv, CtxInv, Open
<1>3. LvInv' /\ ModeInv'
  BY DEF IInv, LvInv, ModeInv, NoProgressIsThisRun, EpochWithinBudget, Open
<1> QED
  BY <1>2, <1>3

\* A step taken while the mode is OFF and no batch is open keeps them too.
LEMMA IdleAdminStep ==
    ASSUME IInv, UNCHANGED <<lv, ctx, lruLock>>, \A r \in Reclaimers : ~Open(r),
           run' \in Nat, run <= run'
    PROVE  \A r \in Reclaimers : CtxInv(r)'
<1>1. \A r \in Reclaimers : ~Open(r)'
  BY DEF Open
<1>2. \A r \in Reclaimers : ctx[r].run \in Nat
  BY DEF IInv, TypeInv, CtxType
<1> QED
  BY <1>1, <1>2 DEF IInv, CtxInv, TypeInv

\* Every administrator step preserves the inductive invariant.
LEMMA AdminKeeps ==
    ASSUME IInv, NEW a \in Admins, AdminCall(a) \/ AdminStep(a)
    PROVE  IInv'
<1> DEFINE A == \A q \in Admins : AdminInv(q)
           C == \A r \in Reclaimers : CtxInv(r)
<1>t. TypeInv /\ A /\ C /\ LvInv /\ ModeInv /\ AccountingNeverFaults
  BY DEF IInv
<1>u. TypeInv'
  BY <1>t, AdminTypes
<1>f. /\ UNCHANGED <<lv, ctx, lruLock>>
      /\ \A q \in Admins : q # a => admin'[q] = admin[q]
  BY <1>t, AdminFrame
<1>s. SUFFICES A' /\ C' /\ LvInv' /\ ModeInv' /\ AccountingNeverFaults'
  BY <1>u DEF IInv
<1>l. \A b \in Admins : admin[b].pc \in LockedPcs /\ admin[a].pc \in LockedPcs => a = b
  BY OneSwitch
<1>p. /\ lv.state_epoch \in Nat /\ run \in Nat /\ config.max_upgrade \in Nat
      /\ admin \in [Admins -> AdminType] /\ admin[a] \in AdminType
  BY <1>t DEF TypeInv, LruvecType, ConfigType
<1>1. CASE SetMode(a)
  <2>1. PICK m \in UsedModes : admin' = [admin EXCEPT ![a] = [IdleAdmin EXCEPT !.pc = "mode", !.arg = m]]
    BY <1>1 DEF SetMode
  <2>2. admin'[a].pc = "mode" /\ admin'[a].arg = m /\ m \in Modes
    BY <1>p, <2>1, ModeAssumption DEF IdleAdmin
  <2>3. /\ UNCHANGED <<mode, run, config, modeLock, fault, fruitless, stateChanged>>
        /\ admin[a].pc = "idle"
    BY <1>1 DEF SetMode, history
  <2>4. A'
    BY <1>t, <1>f, <2>2, <2>3 DEF AdminInv, LockedPcs, ModePcs, ConfigPcs, AdminPcs
  <2>5. C' /\ LvInv' /\ ModeInv'
    BY <1>f, <2>3, QuietAdmin DEF WaitsFor
  <2> QED BY <1>t, <2>3, <2>4, <2>5 DEF AccountingNeverFaults
<1>2. CASE SetConfig(a)
  <2>1. PICK c \in Configs : admin' = [admin EXCEPT ![a] = [IdleAdmin EXCEPT !.pc = "config", !.arg = c]]
    BY <1>2 DEF SetConfig
  <2>2. admin'[a].pc = "config" /\ admin'[a].arg = c
    BY <1>p, <2>1 DEF IdleAdmin
  <2>3. /\ UNCHANGED <<mode, run, config, modeLock, fault, fruitless, stateChanged>>
        /\ admin[a].pc = "idle"
    BY <1>2 DEF SetConfig, history
  <2>4. A'
    BY <1>t, <1>f, <2>2, <2>3 DEF AdminInv, LockedPcs, ModePcs, ConfigPcs, AdminPcs
  <2>5. C' /\ LvInv' /\ ModeInv'
    BY <1>f, <2>3, QuietAdmin DEF WaitsFor
  <2> QED BY <1>t, <2>3, <2>4, <2>5 DEF AccountingNeverFaults
<1>3. CASE SetModeLocked(a)
  <2>1. /\ UNCHANGED <<mode, run, config, fault, fruitless, stateChanged>>
        /\ admin[a].pc = "mode" /\ modeLock = NoTask
    BY <1>3 DEF SetModeLocked, history
  <2>2. \A q \in Admins : admin[q].pc \notin LockedPcs
    BY <2>1, OneSwitch
  <2>3. \/ admin'[a].pc = "idle"
        \/ /\ modeLock' = a /\ admin'[a].arg = admin[a].arg
           /\ \/ admin'[a].pc = "disable" /\ admin[a].arg = "off" /\ mode # "off"
              \/ /\ admin'[a].pc = "epoch" /\ admin[a].arg # "off" /\ mode = "off"
                 /\ admin[a].arg \in ApplyModes => ~(config.max_upgrade > 2)
    BY <1>3, <1>p, NamedValues DEF SetModeLocked, AdminType
  <2>4. A'
    BY <1>t, <1>f, <1>p, <2>1, <2>2, <2>3 DEF AdminInv, LockedPcs, ModePcs, ConfigPcs, AdminPcs
  <2>5. C' /\ LvInv' /\ ModeInv'
    BY <1>f, <2>1, QuietAdmin DEF WaitsFor
  <2> QED BY <1>t, <2>1, <2>4, <2>5 DEF AccountingNeverFaults
<1>4. CASE StoreEpoch(a)
  <2>1. /\ UNCHANGED <<mode, config, modeLock, fault, stateChanged>>
        /\ admin[a].pc = "epoch" /\ run' = run + 1 /\ fruitless' = 0
        /\ admin'[a].pc = "clear" /\ admin'[a].arg = admin[a].arg
    BY <1>4, <1>p DEF StoreEpoch, Goto, AdminType
  <2>2. mode = "off" /\ admin[a].pc \in LockedPcs \ {"sync", "wait"}
    BY <1>t, <2>1 DEF AdminInv, LockedPcs, AdminPcs
  <2>3. A'
    BY <1>t, <1>f, <1>l, <1>p, <2>1, <2>2 DEF AdminInv, LvInv, LockedPcs, ModePcs, ConfigPcs, AdminPcs
  <2>4. C'
    BY <1>f, <1>p, <2>1, <2>2, OneSwitch, IdleAdminStep
  <2>5. LvInv' /\ ModeInv'
    BY <1>t, <1>f, <1>p, <2>1 DEF LvInv, ModeInv, NoProgressIsThisRun
  <2> QED BY <1>t, <2>1, <2>3, <2>4, <2>5 DEF AccountingNeverFaults
<1>5. CASE ClearFault(a)
  <2>1. /\ UNCHANGED <<mode, run, config, modeLock, fruitless>>
        /\ admin[a].pc = "clear" /\ fault' = FALSE
        /\ admin'[a].pc = "store" /\ admin'[a].arg = admin[a].arg
    BY <1>5, <1>p DEF ClearFault, Goto, AdminType
  <2>2. A'
    BY <1>t, <1>f, <1>l, <1>p, <2>1 DEF AdminInv, LockedPcs, ModePcs, ConfigPcs, AdminPcs
  <2>3. C' /\ LvInv' /\ ModeInv'
    BY <1>f, <2>1, QuietAdmin DEF WaitsFor
  <2> QED BY <2>1, <2>2, <2>3 DEF AccountingNeverFaults
<1>6. CASE DisableKey(a)
  <2>1. /\ UNCHANGED <<mode, run, config, modeLock, fault, fruitless, stateChanged>>
        /\ admin[a].pc = "disable" /\ admin'[a].pc = "store" /\ admin'[a].arg = admin[a].arg
    BY <1>6, <1>p DEF DisableKey, Goto, AdminType, history
  <2>2. A'
    BY <1>t, <1>f, <1>l, <1>p, <2>1
    DEF AdminInv, LockedPcs, ModePcs, ConfigPcs, AdminPcs, ApplyModes
  <2>3. C' /\ LvInv' /\ ModeInv'
    BY <1>f, <2>1, QuietAdmin DEF WaitsFor
  <2> QED BY <1>t, <2>1, <2>2, <2>3 DEF AccountingNeverFaults
<1>8. CASE EnableKey(a)
  <2>1. /\ UNCHANGED <<mode, run, config, modeLock, fault, fruitless, stateChanged>>
        /\ admin[a].pc = "enable" /\ admin'[a].pc = "sync" /\ admin'[a].arg = admin[a].arg
    BY <1>8, <1>p DEF EnableKey, Goto, AdminType, history
  <2>2. A'
    BY <1>t, <1>f, <1>l, <1>p, <2>1 DEF AdminInv, LockedPcs, ModePcs, ConfigPcs, AdminPcs
  <2>3. C' /\ LvInv' /\ ModeInv'
    BY <1>f, <2>1, QuietAdmin DEF WaitsFor
  <2> QED BY <1>t, <2>1, <2>2, <2>3 DEF AccountingNeverFaults
<1>9. CASE SyncBegin(a)
  <2>1. /\ UNCHANGED <<mode, run, config, modeLock, fault, fruitless, stateChanged>>
        /\ admin[a].pc = "sync" /\ admin'[a].pc = "wait" /\ admin'[a].arg = admin[a].arg
        /\ admin'[a].waits = {r \in Reclaimers : Open(r)}
    BY <1>9, <1>p DEF SyncBegin, AdminType, history
  <2>2. A'
    BY <1>t, <1>f, <1>l, <1>p, <2>1 DEF AdminInv, LockedPcs, ModePcs, ConfigPcs, AdminPcs
  <2>3. C' /\ LvInv' /\ ModeInv'
    BY <1>f, <2>1, QuietAdmin DEF WaitsFor
  <2> QED BY <1>t, <2>1, <2>2, <2>3 DEF AccountingNeverFaults
<1>10. CASE SetModeReturn(a)
  <2>1. /\ UNCHANGED <<mode, run, config, fault, fruitless, stateChanged>>
        /\ admin[a].pc = "wait" /\ admin[a].waits = {} /\ admin'[a].pc = "idle"
    BY <1>10, <1>p, NamedValues DEF SetModeReturn, GracePeriodOver, history
  <2>2. A'
    BY <1>t, <1>f, <1>l, <1>p, <2>1 DEF AdminInv, LockedPcs, ModePcs, ConfigPcs, AdminPcs
  <2>3. C' /\ LvInv' /\ ModeInv'
    BY <1>f, <2>1, QuietAdmin DEF WaitsFor
  <2> QED BY <1>t, <2>1, <2>2, <2>3 DEF AccountingNeverFaults
<1>7. CASE StoreMode(a)
  <2>1. /\ UNCHANGED <<run, config, modeLock, fault, fruitless, stateChanged>>
        /\ admin[a].pc = "store" /\ mode' = admin[a].arg /\ admin'[a].arg = admin[a].arg
        /\ admin'[a].pc = IF admin[a].arg = "off" THEN "sync" ELSE "enable"
    BY <1>7, <1>p DEF StoreMode, Goto, AdminType, history
  <2>2. A'
    BY <1>t, <1>f, <1>l, <1>p, <2>1 DEF AdminInv, LockedPcs, ModePcs, ConfigPcs, AdminPcs
  <2>3. CASE admin[a].arg = "off"
    <3>1. \A r \in Reclaimers : WaitsFor(a, r)'
      BY <2>1, <2>3 DEF WaitsFor
    <3>2. C'
      BY <1>t, <1>f, <2>1, <2>3, <3>1 DEF CtxInv, Open
    <3>3. mode # "off"
      BY <1>t, <2>1, <2>3 DEF AdminInv
    <3>4. LvInv' /\ ModeInv'
      BY <1>t, <1>f, <2>1, <2>3, <3>3
      DEF LvInv, ModeInv, NoProgressIsThisRun, EpochWithinBudget, ApplyModes
    <3> QED BY <1>t, <2>1, <2>2, <3>2, <3>4 DEF AccountingNeverFaults
  <2>4. CASE admin[a].arg # "off"
    <3>1. mode = "off" /\ admin[a].pc \in LockedPcs \ {"sync", "wait"} /\ lv.state_epoch < run
      BY <1>t, <2>1, <2>4 DEF AdminInv, LockedPcs, AdminPcs
    <3>2. C'
      BY <1>f, <1>p, <2>1, <3>1, OneSwitch, IdleAdminStep
    <3>3. admin[a].arg \in ApplyModes => config.max_upgrade <= 2
      BY <1>t, <2>1 DEF AdminInv
    <3>4. LvInv' /\ ModeInv'
      BY <1>t, <1>f, <1>p, <2>1, <3>1, <3>3 DEF LvInv, ModeInv, NoProgressIsThisRun
    <3> QED BY <1>t, <2>1, <2>2, <3>2, <3>4 DEF AccountingNeverFaults
  <2> QED BY <2>3, <2>4
<1>11. CASE SetConfigLocked(a) /\ ~ConfigAllowed
  <2>1. /\ UNCHANGED <<mode, run, config, modeLock, fault, fruitless, stateChanged>>
        /\ admin[a].pc = "config" /\ admin'[a].pc = "idle"
    BY <1>11, <1>p, NamedValues DEF SetConfigLocked, history
  <2>2. A'
    BY <1>t, <1>f, <2>1 DEF AdminInv, LockedPcs, ModePcs, ConfigPcs, AdminPcs
  <2>3. C' /\ LvInv' /\ ModeInv'
    BY <1>f, <2>1, QuietAdmin DEF WaitsFor
  <2> QED BY <1>t, <2>1, <2>2, <2>3 DEF AccountingNeverFaults
<1>12. ASSUME mode = "off", mode' = mode, run' = run, fruitless' = fruitless,
              \A r \in Reclaimers : ~Open(r)
       PROVE  C' /\ LvInv' /\ ModeInv'
  <2>1. C'
    BY <1>f, <1>p, <1>12, IdleAdminStep
  <2>2. LvInv' /\ ModeInv'
    BY <1>t, <1>f, <1>12 DEF LvInv, ModeInv, NoProgressIsThisRun, ApplyModes, Open
  <2> QED BY <2>1, <2>2
<1>13. CASE SetConfigLocked(a) /\ ConfigAllowed
  <2>1. /\ UNCHANGED <<mode, run, fault, fruitless, stateChanged>>
        /\ mode = "off" /\ modeLock = NoTask /\ modeLock' = a
        /\ admin[a].pc = "config" /\ admin'[a].pc = "payload" /\ admin'[a].arg = admin[a].arg
    BY <1>13, <1>p DEF SetConfigLocked, ConfigAllowed, Goto, AdminType, history
  <2>2. \A q \in Admins : admin[q].pc \notin LockedPcs
    BY <2>1, OneSwitch
  <2>3. A'
    BY <1>t, <1>f, <2>1, <2>2 DEF AdminInv, LockedPcs, ModePcs, ConfigPcs, AdminPcs
  <2>4. C' /\ LvInv' /\ ModeInv'
    BY <1>12, <2>1, OneSwitch
  <2> QED BY <1>t, <2>1, <2>3, <2>4 DEF AccountingNeverFaults
<1>14. CASE StoreConfig(a)
  <2>1. /\ UNCHANGED <<mode, run, modeLock, fault, fruitless, stateChanged>>
        /\ admin[a].pc = "payload" /\ admin'[a].pc = "publish" /\ admin'[a].arg = admin[a].arg
    BY <1>14, <1>p DEF StoreConfig, Goto, AdminType, history
  <2>2. mode = "off" /\ admin[a].pc \in LockedPcs \ {"sync", "wait"}
    BY <1>t, <2>1 DEF AdminInv, LockedPcs, AdminPcs
  <2>3. A'
    BY <1>t, <1>f, <1>l, <2>1, <2>2 DEF AdminInv, LockedPcs, ModePcs, ConfigPcs, AdminPcs
  <2>4. C' /\ LvInv' /\ ModeInv'
    BY <1>12, <2>1, <2>2, OneSwitch
  <2> QED BY <1>t, <2>1, <2>3, <2>4 DEF AccountingNeverFaults
<1>15. CASE PublishConfig(a)
  <2>1. /\ UNCHANGED <<mode, run, fault, fruitless, stateChanged>>
        /\ admin[a].pc = "publish" /\ admin'[a].pc = "idle"
    BY <1>15, <1>p, NamedValues DEF PublishConfig, history
  <2>2. mode = "off" /\ admin[a].pc \in LockedPcs \ {"sync", "wait"}
    BY <1>t, <2>1 DEF AdminInv, LockedPcs, AdminPcs
  <2>3. A'
    BY <1>t, <1>f, <1>l, <2>1, <2>2 DEF AdminInv, LockedPcs, ModePcs, ConfigPcs, AdminPcs
  <2>4. C' /\ LvInv' /\ ModeInv'
    BY <1>12, <2>1, <2>2, OneSwitch
  <2> QED BY <1>t, <2>1, <2>3, <2>4 DEF AccountingNeverFaults
<1> QED
  BY <1>1, <1>2, <1>3, <1>4, <1>5, <1>6, <1>7, <1>8, <1>9, <1>10, <1>11, <1>13, <1>14, <1>15
  DEF AdminCall, AdminStep

-----------------------------------------------------------------------------
(* Reclaimers.                                                             *)

CriticalPcs == {"prepare", "batch", "decided"}

\* While r holds lru_lock, or nobody does, no other reclaimer is inside a batch,
\* and whatever r does to its lruvec leaves the others as they are.
LEMMA OthersOutside ==
    ASSUME IInv, NEW r \in Reclaimers, lruLock = r \/ lruLock = NoTask,
           UNCHANGED run, \A q \in Reclaimers : q # r => ctx'[q] = ctx[q]
    PROVE  \A q \in Reclaimers : q # r => ~Open(q) /\ ~Open(q)' /\ CtxInv(q)'
<1> SUFFICES ASSUME NEW q \in Reclaimers, q # r PROVE ~Open(q) /\ ~Open(q)' /\ CtxInv(q)'
  OBVIOUS
<1>1. ctx[q].pc \notin CriticalPcs
  BY TaskAssumption DEF IInv, CtxInv, CriticalPcs
<1>2. ctx'[q] = ctx[q] /\ CtxInv(q)
  BY DEF IInv
<1>3. ~Open(q) /\ ~Open(q)' /\ ~ctx[q].held
  BY <1>1, <1>2 DEF Open, CtxInv, CriticalPcs
<1> QED
  BY <1>1, <1>2, <1>3 DEF CtxInv, CriticalPcs

\* A step that changes no administrator but for the batches it waits for, and
\* that starts a reclaim epoch of the current run only outside OFF, keeps what
\* is known of the administrators.
LEMMA AdminsKeep ==
    ASSUME IInv, UNCHANGED <<mode, run, config, modeLock>>,
           \A a \in Admins : admin'[a].pc = admin[a].pc /\ admin'[a].arg = admin[a].arg,
           lv'.state_epoch = lv.state_epoch \/ mode # "off"
    PROVE  \A a \in Admins : AdminInv(a)'
<1> SUFFICES ASSUME NEW a \in Admins PROVE AdminInv(a)'
  OBVIOUS
<1>1. AdminInv(a)
  BY DEF IInv
<1> QED
  BY <1>1 DEF AdminInv

\* What the steps of evict_folios() leave alone.
LEMMA BatchFrame ==
    ASSUME TypeInv, NEW r \in Reclaimers, EvictBegin(r) \/ BatchStep(r)
    PROVE  /\ UNCHANGED <<mode, run, config, modeLock, minSeq, stateChanged>>
           /\ \A q \in Reclaimers : q # r => ctx'[q] = ctx[q]
           /\ \A a \in Admins : admin'[a].pc = admin[a].pc /\ admin'[a].arg = admin[a].arg
           /\ admin' \in [Admins -> AdminType]
<1>1. UNCHANGED <<mode, run, config, modeLock, minSeq, stateChanged>>
  BY DEF BatchStep, EvictBegin, prepare, DecideNative, DecidePredicted, FinishCommitted,
         FinishNative, FinishCancelled, batch_finish, feedback, policy, history
<1>2. \A q \in Reclaimers : q # r => ctx'[q] = ctx[q]
  <2> USE DEF TypeInv
  <2>1. CASE EvictBegin(r)
    BY <2>1 DEF EvictBegin
  <2>2. CASE prepare(r)
    BY <2>2 DEF prepare
  <2>3. CASE DecideNative(r)
    BY <2>3 DEF DecideNative
  <2>4. CASE DecidePredicted(r)
    <3>1. PICK f \in Folios, d \in Dirs : Predicted(r, f, d)
      BY <2>4 DEF DecidePredicted
    <3> QED BY <3>1 DEF Predicted
  <2>5. CASE FinishCommitted(r) \/ FinishNative(r)
    BY <2>5 DEF FinishCommitted, FinishNative
  <2>6. CASE FinishCancelled(r)
    <3>1. PICK i, x : ctx' = [ctx EXCEPT ![r] = [Settled(ctx[r], i) EXCEPT !.pages = x]]
      BY <2>6 DEF FinishCancelled
    <3> QED BY <3>1
  <2>7. CASE batch_finish(r)
    BY <2>7 DEF batch_finish
  <2>8. CASE feedback(r)
    BY <2>8 DEF feedback
  <2> QED
    BY <2>1, <2>2, <2>3, <2>4, <2>5, <2>6, <2>7, <2>8 DEF BatchStep
<1>3. /\ \A a \in Admins : admin'[a].pc = admin[a].pc /\ admin'[a].arg = admin[a].arg
      /\ admin' \in [Admins -> AdminType]
  <2>1. CASE batch_finish(r)
    BY <2>1 DEF batch_finish, rcu_read_unlock, TypeInv, AdminType
  <2>2. CASE ~batch_finish(r)
    <3>1. admin' = admin
      BY <2>2 DEF BatchStep, EvictBegin, prepare, DecideNative, DecidePredicted, FinishCommitted,
         FinishNative, FinishCancelled, feedback, policy
    <3> QED BY <3>1 DEF TypeInv
  <2> QED BY <2>1, <2>2
<1> QED
  BY <1>1, <1>2, <1>3

\* What a reclaimer's step must establish about itself and its lruvec, given what
\* the lemmas above say of everybody else.
LEMMA BatchFrameKeeps ==
    ASSUME IInv, NEW r \in Reclaimers, EvictBegin(r) \/ BatchStep(r),
           lruLock = r \/ lruLock = NoTask,
           ctx' \in [Reclaimers -> CtxType], lv' \in LruvecType, fruitless' \in Nat,
           lv'.state_epoch = lv.state_epoch \/ mode # "off",
           CtxInv(r)', LvInv', fault' => stateChanged
    PROVE  IInv'
<1>1. TypeInv
  BY DEF IInv
<1>2. /\ UNCHANGED <<mode, run, config, modeLock, minSeq, stateChanged>>
      /\ \A q \in Reclaimers : q # r => ctx'[q] = ctx[q]
      /\ \A a \in Admins : admin'[a].pc = admin[a].pc /\ admin'[a].arg = admin[a].arg
      /\ admin' \in [Admins -> AdminType]
  BY <1>1, BatchFrame
<1>3. \A q \in Reclaimers : CtxInv(q)'
  BY <1>2, OthersOutside
<1>4. \A a \in Admins : AdminInv(a)'
  BY <1>2, AdminsKeep
<1>6. TypeInv'
  BY <1>1, <1>2 DEF TypeInv
<1>7. ModeInv' /\ AccountingNeverFaults'
  BY <1>2 DEF IInv, ModeInv, AccountingNeverFaults
<1> QED
  BY <1>3, <1>4, <1>6, <1>7 DEF IInv

\* Counting a candidate (decide()) makes a lruvec of the same run whose
\* reservations are still within the budget.
LEMMA CountedKeeps ==
    ASSUME TypeInv, NEW r \in Reclaimers, NEW f \in Folios
    PROVE  /\ Counted(r, f) \in LruvecType
           /\ Counted(r, f).state_epoch = lv.state_epoch /\ Counted(r, f).pages = lv.pages
           /\ Counted(r, f).no_progress = lv.no_progress /\ lv.cand <= Counted(r, f).cand
           /\ RatioLimit(lv.cand, config.ratio) <= RatioLimit(Counted(r, f).cand, config.ratio)
           /\ RatioLimit(Counted(r, f).cand, config.ratio) \in Nat
           /\ RatioLimit(lv.cand, config.ratio) \in Nat
<1>1. lv \in LruvecType /\ Pages[f] \in Nat
  BY NamedValues DEF TypeInv
<1>2. /\ Counted(r, f) \in LruvecType
      /\ Counted(r, f).state_epoch = lv.state_epoch /\ Counted(r, f).pages = lv.pages
      /\ Counted(r, f).no_progress = lv.no_progress /\ lv.cand <= Counted(r, f).cand
      /\ lv.cand \in Nat /\ Counted(r, f).cand \in Nat
  BY <1>1 DEF Counted, LruvecType
<1>3. config.ratio \in 1..RatioBase
  BY DEF TypeInv, ConfigType
<1> QED
  BY <1>2, <1>3, RatioLimitMonotone

\* evict_folios() taking lru_lock preserves the invariant.
LEMMA EvictBeginKeeps ==
    ASSUME IInv, NEW r \in Reclaimers, EvictBegin(r)
    PROVE  IInv'
<1>1. /\ TypeInv /\ CtxInv(r) /\ LvInv /\ AccountingNeverFaults
  BY DEF IInv
<1>2. /\ ctx[r] \in CtxType /\ ctx \in [Reclaimers -> CtxType]
      /\ UNCHANGED <<lv, fault, fruitless, run, mode, config>> /\ lruLock = NoTask /\ lruLock' = r
      /\ ctx' = [ctx EXCEPT ![r] = [ctx[r] EXCEPT !.pc = "prepare"]] /\ ctx[r].pc = "idle"
  BY <1>1 DEF TypeInv, EvictBegin, history, policy
<1>3. /\ ctx' \in [Reclaimers -> CtxType] /\ ctx'[r].pc = "prepare"
      /\ ctx'[r].run = ctx[r].run /\ ctx'[r].held = ctx[r].held
      /\ \A q \in Reclaimers : q # r => ctx'[q] = ctx[q]
  BY <1>2 DEF CtxType, CtxPcs
<1>4. ~ctx[r].held
  BY <1>1, <1>2 DEF CtxInv
<1>5. CtxInv(r)'
  BY <1>1, <1>2, <1>3, <1>4 DEF CtxInv, Open
<1>6. \A q \in Reclaimers : Open(q)' => Open(q)
  BY <1>2, <1>3 DEF Open
<1>7. LvInv'
  BY <1>1, <1>2, <1>6 DEF LvInv, NoProgressIsThisRun, EpochWithinBudget
<1>8. lv' \in LruvecType /\ fruitless' \in Nat /\ (fault' => stateChanged)
  BY <1>1, <1>2 DEF TypeInv, AccountingNeverFaults
<1> QED
  BY <1>2, <1>3, <1>5, <1>7, <1>8, BatchFrameKeeps

\* parp_effective_tier_prepare() preserves the invariant: a batch opens only
\* outside OFF, under the run and the configuration in force.
LEMMA PrepareKeeps ==
    ASSUME IInv, NEW r \in Reclaimers, prepare(r)
    PROVE  IInv'
<1>1. /\ TypeInv /\ CtxInv(r) /\ LvInv /\ AccountingNeverFaults /\ ModeInv
  BY DEF IInv
<1>2. /\ ctx[r] \in CtxType /\ ctx \in [Reclaimers -> CtxType]
      /\ UNCHANGED <<fault, fruitless, run, mode, config>> /\ lruLock = r
      /\ run \in Nat /\ config.seq \in Nat /\ mode \in Modes /\ config.ratio \in 1..RatioBase
      /\ config.epoch \in Nat /\ config.batch \in Nat
  BY <1>1 DEF TypeInv, prepare, history, policy, CtxInv, ConfigType
<1>3. fruitless' \in Nat /\ (fault' => stateChanged)
  BY <1>1, <1>2 DEF TypeInv, AccountingNeverFaults
<1>o. \A q \in Reclaimers : q # r => ~Open(q) /\ ~Open(q)'
  BY <1>1, <1>2, OthersOutside, BatchFrame DEF BatchStep
<1>4. CASE Disabled
  <2>1. ctx' = [ctx EXCEPT ![r] = IdleCtx] /\ lv' = lv
    BY <1>4 DEF prepare
  <2>2. ctx' \in [Reclaimers -> CtxType] /\ ctx'[r] = IdleCtx
    BY <1>2, <2>1, NamedValues
  <2>3. CtxInv(r)'
    BY <1>2, <2>2, NamedValues DEF CtxInv, Open
  <2>4. \A q \in Reclaimers : ~Open(q)'
    BY <1>o, <2>2, NamedValues DEF Open
  <2>5. LvInv'
    BY <1>1, <1>2, <2>1, <2>4 DEF LvInv, NoProgressIsThisRun, EpochWithinBudget
  <2>6. lv' \in LruvecType
    BY <1>1, <2>1 DEF TypeInv
  <2> QED BY <1>2, <1>3, <2>1, <2>2, <2>3, <2>5, <2>6, BatchFrameKeeps DEF BatchStep
<1>5. CASE ~Disabled
  <2>1. mode # "off"
    BY <1>5 DEF Disabled
  <2>2. PICK s \in BOOLEAN :
          ctx' = [ctx EXCEPT ![r] = [IdleCtx EXCEPT !.pc = "batch", !.mode = mode,
                              !.cfg = config.seq, !.run = run, !.severe = s,
                              !.no_progress = lv'.no_progress >= NoProgressLimit]]
    BY <1>5 DEF prepare
  <2> DEFINE np == lv'.no_progress >= NoProgressLimit
             c == [IdleCtx EXCEPT !.pc = "batch", !.mode = mode, !.cfg = config.seq, !.run = run,
                                  !.severe = s, !.no_progress = np]
  <2>n. np \in BOOLEAN
    OBVIOUS
  <2> HIDE DEF np
  <2>3. /\ c \in CtxType /\ c.pc = "batch" /\ c.mode = mode /\ c.cfg = config.seq /\ c.run = run
        /\ c.pages = NoPages /\ c.held = FALSE
    BY <1>2, <2>2, <2>n, NamedValues DEF CtxType, CtxPcs
  <2>4. ctx' \in [Reclaimers -> CtxType] /\ ctx'[r] = c
    <3> HIDE DEF c
    <3> QED BY <1>2, <2>2, <2>3 DEF c, np
  <2> HIDE DEF c
  <2>5. /\ lv' \in LruvecType /\ lv'.state_epoch = run
        /\ lv' = lv \/ (lv'.pages = NoPages /\ lv'.no_progress = 0 /\ lv'.cand = 0)
    <3>1. CASE EpochOver
      <4>1. NextEpochId \in Nat
        BY <1>1, NumberAssumption DEF NextEpochId, TypeInv, LruvecType
      <4>2. lv' = [epoch_id |-> NextEpochId, source_seq |-> minSeq, state_epoch |-> run,
                           cand |-> 0, pages |-> NoPages, no_progress |-> 0]
        BY <1>5, <3>1 DEF prepare
      <4> QED BY <1>1, <4>1, <4>2, NamedValues DEF TypeInv, LruvecType
    <3>2. CASE ~EpochOver
      BY <1>1, <1>5, <3>2 DEF prepare, EpochOver, TypeInv
    <3> QED BY <3>1, <3>2
  <2>l. lruLock' = r
    BY <1>2, <1>5 DEF prepare
  <2>6. CtxInv(r)'
    BY <1>1, <1>2, <2>l, <2>1, <2>3, <2>4, <2>5, NamedValues DEF CtxInv, Open, ModeInv
  <2>7. EpochWithinBudget'
    <3>1. CASE lv' = lv
      BY <1>1, <1>2, <2>1, <2>5, <3>1 DEF LvInv, EpochWithinBudget
    <3>2. CASE lv'.pages = NoPages /\ lv'.cand = 0
      <4>1. RatioLimit(0, config.ratio) \in Nat
        BY <1>2, RatioLimitMonotone
      <4> QED BY <1>2, <3>2, <4>1, NamedValues DEF EpochWithinBudget
    <3> QED BY <2>5, <3>1, <3>2
  <2>8. LvInv'
    BY <1>1, <1>2, <2>5, <2>7 DEF LvInv, NoProgressIsThisRun, TypeInv, LruvecType
  <2> QED BY <1>2, <1>3, <2>1, <2>4, <2>5, <2>6, <2>8, BatchFrameKeeps DEF BatchStep
<1> QED
  BY <1>4, <1>5

\* What is known inside a batch.
LEMMA InsideBatch ==
    ASSUME IInv, NEW r \in Reclaimers, Open(r)
    PROVE  /\ TypeInv /\ CtxInv(r) /\ LvInv /\ AccountingNeverFaults
           /\ ctx[r] \in CtxType /\ ctx \in [Reclaimers -> CtxType] /\ lv \in LruvecType
           /\ lruLock = r /\ lv.state_epoch = run /\ EpochWithinBudget
           /\ config.batch \in Nat /\ config.epoch \in Nat /\ config.ratio \in 1..RatioBase
           /\ \A d \in Dirs : lv.pages[d] \in Nat /\ ctx[r].pages[d] \in Nat
<1>1. TypeInv /\ CtxInv(r) /\ LvInv /\ AccountingNeverFaults
  BY DEF IInv
<1>2. /\ ctx[r] \in CtxType /\ ctx \in [Reclaimers -> CtxType] /\ lv \in LruvecType
      /\ config.batch \in Nat /\ config.epoch \in Nat /\ config.ratio \in 1..RatioBase
  BY <1>1 DEF TypeInv, ConfigType
<1>3. \A d \in Dirs : lv.pages[d] \in Nat /\ ctx[r].pages[d] \in Nat
  BY <1>2 DEF CtxType, LruvecType
<1>4. lruLock = r /\ lv.state_epoch = run
  BY <1>1 DEF CtxInv, Open
<1>5. EpochWithinBudget
  BY <1>1, <1>4 DEF LvInv
<1> QED
  BY <1>1, <1>2, <1>3, <1>4, <1>5

\* A step of a batch that stays open keeps the invariant when it keeps the
\* batch's identity, both budgets and a covered reservation.
LEMMA StaysOpen ==
    ASSUME IInv, NEW r \in Reclaimers, Open(r), BatchStep(r), UNCHANGED <<lruLock, admin, fruitless>>,
           ctx' \in [Reclaimers -> CtxType], lv' \in LruvecType,
           lv'.state_epoch = lv.state_epoch, lv'.no_progress = lv.no_progress,
           ctx'[r].pc \in {"batch", "decided"},
           ctx'[r].run = ctx[r].run, ctx'[r].cfg = ctx[r].cfg, ctx'[r].mode = ctx[r].mode,
           \A d \in Dirs : ctx'[r].pages[d] <= config.batch,
           ctx'[r].held =>
              /\ ctx'[r].pc = "decided" /\ ctx'[r].folio \in Folios /\ ctx'[r].dir \in Dirs
              /\ Pages[ctx'[r].folio] <= ctx'[r].pages[ctx'[r].dir]
              /\ Pages[ctx'[r].folio] <= lv'.pages[ctx'[r].dir],
           EpochWithinBudget', fault' => fault
    PROVE  IInv'
<1>1. /\ TypeInv /\ CtxInv(r) /\ LvInv /\ AccountingNeverFaults /\ lruLock = r
  BY InsideBatch
<1>2. UNCHANGED <<mode, run, config>>
  BY <1>1, BatchFrame
<1>3. CtxInv(r)'
  BY <1>1, <1>2 DEF CtxInv, Open, WaitsFor
<1>4. LvInv'
  BY <1>1, <1>2 DEF LvInv, NoProgressIsThisRun
<1>5. fruitless' \in Nat /\ (fault' => stateChanged)
  BY <1>1 DEF TypeInv, AccountingNeverFaults
<1> QED
  BY <1>1, <1>3, <1>4, <1>5, BatchFrameKeeps

\* The context decide() makes when it has looked at a folio.
LEMMA ConsideredContexts ==
    ASSUME NEW c \in CtxType, NEW f \in Folios
    PROVE  LET x == Considered(c, f)
           IN  /\ x \in CtxType /\ x.pc = "decided" /\ x.folio = f /\ x.pages = c.pages
               /\ x.run = c.run /\ x.cfg = c.cfg /\ x.mode = c.mode /\ x.held = c.held
<1> DEFINE n == c.cand + Pages[f]
<1>1. n \in Nat
  BY NamedValues DEF CtxType
<1>2. Considered(c, f) = [c EXCEPT !.pc = "decided", !.folio = f, !.cand = n]
  BY DEF Considered
<1> HIDE DEF n
<1> QED
  BY <1>1, <1>2 DEF CtxType, CtxPcs

\* The context finish() leaves.
LEMMA SettledContexts ==
    ASSUME NEW c \in CtxType, NEW i \in BOOLEAN
    PROVE  LET x == Settled(c, i)
           IN  /\ x \in CtxType /\ x.pc = "batch" /\ x.held = FALSE /\ x.run = c.run
               /\ x.cfg = c.cfg /\ x.mode = c.mode /\ x.pages = c.pages
<1> DEFINE b == c.isolated \/ i
<1>1. b \in BOOLEAN
  OBVIOUS
<1>2. Settled(c, i) = [c EXCEPT !.pc = "batch", !.folio = None, !.dir = None, !.held = FALSE,
                                !.isolated = b]
  BY DEF Settled
<1> HIDE DEF b
<1> QED
  BY <1>1, <1>2 DEF CtxType, CtxPcs

\* decide() returning a native decision preserves the invariant.
LEMMA DecideNativeKeeps ==
    ASSUME IInv, NEW r \in Reclaimers, DecideNative(r)
    PROVE  IInv'
<1>1. Open(r) /\ ctx[r].pc = "batch" /\ UNCHANGED <<lruLock, admin, fruitless, fault, config>>
  BY DEF DecideNative, Open, history, policy
<1>2. /\ TypeInv /\ CtxInv(r) /\ EpochWithinBudget
      /\ ctx[r] \in CtxType /\ ctx \in [Reclaimers -> CtxType]
      /\ \A d \in Dirs : lv.pages[d] \in Nat
  BY <1>1, InsideBatch
<1>3. PICK f \in Folios :
          /\ lv' = Counted(r, f)
          /\ ctx' = [ctx EXCEPT ![r] = Considered(ctx[r], f)]
  BY DEF DecideNative
<1>5. /\ ctx' \in [Reclaimers -> CtxType] /\ ctx'[r].pc = "decided"
      /\ ctx'[r].run = ctx[r].run /\ ctx'[r].cfg = ctx[r].cfg /\ ctx'[r].mode = ctx[r].mode
      /\ ctx'[r].pages = ctx[r].pages /\ ctx'[r].held = ctx[r].held
  BY <1>2, <1>3, ConsideredContexts
<1>6. ~ctx[r].held /\ \A d \in Dirs : ctx[r].pages[d] <= config.batch
  BY <1>1, <1>2 DEF CtxInv, Open
<1>7. /\ lv' \in LruvecType /\ lv'.state_epoch = lv.state_epoch /\ lv'.no_progress = lv.no_progress
      /\ lv'.pages = lv.pages
      /\ RatioLimit(lv.cand, config.ratio) <= RatioLimit(lv'.cand, config.ratio)
      /\ RatioLimit(lv.cand, config.ratio) \in Nat /\ RatioLimit(lv'.cand, config.ratio) \in Nat
  BY <1>2, <1>3, CountedKeeps
<1>8. EpochWithinBudget'
  BY <1>1, <1>2, <1>7 DEF EpochWithinBudget
<1> QED
  BY <1>1, <1>5, <1>6, <1>7, <1>8, StaysOpen DEF BatchStep

\* A prediction within the budgets preserves the invariant: what it reserves for
\* the batch and the epoch was checked against the counters it raises.
LEMMA DecidePredictedKeeps ==
    ASSUME IInv, NEW r \in Reclaimers, DecidePredicted(r)
    PROVE  IInv'
<1>1. Open(r) /\ ctx[r].pc = "batch" /\ UNCHANGED <<lruLock, admin, fruitless, fault, config>>
  BY DEF DecidePredicted, Open, history, policy
<1>2. /\ TypeInv /\ CtxInv(r) /\ EpochWithinBudget
      /\ ctx[r] \in CtxType /\ ctx \in [Reclaimers -> CtxType] /\ lv \in LruvecType
      /\ \A d \in Dirs : lv.pages[d] \in Nat /\ ctx[r].pages[d] \in Nat
  BY <1>1, InsideBatch
<1>3. PICK f \in Folios, d \in Dirs : Predicted(r, f, d)
  BY DEF DecidePredicted
<1> DEFINE applies == action_applies(ctx[r].mode, d)
           cnt == Counted(r, f)
<1>4. Pages[f] \in Nat /\ applies \in BOOLEAN
  BY NamedValues DEF action_applies
<1>5. /\ cnt \in LruvecType /\ cnt.state_epoch = lv.state_epoch /\ cnt.no_progress = lv.no_progress
      /\ cnt.pages = lv.pages
      /\ RatioLimit(lv.cand, config.ratio) <= RatioLimit(cnt.cand, config.ratio)
      /\ RatioLimit(lv.cand, config.ratio) \in Nat /\ RatioLimit(cnt.cand, config.ratio) \in Nat
  BY <1>2, CountedKeeps
<1>6. /\ ctx[r].pages[d] + Pages[f] <= config.batch
      /\ applies => /\ lv.pages[d] + Pages[f] <= config.epoch
                    /\ lv.pages[d] + Pages[f] <= RatioLimit(cnt.cand, config.ratio)
  BY <1>3 DEF Predicted, WithinBudget, budget_allows
<1>7. lv' = IF applies THEN [cnt EXCEPT !.pages[d] = @ + Pages[f]] ELSE cnt
  BY <1>3 DEF Predicted, Reserved
<1> DEFINE c == Considered(ctx[r], f)
           x == [c EXCEPT !.dir = d, !.held = applies, !.pages[d] = @ + Pages[f]]
           p == [ctx[r].pages EXCEPT ![d] = @ + Pages[f]]
<1>a. /\ c \in CtxType /\ c.pc = "decided" /\ c.folio = f /\ c.pages = ctx[r].pages
      /\ c.run = ctx[r].run /\ c.cfg = ctx[r].cfg /\ c.mode = ctx[r].mode
  BY <1>2, ConsideredContexts
<1>b. ctx' = [ctx EXCEPT ![r] = x]
  BY <1>3 DEF Predicted
<1> HIDE DEF applies, cnt, c
<1>8. /\ ctx' \in [Reclaimers -> CtxType] /\ ctx'[r].pc = "decided"
      /\ ctx'[r].run = ctx[r].run /\ ctx'[r].cfg = ctx[r].cfg /\ ctx'[r].mode = ctx[r].mode
      /\ ctx'[r].pages = p /\ ctx'[r].held = applies
      /\ ctx'[r].folio = f /\ ctx'[r].dir = d
  <2>1. p \in [Dirs -> Nat]
    BY <1>2, <1>4 DEF CtxType
  <2>2. x = [c EXCEPT !.dir = d, !.held = applies, !.pages = p]
    BY <1>a DEF CtxType
  <2> HIDE DEF p, x
  <2>3. /\ x \in CtxType /\ x.pc = "decided" /\ x.run = ctx[r].run /\ x.cfg = ctx[r].cfg
        /\ x.mode = ctx[r].mode /\ x.pages = p /\ x.held = applies /\ x.folio = f /\ x.dir = d
    BY <1>4, <1>a, <2>1, <2>2 DEF CtxType
  <2> QED BY <1>2, <1>b, <2>3
<1> HIDE DEF p
<1>9. /\ lv' \in LruvecType /\ lv'.state_epoch = lv.state_epoch /\ lv'.no_progress = lv.no_progress
      /\ lv'.cand = cnt.cand
      /\ lv'.pages = IF applies THEN [lv.pages EXCEPT ![d] = @ + Pages[f]] ELSE lv.pages
  BY <1>4, <1>5, <1>7 DEF LruvecType
<1>10. \A e \in Dirs : ctx'[r].pages[e] <= config.batch
  <2>1. \A e \in Dirs : ctx[r].pages[e] <= config.batch
    BY <1>1, <1>2 DEF CtxInv
  <2> QED BY <1>2, <1>6, <1>8, <2>1 DEF CtxType, p
<1>11. EpochWithinBudget'
  <2>1. \A e \in Dirs : /\ lv.pages[e] <= config.epoch
                        /\ lv.pages[e] <= RatioLimit(cnt.cand, config.ratio)
    BY <1>2, <1>5 DEF EpochWithinBudget
  <2> QED BY <1>1, <1>2, <1>5, <1>6, <1>9, <2>1 DEF EpochWithinBudget, LruvecType
<1>12. ctx'[r].held =>
              /\ Pages[ctx'[r].folio] <= ctx'[r].pages[ctx'[r].dir]
              /\ Pages[ctx'[r].folio] <= lv'.pages[ctx'[r].dir]
  BY <1>2, <1>4, <1>8, <1>9 DEF CtxType, LruvecType, p
<1> QED
  BY <1>1, <1>8, <1>9, <1>10, <1>11, <1>12, StaysOpen DEF BatchStep

\* finish() of a decision that stands preserves the invariant.
LEMMA FinishKeeps ==
    ASSUME IInv, NEW r \in Reclaimers, FinishCommitted(r) \/ FinishNative(r)
    PROVE  IInv'
<1>1. Open(r) /\ UNCHANGED <<lruLock, admin, fruitless, fault, config, lv>>
  BY DEF FinishCommitted, FinishNative, Open, history, policy
<1>2. /\ CtxInv(r) /\ EpochWithinBudget /\ lv \in LruvecType
      /\ ctx[r] \in CtxType /\ ctx \in [Reclaimers -> CtxType]
  BY <1>1, InsideBatch
<1>3. PICK i \in BOOLEAN : ctx' = [ctx EXCEPT ![r] = Settled(ctx[r], i)]
  BY DEF FinishCommitted, FinishNative
<1> DEFINE x == Settled(ctx[r], i)
<1>4. /\ x \in CtxType /\ x.pc = "batch" /\ x.held = FALSE /\ x.run = ctx[r].run
      /\ x.cfg = ctx[r].cfg /\ x.mode = ctx[r].mode /\ x.pages = ctx[r].pages
  BY <1>2, SettledContexts
<1> HIDE DEF x
<1>5. ctx' \in [Reclaimers -> CtxType] /\ ctx'[r] = x
  BY <1>2, <1>3, <1>4 DEF x
<1>6. \A d \in Dirs : ctx'[r].pages[d] <= config.batch
  BY <1>1, <1>2, <1>4, <1>5 DEF CtxInv
<1>7. EpochWithinBudget'
  BY <1>1, <1>2 DEF EpochWithinBudget
<1> QED
  BY <1>1, <1>2, <1>4, <1>5, <1>6, <1>7, StaysOpen DEF BatchStep

\* cancel_reservation() preserves the invariant: a held reservation is covered by
\* both counters, so neither can underflow and no fault is raised.
LEMMA FinishCancelledKeeps ==
    ASSUME IInv, NEW r \in Reclaimers, FinishCancelled(r)
    PROVE  IInv'
<1> DEFINE f == ctx[r].folio
           d == ctx[r].dir
           underflow == ctx[r].pages[d] < Pages[f] \/ lv.pages[d] < Pages[f]
<1>1. Open(r) /\ ctx[r].held /\ UNCHANGED <<lruLock, admin, fruitless, config>>
  BY DEF FinishCancelled, Open, history, policy
<1>2. /\ CtxInv(r) /\ EpochWithinBudget /\ lv \in LruvecType
      /\ ctx[r] \in CtxType /\ ctx \in [Reclaimers -> CtxType]
      /\ \A e \in Dirs : lv.pages[e] \in Nat /\ ctx[r].pages[e] \in Nat
      /\ config.batch \in Nat /\ config.epoch \in Nat /\ config.ratio \in 1..RatioBase
  BY <1>1, InsideBatch
<1>3. f \in Folios /\ d \in Dirs /\ Pages[f] <= ctx[r].pages[d] /\ Pages[f] <= lv.pages[d]
  BY <1>1, <1>2 DEF CtxInv
<1>4. Pages[f] \in Nat
  BY <1>3, NamedValues
<1>5. ~underflow
  BY <1>2, <1>3, <1>4
<1>6. PICK i \in BOOLEAN : ctx' = [ctx EXCEPT ![r] = [Settled(ctx[r], i) EXCEPT
                          !.pages = IF underflow THEN @ ELSE Returned(@, f, d)]]
  BY DEF FinishCancelled
<1>7. lv' = [lv EXCEPT !.pages = Returned(@, f, d)] /\ (fault' => fault)
  BY <1>5 DEF FinishCancelled
<1> DEFINE y == Settled(ctx[r], i)
           p == Returned(ctx[r].pages, f, d)
           x == [y EXCEPT !.pages = p]
<1>8. /\ y \in CtxType /\ y.pc = "batch" /\ y.held = FALSE /\ y.run = ctx[r].run
      /\ y.cfg = ctx[r].cfg /\ y.mode = ctx[r].mode /\ y.pages = ctx[r].pages
  BY <1>2, SettledContexts
<1>9. ctx' = [ctx EXCEPT ![r] = x]
  BY <1>5, <1>6, <1>8
<1> HIDE DEF y, f, d, underflow
<1>10. p \in [Dirs -> Nat] /\ \A e \in Dirs : p[e] <= ctx[r].pages[e]
  BY <1>2, <1>3, <1>4 DEF Returned, CtxType
<1> HIDE DEF p
<1>11. /\ x \in CtxType /\ x.pc = "batch" /\ x.held = FALSE /\ x.run = ctx[r].run
       /\ x.cfg = ctx[r].cfg /\ x.mode = ctx[r].mode /\ x.pages = p
  BY <1>8, <1>10 DEF CtxType
<1> HIDE DEF x
<1>12. ctx' \in [Reclaimers -> CtxType] /\ ctx'[r] = x
  BY <1>2, <1>9, <1>11
<1>13. /\ lv' \in LruvecType /\ lv'.state_epoch = lv.state_epoch /\ lv'.cand = lv.cand
       /\ lv'.no_progress = lv.no_progress
       /\ \A e \in Dirs : lv'.pages[e] \in Nat /\ lv'.pages[e] <= lv.pages[e]
  <2> DEFINE w == Returned(lv.pages, f, d)
  <2>1. w \in [Dirs -> Nat] /\ \A e \in Dirs : w[e] \in Nat /\ w[e] <= lv.pages[e]
    BY <1>2, <1>3, <1>4 DEF Returned, LruvecType
  <2>2. lv' = [lv EXCEPT !.pages = w]
    BY <1>7
  <2> HIDE DEF w
  <2> QED BY <1>2, <2>1, <2>2 DEF LruvecType
<1>14. \A e \in Dirs : ctx'[r].pages[e] <= config.batch
  <2>1. \A e \in Dirs : ctx[r].pages[e] <= config.batch /\ p[e] \in Nat
    BY <1>1, <1>2, <1>10 DEF CtxInv
  <2> QED BY <1>2, <1>10, <1>11, <1>12, <2>1
<1>15. EpochWithinBudget'
  <2>1. lv.cand \in Nat
    BY <1>2 DEF LruvecType
  <2>2. RatioLimit(lv.cand, config.ratio) \in Nat
    BY <1>2, <2>1, RatioLimitMonotone
  <2> QED BY <1>1, <1>2, <1>13, <2>2 DEF EpochWithinBudget
<1> QED
  BY <1>1, <1>7, <1>11, <1>12, <1>13, <1>14, <1>15, StaysOpen DEF BatchStep

\* batch_finish() preserves the invariant.
LEMMA BatchFinishKeeps ==
    ASSUME IInv, NEW r \in Reclaimers, batch_finish(r)
    PROVE  IInv'
<1>1. Open(r) /\ ctx[r].pc = "batch" /\ UNCHANGED <<mode, run, config, fruitless, fault, lv>>
  BY DEF batch_finish, Open, history
<1>2. /\ CtxInv(r) /\ LvInv /\ TypeInv /\ AccountingNeverFaults /\ lv \in LruvecType /\ lruLock = r
      /\ ctx[r] \in CtxType /\ ctx \in [Reclaimers -> CtxType]
  BY <1>1, InsideBatch
<1>3. PICK pc \in {"shrink", "idle"} : ctx' = [ctx EXCEPT ![r] = [ctx[r] EXCEPT !.pc = pc]]
  BY <1>2 DEF batch_finish
<1>4. /\ ctx' \in [Reclaimers -> CtxType] /\ ctx'[r].pc = pc /\ ctx'[r].run = ctx[r].run
      /\ ctx'[r].held = ctx[r].held
      /\ \A q \in Reclaimers : q # r => ctx'[q] = ctx[q]
  BY <1>2, <1>3 DEF CtxType, CtxPcs
<1>5. CtxInv(r)'
  BY <1>1, <1>2, <1>3, <1>4 DEF CtxInv, Open
<1>6. LvInv'
  BY <1>1, <1>2 DEF LvInv, NoProgressIsThisRun, EpochWithinBudget
<1>7. fruitless' \in Nat /\ (fault' => stateChanged)
  BY <1>1, <1>2 DEF TypeInv, AccountingNeverFaults
<1> QED
  BY <1>1, <1>2, <1>4, <1>5, <1>6, <1>7, BatchFrameKeeps DEF BatchStep

\* feedback() preserves the invariant: a round counts in the lruvec only when it
\* belongs to this run, in which case the history counts it too.
LEMMA FeedbackKeeps ==
    ASSUME IInv, NEW r \in Reclaimers, feedback(r)
    PROVE  IInv'
<1>1. /\ TypeInv /\ CtxInv(r) /\ LvInv /\ AccountingNeverFaults
      /\ UNCHANGED <<mode, run, config, fault, lruLock>>
      /\ lruLock = NoTask /\ ctx[r].pc \in {"shrink", "retry"}
  BY DEF IInv, feedback, policy
<1>2. /\ ctx[r] \in CtxType /\ ctx \in [Reclaimers -> CtxType] /\ lv \in LruvecType
      /\ lv.no_progress \in Nat /\ fruitless \in Nat /\ run \in Nat
  BY <1>1 DEF TypeInv, LruvecType
<1>3. PICK x \in {[ctx[r] EXCEPT !.pc = "retry"], IdleCtx} : ctx' = [ctx EXCEPT ![r] = x]
  <2>1. PICK again \in BOOLEAN :
          ctx' = [ctx EXCEPT ![r] = IF again THEN [@ EXCEPT !.pc = "retry"] ELSE IdleCtx]
    BY DEF feedback
  <2>2. CASE again
    BY <1>2, <2>1, <2>2
  <2>3. CASE ~again
    BY <1>2, <2>1, <2>3
  <2> QED BY <2>2, <2>3
<1>4. ~ctx[r].held /\ ctx[r].run <= run /\ ctx[r].run \in Nat
  BY <1>1, <1>2 DEF CtxInv, CtxType
<1>5. /\ x \in CtxType /\ x.pc \in {"idle", "retry"} /\ ~x.held /\ x.run <= run
  BY <1>2, <1>3, <1>4, NamedValues DEF CtxType, CtxPcs
<1>6. /\ ctx' \in [Reclaimers -> CtxType] /\ ctx'[r] = x
      /\ \A q \in Reclaimers : q # r => ctx'[q] = ctx[q]
  BY <1>2, <1>3, <1>5
<1>7. CtxInv(r)'
  BY <1>1, <1>5, <1>6 DEF CtxInv, Open
<1>8. /\ lv' \in LruvecType /\ lv'.state_epoch = lv.state_epoch /\ lv'.cand = lv.cand
      /\ lv'.pages = lv.pages /\ fruitless' \in Nat
      /\ lv.state_epoch = run /\ lv.no_progress <= fruitless => lv'.no_progress <= fruitless'
  <2>1. PICK reclaimed \in BOOLEAN :
          /\ lv' = IF ~FeedbackCounts(r) THEN lv
                   ELSE [lv EXCEPT !.no_progress = IF reclaimed THEN 0 ELSE @ + 1]
          /\ fruitless' = IF ctx[r].run = run /\ ~reclaimed THEN fruitless + 1 ELSE fruitless
    BY DEF feedback
  <2>2. fruitless' \in Nat /\ fruitless <= fruitless'
    BY <1>2, <2>1
  <2>3. CASE ~FeedbackCounts(r)
    BY <1>2, <2>1, <2>2, <2>3
  <2>4. CASE FeedbackCounts(r) /\ reclaimed
    BY <1>2, <2>1, <2>2, <2>4 DEF LruvecType
  <2>5. CASE FeedbackCounts(r) /\ ~reclaimed
    <3>1. fruitless' = fruitless + 1 /\ lv' = [lv EXCEPT !.no_progress = lv.no_progress + 1]
      BY <2>1, <2>5 DEF FeedbackCounts
    <3> QED BY <1>2, <3>1 DEF LruvecType
  <2> QED BY <2>1, <2>3, <2>4, <2>5
<1>9. \A q \in Reclaimers : Open(q)' => Open(q)
  BY <1>5, <1>6 DEF Open
<1>10. LvInv'
  BY <1>1, <1>8, <1>9 DEF LvInv, NoProgressIsThisRun, EpochWithinBudget
<1>11. fault' => stateChanged
  BY <1>1 DEF AccountingNeverFaults
<1> QED
  BY <1>1, <1>6, <1>7, <1>8, <1>10, <1>11, BatchFrameKeeps DEF BatchStep

-----------------------------------------------------------------------------
(* The theorems.                                                           *)

\* Accesses, reallocations, generation changes and MGLRU switches touch none of
\* the policy's own state but the fault.
LEMMA OutsideKeeps ==
    ASSUME IInv,
           \/ \E f \in Folios : AccessFolio(f) \/ ReallocFolio(f)
           \/ AdvanceMinSeq \/ mglru_state_change \/ UNCHANGED vars
    PROVE  IInv'
<1>1. UNCHANGED <<mode, run, config, modeLock, admin, lv, lruLock, ctx, fruitless>> /\ minSeq' \in Nat
  BY DEF IInv, TypeInv, AccessFolio, ReallocFolio, AdvanceMinSeq, mglru_state_change, policy, history, vars
<1>2. (fault' = fault /\ stateChanged' = stateChanged) \/ stateChanged' = TRUE
  BY DEF AccessFolio, ReallocFolio, AdvanceMinSeq, mglru_state_change, policy, history, vars
<1>3. TypeInv' /\ LvInv' /\ ModeInv'
  BY <1>1 DEF IInv, TypeInv, LvInv, ModeInv, NoProgressIsThisRun, EpochWithinBudget, Open
<1>4. \A a \in Admins : AdminInv(a)'
  BY <1>1 DEF IInv, AdminInv
<1>5. \A r \in Reclaimers : CtxInv(r)'
  BY <1>1 DEF IInv, CtxInv, Open, WaitsFor
<1>6. AccountingNeverFaults'
  BY <1>2 DEF IInv, AccountingNeverFaults
<1> QED
  BY <1>3, <1>4, <1>5, <1>6 DEF IInv

\* The policy starts within the invariant.
LEMMA InitInv == Init => IInv
<1> SUFFICES ASSUME Init PROVE IInv
  OBVIOUS
<1>1. PICK c \in Configs : config = [seq |-> 0, max_upgrade |-> c.max_upgrade, batch |-> c.batch,
                    epoch |-> c.epoch, ratio |-> c.ratio]
  BY DEF Init
<1>2. config \in ConfigType
  BY <1>1, ConfigAssumption DEF ConfigType
<1>3. lv \in LruvecType /\ lv.state_epoch = 0 /\ lv.no_progress = 0
  BY NamedValues DEF Init, LruvecType
<1>4. TypeInv
  BY <1>2, <1>3, NamedValues DEF Init, TypeInv, Modes
<1>5. \A a \in Admins : admin[a].pc = "idle"
  BY NamedValues DEF Init
<1>6. \A a \in Admins : AdminInv(a)
  BY <1>5 DEF AdminInv, LockedPcs, ModePcs, ConfigPcs, AdminPcs
<1>7. \A r \in Reclaimers : ctx[r] = IdleCtx
  BY DEF Init
<1>8. \A r \in Reclaimers : CtxInv(r) /\ ~Open(r)
  BY <1>7, NamedValues DEF Init, CtxInv, Open
<1>9. LvInv /\ ModeInv
  BY <1>3, <1>8 DEF Init, LvInv, ModeInv, NoProgressIsThisRun, ApplyModes
<1>10. AccountingNeverFaults
  BY DEF Init, AccountingNeverFaults
<1> QED
  BY <1>4, <1>6, <1>8, <1>9, <1>10 DEF IInv

\* IInv holds in every reachable state of the policy.
THEOREM Inductive == Spec => []IInv
<1>1. IInv /\ [Next]_vars => IInv'
  <2> SUFFICES ASSUME IInv, [Next]_vars PROVE IInv'
    OBVIOUS
  <2>1. ASSUME NEW a \in Admins, AdminCall(a) \/ AdminStep(a) PROVE IInv'
    BY <2>1, AdminKeeps
  <2>2. ASSUME NEW r \in Reclaimers, EvictBegin(r) \/ BatchStep(r) PROVE IInv'
    BY <2>2, EvictBeginKeeps, PrepareKeeps, DecideNativeKeeps, DecidePredictedKeeps, FinishKeeps,
       FinishCancelledKeeps, BatchFinishKeeps, FeedbackKeeps DEF BatchStep
  <2>3. ASSUME \/ \E f \in Folios : AccessFolio(f) \/ ReallocFolio(f)
               \/ AdvanceMinSeq \/ mglru_state_change \/ UNCHANGED vars
        PROVE  IInv'
    BY <2>3, OutsideKeeps
  <2> QED
    BY <2>1, <2>2, <2>3 DEF Next
<1> QED
  BY InitInv, <1>1, PTL DEF Spec

\* No batch outlives the run or the configuration it was prepared under
\* (set_mode() waits in synchronize_rcu(), set_config() needs OFF).
THEOREM BatchesAreCurrent == Spec => []OpenBatchIsCurrent
<1>1. IInv => OpenBatchIsCurrent
  BY DEF IInv, CtxInv, OpenBatchIsCurrent
<1> QED
  BY <1>1, Inductive, PTL

\* Once a switch to OFF has returned, no reclaimer is inside a batch.
THEOREM OffIsOff == Spec => []OffMeansOff
<1>1. IInv => OffMeansOff
  BY OneSwitch DEF OffMeansOff
<1> QED
  BY <1>1, Inductive, PTL

\* The rounds without progress that gate a run's batches happened in that run
\* (the run check in feedback()).
THEOREM FeedbackOfThisRun == Spec => []NoProgressIsThisRun
<1>1. IInv => NoProgressIsThisRun
  BY DEF IInv, LvInv
<1> QED
  BY <1>1, Inductive, PTL

\* The batch and the epoch stay within the absolute and the relative budget
\* (budget_allows(), cancel_reservation()).
THEOREM BudgetsHold == Spec => []BudgetsRespected
<1>1. IInv => BudgetsRespected
  <2> SUFFICES ASSUME IInv, NEW r \in Reclaimers, NEW d \in Dirs, Open(r)
               PROVE  /\ ctx[r].pages[d] \in 0..config.batch
                      /\ lv.pages[d] \in 0..config.epoch
                      /\ lv.pages[d] <= RatioLimit(lv.cand, config.ratio)
    BY DEF BudgetsRespected
  <2>1. /\ CtxInv(r) /\ EpochWithinBudget /\ config.batch \in Nat /\ config.epoch \in Nat
        /\ lv.pages[d] \in Nat /\ ctx[r].pages[d] \in Nat
    BY InsideBatch
  <2> QED
    BY <2>1 DEF CtxInv, EpochWithinBudget
<1> QED
  BY <1>1, Inductive, PTL

\* The accounting check of cancel_reservation() never fires.
THEOREM NoAccountingFault == Spec => []AccountingNeverFaults
<1>1. IInv => AccountingNeverFaults
  BY DEF IInv
<1> QED
  BY <1>1, Inductive, PTL
=============================================================================
