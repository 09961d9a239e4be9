----------------------------- MODULE ScanBudget -----------------------------
(***************************************************************************)
(* The scan budget of memcg reclaim (mm/parp/core/scan_budget.c and        *)
(* mm/parp/adapter/scan_budget_adapter.c), on top of the prediction        *)
(* snapshot and the arithmetic of ScanUnits.                               *)
(*                                                                         *)
(* Several reclaimers ask at the same time how much of a cgroup's lists to *)
(* scan.  A call reads the clock, then the snapshot, then consults the     *)
(* cgroup's circuit breaker, then reads the mode, the parameters, the mode *)
(* again and the cgroup the administrator enabled: each at its own time,   *)
(* while the snapshot, the breaker, the mode and the parameters change.    *)
(***************************************************************************)
EXTENDS PredictionSnapshot, ScanUnits, FiniteSets

CONSTANTS
    Reclaimers,    \* tasks inside try_to_shrink_lruvec()
    Admins,        \* tasks that write the scan_budget_* files
    UsedModes,     \* modes the administrators ask for
    Natives,       \* native numbers of pages to scan
    UsedPressures,
    ParamSets,     \* settings of the module parameters
    GuardFailures  \* PARP_SCAN_GUARD_FAILURES

ASSUME GuardAssumption ==
    GuardFailures \in Nat \ {0} /\ Natives \subseteq 0..UMax /\ IsFiniteSet(Reclaimers)

VARIABLES
    mode,          \* scan_budget_mode
    applyDomain,   \* scan_budget_apply_domain; 0 is none
    params,        \* the module parameters
    guards,        \* parp_scan_guards
    admin,         \* each administrator: [pc, arg]
    req,           \* each reclaimer's call
    fresh          \* history: failures of a cgroup that count against its breaker
                   \* and were read after the breaker was last reset

budgetVars == <<mode, applyDomain, params, guards, admin, req, fresh>>
vars == <<snapshotVars, now, calls, budgetVars>>
sources == <<snapshotVars, now>>

Modes == {"disabled", "observe", "apply"}

NoGuard == [domain |-> 0, generation |-> 0, failures |-> 0, tripped |-> FALSE]
NoInput == fill_scan_budget_input(NoSnapshot, 0, 0)

\* armed, targeted and stale are history: APPLY was the mode, and the cgroup was
\* the enabled one, at some time during the call; the breaker was reset after
\* the call had read the snapshot.
IdleCall == [pc |-> "idle", domain |-> 0, native |-> 0, pressure |-> None, now |-> 0,
             input |-> NoInput, allowed |-> FALSE, reason |-> None, proposed |-> 0,
             applied |-> 0, armed |-> FALSE, targeted |-> FALSE, stale |-> FALSE]
IdleAdmin == [pc |-> "idle", arg |-> None]

-----------------------------------------------------------------------------
(* The circuit breakers, under parp_scan_guard_lock.                       *)

LowestOf(S) == CHOOSE i \in S : \A j \in S : i <= j

\* Defect: the search stops at the first free slot.
guard_find_FirstFree(d) ==
    LET found == {i \in DOMAIN guards : guards[i].domain \in {d, 0}}
    IN  IF found = {} THEN 0 ELSE LowestOf(found)

\* The slot of the cgroup, else a free one, else 0.
guard_find(d) ==
    LET own == {i \in DOMAIN guards : guards[i].domain = d}
        free == {i \in DOMAIN guards : guards[i].domain = 0}
    IN  IF own # {} THEN LowestOf(own) ELSE IF free # {} THEN LowestOf(free) ELSE 0

Resets(g, generation, valid) == valid /\ generation > g.generation

\* Defect: a new generation closes the breaker but keeps its failures.
Reset_KeepsFailures(g, generation) ==
    [g EXCEPT !.generation = generation, !.tripped = FALSE]

Reset(g, generation) ==
    [g EXCEPT !.generation = generation, !.failures = 0, !.tripped = FALSE]

Counts(g, valid) == ~valid /\ ~g.tripped

Consulted(g, d, generation, valid) ==
    LET e == [g EXCEPT !.domain = d]
    IN  IF Resets(e, generation, valid) THEN Reset(e, generation)
        ELSE IF Counts(e, valid)
             THEN [e EXCEPT !.failures = @ + 1, !.tripped = e.failures + 1 >= GuardFailures]
             ELSE e

\* parp_scan_budget_guard() as called by r: the table, the answer and history.
Guard(r, valid, next) ==
    LET d == req[r].domain
        generation == req[r].input.generation
        i == IF d = 0 THEN 0 ELSE guard_find(d)
        resets == i # 0 /\ Resets(guards[i], generation, valid)
        counts == i # 0 /\ ~resets /\ Counts(guards[i], valid)
    IN  /\ guards' = IF i = 0 THEN guards
                     ELSE [guards EXCEPT ![i] = Consulted(@, d, generation, valid)]
        /\ fresh' = IF resets THEN [fresh EXCEPT ![d] = 0]
                    ELSE IF counts /\ ~req[r].stale THEN [fresh EXCEPT ![d] = @ + 1]
                    ELSE fresh
        /\ req' = [q \in Reclaimers |->
                     IF q = r THEN [req[r] EXCEPT !.pc = next,
                                       !.allowed = i # 0 /\ ~guards'[i].tripped]
                     ELSE [req[q] EXCEPT !.stale = @ \/ (resets /\ req[q].domain = d)]]

-----------------------------------------------------------------------------
(* One call of parp_adapter_prepare_scan_budget().                         *)

\* The scope and the clock; global reclaim has no cgroup.
Prepare(r) ==
    /\ req[r].pc = "idle" /\ Outside
    /\ \E d \in Domains \cup {0}, n \in Natives, p \in UsedPressures :
          req' = [req EXCEPT ![r] = [IdleCall EXCEPT
                    !.pc = "fill", !.domain = d, !.native = n, !.applied = n, !.proposed = n,
                    !.pressure = p, !.now = now,
                    !.armed = mode = "apply", !.targeted = applyDomain = d]]
    /\ UNCHANGED <<sources, mode, applyDomain, params, guards, admin, fresh>>

Fill(r) ==
    /\ req[r].pc = "fill"
    /\ req' = [req EXCEPT ![r].pc = "guard", ![r].stale = FALSE,
                  ![r].input = fill_scan_budget_input(snap, req[r].domain, req[r].now)]
    /\ UNCHANGED <<sources, calls, mode, applyDomain, params, guards, admin, fresh>>

ConsultGuard(r) ==
    /\ req[r].pc = "guard"
    /\ Guard(r, context_valid(req[r].input), "validate")
    /\ UNCHANGED <<sources, calls, mode, applyDomain, params, admin>>

\* parp_validate_scan_input: the reasons from NO_BIND to MODEL_VERSION are one,
\* the complement of context_valid.
invalid_reason(q) ==
    IF mode = "disabled" THEN "disabled"
    ELSE IF q.domain = 0 THEN "not_target"
    ELSE IF ~q.allowed THEN "circuit_breaker"
    ELSE IF ~context_valid(q.input) THEN "no_context"
    ELSE IF ~scan_config_valid(params) THEN "circuit_breaker"
    ELSE None

\* A zero native number and an emergency keep the native decision.
Validate(r) ==
    LET reason == invalid_reason(req[r])
        native == req[r].native = 0 \/ req[r].pressure = "emergency"
    IN  /\ req[r].pc = "validate"
        /\ req' = [req EXCEPT ![r].reason = reason,
                     ![r].pc = IF reason = "circuit_breaker" /\ req[r].allowed THEN "report"
                               ELSE IF reason # None \/ native THEN "return" ELSE "compute"]
        /\ UNCHANGED <<sources, calls, mode, applyDomain, params, guards, admin, fresh>>

\* The parameters are read again; they may have changed since the check.
Compute(r) ==
    /\ req[r].pc = "compute"
    /\ req' = [req EXCEPT ![r].pc = "mode",
                 ![r].proposed = propose(params, req[r].native, req[r].input.foreground,
                                         req[r].input.score, req[r].pressure)]
    /\ UNCHANGED <<sources, calls, mode, applyDomain, params, guards, admin, fresh>>

\* Defect: the mode is not read a second time.
ModeApplies_NotDisabled == mode # "disabled"

ModeApplies == mode = "apply"

ReadMode(r) ==
    /\ req[r].pc = "mode"
    /\ req' = [req EXCEPT ![r].pc = IF ModeApplies THEN "domain" ELSE "return"]
    /\ UNCHANGED <<sources, calls, mode, applyDomain, params, guards, admin, fresh>>

ReadDomain(r) ==
    /\ req[r].pc = "domain"
    /\ req' = [req EXCEPT ![r].pc = "return",
                  ![r].applied = IF req[r].domain = applyDomain THEN req[r].proposed ELSE @]
    /\ UNCHANGED <<sources, calls, mode, applyDomain, params, guards, admin, fresh>>

\* Parameters that fail the check count against the breaker they passed.
ReportConfig(r) ==
    /\ req[r].pc = "report"
    /\ Guard(r, FALSE, "return")
    /\ UNCHANGED <<sources, calls, mode, applyDomain, params, admin>>

\* evict_folios() is given applied pages to scan.
Return(r) ==
    /\ req[r].pc = "return"
    /\ req' = [req EXCEPT ![r] = IdleCall]
    /\ UNCHANGED <<sources, calls, mode, applyDomain, params, guards, admin, fresh>>

-----------------------------------------------------------------------------
(* The administrators.                                                     *)

\* parp_set_scan_budget_mode: the check, then the store.
SetMode(a) ==
    /\ admin[a].pc = "idle" /\ Outside
    /\ \E m \in UsedModes :
          admin' = IF m = "apply" /\ applyDomain = 0 THEN admin
                   ELSE [admin EXCEPT ![a] = [pc |-> "mode", arg |-> m]]
    /\ UNCHANGED <<sources, mode, applyDomain, params, guards, req, fresh>>

StoreMode(a) ==
    /\ admin[a].pc = "mode"
    /\ mode' = admin[a].arg
    /\ admin' = [admin EXCEPT ![a] = IdleAdmin]
    /\ req' = [r \in Reclaimers |->
                 IF req[r].pc = "idle" THEN req[r]
                 ELSE [req[r] EXCEPT !.armed = @ \/ admin[a].arg = "apply"]]
    /\ UNCHANGED <<sources, calls, applyDomain, params, guards, fresh>>

\* parp_set_scan_budget_apply_domain: the check, then the store.
SetApplyDomain(a) ==
    /\ admin[a].pc = "idle" /\ Outside
    /\ \E d \in Domains \cup {0} :
          admin' = IF mode = "apply" THEN admin
                   ELSE [admin EXCEPT ![a] = [pc |-> "domain", arg |-> d]]
    /\ UNCHANGED <<sources, mode, applyDomain, params, guards, req, fresh>>

StoreDomain(a) ==
    /\ admin[a].pc = "domain"
    /\ applyDomain' = admin[a].arg
    /\ admin' = [admin EXCEPT ![a] = IdleAdmin]
    /\ req' = [r \in Reclaimers |->
                 IF req[r].pc = "idle" THEN req[r]
                 ELSE [req[r] EXCEPT !.targeted = @ \/ admin[a].arg = req[r].domain]]
    /\ UNCHANGED <<sources, calls, mode, params, guards, fresh>>

\* parp_scan_budget_guard_clear
ClearGuard ==
    /\ Outside
    /\ \E d \in Domains :
        LET i == guard_find(d) IN
        /\ i # 0 /\ guards[i].domain = d
        /\ guards' = [guards EXCEPT ![i] = NoGuard]
        /\ fresh' = [fresh EXCEPT ![d] = 0]
        /\ req' = [r \in Reclaimers |-> [req[r] EXCEPT !.stale = @ \/ req[r].domain = d]]
    /\ UNCHANGED <<sources, mode, applyDomain, params, admin>>

\* A module parameter is written in /sys.
SetParams ==
    /\ Outside
    /\ params' \in ParamSets \ {params}
    /\ UNCHANGED <<sources, mode, applyDomain, guards, admin, req, fresh>>

-----------------------------------------------------------------------------
Init ==
    /\ SnapshotInit
    /\ mode = "observe" /\ applyDomain = 0 /\ params \in ParamSets
    /\ scan_config_valid(params)
    /\ guards = [i \in 1..MaxDomains |-> NoGuard]
    /\ admin = [a \in Admins |-> IdleAdmin]
    /\ req = [r \in Reclaimers |-> IdleCall]
    /\ fresh = [d \in Domains |-> 0]

ReclaimerStep(r) ==
    \/ Prepare(r) \/ Fill(r) \/ ConsultGuard(r) \/ Validate(r) \/ Compute(r)
    \/ ReadMode(r) \/ ReadDomain(r) \/ ReportConfig(r) \/ Return(r)

AdminStep(a) == SetMode(a) \/ StoreMode(a) \/ SetApplyDomain(a) \/ StoreDomain(a)

Next ==
    \/ SnapshotNext /\ UNCHANGED budgetVars
    \/ \E r \in Reclaimers : ReclaimerStep(r)
    \/ \E a \in Admins : AdminStep(a)
    \/ ClearGuard
    \/ SetParams

Spec == Init /\ [][Next]_vars

-----------------------------------------------------------------------------
(* Properties.                                                             *)

\* A cgroup has one breaker, also after other breakers were cleared and left
\* holes in the table: it cannot be tripped in one slot and closed in another.
\* Its failure count stops at the limit, and it is tripped exactly there.
OneGuardPerDomain ==
    /\ \A i, j \in 1..MaxDomains :
           guards[i].domain # 0 /\ guards[i].domain = guards[j].domain => i = j
    /\ \A i \in 1..MaxDomains : /\ guards[i].failures <= GuardFailures
                                /\ guards[i].tripped <=> guards[i].failures = GuardFailures

\* Reclaim scans a number other than the native one only for a cgroup whose
\* context was valid when read and whose breaker let it through, and only if
\* during that same call the mode was APPLY and the cgroup was the enabled one.
AppliedWasAuthorised ==
    \A r \in Reclaimers :
        req[r].applied # req[r].native =>
          /\ req[r].domain # 0 /\ req[r].allowed /\ context_valid(req[r].input)
          /\ req[r].armed /\ req[r].targeted

\* Calls that read the snapshot before a breaker was reset still count against
\* it afterwards, but each at most once: while fewer tasks reclaim than
\* failures are needed, a breaker never trips without a failure of its own.
FailuresAreFresh ==
    \A i \in 1..MaxDomains :
        guards[i].domain # 0 =>
            guards[i].failures <= fresh[guards[i].domain] + Cardinality(Reclaimers)

\* A breaker never remembers a generation the snapshot has not reached: the
\* next accepted batch is newer than any breaker and can close it.
BreakerCanClose == \A i \in 1..MaxDomains : guards[i].generation <= snap.generation
=============================================================================
