# PARP in TLA+

PARP (predictive, application-aware reclaim policy) is a Linux 6.17 memory-management
extension together with the userspace that feeds it. A daemon predicts which application
is used next; the kernel binds applications to cgroups, keeps those predictions in a
snapshot, and uses them, with per-page reuse metadata, to bias page reclaim.
This directory models the kernel side (its state machines, their concurrency, and the
arithmetic they rest on) and the two parts of the userspace service the kernel depends on:
the publication of predictions through `/dev/myfs`, and the placement of application
processes into their cgroups.

Sources, relative to the repository root:

- overlay: `lzx/xty/newkernel_0812/source/overlay/` (`mm/parp/`, `mm/vmscan.c`,
  `mm/memcontrol.c`, `include/linux/parp*.h`);
- r11: `lzx/ljw/kernel_r11/` (`effective_tier.c`, `parp.h`), the revision that replaces
  `mm/parp/core/effective_tier.c` of the overlay;
- v4.2: `lzx/kernel/v4.2/patches/linux-6.17.13-parp-v4.2-full.patch`, the only place where the
  source of `/dev/myfs` is (line numbers are those of the patch file);
- service: `lzx/service/runtime_monitor/`.

## 1. Inventory

| component | state it keeps | operations | who calls it, and how it is shared |
|---|---|---|---|
| Tier-2 watermark predictor, `watermark.c` | per memcg: EWMA of the charge rate, last sample, limit, prediction, recorded deadline, delayed work | charge sample, predict work, `enabled` and two scale files, two sysctls, online, reset, offline, destroy | every charging task, the cgroup core, a workqueue thread; one spinlock, dropped before the workqueue is called |
| page reuse state, r11 `effective_tier.c` | per page: packed state word (run, generation, counters, 11-bit sequence), payload words, epoch claims | note access / hint / move, page alloc, snapshot, decide, claim, revalidate, release, outcome | accessing CPUs without `lru_lock`, the scanner with it, lockless readers; hashed spinlocks and a sequence |
| effective-tier policy, r11 `effective_tier.c` | mode, static branch, run epoch, fault flag, seqcount configuration; per lruvec: reclaim epoch, reserved pages, rounds without progress; per batch: context and RCU section | set mode, set config, prepare, decide, finish, cancel, batch finish, feedback, MGLRU switch | administrators through debugfs, reclaimers through `evict_folios()` |
| prediction snapshot, `snapshot.c` | RCU-published tables of bindings and priors, with generation, model, expiry | manual bind, manual prior, batch, clone and publish, two lookups | daemons and administrators write, reclaimers read; one update mutex |
| scan budget, `scan_budget.c` and its adapter | mode, enabled cgroup, module parameters, circuit breakers | prepare, validate, compute, guard, set mode / domain / parameters, clear guard | every memcg reclaim through `try_to_shrink_lruvec()` |
| debugfs control, `debugfs.c` | none of its own but the bind generation | parses and forwards | administrators, the daemon |
| evidence, `evidence.c` | builders of file and anonymous regions, published under RCU | ingest, publish, offline | DAMON work items |
| DAMON adapter, `damon_adapter.c` | bounded queue of deferred samples | reserve, queue, run, release | DAMON callbacks |
| frontier score, `frontier_score.c` | mode, static branch, statistics | score, set mode | eviction, shadow only |
| domain keys, mapping, small adapters, genl/sysfs stubs | none | key computations, forwarding | the above |
| `/dev/myfs`, v4.2 `snapshot.c` and the misc device | the same snapshot in its v4.2 form: generation, timestamp, two expiry fields, priors, bindings with workload hints, one working set | SET_STATE and GET_STATE in three ABI versions, three lock-free readers | publishers through ioctl, reclaim and Tier-2 as readers; one update mutex, RCU |
| publisher, service `parp_myfs.py` | own generation, negotiated ABI, last bound applications | probe at start, one message per inference, one retry after EALREADY or ESTALE | the monitor's main thread; other instances of the service may have the device open |
| process events, service `proc_connector_helper.py`, `process_events.py` | instance name, sequence number, drop and overflow counters, cached metadata | subscribe, preload, forward, heartbeat, exit on overflow | a root helper, restarted by systemd; datagrams to the monitor |
| process index, service `app_process_index.py`, `app_mapper.py`, handlers in `monitor.py` | entry per PID, PIDs and GUI PIDs per application, closing applications; watermarks of the event stream | START, EXEC, EXIT, status, rebuild from `/proc`, one-second prune, report of closed applications | the monitor's main thread |
| cgroup router, service `process_cgroup_router.py` | bounded queue, set of pending PIDs | submit, route (re-read, checks, StartTransientUnit, observe) | the main thread submits, a worker routes, systemd moves |
| rest of the runtime monitor | feature windows, lifecycle, files | collect, predict, write, reclaim | userspace |
| four-operations controller, `lzx/kernel/v4.2/parp-userspace-four-ops` | its own operation log | four memory operations | stand-alone |
| experiments, datasets, automation, memory scenes, predictors | models and files | training, replay | offline |

What is hard in this code, and the properties that answer it, is the `hazards` list of
`PROJECT.json`. In short: decisions taken under a lock and carried out after it; values
read before a lock and used inside; lockless copies of multi-word records; predictions
computed before and applied after a race window; a static branch, a mode variable and an
RCU grace period that must fit together; reservations that are given back after the
counters were reset; breakers fed with stale observations; arithmetic next to
`U64_MAX`; publishers that restart behind the generation they have to exceed; and an event
stream that loses messages at two places and PIDs that are reused before it catches up.

## 2. Modules

Every operation of the code is one action, or one action per step where another thread
can run in between: a lock boundary, a word of a multi-word store, a separate
`READ_ONCE()`. `PROJECT.json` maps each definition to its lines. A definition named
`X_Y` under the comment "Defect" is a plausible mistake in `X`, used to show that the
properties notice it; it is no part of the model.

**Tier2Watermark** one memcg, its tasks, and the worker. A sample is three steps: the
unlocked checks and the reads of limit, usage and clock; the critical section
(`SampleLocked`); and `mod_delayed_work()` or `cancel_delayed_work()` after the unlock.
The work has its own three: the locked check, the check against current usage, and reclaim
followed by a new sample. `cancel_delayed_work_sync()` is two steps (cancel and forbid
re-queueing, then wait), as the workqueue implements it. Bytes, nanoseconds and pages are
small integers; the wrap of the unsigned clock subtraction is kept (`Sub64`).

**ReuseState** one page's record. Writers take the page's lock, make the sequence odd,
store the payload one word at a time, and make it even; readers copy the words without
the lock and compare sequences. The scanner goes through the whole of `sort_folio()`: read
the flags, take the features, decide, claim the page for the reclaim epoch, revalidate,
apply or fall back to the native choice, finish or cancel. The model score is
nondeterministic: any reuse class may come out. Stores become visible in program order
(the kernel configurations of the repository are x86). `scan.lag` counts the writes that
other CPUs publish from the features to the commit revalidation, no further.

**EffectiveTier** one lruvec, administrators, reclaimers. The mode switch is modelled store by
store: run epoch, fault, mode, static branch, and `synchronize_rcu()` as a set of
reclaimers to wait for. Configuration replacement shows its odd sequence. Operations on a
page's record are atomic here; their steps are ReuseState's business.

**PredictionSnapshot** the snapshot, its writers and both readers. A writer reads the
clock and validates first, then takes the mutex, clones, changes and publishes; the
allocation may fail.

**ScanUnits** pure arithmetic of a proposal, at a small Q-scale and word.

**ScanBudget** EXTENDS PredictionSnapshot and ScanUnits and composes them: a reclaim reads
clock, snapshot, breaker, mode, parameters, mode again and the enabled cgroup, each at its own
time, while daemons publish and administrators write.

**MyfsDevice** the messages of `/dev/myfs`, their validation, the replacement of the snapshot
and the readers, as operators. Arrays are sets (their order is never used); score, rank and
foreground flag of an entry, owner and workload hint of a binding, the cgroup of the working
set, and every copy of generation and expiry are kept.

**MyfsService** EXTENDS MyfsDevice with any number of publishers. `submit_prediction()` is cut
where another process can run: probe, open, the ioctl up to the mutex, the section under the
mutex up to the publication, the return of a stale error, the resync, the retry. Opens,
probes, resyncs and the allocation of the clone may fail, a publisher may be killed outside
the kernel and started again, the clock runs between any two steps. All forms of a message
are built once and the negotiated ABI decides which is sent (`Wire`), on the retry anew.

**PublishedState** what the device promises: the visible state is one whole message that was
offered, replaced only by one of a later generation. `MyfsService!PublishedSpec` is its
instance under the mapping "published is what GET_STATE returns, offered is what was handed
to SET_STATE"; TLC checks it as a property and TLAPS proves it.

**ProcessIndex** the operations of `AppProcessIndex` and the mapper as operators on an index.
A cgroup path is reduced to the one component the code looks for in it.

**ProcessRouting** EXTENDS ProcessIndex and composes kernel, netlink buffer, root helper,
socket, monitor, router, worker and systemd. Events are lost when the netlink buffer or the
socket is full and when the helper dies; statuses are lost too. PIDs are reused. A job that
systemd accepted runs at any later time, also after the router gave up waiting. A reading of
`/proc` for one PID and the scan of a rebuild are one step each; socket and reader queue are
one FIFO; a process does not enter a scope of its own while it is being migrated; the start
time distinguishes all incarnations of a PID (so NO_START_TIME cannot occur); FOREIGN_UID is
one of the failures of `RouteFails`.

`MC*` modules hold constants, symmetry and, where all bounded activity ends, a
`Quiescent` stuttering step, so that deadlock checking stays on for the real system.
The theorems are in modules of their own, `<Module>Proofs`, each of which extends the module it
is about (`ScanUnitsProofs` extends `MCScanUnits`, whose walk through the inputs has the
settings as a constant).

## 3. Runs

| run | properties | what it shows |
|---|---|---|
| `tier2` | TypeOK, DeadlineOnlyWhenActive, QuiescentWhenInactive, NoWorkAfterFree, EwmaWithinLimit, CancelCompletes | lifecycle and arithmetic of the predictor with two tasks and the worker; a synchronous cancel ends although the work re-arms itself |
| `tier2_lost_timer` (violation) | DeadlineHasTimer | finding 1 |
| `tier2_timebase` (violation) | RateHasRealTimebase | finding 2 |
| `reuse_scan` | TypeOK, ContentionIsNoFault, CommittedPredictionIsCurrent, OncePerEpoch, ClaimsAreCommitted, SnapshotUntorn | the scanner and its lockless copies against an accessing CPU that stores word by word, across moves, free and reuse, epochs and runs |
| `tier_switch` | OpenBatchIsCurrent, OffMeansOff, SetModeReturns | two administrators against two reclaimers |
| `tier_budget` | NoProgressIsThisRun, BudgetsRespected, AccountingNeverFaults | two reclaimers, folios of one and two pages, several epochs and two runs |
| `scan_units` | ScalingExact, ProposalBounded, LikelierScannedLess, PressureWeakensProtection | every native number of the word, every multiplier and pressure, four settings of the parameters, one with crossed limits |
| `snapshot_updates` | SnapshotOK, OneGeneration, ReadersAgree, UpdatesAreSerial, WritesReturn | two writers, full tables, refused and failed updates, expiry |
| `scan_breaker` | FailuresAreFresh, BreakerCanClose | two reclaimers, successive batches, parameters that become invalid |
| `scan_apply` | OneGuardPerDomain, AppliedWasAuthorised | two administrators change mode and cgroup, and breakers change, inside a reclaim call |
| `myfs` | PublishedSpec, MessagesAreValid, RetryIsEnough, LookupsAgree, SubmissionEnds | two publishers, killed and restarted, against a kernel of the newest ABI: refinement of PublishedState, the retry, the two reclaim paths, termination |
| `routing` | IndexConsistent, IndexComplete, PlacementExcused, PendingServed | two PIDs, lost events, overflows and restarts of the helper, rebuilds, migrations that race exec, exit, PID reuse and each other |

### Findings

1. *Lost timer* (`watermark.c:390`). The deadline is recorded under the lock, but the
   workqueue is called after it. A cancel decided earlier can be executed later and remove the
   timer of a newer decision; `scheduled_for_ns` stays set, and as "the earliest outstanding
   deadline wins", later and larger deadlines are not armed either.
2. *Wrapped timebase* (`watermark.c:301`). `now` is read before the lock. A sampler that is
   overtaken computes `now - last_sample_ns` modulo 2^64, passes the one-millisecond test that
   is to "keep a real timebase", and divides by the wrapped interval.

Not a finding, but visible in the model: `scan_budget.c:57` and `:71` let two administrators
reach APPLY with no cgroup enabled, because each setter tests the other's variable without a
common lock. Nothing is applied in that state (AppliedWasAuthorised), but the cgroup
cannot be set until the mode is changed.

Nor is this a finding: between the commit revalidation (`vmscan.c:4678`, `:4696`) and the move or
isolation of the folio, another CPU may publish an access, a hint or a move. Nobody compares the
page's record again: `parp_policy_inc_gen()` only notices a folio that has left the oldest
generation meanwhile, and a downgraded folio goes on to `isolate_folio()`. The model has
these steps (TLC reaches `scan.step = "apply"` with a newer sequence in the word), so
CommittedPredictionIsCurrent speaks of the moment of the commit and no later one.

### Observations on the userspace modules

What follows is what the code does, visible as a behaviour of the model; the properties are
stated so that they hold with it, and no line of the repository promises the opposite unless
quoted.

`/dev/myfs` and its publisher:

- the device's documentation in the patch says that expired updates fail; a message whose
  timestamp plus time to live has already passed is accepted (only a timestamp more than five
  seconds in the future is refused), and simply never valid;
- a service whose first probe failed has ABI 0 and keeps sending the v1 form, without working
  set and hints, until a stale error makes it resync.

Index and routing:

- `_enqueue()` refuses a PID that is pending, relying on the worker to read the latest
  identity. If the EXEC changed the application after the worker's reading, or if the queued
  request names the old application (the worker then answers IDENTITY_CHANGED), nothing
  submits the PID again: the process stays where it is. `PlacementExcused` excuses
  this (`lost`); of the check of the pending set PendingServed says what does hold: a PID is
  pending exactly while one request for it is queued or served, so nothing else is dropped.
- A job that runs late, or on a PID reused while StartTransientUnit was under way, moves an
  unrelated process (`moved`); the router reports PID_REUSED and does not move it back.
- The first status of an instance sets the watermark of the drop counter, and a gap is seen
  only after a sequence number above 0. A drop before the first status the monitor sees of an
  instance shows only when the next event arrives. `CaughtUp` spells out when the monitor
  can know (`fresh`).
- If the monitor starts before any helper was READY, processes started between its baseline
  and the helper's subscription are missed: the first instance triggers no rebuild. The model
  starts with a READY helper, as `wait_ready()` arranges.
- A rebuild keeps only what the mapper recognises (`collectors/process.py:231-237`), so a
  migrated fixture with a generic program is forgotten by it, although
  `app_process_index.py:243-244` says that its role can be restored. IndexComplete therefore
  speaks of processes outside fixture scopes.
- A rebuild clears `_empty_since_ns`: an application whose last GUI EXIT was lost is never
  reported closed.
- Index and router order fixture scope and mapper differently, so they can disagree on a
  process of one application inside the fixture scope of another.
- A child is classified with what its parent's entry says when the START is handled. If a
  launcher enters a fixture scope after the fork, and its entry becomes "fixture" before the
  child's START is handled, a child that runs the same application by itself inherits the role
  "fixture" although it is in no fixture scope: `_classify()` takes the inherited role whenever
  the applications agree, while its comment (`app_process_index.py:253-254`) keeps the known
  role only where the mapper was led by the target cgroup "and not the final executable" and
  says that an ordinary first hit is "gui". The router's own reading says "gui", so every
  request for the child ends with IDENTITY_CHANGED and it is never moved. The proof of
  `PlacementExcused` failed at this case; three events waiting in the netlink buffer
  show it to TLC. `Misjudged` states the disagreement of entry and router, this one and the
  one before, and `PlacementExcused` excuses it.

### Bounds

Each bound is a constant of its module: `MaxCalls` counts calls from outside (not the steps
inside a call), `MaxNow` the clock, `MaxRuns` and `TagMax` run and epoch numbers,
`MaxLag` how many writes may overtake one reader.

- Tier2: two tasks suffice for every overtaking between a sampler and a sampler, a
  lifecycle call or the work; five calls admit enable, limit, charge, offline and free, and the
  liveness property needs the first three and a disable. Two limits, with usages above and
  between them, give limit changes, usage above the limit and reclaims that free pages. The safety
  properties are proved for all values.
- ReuseState: `SeqMod = 8` and `MaxLag = 3` keep the ratio the protocol relies on (fewer than
  half a wrap); the sequence does wrap within the run. `U8Max`, `U16Max`, `CandMax` are small so
  that every field saturates. `TimeMod = 4` makes the millisecond clock wrap.
- EffectiveTier: `tier_switch` allows five calls, enough for two contending mode switches
  around a batch with a decision. In `tier_budget` six calls admit switching on, a batch, off, on, a batch of the other
  reclaimer, and its late feedback. A folio of two pages makes partial fits of a budget
  happen; three epoch ids wrap.
- PredictionSnapshot: three cgroups for a table of two, and a clock that passes the expiry of
  bindings and of the batches of the first model.
- ScanUnits: `Scale = 8`, `UMax = 127`: products overflow the word for most multipliers above
  one, as they do for 2^15 and 2^64.
- ScanBudget: two reclaimers and three failures for a breaker (the code's number) where it
  is about breakers; one reclaimer, two administrators and a breaker that trips at once
  where it is about authorisation.
- MyfsService: three applications for two entries and three cgroups for one binding, so that
  ties, truncation and a shared cgroup all happen in one inference; three submissions, one
  fault, one kill, two publishers: a restart behind the predecessor, a retry overtaken by the
  other publisher, a failed resync. `MaxNow = 2` and a time to live of 2 let a message wait
  for the mutex until it is old; the readers are compared at all times up to its expiry.
- ProcessRouting: a netlink buffer of three events, so that a fork, an exec and a second fork
  wait together while the processes go on; a socket and a queue of two, so that drops happen and
  a datagram can be handled with a later one behind it; a helper
  with a past (`History = {1}`), so that the first status must not count as a loss; four
  environment operations, enough for fork, exec, exit and reuse of a PID with a loss or a
  second process in between. One PID with five operations also passes
  (3.2 million states), too slow to keep as a run; what holds for more processes, longer
  buffers and more operations is proved.

### Fairness

- Tier2 `FairSpec`: the worker's steps and the second half of a synchronous cancel are weakly
  fair (the workqueue runs what is queued and a waiter is woken). Charging tasks are not: nothing
  forces a charge.
- EffectiveTier `FairSpec`: administrators inside a call and reclaimers inside a batch are
  weakly fair; a batch holds a spinlock and scans a bounded number of folios.
- PredictionSnapshot `SnapshotFairSpec`: strong fairness for taking the update mutex (kernel
  mutexes hand over to waiters), weak fairness for publishing.
- MyfsService `FairSpec`: a publisher inside a call goes on (weak), the mutex as above (strong).
  Nothing forces an inference, a start or a kill.
- ProcessRouting states no fairness: its properties are about quiet states, and whether the
  system ever becomes quiet is up to the processes. That a request ends is covered by
  PendingServed together with the absence of a blocking step in the worker.

## 4. Proofs

TLAPS checks these for every value of the constants allowed by the named assumptions of
each module (widths and sizes positive, inputs of their types, the worker is no task).

**Tier2WatermarkProofs** `TypeCorrect`, `DeadlinesBelongToActive`, `InactiveIsQuiescent`,
`FreeLeavesNoWork`, `EwmaBelongsToLimit`, `EwmaExact`. None of the properties is inductive alone.
The invariant `IInv` adds four facts about the protocol: a task waits in a
synchronous cancel exactly while the work may not be re-queued, and then no timer is pending
(`SyncInv`); during a free the css is offline and no other task is inside (`DestroyInv`); the
headroom a sampler carries to the lock fits the limit it read (`RegInv`); and a work past
its check of "active" serves an active predictor or is waited for by whoever
deactivated it (`WorkerInv`). The last is why "off" means quiescent. Lemmas about
the arithmetic (EWMA between old value and sample, headroom below the limit, naturals stay
naturals) and about the critical section as a whole carry the type part. `EwmaExact` shows
that the quotient/remainder form of the EWMA is the exact floor.

**PredictionSnapshotProofs** `SnapshotsWellFormed`, `PriorsComeFromOneBatch`,
`PublicationsAreSerial` (an action property), `BothReadersAgree`. The invariant says that the
published snapshot is `Sound` (well formed, priors of one batch, and the two expiry fields
tied together), and that each writer is either carrying input it has validated, or holds the
mutex with a clone that is sound and `Follows` the published snapshot. One lemma per kind of
update shows that it takes a sound snapshot to a sound one; `PutProperties` is what
they share about replacing one table entry.

**MyfsServiceProofs** `MyfsTypes`, `RetrySuffices`, `ReclaimPathsAgree` and the refinement
`MyfsImplementsPublishedState`. The invariant `IInv` says of the active snapshot that all its
copies of generation and expiry are the same (`Uniform`, which is why the two reclaim paths
agree), and of each publisher (`Local`): past the validation its message is one that was
sent; past the generation check it owns the mutex, its clone is the replacement of the
snapshot still active and its message is newer; a retry nobody overtook is newer than the
active snapshot (which is why one retry is enough). `OthersKeep` disposes of the steps of other publishers.
The refinement maps the SET ioctl to `Offer`, the publication to `Publish`, and every other
step to a stutter; `ReplacedSaysMessage` is its heart: what GET_STATE reads from a replaced
snapshot is the message.

`MessagesPassValidation` has an invariant of its own, `ValidInv`: from the inference to the
kernel's answer a publisher holds a message that passes every check. Its heart is the lemma
`Ranking` about any finite total order: cut off after n places, the ranks have neither gaps
nor ties and there are at most n of them. `_prediction_entries()` and `_bindings()` are both
such a cut. The rest is that no step of the way spoils it: not the older ABI, not the
retry's generation, not time (an old timestamp is no reason to refuse).

**EffectiveTierProofs** `BatchesAreCurrent`, `OffIsOff`, `FeedbackOfThisRun`, `BudgetsHold`,
`NoAccountingFault`. `IInv` says what each step of `set_mode()` and `set_config()` knows while it
holds the mode lock (`AdminInv`); that a batch is open with the mode OFF only while an
administrator has yet to wait for it (`WaitsFor`), which is why run and configuration never
change under an open batch; that a reservation held is counted both in the batch and in the
lruvec (`CtxInv`), without which giving it back could go below zero; and that the lruvec's
counters stay within the epoch's budgets as long as a batch may use them (`LvInv`;
after a configuration change they may exceed the new ones until the next batch resets them).
`RatioLimitMonotone` is the arithmetic: counting a candidate never invalidates a reservation.

**ReuseStateProofs** `TypesHold`, `NoContentionFault`, `CopiesUntorn`, `CommitsAreCurrent`,
`AtMostOncePerEpoch`, `OnlyCommittedClaims`. `LockInv`: the sequence is odd exactly while one
CPU is between its two sequence stores, and that is the lock's holder. `Ahead`: how far the sequence ran
since a reader read it is known from the number of writes published meanwhile, up to one
wrap; as fewer than half a wrap can pass (`2 * MaxLag < SeqMod`, in `SeqAssumption`), an
unchanged even sequence means that nobody wrote. `ReaderInv` uses it for the lockless
copies, `DecisionInv` for the scanner's features. For the claims, `SectionOK` orders the
stores of a critical section (epochs last, and only what the section's verdict allows),
and `EpochInv` counts: a page carries a claim exactly while one is reserved by the current decision or
was committed in the current epoch. TLC checks `IInv` on the instance of `reuse_scan`
(2,105,077 states). `CommitsAreCurrent` is a
property of one step: only the revalidation commits a prediction
(`OnlyRevalidationCommits`), and when it does no write was published since the features and
none is under way (`RevalidatedIsCurrent`).

**ScanBudgetProofs** `OneBreaker`, `OnlyAuthorised`, `StaleFailuresBounded`, `BreakersCanClose`,
and the composition: `BudgetOnlyReads` shows that the scan budget's specification implies that of the
snapshot's writers, `SnapshotSoundUnderReclaim` that the snapshot's properties hold in it.
`BudgetInv` adds to the snapshot's invariant what a call carries from step to step (what it
was told still entitles it to go on, whatever changed meanwhile), that a freed breaker is
clear, and a counting argument: the failures of a breaker plus the calls that may still
charge it with an older observation are bounded by the fresh failures plus the number
of reclaimers. The proof of `OneBreaker` found a conjunct of OneGuardPerDomain that the
layout of its formula had put under the quantifier over two slots, where it said less
than meant; it is now a conjunct of its own.

**ScanUnitsProofs** `ScalingIsExact` and `ProposalWithinLimits` about the operators, for every word,
scale, native number, multiplier and setting of the parameters, and the four properties of the run,
for every set of settings. `SaturatesExactly` shows that the early return of
`parp_scale_scan_units()` takes only products of at least U64_MAX units, and leaves none whose
quotient does not fit: no divide error. What follows uses only that rounding, limits
and multiplier are monotone. The proof found that the multiplier is not if the limits are
crossed (`minimum > maximum`, which a store between the check and the use can make happen):
`clamp()` then maps a small multiplier to the larger limit. LikelierScannedLess now has
that condition, and the run a setting with crossed limits; the other three properties hold for it.

**ProcessRoutingProofs** `IndexViewsAgree`, `PendingIsServed`, `IndexIsComplete` and
`PlacementIsExcused`. `IInv` consists of the types of
all that an identity passes through, of the agreement of the index's views (each
operation of ProcessIndex keeps it, one lemma each), and of the router's bookkeeping: no two
queued requests, and no queued request and the worker's, are for one process. Without the
last the pending set would not determine what is queued.

The last two compare the monitor with the processes that really exist, once everything is
quiet; their invariant (`RoutingTracks`) says what the messages under way, in order, will make
of the index. It has two halves:

- `StreamOK` is about the counters only. What the monitor has read is older than every datagram that
  waits (`Ahead`); the datagrams are in order (`Follows`); and a datagram sent before a drop
  has, behind it, a sequence number that is not on its way (`Emitted`, `Missed`). Hence a monitor that
  follows the running instance either has missed nothing, or will notice: from the next
  counter it reads or, where the first status hid the drop, from the gap (`Overdue`). Whatever
  happens before it notices does not matter, because the rebuild starts anew.
- `TrackOK` is about one process at a time, for a monitor that follows the instance and is not
  overdue. `KernelOK`: an EXIT that waits without a later event was the last step of the process,
  and the helper's cache lags behind a process only while a START of it waits. `CacheOK`: the last
  datagram about a process agrees with the cache, and an EXIT names the incarnation sent before
  it. `WordOK`: the last datagram tells what the process is (`Accurate`: up to a migration
  that put it into its slice, or a move by others) unless an event of it still waits. `FrontOK`: the
  index agrees with the cache, so that an EXIT is not refused as stale. `MainOK`: if nothing
  about a process is under way, its entry is right (`EntryOK`), and it is in its place, or excused, or a
  fitting request for it is queued or being served (`PlaceOK`).

A datagram that is handled either makes the monitor rebuild (`Forces`), and then every entry and
every request comes from `/proc` as it is, or changes the entry of its own process only, and then
`LastWord` says that it is accurate. The proof shows each half kept by each kind of step. It
found the case of the inherited role (section 3) in the lemma about START, where
an accurate entry did not lead to a request the worker accepts. TLC checked the
invariant's conjuncts on instances with buffers of one and of three events before the proof.

The assumptions are those of the constants: finite sets of reclaimers, PIDs, applications and cgroups; no
task has the name of a lock that is free; widths, sizes and limits are positive; a reader
is overtaken by fewer writes than half the sequence; the scale is a multiple of four;
parameters are natural numbers. TLC evaluates each of them on the run's instance.

Checked by TLC only: everything with fairness (CancelCompletes, SetModeReturns, WritesReturn,
SubmissionEnds), which is outside the prover's reach. Every safety property of a passing run
is stated by a theorem.

## 5. Not modelled

- Model scores, reuse classification and the random baseline: numeric; their outcome is a
  nondeterministic input.
- Statistics, lock-observation counters, tracing, text formats of debugfs and sysctl files.
- Evidence, DAMON adapter, frontier score: they only observe and change no reclaim. Their own
  hazards are noted for the plan: queue reservations against the depth limit
  (`damon_adapter.c:31`), a deferred sample that re-creates the builders of an offline cgroup
  (`evidence.c:422`), and a frontier mode switched off without waiting for readers
  (`frontier_score.c:683`).
- Weak memory models other than x86's store order.
- A reader of a page record overtaken by 1024 writes (sequence wrap): excluded by `MaxLag`.
- The predictors (floating-point inference), experiments, datasets, automation, memory
  scenes: offline or outside the kernel's state.
- The r9 effective tier of the overlay, superseded by r11, and earlier patch series.
- `/dev/myfs`: the mode "off", audit and statistics, the working-set and workload estimators
  (floating point), the packed form of a workload hint, and the manual updates of the v4.2
  snapshot (the newer source of those is PredictionSnapshot's). `Ttl` is assumed to be at most
  PARP_APP_PRIOR_MAX_TTL_NS, which the service does not enforce (`parp_myfs.py:215` only
  clamps from below). TLC runs the newest ABI; the theorems are for all three.
- Parameters that change while one proposal is computed: ScanUnits reads them as one record.
- Routing: shutdown, the strict mode that ends a session at a gap, the procfs fallback of a
  stale source, threads (the helper forwards group leaders only), CSV output. A zombie: exit and reaping are one
  step, so no rebuild sees a process that has exited but is not yet reaped.
- `parp_bridge.py` (the debugfs bridge), `app_reclaim_controller.py`, `lifecycle.py`, feature
  building and desktop events of the monitor; the four-operations controller.

## 6. Plan

Done: the modules of section 2, in the order Tier-2, page state, effective tier, snapshot, scan
budget, `/dev/myfs` with its publishers and their abstract specification, process index and
routing; the proofs of section 4.

Next, in this order:

1. Abstract specifications: an atomic page record that ReuseState implements, and an
   atomic "replace the tables" that PredictionSnapshot implements.
2. `Evidence` with the DAMON queue, then `Frontier`: the hazards named in section 5.
3. Userspace: `parp_bridge.py`, `app_reclaim_controller.py`.
