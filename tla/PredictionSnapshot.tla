-------------------------- MODULE PredictionSnapshot --------------------------
(***************************************************************************)
(* The prediction snapshot (mm/parp/core/snapshot.c) and the debugfs files *)
(* that write it (app_bind, app_prior, app_prior_batch in control/         *)
(* debugfs.c): which application runs in which cgroup, and how likely each *)
(* application is used next.                                               *)
(*                                                                         *)
(* Readers see the current snapshot as a whole, under RCU; a snapshot is   *)
(* never changed once published.  Writers read the clock and check their   *)
(* input first, then take the update mutex, clone, change and publish.     *)
(***************************************************************************)
EXTENDS Integers, Sequences

CONSTANTS
    Writers,         \* tasks that write the debugfs files
    Domains,         \* cgroup ids
    Apps, Models,    \* positive numbers; 0 is "none"
    Ttls,            \* time to live of bindings and single priors
    Batches,         \* prediction batches user space may write
    MaxDomains, MaxApps,          \* PARP_MAX_DOMAINS, PARP_MAX_APPS
    MaxTtl, MaxHorizon, MaxSkew,  \* limits of a batch: 10 min, the horizon, 5 s
    DefaultTtl,      \* 300 s
    MaxNow,          \* bound on the clock
    MaxCalls         \* bound on calls from outside

ASSUME SizeAssumption == MaxDomains \in Nat \ {0} /\ MaxApps \in Nat \ {0}
ASSUME InputAssumption ==
    /\ Domains \subseteq Nat \ {0} /\ Apps \subseteq Nat \ {0} /\ Models \subseteq Nat \ {0}
    /\ Ttls \subseteq Nat /\ MaxNow \in Nat /\ MaxCalls \in Nat /\ DefaultTtl \in Nat

EntryType == [app : Apps \cup {0}, score : Nat, rank : Nat, foreground : BOOLEAN]
BatchType == [generation : Nat, model : Nat, timestamp : Nat, expiry : Nat, horizon : Nat,
              entries : Seq(EntryType)]

ASSUME BatchAssumption == Batches \subseteq BatchType

VARIABLES
    snap,        \* what parp_active_snapshot points to, or NoSnapshot
    updateLock,  \* holder of parp_snapshot_update_lock, or NoTask
    writer,      \* each writer: [pc, op, arg, new]
    bindGen,     \* parp_bind_generation
    now,         \* ktime_get_mono_fast_ns()
    calls

snapshotVars == <<snap, updateLock, writer, bindGen>>

NoTask == "none"
None == "none"

\* A null pointer: no field of it is read before version is tested.
NoSnapshot == [version |-> 0, expires |-> 0, generation |-> 0, model |-> 0, expiry |-> 0,
               priors |-> <<>>, bindings |-> <<>>]

ASSUME WriterAssumption == NoTask \notin Writers

IdleWriter == [pc |-> "idle", op |-> None, arg |-> None, new |-> None]

Outside == calls < MaxCalls /\ calls' = calls + 1

-----------------------------------------------------------------------------
(* Building the next snapshot.                                             *)

\* Defect: every update renews the snapshot.
Cloned_Renews(s) == [s EXCEPT !.version = @ + 1, !.expires = now + DefaultTtl]

Cloned(s) ==
    [s EXCEPT !.version = @ + 1, !.expires = IF @ = 0 THEN now + DefaultTtl ELSE @]

\* The position of an entry: where its key is (at most one place), else the
\* next free one, else the last one.
Slot(hits, length, size) ==
    IF hits # {} THEN CHOOSE i \in hits : TRUE
    ELSE IF length < size THEN length + 1 ELSE size

Put(table, i, entry) == IF i > Len(table) THEN Append(table, entry) ELSE [table EXCEPT ![i] = entry]

\* Defect: the existing entry of the cgroup is not looked for.
WithBinding_NextFree(s, b) ==
    [s EXCEPT !.bindings = Put(@, Slot({}, Len(@), MaxDomains), b)]

WithBinding(s, b) ==
    LET hits == {i \in 1..Len(s.bindings) : s.bindings[i].domain = b.domain}
    IN  [s EXCEPT !.bindings = Put(@, Slot(hits, Len(@), MaxDomains), b)]

WithPrior(s, p) ==
    LET hits == {i \in 1..Len(s.priors) : s.priors[i].app = p.app}
    IN  [s EXCEPT !.priors = Put(@, Slot(hits, Len(@), MaxApps), p)]

\* Every entry is stamped with the generation, model and expiry of the batch.
WithBatch(s, b) ==
    [s EXCEPT !.generation = b.generation, !.model = b.model, !.expiry = b.expiry,
              !.expires = b.expiry,
              !.priors = [i \in 1..Len(b.entries) |->
                  [app |-> b.entries[i].app, score |-> b.entries[i].score,
                   foreground |-> b.entries[i].foreground, expires |-> b.expiry,
                   model |-> b.model, generation |-> b.generation]]]

validate_prior_batch(b, t) ==
    /\ b.model # 0 /\ b.generation # 0 /\ Len(b.entries) \in 1..MaxApps
    /\ b.timestamp # 0 /\ b.timestamp <= t + MaxSkew
    /\ b.timestamp < b.expiry /\ b.expiry - b.timestamp <= MaxTtl
    /\ b.horizon \in 1..MaxHorizon
    /\ \A i \in 1..Len(b.entries) :
          /\ b.entries[i].app # 0 /\ b.entries[i].rank \in 1..Len(b.entries)
          /\ \A j \in 1..(i - 1) :
                /\ b.entries[j].app # b.entries[i].app
                /\ b.entries[j].rank # b.entries[i].rank
                /\ ~(b.entries[j].foreground /\ b.entries[i].foreground)

-----------------------------------------------------------------------------
(* The readers.                                                            *)

NoBinding == [domain |-> 0, app |-> 0, generation |-> 0, expires |-> 0, model |-> 0]
NoPrior == [app |-> 0, score |-> 0, foreground |-> FALSE, expires |-> 0, model |-> 0,
            generation |-> 0]

First(table, hits, default) == IF hits = {} THEN default ELSE table[CHOOSE i \in hits : TRUE]

BindingOf(s, d) ==
    First(s.bindings, {i \in 1..Len(s.bindings) : s.bindings[i].domain = d}, NoBinding)
PriorOf(s, a) == First(s.priors, {i \in 1..Len(s.priors) : s.priors[i].app = a}, NoPrior)

\* parp_snapshot_fill_scan_budget_input: the flags and the data of the input.
fill_scan_budget_input(s, d, t) ==
    LET b == BindingOf(s, d)
        p == IF b = NoBinding THEN NoPrior ELSE PriorOf(s, b.app)
        bound == b # NoBinding
        hasPrior == p # NoPrior
    IN  [bindPresent |-> bound,
         bindValid |-> bound /\ b.generation # 0 /\ t < b.expires,
         priorPresent |-> hasPrior,
         priorValid |-> hasPrior /\ t < s.expiry /\ p.generation = s.generation,
         generationValid |-> bound /\ s.generation # 0,
         modelCompatible |-> hasPrior /\ b.model = s.model /\ p.model = s.model,
         generation |-> IF bound THEN s.generation ELSE 0,
         foreground |-> p.foreground,
         score |-> p.score]

\* context_valid of the adapter.
context_valid(input) ==
    input.bindValid /\ input.priorValid /\ input.generationValid /\ input.modelCompatible

\* parp_context_lookup: whether memcg scoring, evidence and DAMON find a context.
context_lookup(s, d, t) ==
    LET b == BindingOf(s, d)
        p == PriorOf(s, b.app)
    IN  /\ t < s.expires
        /\ b # NoBinding /\ t < b.expires
        /\ p # NoPrior /\ t < p.expires /\ p.model = b.model

-----------------------------------------------------------------------------
(* The writers.                                                            *)

\* bind_write: the generation is taken before the mutex.  (The counter skips 0
\* when it wraps; MaxCalls keeps it from wrapping here.)
Bind(w) ==
    /\ writer[w].pc = "idle" /\ Outside
    /\ \E d \in Domains, a \in Apps, m \in Models, ttl \in Ttls :
          writer' = [writer EXCEPT ![w] =
              [pc |-> "lock", op |-> "bind", new |-> None,
               arg |-> [domain |-> d, app |-> a, generation |-> bindGen + 1,
                        expires |-> now + ttl, model |-> m]]]
    /\ bindGen' = bindGen + 1
    /\ UNCHANGED <<snap, updateLock, now>>

\* prior_write
Prior(w) ==
    /\ writer[w].pc = "idle" /\ Outside
    /\ \E a \in Apps, m \in Models, ttl \in Ttls :
          writer' = [writer EXCEPT ![w] =
              [pc |-> "lock", op |-> "prior", new |-> None,
               arg |-> [app |-> a, score |-> 0, foreground |-> FALSE, expires |-> now + ttl,
                        model |-> m, generation |-> 0]]]
    /\ UNCHANGED <<snap, updateLock, bindGen, now>>

\* prior_batch_write: a malformed batch is refused before the mutex is taken.
PriorBatch(w) ==
    /\ writer[w].pc = "idle" /\ Outside
    /\ \E b \in Batches :
          writer' = IF validate_prior_batch(b, now)
                    THEN [writer EXCEPT ![w] = [pc |-> "lock", op |-> "batch", arg |-> b, new |-> None]]
                    ELSE writer
    /\ UNCHANGED <<snap, updateLock, bindGen, now>>

\* Defect: single priors are accepted next to a batch.
Refused_Batch(op, arg) == op = "batch" /\ arg.generation <= snap.generation

\* Defect: an older generation may replace a newer one.
Refused_Repeat(op, arg) ==
    \/ op = "prior" /\ snap.generation # 0
    \/ op = "batch" /\ arg.generation = snap.generation

\* -EBUSY of update_prior, -EALREADY and -ESTALE of replace_prior_batch.
Refused(op, arg) ==
    \/ op = "prior" /\ snap.generation # 0
    \/ op = "batch" /\ arg.generation <= snap.generation

\* Defect: the update mutex does not exclude.
UpdateLockFree_Always == TRUE

UpdateLockFree == updateLock = NoTask

Changed(op, arg) ==
    CASE op = "bind" -> WithBinding(Cloned(snap), arg)
      [] op = "prior" -> WithPrior(Cloned(snap), arg)
      [] op = "batch" -> WithBatch(Cloned(snap), arg)

\* Under the mutex: the checks, the allocation and the clone.
Update(w) ==
    /\ writer[w].pc = "lock" /\ UpdateLockFree
    /\ ~Refused(writer[w].op, writer[w].arg)
    /\ updateLock' = w
    /\ writer' = [writer EXCEPT ![w] = [IdleWriter EXCEPT !.pc = "publish",
                                          !.new = Changed(writer[w].op, writer[w].arg)]]
    /\ UNCHANGED <<snap, bindGen, now, calls>>

\* Defect: the error path keeps the mutex.
ErrorUnlock_Leaks(w) == updateLock' = w

ErrorUnlock(w) == updateLock' = updateLock

\* A refused update, or kzalloc() fails: the mutex is taken and released.
UpdateFails(w) ==
    /\ writer[w].pc = "lock" /\ UpdateLockFree
    /\ writer' = [writer EXCEPT ![w] = IdleWriter]
    /\ ErrorUnlock(w)
    /\ UNCHANGED <<snap, bindGen, now, calls>>

\* parp_publish_snapshot, and the mutex is released.
Publish(w) ==
    /\ writer[w].pc = "publish"
    /\ snap' = writer[w].new
    /\ updateLock' = NoTask
    /\ writer' = [writer EXCEPT ![w] = IdleWriter]
    /\ UNCHANGED <<bindGen, now, calls>>

Tick == now < MaxNow /\ now' = now + 1 /\ UNCHANGED <<snapshotVars, calls>>

WriterStep(w) == Bind(w) \/ Prior(w) \/ PriorBatch(w) \/ Update(w) \/ UpdateFails(w) \/ Publish(w)

SnapshotInit ==
    /\ snap = NoSnapshot /\ updateLock = NoTask
    /\ writer = [w \in Writers |-> IdleWriter]
    /\ bindGen = 0 /\ now = 1 /\ calls = 0

SnapshotNext == Tick \/ \E w \in Writers : WriterStep(w)

SnapshotSpec == SnapshotInit /\ [][SnapshotNext]_<<snapshotVars, now, calls>>

\* A mutex is granted to every waiter in turn; a holder keeps running.
WriterFairness ==
    \A w \in Writers :
        /\ SF_<<snapshotVars, now, calls>>(Update(w) \/ UpdateFails(w))
        /\ WF_<<snapshotVars, now, calls>>(Publish(w))

SnapshotFairSpec == SnapshotSpec /\ WriterFairness

-----------------------------------------------------------------------------
(* Properties.                                                             *)

PriorType == [app : Apps, score : Nat, foreground : BOOLEAN, expires : Nat, model : Nat, generation : Nat]
BindingType == [domain : Domains, app : Apps, generation : Nat, expires : Nat, model : Models]

SnapshotType ==
    [version : Nat, expires : Nat, generation : Nat, model : Nat, expiry : Nat,
     priors : Seq(PriorType), bindings : Seq(BindingType)]

WellFormed(s) ==
    /\ s \in SnapshotType
    /\ Len(s.priors) <= MaxApps /\ Len(s.bindings) <= MaxDomains
    /\ \A i, j \in 1..Len(s.bindings) : s.bindings[i].domain = s.bindings[j].domain => i = j
    /\ \A i, j \in 1..Len(s.priors) : s.priors[i].app = s.priors[j].app => i = j

FromOneBatch(s) ==
    s.generation # 0 =>
      /\ \A i \in 1..Len(s.priors) :
            /\ s.priors[i].generation = s.generation
            /\ s.priors[i].model = s.model
            /\ s.priors[i].expires = s.expiry
      /\ \A i, j \in 1..Len(s.priors) :
            s.priors[i].foreground /\ s.priors[j].foreground => i = j

Bound(s, d) == \E i \in 1..Len(s.bindings) : s.bindings[i].domain = d

Follows(s, next) ==
    /\ next.version = s.version + 1
    /\ next.generation >= s.generation
    /\ Len(s.bindings) < MaxDomains => \A d \in Domains : Bound(s, d) => Bound(next, d)

\* The snapshot's tables never outgrow their arrays, and each cgroup and each
\* application has at most one entry, also when a full table is overwritten.
SnapshotOK == WellFormed(snap)

\* Once a batch was accepted, all priors a reader can see come from the one
\* active batch: they carry its generation, model and expiry, and at most one
\* application is in the foreground (parp_snapshot_update_prior refuses to mix).
OneGeneration == FromOneBatch(snap)

\* The two readers of a snapshot test different fields for validity (the
\* snapshot's, the prediction's and the prior's expiry, two or three model
\* versions) but agree at every time about every cgroup once a batch is active:
\* scan budgets and memcg scoring never act on different answers.
ReadersAgree ==
    snap.generation # 0 =>
      \A d \in Domains :
        context_valid(fill_scan_budget_input(snap, d, now)) <=> context_lookup(snap, d, now)

\* Publications form one line: each replaces the snapshot it was cloned from,
\* a generation never goes back, and no writer undoes another's binding of a
\* cgroup unless the table is full.
UpdatesAreSerial == [][snap' # snap => Follows(snap, snap')]_snap

\* Every write of a debugfs file returns: the mutex is released on every path.
WritesReturn == \A w \in Writers : writer[w].pc # "idle" ~> writer[w].pc = "idle"
=============================================================================
