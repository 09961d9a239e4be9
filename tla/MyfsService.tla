----------------------------- MODULE MyfsService -----------------------------
(***************************************************************************)
(* Runtime-monitor processes that publish their predictions through         *)
(* /dev/myfs (class PARPMyfsBridge), composed with the device.  A publisher *)
(* synchronises its generation with the kernel when it starts, turns each   *)
(* successful inference into one message, and retries once when the kernel  *)
(* says that its generation is out of date.  Publishers are killed and      *)
(* restarted, opens and allocations fail, time passes between any two       *)
(* steps.                                                                   *)
(***************************************************************************)
EXTENDS MyfsDevice

CONSTANTS Publishers,    \* service processes that may have the device open
          NoPublisher,   \* the update lock is free
          Modes,         \* modes a publisher is started in: "dry-run", "apply"
          Enabled,       \* the applications with prediction_enabled
          Events,        \* the inferences that may occur
          Ttl,           \* prior_ttl_ms
          MaxNow, MaxCalls, MaxFaults, MaxKills    \* bounds of the model

ASSUME MyfsServiceAssumption ==
    /\ NoPublisher \notin Publishers
    /\ Modes \subseteq {"dry-run", "apply"}
    /\ Enabled \subseteq Apps
    /\ Ttl \in 1..MaxTtl
    /\ MaxNow \in Nat \ {0} /\ MaxCalls \in Nat /\ MaxFaults \in Nat /\ MaxKills \in Nat
    /\ Events \subseteq
         [current : Apps \cup {0}, score : [Apps -> -1..ScoreMax],
          samples : SUBSET (Domains \X Apps), policy : Domains \cup {0}, hinted : SUBSET Domains]

VARIABLES pub,           \* the publishers
          now,           \* monotonic clock
          calls, faults, kills,
          sent           \* history: every message handed to a SET ioctl

vars == <<snap, updateLock, pub, now, calls, faults, kills, sent>>

Down == [pc |-> "down", mode |-> "apply", generation |-> 0, abi |-> 0, attempt |-> 0,
         msg |-> NoMessage, new |-> NoSnapshot, bound |-> {}, result |-> "none", clean |-> FALSE]

Init ==
    /\ snap = NoSnapshot /\ updateLock = NoPublisher
    /\ pub = [p \in Publishers |-> Down]
    /\ now = 1 /\ calls = 0 /\ faults = 0 /\ kills = 0 /\ sent = {}

---------------------------------------------------------------------------
(* From an inference to a message.                                          *)

\* The current application is the foreground one if it may be predicted.
Foreground(e) == {e.current} \cap Enabled

\* The other applications with a usable probability (-1: none, or invalid).
Scored(e) == {a \in Enabled : e.score[a] >= 0} \ {e.current}

\* Rank by descending score, then by identifier, after the foreground one.
RankOf(e, a) ==
    1 + Cardinality(Foreground(e))
      + Cardinality({b \in Scored(e) :
            e.score[b] > e.score[a] \/ (e.score[b] = e.score[a] /\ b < a)})

\* _prediction_entries(): at most MaxApps entries.
prediction_entries(e) ==
    {[app |-> a, score |-> ScoreMax, rank |-> 1, foreground |-> TRUE] : a \in Foreground(e)}
    \cup {[app |-> a, score |-> e.score[a], rank |-> RankOf(e, a), foreground |-> FALSE] :
            a \in {b \in Scored(e) : RankOf(e, b) <= MaxApps}}

\* The predicted applications with a process in a cgroup.
Owners(e, d) == {en.app : en \in {f \in prediction_entries(e) : <<d, f.app>> \in e.samples}}

\* A defect: a cgroup shared by two applications is bound to both.
Bindable_Shared(e) == {d \in Domains : Owners(e, d) # {}}

\* A cgroup with processes of two applications has no owner.
Bindable(e) == {d \in Domains : Cardinality(Owners(e, d)) = 1}

\* _bindings(): the first MaxDomains of them in the order of their identifiers.
bindings_of(e) ==
    UNION {{[domain |-> d, app |-> a, hint |-> d \in e.hinted] : a \in Owners(e, d)} :
        d \in {c \in Bindable(e) : Cardinality({b \in Bindable(e) : b < c}) < MaxDomains}}

\* _make_state_v3(): everything one inference has to say.
make_state(e, g) ==
    [generation |-> g, timestamp |-> now, expiry |-> now + Ttl,
     entries |-> prediction_entries(e), bindings |-> bindings_of(e), ws |-> e.policy]

\* What of it the negotiated ABI carries: hints from v3 on, the working set
\* from v2 on.  An ABI never negotiated is treated as v1.
Payload(abi, m) ==
    [m EXCEPT !.ws = IF abi >= 2 THEN @ ELSE 0,
              !.bindings = {[b EXCEPT !.hint = @ /\ abi = 3] : b \in @}]

\* All three forms of the message are built, one is sent: a retry that has
\* learnt the ABI sends what the first attempt had to leave out.
Wire(r) == Payload(r.abi, r.msg)

---------------------------------------------------------------------------
(* The steps of a publisher.                                                *)

Clock == UNCHANGED <<now, calls, kills>>
Device == UNCHANGED <<snap, updateLock>>
Fault == faults < MaxFaults /\ faults' = faults + 1
NoFault == UNCHANGED faults

\* The service is started.
Start(p, m) ==
    /\ pub[p].pc = "down"
    /\ pub' = [pub EXCEPT ![p] = [Down EXCEPT !.pc = "probe", !.mode = m]]
    /\ Device /\ Clock /\ NoFault /\ UNCHANGED sent

\* __init__() asks for the kernel's ABI and generation.
Probe(p) ==
    /\ pub[p].pc = "probe"
    /\ pub' = [pub EXCEPT ![p].pc = "idle", ![p].abi = KernelAbi,
                          ![p].generation = snap.generation]
    /\ Device /\ Clock /\ NoFault /\ UNCHANGED sent

\* The device is missing or not readable: the service runs on from generation 0.
ProbeFails(p) ==
    /\ pub[p].pc = "probe" /\ Fault
    /\ pub' = [pub EXCEPT ![p].pc = "idle"]
    /\ Device /\ Clock /\ UNCHANGED sent

\* submit_prediction() up to the ioctl; a dry run ends there, and an inference
\* without a usable entry is dropped before it takes a generation.
Submit(p, e) ==
    /\ pub[p].pc = "idle" /\ calls < MaxCalls
    /\ calls' = calls + 1
    /\ LET g == pub[p].generation + 1
       IN  pub' = IF prediction_entries(e) = {} THEN pub
                  ELSE IF pub[p].mode = "dry-run" THEN [pub EXCEPT ![p].generation = g]
                  ELSE [pub EXCEPT ![p].pc = "open", ![p].generation = g, ![p].attempt = 0,
                                   ![p].msg = make_state(e, g), ![p].result = "none",
                                   ![p].clean = FALSE]
    /\ Device /\ NoFault /\ UNCHANGED <<now, kills, sent>>

\* open() fails, or the ioctl does before it validates: no retry.
OpenFails(p) ==
    /\ pub[p].pc = "open" /\ Fault
    /\ pub' = [pub EXCEPT ![p].pc = "idle", ![p].result = "error"]
    /\ Device /\ Clock /\ UNCHANGED sent

\* The SET ioctl copies the message in and validates it.
Set(p) ==
    LET m == Wire(pub[p])
    IN  /\ pub[p].pc = "open"
        /\ sent' = sent \cup {m}
        /\ pub' = IF Accepts(m, now)
                  THEN [pub EXCEPT ![p].pc = "lock"]
                  ELSE [pub EXCEPT ![p].pc = "idle", ![p].result = "invalid"]
        /\ Device /\ Clock /\ NoFault

\* The generation of a message is used up: -EALREADY or -ESTALE.
NotNewer(m) == m.generation <= snap.generation

\* Under the update lock: a stale message leaves at once, else a clone of the
\* active snapshot is made and filled in.
Update(p) ==
    /\ pub[p].pc = "lock" /\ updateLock = NoPublisher
    /\ IF NotNewer(pub[p].msg)
       THEN /\ pub' = [pub EXCEPT ![p].pc = "stale"]
            /\ UNCHANGED updateLock
       ELSE /\ pub' = [pub EXCEPT ![p].pc = "publish", ![p].new = Replaced(snap, Wire(pub[p]))]
            /\ updateLock' = p
    /\ Clock /\ NoFault /\ UNCHANGED <<snap, sent>>

\* A defect: the error path returns with the update lock held.
NoMem_KeepsLock(p) ==
    /\ pub[p].pc = "lock" /\ updateLock = NoPublisher /\ ~NotNewer(pub[p].msg) /\ Fault
    /\ updateLock' = p
    /\ pub' = [pub EXCEPT ![p].pc = "idle", ![p].result = "error"]
    /\ Clock /\ UNCHANGED <<snap, sent>>

\* The clone cannot be allocated: -ENOMEM, the lock is released.
NoMem(p) ==
    /\ pub[p].pc = "lock" /\ updateLock = NoPublisher /\ ~NotNewer(pub[p].msg) /\ Fault
    /\ pub' = [pub EXCEPT ![p].pc = "idle", ![p].result = "error"]
    /\ Clock /\ UNCHANGED <<snap, updateLock, sent>>

\* rcu_assign_pointer(), unlock, and the service notes the success.
Publish(p) ==
    /\ pub[p].pc = "publish"
    /\ snap' = pub[p].new /\ updateLock' = NoPublisher
    /\ pub' = [q \in Publishers |->
                IF q = p
                THEN [pub[p] EXCEPT !.pc = "idle", !.result = "applied", !.new = NoSnapshot,
                                    !.bound = {b.app : b \in pub[p].msg.bindings}]
                ELSE [pub[q] EXCEPT !.clean = FALSE]]
    /\ Clock /\ NoFault /\ UNCHANGED sent

\* The service sees EALREADY or ESTALE; only the first attempt is repeated.
Stale(p) ==
    /\ pub[p].pc = "stale"
    /\ pub' = IF pub[p].attempt = 0
              THEN [pub EXCEPT ![p].pc = "resync"]
              ELSE [pub EXCEPT ![p].pc = "idle", ![p].result = "stale"]
    /\ Device /\ Clock /\ NoFault /\ UNCHANGED sent

\* A defect: the retry reuses the generation it has just read.
Retried_SameGeneration(r, g) ==
    [r EXCEPT !.pc = "open", !.attempt = 1, !.generation = g, !.msg.generation = g]

\* The message is sent again under the generation after g.
Retried(r, g) ==
    [r EXCEPT !.pc = "open", !.attempt = 1, !.generation = g + 1, !.msg.generation = g + 1]

\* _synchronize_generation() before the retry, which may also learn the ABI.
Resync(p) ==
    /\ pub[p].pc = "resync"
    /\ pub' = [pub EXCEPT ![p] =
                [Retried(pub[p], snap.generation) EXCEPT !.abi = KernelAbi, !.clean = TRUE]]
    /\ Device /\ Clock /\ NoFault /\ UNCHANGED sent

\* It fails: the retry only counts on from the service's own generation.
ResyncFails(p) ==
    /\ pub[p].pc = "resync" /\ Fault
    /\ pub' = [pub EXCEPT ![p] = Retried(pub[p], pub[p].generation)]
    /\ Device /\ Clock /\ UNCHANGED sent

\* The service dies.  Inside the kernel it first returns from the ioctl.
Kill(p) ==
    /\ pub[p].pc \in {"probe", "idle", "open", "stale", "resync"} /\ kills < MaxKills
    /\ kills' = kills + 1
    /\ pub' = [pub EXCEPT ![p] = Down]
    /\ Device /\ NoFault /\ UNCHANGED <<now, calls, sent>>

Tick ==
    /\ now < MaxNow /\ now' = now + 1
    /\ Device /\ NoFault /\ UNCHANGED <<pub, calls, kills, sent>>

Step(p) ==
    \/ Probe(p) \/ ProbeFails(p) \/ OpenFails(p) \/ Set(p) \/ Update(p) \/ NoMem(p)
    \/ Publish(p) \/ Stale(p) \/ Resync(p) \/ ResyncFails(p)

Next ==
    \/ \E p \in Publishers :
         \/ \E m \in Modes : Start(p, m)
         \/ \E e \in Events : Submit(p, e)
         \/ Step(p) \/ Kill(p)
    \/ Tick

Spec == Init /\ [][Next]_vars

\* A running service and a system call go on; a mutex that is free again and
\* again is handed to whoever waits for it.
FairSpec == Spec /\ \A p \in Publishers : WF_vars(Step(p)) /\ SF_vars(Update(p) \/ NoMem(p))

---------------------------------------------------------------------------
(* Properties.                                                              *)

PublisherStates ==
    [pc : {"down", "probe", "idle", "open", "lock", "publish", "stale", "resync"},
     mode : {"dry-run", "apply"}, generation : Nat, abi : 0..3, attempt : 0..1,
     msg : Messages, new : Snapshots, bound : SUBSET Apps,
     result : {"none", "applied", "stale", "invalid", "error"}, clean : BOOLEAN]

\* The ranges of the variables.
MyfsTypeOK ==
    /\ snap \in Snapshots /\ updateLock \in Publishers \cup {NoPublisher}
    /\ pub \in [Publishers -> PublisherStates]
    /\ now \in Nat /\ sent \in SUBSET Messages

\* One ioctl is one publication: what the kernel's readers see is at all times
\* one whole message handed to a SET ioctl (parp_snapshot_replace_state() keeps
\* nothing of an older one), and generations only grow, across retries,
\* concurrent publishers and restarts of the service.
Published == INSTANCE PublishedState WITH
    published <- GetState(snap), offered <- sent, Nothing <- NoMessage

PublishedSpec == Published!Spec

\* The service builds no message the kernel finds invalid: ranks, the
\* foreground flag, the size limits and the owners of cgroups always satisfy
\* parp_validate_prior_batch() and parp_validate_bindings().  The time to live is
\* assumed to be within the kernel's limit: prior_ttl_ms has no upper limit in
\* the service, and a larger one would have every message refused.
MessagesAreValid == \A p \in Publishers : pub[p].result # "invalid"

\* One retry is enough: a prediction is given up as stale only if the resync
\* before the retry failed or another publisher published after it.  In
\* particular a restarted service never loses a prediction to the generation
\* its predecessor had reached.
RetryIsEnough == \A p \in Publishers : pub[p].result = "stale" => ~pub[p].clean

\* The two reclaim paths, which check different copies of the expiry and the
\* generation, agree at every time which cgroups have a prediction, and no
\* working set outlives the prediction it came with.
LookupsAgree ==
    \A d \in Domains, t \in 0..(MaxNow + MaxTtl) :
        /\ ScanInputValid(snap, d, t) <=> context_lookup(snap, d, t)
        /\ workingset_lookup(snap, d, t) => t < snap.expires

\* submit_prediction() returns, whatever the other publishers do.
SubmissionEnds == \A p \in Publishers : pub[p].pc = "open" ~> pub[p].pc \in {"idle", "down"}
=============================================================================
