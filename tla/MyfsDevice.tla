------------------------------ MODULE MyfsDevice ------------------------------
(***************************************************************************)
(* /dev/myfs in the v4.2 kernel: how one SET ioctl is validated, how it     *)
(* replaces the immutable snapshot, and what the lock-free readers make of  *)
(* it.  Arrays are sets (their order is never used); the parts of a message *)
(* that every message of a session shares (schema, model version, horizon)  *)
(* are left out.                                                            *)
(***************************************************************************)
EXTENDS Integers, FiniteSets

CONSTANTS Apps,          \* application identifiers, positive
          Domains,       \* cgroup inode numbers, positive
          ScoreMax,      \* PARP_Q15_ONE
          MaxApps,       \* PARP_MAX_APPS, PARP_PREDICT_MAX_APPS
          MaxDomains,    \* PARP_MAX_DOMAINS, PARP_PREDICT_MAX_BINDINGS
          MaxTtl,        \* PARP_APP_PRIOR_MAX_TTL_NS
          MaxSkew,       \* how far a timestamp may lie in the future (5 s)
          MaxAge,        \* PARP_WORKINGSET_MAX_AGE_NS
          KernelAbi      \* the newest ABI the running kernel answers: 1, 2 or 3

ASSUME MyfsDeviceAssumption ==
    /\ Apps \subseteq Nat \ {0} /\ IsFiniteSet(Apps)
    /\ Domains \subseteq Nat \ {0} /\ IsFiniteSet(Domains)
    /\ {ScoreMax, MaxApps, MaxDomains, MaxTtl} \subseteq Nat \ {0}
    /\ MaxSkew \in Nat /\ MaxAge \in Nat
    /\ KernelAbi \in 1..3

VARIABLES snap,          \* parp_active_snapshot (generation 0: none yet)
          updateLock     \* owner of parp_snapshot_update_lock

\* parp_predict_entry_v1 and parp_predict_binding_v1/v3: a score of one
\* application, the owner of one cgroup and whether it carries a workload hint.
Entries == [app : Apps, score : 0..ScoreMax, rank : Nat, foreground : BOOLEAN]
Bindings == [domain : Domains, app : Apps, hint : BOOLEAN]

\* A message as parp_predict_set_state*() decodes it: expiry is timestamp plus
\* time to live, ws the cgroup of the working-set estimate or 0 without one.
Messages ==
    [generation : Nat, timestamp : Nat, expiry : Nat,
     entries : SUBSET Entries, bindings : SUBSET Bindings, ws : Domains \cup {0}]

Snapshots ==
    [version : Nat, generation : Nat, timestamp : Nat, expiry : Nat, expires : Nat,
     priors : SUBSET [entry : Entries, generation : Nat, expires : Nat],
     bindings : SUBSET [binding : Bindings, generation : Nat, expires : Nat],
     ws : Domains \cup {0}]

NoMessage ==
    [generation |-> 0, timestamp |-> 0, expiry |-> 0, entries |-> {}, bindings |-> {}, ws |-> 0]

NoSnapshot ==
    [version |-> 0, generation |-> 0, timestamp |-> 0, expiry |-> 0, expires |-> 0,
     priors |-> {}, bindings |-> {}, ws |-> 0]

---------------------------------------------------------------------------
(* The checks a message must pass.                                          *)

\* parp_predict_validate_header*().
HeaderValid(m) ==
    /\ m.generation # 0 /\ m.timestamp # 0
    /\ m.entries # {} /\ Cardinality(m.entries) <= MaxApps
    /\ Cardinality(m.bindings) <= MaxDomains
    /\ m.expiry > m.timestamp /\ m.expiry - m.timestamp <= MaxTtl

\* parp_validate_prior_batch(): no application and no rank twice, one
\* foreground application at most.  An old timestamp is no reason to refuse.
validate_prior_batch(m, t) ==
    /\ m.timestamp <= t + MaxSkew
    /\ \A e \in m.entries : e.score <= ScoreMax /\ e.rank \in 1..Cardinality(m.entries)
    /\ \A e, f \in m.entries : e # f =>
          e.app # f.app /\ e.rank # f.rank /\ ~(e.foreground /\ f.foreground)

\* parp_validate_bindings(): every owner is predicted, no cgroup twice.
validate_bindings(m) ==
    /\ \A b \in m.bindings : \E e \in m.entries : e.app = b.app
    /\ \A b, c \in m.bindings : b # c => b.domain # c.domain

Accepts(m, t) == HeaderValid(m) /\ validate_prior_batch(m, t) /\ validate_bindings(m)

---------------------------------------------------------------------------
(* The replacement.                                                         *)

\* A defect: the working set of the cloned snapshot survives a message without one.
Replaced_KeepsWorkingSet(s, m) ==
    [version |-> s.version + 1, generation |-> m.generation,
     timestamp |-> m.timestamp, expiry |-> m.expiry, expires |-> m.expiry,
     priors |-> {[entry |-> e, generation |-> m.generation, expires |-> m.expiry] : e \in m.entries},
     bindings |-> {[binding |-> b, generation |-> m.generation, expires |-> m.expiry] : b \in m.bindings},
     ws |-> IF m.ws = 0 THEN s.ws ELSE m.ws]

\* A defect: the snapshot keeps the expiry the clone gave it.
Replaced_KeepsExpires(s, m) ==
    [Replaced_KeepsWorkingSet(s, m) EXCEPT
        !.ws = m.ws, !.expires = IF s.expires = 0 THEN m.timestamp + MaxTtl ELSE s.expires]

\* parp_snapshot_replace_state(): a clone of the active snapshot in which
\* everything a message carries is replaced.
Replaced(s, m) ==
    [version |-> s.version + 1, generation |-> m.generation,
     timestamp |-> m.timestamp, expiry |-> m.expiry, expires |-> m.expiry,
     priors |-> {[entry |-> e, generation |-> m.generation, expires |-> m.expiry] : e \in m.entries},
     bindings |-> {[binding |-> b, generation |-> m.generation, expires |-> m.expiry] : b \in m.bindings},
     ws |-> m.ws]

---------------------------------------------------------------------------
(* The readers.  Each runs inside one RCU section, on one snapshot.         *)

\* parp_predict_get_state*(): what the snapshot says, as a message.
GetState(s) ==
    [generation |-> s.generation, timestamp |-> s.timestamp, expiry |-> s.expiry,
     entries |-> {p.entry : p \in s.priors}, bindings |-> {b.binding : b \in s.bindings},
     ws |-> s.ws]

\* parp_snapshot_fill_scan_budget_input() sets every VALID flag.
ScanInputValid(s, d, t) ==
    \E b \in s.bindings :
      /\ b.binding.domain = d /\ b.generation # 0 /\ t < b.expires
      /\ \E p \in s.priors :
            /\ p.entry.app = b.binding.app
            /\ t < s.expiry /\ p.generation = s.generation
      /\ s.generation # 0

\* parp_context_lookup() returns true.
context_lookup(s, d, t) ==
    /\ s.version # 0 /\ t < s.expires
    /\ \E b \in s.bindings :
         /\ b.binding.domain = d /\ t < b.expires
         /\ \E p \in s.priors : p.entry.app = b.binding.app /\ t < p.expires

\* parp_workingset_prediction_lookup() returns true.
workingset_lookup(s, d, t) ==
    /\ s.ws # 0 /\ s.ws = d
    /\ t >= s.timestamp /\ t - s.timestamp <= MaxAge /\ t < s.expiry
    /\ s.generation # 0
=============================================================================
