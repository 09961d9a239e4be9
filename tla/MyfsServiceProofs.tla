-------------------------- MODULE MyfsServiceProofs --------------------------
(***************************************************************************)
(* The publication protocol of /dev/myfs implements PublishedState, one     *)
(* retry is enough, and the reclaim paths agree, for every number of        *)
(* publishers, applications, cgroups, faults and restarts.                  *)
(***************************************************************************)
EXTENDS MyfsService, FiniteSetTheorems, TLAPS

---------------------------------------------------------------------------
(* Messages and snapshots.                                                  *)

\* A rank is a number.
LEMMA RankIsNat == ASSUME NEW e, NEW a PROVE RankOf(e, a) \in Nat
<1>1. IsFiniteSet(Enabled)
  BY FS_Subset, MyfsDeviceAssumption, MyfsServiceAssumption
<1>2. Cardinality(Foreground(e)) \in Nat
  <2>1. IsFiniteSet(Foreground(e))
    BY <1>1, FS_Subset DEF Foreground
  <2> QED BY <2>1, FS_CardinalityType
<1>3. Cardinality({b \in Scored(e) :
            e.score[b] > e.score[a] \/ (e.score[b] = e.score[a] /\ b < a)}) \in Nat
  <2>1. {b \in Scored(e) : e.score[b] > e.score[a] \/ (e.score[b] = e.score[a] /\ b < a)}
            \in SUBSET Enabled
    BY DEF Scored
  <2> QED BY <1>1, <2>1, FS_Subset, FS_CardinalityType
<1> QED BY <1>2, <1>3 DEF RankOf

\* What make_state() builds is a message.
LEMMA StateIsMessage ==
    ASSUME NEW e \in Events, NEW g \in Nat, now \in Nat
    PROVE  make_state(e, g) \in Messages
<1>0. /\ e.current \in Apps \cup {0} /\ e.policy \in Domains \cup {0}
      /\ \A a \in Apps : e.score[a] \in -1..ScoreMax
  BY MyfsServiceAssumption
<1>1. prediction_entries(e) \in SUBSET Entries
  <2>1. ASSUME NEW a \in Foreground(e)
        PROVE  [app |-> a, score |-> ScoreMax, rank |-> 1, foreground |-> TRUE] \in Entries
    BY <2>1, MyfsDeviceAssumption, MyfsServiceAssumption DEF Foreground, Entries
  <2>2. ASSUME NEW a \in Scored(e)
        PROVE  [app |-> a, score |-> e.score[a], rank |-> RankOf(e, a), foreground |-> FALSE]
                    \in Entries
    <3>1. a \in Apps /\ e.score[a] \in 0..ScoreMax
      BY <1>0, <2>2, MyfsServiceAssumption, MyfsDeviceAssumption DEF Scored
    <3> QED BY <3>1, RankIsNat DEF Entries
  <2> QED BY <2>1, <2>2 DEF prediction_entries
<1>2. bindings_of(e) \in SUBSET Bindings
  <2>1. ASSUME NEW d \in Domains, NEW a \in Owners(e, d)
        PROVE  [domain |-> d, app |-> a, hint |-> d \in e.hinted] \in Bindings
    <3>1. a \in Apps
      BY <1>1 DEF Owners, Entries
    <3> QED BY <3>1 DEF Bindings
  <2>2. SUFFICES ASSUME NEW b \in bindings_of(e) PROVE b \in Bindings
    OBVIOUS
  <2>3. PICK d \in Domains : b \in {[domain |-> d, app |-> a, hint |-> d \in e.hinted] : a \in Owners(e, d)}
    BY <2>2 DEF bindings_of, Bindable
  <2>4. PICK a \in Owners(e, d) : b = [domain |-> d, app |-> a, hint |-> d \in e.hinted]
    BY <2>3
  <2> QED BY <2>1, <2>4
<1>3. Ttl \in Nat
  BY MyfsServiceAssumption, MyfsDeviceAssumption
<1> QED BY <1>0, <1>1, <1>2, <1>3 DEF make_state, Messages

\* Leaving out what an older ABI cannot carry keeps a message a message.
LEMMA PayloadIsMessage ==
    ASSUME NEW m \in Messages, NEW abi \in 0..3
    PROVE  /\ Payload(abi, m) \in Messages
           /\ Payload(abi, m).generation = m.generation
<1>1. \A b \in m.bindings : [b EXCEPT !.hint = @ /\ abi = 3] \in Bindings
  BY DEF Messages, Bindings
<1> QED BY <1>1 DEF Payload, Messages

\* The form of a publisher's message that is sent is a message of its generation.
LEMMA WireIsMessage ==
    ASSUME NEW r \in PublisherStates
    PROVE  Wire(r) \in Messages /\ Wire(r).generation = r.msg.generation
<1>1. r.abi \in 0..3 /\ r.msg \in Messages
  BY DEF PublisherStates
<1> QED BY <1>1, PayloadIsMessage DEF Wire

\* What replaces a snapshot is a snapshot.
LEMMA ReplacedIsSnapshot ==
    ASSUME NEW s \in Snapshots, NEW m \in Messages
    PROVE  Replaced(s, m) \in Snapshots
BY DEF Replaced, Snapshots, Messages

\* The replaced snapshot says exactly what the message said.
LEMMA ReplacedSaysMessage ==
    ASSUME NEW s \in Snapshots, NEW m \in Messages
    PROVE  GetState(Replaced(s, m)) = m
<1> DEFINE P(e) == [entry |-> e, generation |-> m.generation, expires |-> m.expiry]
           B(b) == [binding |-> b, generation |-> m.generation, expires |-> m.expiry]
<1>1. {p.entry : p \in {P(e) : e \in m.entries}} = m.entries
  <2>1. \A e \in m.entries : P(e).entry = e
    OBVIOUS
  <2>2. \A p \in {P(e) : e \in m.entries} : p.entry \in m.entries
    BY <2>1
  <2> HIDE DEF P
  <2>3. \A e \in m.entries : P(e) \in {P(f) : f \in m.entries}
    OBVIOUS
  <2>4. \A e \in m.entries : \E p \in {P(f) : f \in m.entries} : e = p.entry
    BY <2>1, <2>3
  <2> QED BY <2>2, <2>4
<1>2. {b.binding : b \in {B(b) : b \in m.bindings}} = m.bindings
  <2>1. \A b \in m.bindings : B(b).binding = b
    OBVIOUS
  <2>2. \A b \in {B(c) : c \in m.bindings} : b.binding \in m.bindings
    BY <2>1
  <2> HIDE DEF B
  <2>3. \A b \in m.bindings : B(b) \in {B(c) : c \in m.bindings}
    OBVIOUS
  <2>4. \A b \in m.bindings : \E c \in {B(f) : f \in m.bindings} : b = c.binding
    BY <2>1, <2>3
  <2> QED BY <2>2, <2>4
<1>3. GetState(Replaced(s, m)) =
        [generation |-> m.generation, timestamp |-> m.timestamp, expiry |-> m.expiry,
         entries |-> m.entries, bindings |-> m.bindings, ws |-> m.ws]
  BY <1>1, <1>2 DEF GetState, Replaced
<1> QED BY <1>3 DEF Messages

---------------------------------------------------------------------------
(* Types.                                                                   *)

\* The initial values have their types.
LEMMA NothingTypes == NoMessage \in Messages /\ NoSnapshot \in Snapshots /\ Down \in PublisherStates
<1>1. NoMessage \in Messages
  BY DEF NoMessage, Messages
<1>2. NoSnapshot \in Snapshots
  BY DEF NoSnapshot, Snapshots
<1> QED BY <1>1, <1>2 DEF Down, PublisherStates

\* A field of a publisher may be given any value of its own type.
LEMMA FieldUpdates ==
    ASSUME NEW r \in PublisherStates
    PROVE  /\ \A x \in {"probe", "idle", "open", "lock", "publish", "stale", "resync"} :
                  [r EXCEPT !.pc = x] \in PublisherStates
           /\ \A x \in {"dry-run", "apply"} : [r EXCEPT !.mode = x] \in PublisherStates
           /\ \A x \in Nat : [r EXCEPT !.generation = x] \in PublisherStates
           /\ \A x \in 0..3 : [r EXCEPT !.abi = x] \in PublisherStates
           /\ [r EXCEPT !.attempt = 0] \in PublisherStates
           /\ [r EXCEPT !.attempt = 1] \in PublisherStates
           /\ \A x \in Messages : [r EXCEPT !.msg = x] \in PublisherStates
           /\ \A x \in Snapshots : [r EXCEPT !.new = x] \in PublisherStates
           /\ \A x \in SUBSET Apps : [r EXCEPT !.bound = x] \in PublisherStates
           /\ \A x \in {"none", "applied", "stale", "invalid", "error"} :
                  [r EXCEPT !.result = x] \in PublisherStates
           /\ \A x \in BOOLEAN : [r EXCEPT !.clean = x] \in PublisherStates
<1>1. [r EXCEPT !.attempt = 0] \in PublisherStates
  BY DEF PublisherStates
<1>2. [r EXCEPT !.attempt = 1] \in PublisherStates
  BY DEF PublisherStates
<1>3. \A x \in Nat : [r EXCEPT !.generation = x] \in PublisherStates
  BY DEF PublisherStates
<1>4. \A x \in 0..3 : [r EXCEPT !.abi = x] \in PublisherStates
  BY DEF PublisherStates
<1>5. /\ \A x \in Messages : [r EXCEPT !.msg = x] \in PublisherStates
      /\ \A x \in Snapshots : [r EXCEPT !.new = x] \in PublisherStates
      /\ \A x \in SUBSET Apps : [r EXCEPT !.bound = x] \in PublisherStates
      /\ \A x \in BOOLEAN : [r EXCEPT !.clean = x] \in PublisherStates
  BY DEF PublisherStates
<1>6. /\ \A x \in {"probe", "idle", "open", "lock", "publish", "stale", "resync"} :
            [r EXCEPT !.pc = x] \in PublisherStates
      /\ \A x \in {"dry-run", "apply"} : [r EXCEPT !.mode = x] \in PublisherStates
      /\ \A x \in {"none", "applied", "stale", "invalid", "error"} :
            [r EXCEPT !.result = x] \in PublisherStates
  BY DEF PublisherStates
<1> QED BY <1>1, <1>2, <1>3, <1>4, <1>5, <1>6

\* The types hold when the device is registered and no service has started.
LEMMA TypeInit == Init => MyfsTypeOK
BY NothingTypes DEF Init, MyfsTypeOK

\* Every step of a publisher, a kill and the clock keep the types.
LEMMA TypeStep == MyfsTypeOK /\ [Next]_vars => MyfsTypeOK'
<1> SUFFICES ASSUME MyfsTypeOK, [Next]_vars PROVE MyfsTypeOK'
  OBVIOUS
<1> USE DEF MyfsTypeOK
<1>a. ASSUME NEW p \in Publishers, NEW r \in PublisherStates, pub' = [pub EXCEPT ![p] = r]
      PROVE  pub' \in [Publishers -> PublisherStates]
  BY <1>a
<1>1. ASSUME NEW p \in Publishers, NEW m \in Modes, Start(p, m) PROVE MyfsTypeOK'
  <2>1. [Down EXCEPT !.pc = "probe", !.mode = m] \in PublisherStates
    BY NothingTypes, MyfsServiceAssumption, FieldUpdates
  <2> QED BY <1>1, <2>1 DEF Start, Device, Clock
<1>2. ASSUME NEW p \in Publishers, Probe(p) PROVE MyfsTypeOK'
  <2>1. [pub[p] EXCEPT !.pc = "idle", !.abi = KernelAbi, !.generation = snap.generation]
            \in PublisherStates
    <3>1. KernelAbi \in 0..3 /\ snap.generation \in Nat
      BY MyfsDeviceAssumption DEF Snapshots
    <3> QED BY <3>1, FieldUpdates
  <2> QED BY <1>2, <2>1 DEF Probe, Device, Clock
<1>3. ASSUME NEW p \in Publishers, ProbeFails(p) PROVE MyfsTypeOK'
  <2>1. [pub[p] EXCEPT !.pc = "idle"] \in PublisherStates
    BY FieldUpdates
  <2> QED BY <1>3, <2>1 DEF ProbeFails, Device, Clock
<1>4. ASSUME NEW p \in Publishers, NEW e \in Events, Submit(p, e) PROVE MyfsTypeOK'
  <2> DEFINE g == pub[p].generation + 1
  <2>0. g \in Nat
    BY DEF PublisherStates
  <2>1. [pub[p] EXCEPT !.generation = g] \in PublisherStates
    BY <2>0, FieldUpdates
  <2>2. make_state(e, g) \in Messages
    BY <2>0, StateIsMessage
  <2>3. [pub[p] EXCEPT !.pc = "open", !.generation = g, !.attempt = 0,
                       !.msg = make_state(e, g), !.result = "none", !.clean = FALSE]
            \in PublisherStates
    <3>1. [pub[p] EXCEPT !.pc = "open", !.generation = g] \in PublisherStates
      BY <2>0, FieldUpdates
    <3>2. [pub[p] EXCEPT !.pc = "open", !.generation = g, !.attempt = 0,
                         !.msg = make_state(e, g)] \in PublisherStates
      BY <2>2, <3>1, FieldUpdates
    <3> QED BY <3>2, FieldUpdates
  <2> HIDE DEF g
  <2>4. pub' \in [Publishers -> PublisherStates]
    BY <1>4, <2>1, <2>3 DEF Submit, g
  <2> QED BY <1>4, <2>4 DEF Submit, Device
<1>5. ASSUME NEW p \in Publishers, OpenFails(p) PROVE MyfsTypeOK'
  <2>1. [pub[p] EXCEPT !.pc = "idle", !.result = "error"] \in PublisherStates
    BY FieldUpdates
  <2> QED BY <1>5, <2>1 DEF OpenFails, Device, Clock
<1>6. ASSUME NEW p \in Publishers, Set(p) PROVE MyfsTypeOK'
  <2>1. Wire(pub[p]) \in Messages
    BY WireIsMessage
  <2>2. [pub[p] EXCEPT !.pc = "lock"] \in PublisherStates
    BY FieldUpdates
  <2>3. [pub[p] EXCEPT !.pc = "idle", !.result = "invalid"] \in PublisherStates
    BY FieldUpdates
  <2>4. pub' \in [Publishers -> PublisherStates] /\ sent' \in SUBSET Messages
    BY <1>6, <2>1, <2>2, <2>3 DEF Set
  <2> QED BY <1>6, <2>4 DEF Set, Device, Clock
<1>7. ASSUME NEW p \in Publishers, Update(p) PROVE MyfsTypeOK'
  <2>1. [pub[p] EXCEPT !.pc = "stale"] \in PublisherStates
    BY FieldUpdates
  <2>2. Replaced(snap, Wire(pub[p])) \in Snapshots
    BY ReplacedIsSnapshot, WireIsMessage
  <2>3. [pub[p] EXCEPT !.pc = "publish", !.new = Replaced(snap, Wire(pub[p]))] \in PublisherStates
    BY <2>2, FieldUpdates
  <2> QED BY <1>7, <2>1, <2>3 DEF Update, Clock
<1>8. ASSUME NEW p \in Publishers, NoMem(p) PROVE MyfsTypeOK'
  <2>1. [pub[p] EXCEPT !.pc = "idle", !.result = "error"] \in PublisherStates
    BY FieldUpdates
  <2> QED BY <1>8, <2>1 DEF NoMem, Clock
<1>9. ASSUME NEW p \in Publishers, Publish(p) PROVE MyfsTypeOK'
  <2> DEFINE B == {b.app : b \in pub[p].msg.bindings}
  <2>1. B \in SUBSET Apps
    BY DEF PublisherStates, Messages, Bindings
  <2>2. [pub[p] EXCEPT !.pc = "idle", !.result = "applied", !.new = NoSnapshot, !.bound = B]
            \in PublisherStates
    BY <2>1, NothingTypes, FieldUpdates
  <2>3. \A q \in Publishers : [pub[q] EXCEPT !.clean = FALSE] \in PublisherStates
    BY FieldUpdates
  <2>4. pub[p].new \in Snapshots
    BY DEF PublisherStates
  <2> HIDE DEF B
  <2>5. pub' \in [Publishers -> PublisherStates]
    BY <1>9, <2>2, <2>3 DEF Publish, B
  <2> QED BY <1>9, <2>4, <2>5 DEF Publish, Clock
<1>10. ASSUME NEW p \in Publishers, Stale(p) PROVE MyfsTypeOK'
  <2>1. [pub[p] EXCEPT !.pc = "resync"] \in PublisherStates
    BY FieldUpdates
  <2>2. [pub[p] EXCEPT !.pc = "idle", !.result = "stale"] \in PublisherStates
    BY FieldUpdates
  <2> QED BY <1>10, <2>1, <2>2 DEF Stale, Device, Clock
<1>b. ASSUME NEW r \in PublisherStates, NEW g \in Nat PROVE Retried(r, g) \in PublisherStates
  <2>1. [r.msg EXCEPT !.generation = g + 1] \in Messages
    BY DEF PublisherStates, Messages
  <2>2. g + 1 \in Nat
    OBVIOUS
  <2>3. [r EXCEPT !.pc = "open", !.attempt = 1, !.generation = g + 1] \in PublisherStates
    <3>1. [r EXCEPT !.pc = "open", !.attempt = 1] \in PublisherStates
      BY FieldUpdates
    <3> QED BY <2>2, <3>1, FieldUpdates
  <2>4. [[r EXCEPT !.pc = "open", !.attempt = 1, !.generation = g + 1]
            EXCEPT !.msg = [r.msg EXCEPT !.generation = g + 1]] \in PublisherStates
    BY <2>1, <2>3, FieldUpdates
  <2>5. [r EXCEPT !.pc = "open", !.attempt = 1, !.generation = g + 1].msg = r.msg
    BY DEF PublisherStates
  <2> QED BY <2>4, <2>5 DEF Retried
<1>11. ASSUME NEW p \in Publishers, Resync(p) PROVE MyfsTypeOK'
  <2>0. KernelAbi \in 0..3
    BY MyfsDeviceAssumption
  <2>1. Retried(pub[p], snap.generation) \in PublisherStates
    BY <1>b DEF Snapshots
  <2>2. [Retried(pub[p], snap.generation) EXCEPT !.abi = KernelAbi, !.clean = TRUE] \in PublisherStates
    BY <2>0, <2>1, FieldUpdates
  <2> QED BY <1>11, <2>2 DEF Resync, Device, Clock
<1>12. ASSUME NEW p \in Publishers, ResyncFails(p) PROVE MyfsTypeOK'
  <2>1. pub[p].generation \in Nat
    BY DEF PublisherStates
  <2>2. Retried(pub[p], pub[p].generation) \in PublisherStates
    BY <1>b, <2>1
  <2> QED BY <1>12, <2>2 DEF ResyncFails, Device, Clock
<1>13. ASSUME NEW p \in Publishers, Kill(p) PROVE MyfsTypeOK'
  BY <1>13, NothingTypes DEF Kill, Device
<1>14. ASSUME Tick PROVE MyfsTypeOK'
  BY <1>14 DEF Tick, Device
<1>15. ASSUME UNCHANGED vars PROVE MyfsTypeOK'
  BY <1>15 DEF vars
<1> QED
  BY <1>1, <1>2, <1>3, <1>4, <1>5, <1>6, <1>7, <1>8, <1>9, <1>10, <1>11, <1>12, <1>13, <1>14,
     <1>15 DEF Next, Step

---------------------------------------------------------------------------
(* The inductive invariant.                                                 *)

\* Every copy of the generation and of the expiry in a snapshot is the same.
Uniform(s) ==
    \/ s = NoSnapshot
    \/ /\ s.version # 0 /\ s.generation # 0 /\ s.expires = s.expiry
       /\ \A p \in s.priors : p.generation = s.generation /\ p.expires = s.expiry
       /\ \A b \in s.bindings : b.generation = s.generation /\ b.expires = s.expiry

\* Past the validation a message is one that was sent; past the generation
\* check its publisher owns the lock and its clone is one of the snapshot still
\* active; a retry that nobody overtook is newer than that snapshot.
Local(p) ==
    /\ pub[p].pc \in {"lock", "publish"} => Wire(pub[p]) \in sent /\ pub[p].msg.generation # 0
    /\ pub[p].pc = "publish" =>
         /\ updateLock = p
         /\ pub[p].new = Replaced(snap, Wire(pub[p]))
         /\ pub[p].msg.generation > snap.generation
    /\ pub[p].pc \in {"open", "lock", "publish", "stale", "resync"} => pub[p].result = "none"
    /\ pub[p].pc \in {"stale", "resync"} => ~pub[p].clean
    /\ pub[p].clean /\ pub[p].pc \in {"open", "lock"} => pub[p].msg.generation > snap.generation
    /\ pub[p].result = "stale" => ~pub[p].clean

\* The inductive invariant.
IInv == MyfsTypeOK /\ Uniform(snap) /\ \A p \in Publishers : Local(p)

\* parp_snapshot_replace_state() gives every entry the message's generation and
\* expiry.
LEMMA UniformReplaced ==
    ASSUME NEW s \in Snapshots, NEW m \in Messages, m.generation # 0
    PROVE  Uniform(Replaced(s, m))
BY DEF Uniform, Replaced, Snapshots, Messages

\* The inductive invariant holds initially.
LEMMA InitIInv == Init => IInv
<1> SUFFICES ASSUME Init PROVE IInv
  OBVIOUS
<1>1. Uniform(snap)
  BY DEF Init, Uniform
<1>2. \A p \in Publishers : Local(p)
  BY DEF Init, Local, Down
<1> QED BY TypeInit, <1>1, <1>2 DEF IInv

\* A step of p that leaves snapshot and lock alone does not disturb another q.
LEMMA OthersKeep ==
    ASSUME IInv, NEW p \in Publishers, NEW q \in Publishers, q # p, Local(q),
           pub'[q] = pub[q], UNCHANGED snap, sent \subseteq sent',
           updateLock' = updateLock \/ updateLock = NoPublisher
    PROVE  Local(q)'
<1>1. q # NoPublisher
  BY MyfsServiceAssumption
<1> QED BY <1>1 DEF Local

\* Every step keeps the inductive invariant.
LEMMA StepIInv == IInv /\ [Next]_vars => IInv'
<1> SUFFICES ASSUME IInv, [Next]_vars PROVE IInv'
  OBVIOUS
<1>0. MyfsTypeOK /\ MyfsTypeOK' /\ Uniform(snap) /\ \A p \in Publishers : Local(p)
  BY TypeStep DEF IInv
<1> SUFFICES Uniform(snap)' /\ \A q \in Publishers : Local(q)'
  BY <1>0 DEF IInv
<1>t. \A p \in Publishers : pub[p] \in PublisherStates
  BY <1>0 DEF MyfsTypeOK
<1>n. \A p \in Publishers : pub[p].msg.generation \in Nat /\ snap.generation \in Nat
  BY <1>0, <1>t DEF MyfsTypeOK, PublisherStates, Messages, Snapshots
<1>q. ASSUME NEW p \in Publishers, Local(p)', UNCHANGED snap, sent \subseteq sent',
             updateLock' = updateLock \/ updateLock = NoPublisher,
             \A q \in Publishers : q # p => pub'[q] = pub[q]
      PROVE  Uniform(snap)' /\ \A q \in Publishers : Local(q)'
  <2>1. \A q \in Publishers : Local(q)'
    BY <1>q, <1>0, OthersKeep
  <2>2. Uniform(snap)'
    BY <1>q, <1>0 DEF Uniform
  <2> QED BY <2>1, <2>2
<1>1. ASSUME NEW p \in Publishers, NEW m \in Modes, Start(p, m) PROVE Uniform(snap)' /\ \A q \in Publishers : Local(q)'
  <2>1. Local(p)'
    BY <1>1, <1>0, <1>t, <1>n DEF Start, Device, Clock, Local, MyfsTypeOK, PublisherStates, Down
  <2>2. UNCHANGED snap /\ sent \subseteq sent' /\ (updateLock' = updateLock \/ updateLock = NoPublisher)
    BY <1>1 DEF Start, Device, Clock
  <2>3. \A q \in Publishers : q # p => pub'[q] = pub[q]
    BY <1>1, <1>0 DEF Start, Device, Clock, MyfsTypeOK
  <2> QED BY <2>1, <2>2, <2>3, <1>q
<1>2. ASSUME NEW p \in Publishers, Probe(p) PROVE Uniform(snap)' /\ \A q \in Publishers : Local(q)'
  <2>1. Local(p)'
    BY <1>2, <1>0, <1>t, <1>n DEF Probe, Device, Clock, Local, MyfsTypeOK, PublisherStates
  <2>2. UNCHANGED snap /\ sent \subseteq sent' /\ (updateLock' = updateLock \/ updateLock = NoPublisher)
    BY <1>2 DEF Probe, Device, Clock
  <2>3. \A q \in Publishers : q # p => pub'[q] = pub[q]
    BY <1>2, <1>0 DEF Probe, Device, Clock, MyfsTypeOK
  <2> QED BY <2>1, <2>2, <2>3, <1>q
<1>3. ASSUME NEW p \in Publishers, ProbeFails(p) PROVE Uniform(snap)' /\ \A q \in Publishers : Local(q)'
  <2>1. Local(p)'
    BY <1>3, <1>0, <1>t, <1>n DEF ProbeFails, Device, Clock, Local, MyfsTypeOK, PublisherStates
  <2>2. UNCHANGED snap /\ sent \subseteq sent' /\ (updateLock' = updateLock \/ updateLock = NoPublisher)
    BY <1>3 DEF ProbeFails, Device, Clock
  <2>3. \A q \in Publishers : q # p => pub'[q] = pub[q]
    BY <1>3, <1>0 DEF ProbeFails, Device, Clock, MyfsTypeOK
  <2> QED BY <2>1, <2>2, <2>3, <1>q
<1>4. ASSUME NEW p \in Publishers, NEW e \in Events, Submit(p, e) PROVE Uniform(snap)' /\ \A q \in Publishers : Local(q)'
  <2>1. Local(p)'
    BY <1>4, <1>0, <1>t, <1>n DEF Submit, Device, Local, MyfsTypeOK, PublisherStates
  <2>2. UNCHANGED snap /\ sent \subseteq sent' /\ (updateLock' = updateLock \/ updateLock = NoPublisher)
    BY <1>4 DEF Submit, Device
  <2>3. \A q \in Publishers : q # p => pub'[q] = pub[q]
    BY <1>4, <1>0 DEF Submit, Device, MyfsTypeOK
  <2> QED BY <2>1, <2>2, <2>3, <1>q
<1>5. ASSUME NEW p \in Publishers, OpenFails(p) PROVE Uniform(snap)' /\ \A q \in Publishers : Local(q)'
  <2>1. Local(p)'
    BY <1>5, <1>0, <1>t, <1>n DEF OpenFails, Device, Clock, Local, MyfsTypeOK, PublisherStates
  <2>2. UNCHANGED snap /\ sent \subseteq sent' /\ (updateLock' = updateLock \/ updateLock = NoPublisher)
    BY <1>5 DEF OpenFails, Device, Clock
  <2>3. \A q \in Publishers : q # p => pub'[q] = pub[q]
    BY <1>5, <1>0 DEF OpenFails, Device, Clock, MyfsTypeOK
  <2> QED BY <2>1, <2>2, <2>3, <1>q
<1>6. ASSUME NEW p \in Publishers, Set(p) PROVE Uniform(snap)' /\ \A q \in Publishers : Local(q)'
  <2> DEFINE m == Wire(pub[p])
  <2>0. m.generation = pub[p].msg.generation
    BY <1>t, WireIsMessage
  <2>a. Accepts(m, now) => m.generation # 0
    BY DEF Accepts, HeaderValid
  <2> HIDE DEF m
  <2>1. Local(p)'
    <3>1. CASE Accepts(m, now)
      <4>1. /\ pub'[p].pc = "lock" /\ pub'[p].msg = pub[p].msg /\ pub'[p].abi = pub[p].abi
            /\ m \in sent' /\ pub'[p].result = pub[p].result /\ pub'[p].clean = pub[p].clean /\ snap' = snap
        BY <1>6, <1>0, <1>t, <3>1 DEF Set, Device, Clock, MyfsTypeOK, PublisherStates, m
      <4>2. pub[p].pc = "open"
        BY <1>6 DEF Set
      <4>3. Wire(pub'[p]) = m
        BY <4>1 DEF Wire, m
      <4> QED BY <1>0, <2>0, <2>a, <3>1, <4>1, <4>2, <4>3 DEF Local
    <3>2. CASE ~Accepts(m, now)
      <4>1. pub'[p].pc = "idle" /\ pub'[p].result = "invalid"
        BY <1>6, <1>0, <1>t, <3>2 DEF Set, Device, Clock, MyfsTypeOK, PublisherStates, m
      <4> QED BY <4>1 DEF Local
    <3> QED BY <3>1, <3>2
  <2>2. UNCHANGED snap /\ sent \subseteq sent' /\ (updateLock' = updateLock \/ updateLock = NoPublisher)
    BY <1>6 DEF Set, Device
  <2>3. \A q \in Publishers : q # p => pub'[q] = pub[q]
    BY <1>6, <1>0 DEF Set, MyfsTypeOK
  <2> QED BY <2>1, <2>2, <2>3, <1>q
<1>7. ASSUME NEW p \in Publishers, Update(p) PROVE Uniform(snap)' /\ \A q \in Publishers : Local(q)'
  <2>0. pub[p].pc = "lock" /\ updateLock = NoPublisher /\ UNCHANGED <<snap, sent>>
    BY <1>7 DEF Update
  <2>1. Local(p)'
    <3>1. CASE NotNewer(pub[p].msg)
      <4>1. /\ pub'[p].pc = "stale" /\ pub'[p].result = pub[p].result
            /\ pub'[p].clean = pub[p].clean
        BY <1>7, <1>0, <1>t, <3>1 DEF Update, MyfsTypeOK, PublisherStates
      <4>2. ~(pub[p].msg.generation > snap.generation)
        BY <1>n, <3>1 DEF NotNewer
      <4> QED BY <1>0, <2>0, <4>1, <4>2 DEF Local
    <3>2. CASE ~NotNewer(pub[p].msg)
      <4>1. /\ pub'[p].pc = "publish" /\ pub'[p].result = pub[p].result
            /\ pub'[p].msg = pub[p].msg /\ pub'[p].abi = pub[p].abi
            /\ pub'[p].new = Replaced(snap, Wire(pub[p])) /\ updateLock' = p /\ pub'[p].clean = pub[p].clean
        BY <1>7, <1>0, <1>t, <3>2 DEF Update, MyfsTypeOK, PublisherStates
      <4>2. pub[p].msg.generation > snap.generation
        BY <1>n, <3>2 DEF NotNewer
      <4>3. Wire(pub'[p]) = Wire(pub[p])
        BY <4>1 DEF Wire
      <4> QED BY <1>0, <2>0, <4>1, <4>2, <4>3 DEF Local
    <3> QED BY <3>1, <3>2
  <2>3. \A q \in Publishers : q # p => pub'[q] = pub[q]
    BY <1>7, <1>0 DEF Update, MyfsTypeOK
  <2> QED BY <2>0, <2>1, <2>3, <1>q
<1>8. ASSUME NEW p \in Publishers, NoMem(p) PROVE Uniform(snap)' /\ \A q \in Publishers : Local(q)'
  <2>1. Local(p)'
    BY <1>8, <1>0, <1>t, <1>n DEF NoMem, Clock, Local, MyfsTypeOK, PublisherStates
  <2>2. UNCHANGED snap /\ sent \subseteq sent' /\ (updateLock' = updateLock \/ updateLock = NoPublisher)
    BY <1>8 DEF NoMem, Clock
  <2>3. \A q \in Publishers : q # p => pub'[q] = pub[q]
    BY <1>8, <1>0 DEF NoMem, Clock, MyfsTypeOK
  <2> QED BY <2>1, <2>2, <2>3, <1>q
<1>9. ASSUME NEW p \in Publishers, Publish(p) PROVE Uniform(snap)' /\ \A q \in Publishers : Local(q)'
  <2>0. /\ pub[p].new = Replaced(snap, Wire(pub[p])) /\ pub[p].msg.generation # 0 /\ updateLock = p
        /\ snap' = pub[p].new
    BY <1>9, <1>0 DEF Publish, Local
  <2>1. Uniform(snap)'
    <3>1. Uniform(Replaced(snap, Wire(pub[p])))
      BY <1>0, <1>t, <2>0, WireIsMessage, UniformReplaced DEF MyfsTypeOK
    <3> QED BY <2>0, <3>1 DEF Uniform
  <2>2. Local(p)'
    <3>0. pub'[p] = [pub[p] EXCEPT !.pc = "idle", !.result = "applied", !.new = NoSnapshot,
                                   !.bound = {b.app : b \in pub[p].msg.bindings}]
      BY <1>9 DEF Publish
    <3>1. pub'[p].pc = "idle" /\ pub'[p].result = "applied"
      BY <1>t, <3>0 DEF PublisherStates
    <3> QED BY <3>1 DEF Local
  <2>3. ASSUME NEW q \in Publishers, q # p PROVE Local(q)'
    <3>0. pub'[q] = [pub[q] EXCEPT !.clean = FALSE] /\ sent' = sent
      BY <1>9, <2>3 DEF Publish
    <3>1. /\ pub'[q].pc = pub[q].pc /\ pub'[q].msg = pub[q].msg /\ pub'[q].abi = pub[q].abi
          /\ pub'[q].result = pub[q].result
          /\ pub'[q].clean = FALSE /\ sent' = sent
      BY <1>t, <3>0 DEF PublisherStates
    <3>2. pub[q].pc # "publish"
      BY <1>0, <2>0, <2>3 DEF Local
    <3>3. Wire(pub'[q]) = Wire(pub[q])
      BY <3>1 DEF Wire
    <3> QED BY <1>0, <3>1, <3>2, <3>3 DEF Local
  <2> QED BY <2>1, <2>2, <2>3
<1>10. ASSUME NEW p \in Publishers, Stale(p) PROVE Uniform(snap)' /\ \A q \in Publishers : Local(q)'
  <2>1. Local(p)'
    BY <1>10, <1>0, <1>t, <1>n DEF Stale, Device, Clock, Local, MyfsTypeOK, PublisherStates
  <2>2. UNCHANGED snap /\ sent \subseteq sent' /\ (updateLock' = updateLock \/ updateLock = NoPublisher)
    BY <1>10 DEF Stale, Device, Clock
  <2>3. \A q \in Publishers : q # p => pub'[q] = pub[q]
    BY <1>10, <1>0 DEF Stale, Device, Clock, MyfsTypeOK
  <2> QED BY <2>1, <2>2, <2>3, <1>q
<1>11. ASSUME NEW p \in Publishers, Resync(p) PROVE Uniform(snap)' /\ \A q \in Publishers : Local(q)'
  <2>1. Local(p)'
    <3>1. /\ pub'[p].pc = "open" /\ pub'[p].result = pub[p].result
          /\ pub'[p].msg.generation = snap.generation + 1 /\ snap' = snap
      BY <1>11, <1>0, <1>t DEF Resync, Retried, Device, MyfsTypeOK, PublisherStates, Messages
    <3>2. pub[p].result = "none"
      BY <1>11, <1>0 DEF Resync, Local
    <3> QED BY <1>n, <3>1, <3>2 DEF Local
  <2>2. UNCHANGED snap /\ sent \subseteq sent' /\ (updateLock' = updateLock \/ updateLock = NoPublisher)
    BY <1>11 DEF Resync, Device, Clock
  <2>3. \A q \in Publishers : q # p => pub'[q] = pub[q]
    BY <1>11, <1>0 DEF Resync, MyfsTypeOK
  <2> QED BY <2>1, <2>2, <2>3, <1>q
<1>12. ASSUME NEW p \in Publishers, ResyncFails(p) PROVE Uniform(snap)' /\ \A q \in Publishers : Local(q)'
  <2>1. Local(p)'
    <3>1. /\ pub'[p].pc = "open" /\ pub'[p].result = pub[p].result /\ pub'[p].clean = pub[p].clean
      BY <1>12, <1>0, <1>t DEF ResyncFails, Retried, MyfsTypeOK, PublisherStates
    <3>2. pub[p].result = "none" /\ ~pub[p].clean
      BY <1>12, <1>0 DEF ResyncFails, Local
    <3> QED BY <3>1, <3>2 DEF Local
  <2>2. UNCHANGED snap /\ sent \subseteq sent' /\ (updateLock' = updateLock \/ updateLock = NoPublisher)
    BY <1>12 DEF ResyncFails, Device, Clock
  <2>3. \A q \in Publishers : q # p => pub'[q] = pub[q]
    BY <1>12, <1>0 DEF ResyncFails, MyfsTypeOK
  <2> QED BY <2>1, <2>2, <2>3, <1>q
<1>13. ASSUME NEW p \in Publishers, Kill(p) PROVE Uniform(snap)' /\ \A q \in Publishers : Local(q)'
  <2>1. Local(p)'
    BY <1>13, <1>0, <1>t, <1>n DEF Kill, Device, Local, MyfsTypeOK, PublisherStates, Down
  <2>2. UNCHANGED snap /\ sent \subseteq sent' /\ (updateLock' = updateLock \/ updateLock = NoPublisher)
    BY <1>13 DEF Kill, Device
  <2>3. \A q \in Publishers : q # p => pub'[q] = pub[q]
    BY <1>13, <1>0 DEF Kill, Device, MyfsTypeOK
  <2> QED BY <2>1, <2>2, <2>3, <1>q
<1>14. ASSUME Tick \/ UNCHANGED vars PROVE Uniform(snap)' /\ \A q \in Publishers : Local(q)'
  <2>1. UNCHANGED <<snap, updateLock, pub, sent>>
    BY <1>14 DEF Tick, Device, vars
  <2>2. \A q \in Publishers : Local(q)'
    BY <1>0, <2>1 DEF Local
  <2> QED BY <1>0, <2>1, <2>2 DEF Uniform
<1> QED
  BY <1>1, <1>2, <1>3, <1>4, <1>5, <1>6, <1>7, <1>8, <1>9, <1>10, <1>11, <1>12, <1>13, <1>14
  DEF Next, Step

---------------------------------------------------------------------------
(* The theorems.                                                            *)

\* IInv holds in every reachable state.
THEOREM MyfsInvariance == Spec => []IInv
BY InitIInv, StepIInv, PTL DEF Spec

\* The state of the device and of its publishers stays within its types.
THEOREM MyfsTypes == Spec => []MyfsTypeOK
BY MyfsInvariance, PTL DEF IInv

\* A prediction is given up as stale only if its resync failed or another
\* publisher got in between: the retry of submit_prediction() is enough.
THEOREM RetrySuffices == Spec => []RetryIsEnough
<1>1. IInv => RetryIsEnough
  BY DEF IInv, Local, RetryIsEnough
<1> QED BY <1>1, MyfsInvariance, PTL

\* parp_snapshot_fill_scan_budget_input() and parp_context_lookup() agree on
\* every published snapshot, for every cgroup and at every time.
THEOREM ReclaimPathsAgree == Spec => []LookupsAgree
<1>1. IInv => LookupsAgree
  <2> SUFFICES ASSUME IInv, NEW d \in Domains, NEW t \in 0..(MaxNow + MaxTtl)
               PROVE  /\ ScanInputValid(snap, d, t) <=> context_lookup(snap, d, t)
                      /\ workingset_lookup(snap, d, t) => t < snap.expires
    BY DEF LookupsAgree
  <2>1. CASE snap = NoSnapshot
    BY <2>1 DEF NoSnapshot, ScanInputValid, context_lookup, workingset_lookup
  <2>2. CASE snap # NoSnapshot
    <3>1. /\ snap.version # 0 /\ snap.generation # 0 /\ snap.expires = snap.expiry
          /\ \A p \in snap.priors : p.generation = snap.generation /\ p.expires = snap.expiry
          /\ \A b \in snap.bindings : b.generation = snap.generation /\ b.expires = snap.expiry
      BY <2>2 DEF IInv, Uniform
    <3> QED BY <3>1 DEF ScanInputValid, context_lookup, workingset_lookup
  <2> QED BY <2>1, <2>2
<1> QED BY <1>1, MyfsInvariance, PTL

\* /dev/myfs with any number of publishers implements PublishedState: readers
\* see one whole offered message at a time, and ever later generations.
THEOREM MyfsImplementsPublishedState == Spec => PublishedSpec
<1>1. Init => Published!Init
  <2> SUFFICES ASSUME Init PROVE GetState(snap) = NoMessage /\ sent = {}
    BY DEF Published!Init
  <2> QED BY DEF Init, GetState, NoSnapshot, NoMessage
<1>2. IInv /\ [Next]_vars => [Published!Next]_(Published!vars)
  <2> SUFFICES ASSUME IInv, [Next]_vars
               PROVE  \/ Published!Offer \/ Published!Publish
                      \/ GetState(snap)' = GetState(snap) /\ sent' = sent
    BY DEF Published!Next, Published!vars
  <2>0. MyfsTypeOK /\ \A p \in Publishers : Local(p)
    BY DEF IInv
  <2>1. ASSUME UNCHANGED <<snap, sent>> PROVE GetState(snap)' = GetState(snap) /\ sent' = sent
    BY <2>1 DEF GetState
  <2>2. ASSUME NEW p \in Publishers, Set(p) PROVE Published!Offer
    <3> DEFINE m == Wire(pub[p])
    <3>1. m \in Messages
      BY <2>0, WireIsMessage DEF MyfsTypeOK
    <3>2. sent' = sent \cup {m} /\ UNCHANGED snap
      BY <2>2 DEF Set, Device
    <3> HIDE DEF m
    <3>3. GetState(snap)' = GetState(snap)
      BY <3>2 DEF GetState
    <3> QED BY <3>1, <3>2, <3>3 DEF Published!Offer
  <2>3. ASSUME NEW p \in Publishers, Publish(p) PROVE Published!Publish
    <3>1. /\ Wire(pub[p]) \in sent /\ pub[p].msg.generation > snap.generation
          /\ snap' = Replaced(snap, Wire(pub[p])) /\ sent' = sent
      BY <2>0, <2>3 DEF Publish, Local
    <3>2. /\ snap \in Snapshots /\ Wire(pub[p]) \in Messages
          /\ Wire(pub[p]).generation = pub[p].msg.generation
      BY <2>0, WireIsMessage DEF MyfsTypeOK
    <3>3. GetState(snap') = Wire(pub[p])
      BY <3>1, <3>2, ReplacedSaysMessage
    <3>4. GetState(snap).generation = snap.generation
      BY DEF GetState
    <3>5. GetState(snap)' = GetState(snap')
      BY DEF GetState
    <3> QED BY <3>1, <3>2, <3>3, <3>4, <3>5 DEF Published!Publish
  <2>4. ASSUME NEW p \in Publishers, Step(p), ~Set(p), ~Publish(p) PROVE UNCHANGED <<snap, sent>>
    BY <2>4 DEF Step, Probe, ProbeFails, OpenFails, Update, NoMem, Stale, Resync, ResyncFails,
                Device, Clock
  <2>5. ASSUME NEW p \in Publishers,
               (\E m \in Modes : Start(p, m)) \/ (\E e \in Events : Submit(p, e)) \/ Kill(p)
        PROVE  UNCHANGED <<snap, sent>>
    BY <2>5 DEF Start, Submit, Kill, Device, Clock
  <2>6. ASSUME Tick \/ UNCHANGED vars PROVE UNCHANGED <<snap, sent>>
    BY <2>6 DEF Tick, Device, vars
  <2> QED BY <2>1, <2>2, <2>3, <2>4, <2>5, <2>6 DEF Next
<1> QED BY <1>1, <1>2, MyfsInvariance, PTL DEF Spec, PublishedSpec, Published!Spec

---------------------------------------------------------------------------
(* Every message the service builds is valid.                               *)

\* In a finite set ordered totally, the elements with fewer than n before them
\* are at most n, and each has fewer elements before it than there are such
\* elements: cut off anywhere, a ranking has neither gaps nor ties.
LEMMA Ranking ==
    ASSUME NEW S, IsFiniteSet(S), NEW Before \in [S -> SUBSET S], NEW n \in Nat,
           \A a \in S : a \notin Before[a],
           \A a, b \in S : a # b => b \in Before[a] \/ a \in Before[b],
           \A a, b \in S : b \in Before[a] => Before[b] \subseteq Before[a]
    PROVE  LET K == {a \in S : Cardinality(Before[a]) < n}
           IN  /\ IsFiniteSet(K) /\ Cardinality(K) <= n
               /\ \A a \in K : Cardinality(Before[a]) < Cardinality(K)
               /\ \A a, b \in S : a # b => Cardinality(Before[a]) # Cardinality(Before[b])
<1> DEFINE K == {a \in S : Cardinality(Before[a]) < n}
           f == [a \in K |-> Cardinality(Before[a])]
<1>1. IsFiniteSet(K)
  BY FS_Subset
<1>2. \A a \in S : IsFiniteSet(Before[a]) /\ Cardinality(Before[a]) \in Nat
  BY FS_Subset, FS_CardinalityType
<1>3. ASSUME NEW a \in S, NEW b \in S, b \in Before[a]
      PROVE  Cardinality(Before[b]) < Cardinality(Before[a])
  <2>1. Before[b] \in SUBSET Before[a] /\ Before[b] # Before[a]
    BY <1>3
  <2>2. /\ Cardinality(Before[b]) <= Cardinality(Before[a])
        /\ Cardinality(Before[a]) # Cardinality(Before[b])
    BY <1>2, <2>1, FS_Subset
  <2> QED BY <1>2, <2>2
<1>4. \A a, b \in S : a # b => Cardinality(Before[a]) # Cardinality(Before[b])
  BY <1>2, <1>3
<1>5. Cardinality(K) <= n
  <2>1. f \in Injection(K, 0..(n - 1))
    BY <1>2, <1>4 DEF Injection, IsInjective
  <2>2. IsFiniteSet(0..(n - 1)) /\ Cardinality(0..(n - 1)) = IF 0 > n - 1 THEN 0 ELSE (n - 1) - 0 + 1
    BY FS_Interval
  <2>3. Cardinality(0..(n - 1)) = n
    BY <2>2
  <2> HIDE DEF K, f
  <2>4. Cardinality(K) <= Cardinality(0..(n - 1))
    BY <2>1, <2>2, FS_Injection
  <2> QED BY <2>3, <2>4
<1>6. ASSUME NEW a \in K PROVE Cardinality(Before[a]) < Cardinality(K)
  <2>1. \A b \in Before[a] : Cardinality(Before[b]) < Cardinality(Before[a])
    BY <1>3
  <2>2. Before[a] \in SUBSET K
    BY <1>2, <2>1
  <2>3. Before[a] # K
    BY <1>6
  <2>4. Cardinality(Before[a]) <= Cardinality(K) /\ Cardinality(K) # Cardinality(Before[a])
    BY <1>1, <2>2, <2>3, FS_Subset
  <2>5. Cardinality(K) \in Nat /\ Cardinality(Before[a]) \in Nat
    BY <1>1, <1>2, FS_CardinalityType
  <2> QED BY <2>4, <2>5
<1> QED BY <1>1, <1>4, <1>5, <1>6

\* _prediction_entries() keeps within the limit and numbers what it keeps from
\* one, without gaps or ties, the foreground application first.
LEMMA EntriesAreValid ==
    ASSUME NEW e \in Events
    PROVE  LET E == prediction_entries(e)
           IN  /\ IsFiniteSet(E) /\ Cardinality(E) <= MaxApps
               /\ \A x \in E : x.score <= ScoreMax /\ x.rank \in 1..Cardinality(E)
               /\ \A x, y \in E : x # y =>
                     x.app # y.app /\ x.rank # y.rank /\ ~(x.foreground /\ y.foreground)
<1> DEFINE F == Foreground(e)
           S == Scored(e)
           Before == [a \in S |-> {b \in S : e.score[b] > e.score[a] \/ (e.score[b] = e.score[a] /\ b < a)}]
           n == MaxApps - Cardinality(F)
           K == {a \in S : Cardinality(Before[a]) < n}
           first(a) == [app |-> a, score |-> ScoreMax, rank |-> 1, foreground |-> TRUE]
           other(a) == [app |-> a, score |-> e.score[a], rank |-> RankOf(e, a), foreground |-> FALSE]
           f == [a \in F \cup K |-> IF a \in F THEN first(a) ELSE other(a)]
           E == prediction_entries(e)
<1>1. /\ IsFiniteSet(Enabled) /\ Enabled \subseteq Nat /\ ScoreMax \in Nat /\ MaxApps \in Nat \ {0}
      /\ \A a \in Enabled : e.score[a] \in -1..ScoreMax
  <2>1. IsFiniteSet(Enabled)
    BY FS_Subset, MyfsDeviceAssumption, MyfsServiceAssumption
  <2>2. \A a \in Enabled : e.score[a] \in -1..ScoreMax
    BY MyfsServiceAssumption
  <2> QED BY <2>1, <2>2, MyfsDeviceAssumption, MyfsServiceAssumption
<1>2. /\ IsFiniteSet(F) /\ Cardinality(F) \in Nat /\ Cardinality(F) <= 1
      /\ \A a \in F : a = e.current
      /\ F # {} => Cardinality(F) = 1
  <2>1. CASE F = {}
    BY <2>1, FS_EmptySet
  <2>2. CASE F # {}
    <3>1. F = {e.current}
      BY <2>2 DEF Foreground
    <3>2. IsFiniteSet({e.current}) /\ Cardinality({e.current}) = 1
      BY FS_Singleton
    <3> QED BY <3>1, <3>2
  <2> QED BY <2>1, <2>2
<1>3. n \in Nat
  BY <1>1, <1>2
<1>4. /\ S \subseteq Enabled /\ e.current \notin S
      /\ \A a \in S : a \in Nat /\ e.score[a] \in 0..ScoreMax
  BY <1>1 DEF Scored
<1>5. IsFiniteSet(S)
  BY <1>1, <1>4, FS_Subset
<1>6. /\ IsFiniteSet(K) /\ Cardinality(K) <= n
      /\ \A a \in K : Cardinality(Before[a]) < Cardinality(K)
      /\ \A a, b \in S : a # b => Cardinality(Before[a]) # Cardinality(Before[b])
  <2>1. Before \in [S -> SUBSET S]
    OBVIOUS
  <2>2. /\ \A a \in S : a \notin Before[a]
        /\ \A a, b \in S : a # b => b \in Before[a] \/ a \in Before[b]
    BY <1>4
  <2>3. \A a, b \in S : b \in Before[a] => Before[b] \subseteq Before[a]
    BY <1>4
  <2> HIDE DEF S, Before, n
  <2> QED BY <1>3, <1>5, <2>1, <2>2, <2>3, Ranking
<1>7. \A a \in S : /\ IsFiniteSet(Before[a]) /\ Cardinality(Before[a]) \in Nat
                   /\ RankOf(e, a) = 1 + Cardinality(F) + Cardinality(Before[a])
  <2>1. \A a \in S : IsFiniteSet(Before[a]) /\ Cardinality(Before[a]) \in Nat
    <3>1. \A a \in S : Before[a] \in SUBSET S
      OBVIOUS
    <3> HIDE DEF Before, S
    <3> QED BY <1>5, <3>1, FS_Subset, FS_CardinalityType
  <2> QED BY <2>1 DEF RankOf
<1>8. F \cap K = {} /\ Cardinality(K) \in Nat /\ Cardinality(F \cup K) = Cardinality(F) + Cardinality(K)
  <2>1. F \cap K = {}
    BY <1>2, <1>4
  <2>2. Cardinality(K) \in Nat /\ Cardinality(F \cap K) = 0
    BY <1>6, <2>1, FS_CardinalityType, FS_EmptySet
  <2>3. IsFiniteSet(F) /\ IsFiniteSet(K) /\ Cardinality(F) \in Nat
    BY <1>2, <1>6
  <2> HIDE DEF F, K
  <2>4. Cardinality(F \cup K) = Cardinality(F) + Cardinality(K) - Cardinality(F \cap K)
    BY <2>3, FS_Union
  <2> QED BY <2>1, <2>2, <2>3, <2>4
<1>9. E = {f[a] : a \in F \cup K}
  <2>1. K = {b \in S : RankOf(e, b) <= MaxApps}
    BY <1>1, <1>2, <1>7
  <2>2. /\ \A a \in F : f[a] = first(a)
        /\ \A a \in K : f[a] = other(a)
    BY <1>8
  <2>3. E = {first(a) : a \in F} \cup {other(a) : a \in K}
    BY <2>1 DEF prediction_entries
  <2> HIDE DEF f, first, other, F, K, E
  <2> QED BY <2>2, <2>3
<1>10. \A a \in F : f[a].app = a /\ f[a].score = ScoreMax /\ f[a].rank = 1 /\ f[a].foreground
  OBVIOUS
<1>11. \A a \in K : /\ f[a].app = a /\ f[a].score \in 0..ScoreMax /\ ~f[a].foreground
                    /\ f[a].rank = 1 + Cardinality(F) + Cardinality(Before[a])
  BY <1>4, <1>7, <1>8
<1>k. \A a \in K : a \in S
  OBVIOUS
<1>f. f = [a \in F \cup K |-> f[a]]
  OBVIOUS
<1> HIDE DEF f, first, other, Before, S, F, K, E
<1>12. IsFiniteSet(E) /\ Cardinality(E) = Cardinality(F) + Cardinality(K)
  <2>1. f \in Bijection(F \cup K, E)
    <3>1. f \in [F \cup K -> E]
      BY <1>9, <1>f
    <3>2. \A a, b \in F \cup K : f[a] = f[b] => a = b
      BY <1>10, <1>11
    <3>3. \A x \in E : \E a \in F \cup K : f[a] = x
      BY <1>9
    <3> QED BY <3>1, <3>2, <3>3 DEF Bijection, Injection, Surjection, IsInjective
  <2>2. ExistsBijection(F \cup K, E)
    BY <2>1 DEF ExistsBijection
  <2>3. IsFiniteSet(F \cup K)
    BY <1>2, <1>6, FS_Union
  <2>4. IsFiniteSet(E) /\ Cardinality(E) = Cardinality(F \cup K)
    BY <2>2, <2>3, FS_Bijection
  <2> QED BY <1>8, <2>4
<1>13. \A a \in K : f[a].rank \in (1 + Cardinality(F))..Cardinality(E)
  BY <1>2, <1>6, <1>7, <1>8, <1>11, <1>12, <1>k
<1>14. \A x \in E : x.score <= ScoreMax /\ x.rank \in 1..Cardinality(E)
  <2>1. \A a \in F : f[a].score <= ScoreMax /\ f[a].rank \in 1..Cardinality(E)
    BY <1>1, <1>2, <1>8, <1>10, <1>12
  <2>2. \A a \in K : f[a].score <= ScoreMax /\ f[a].rank \in 1..Cardinality(E)
    BY <1>1, <1>2, <1>11, <1>13
  <2> QED BY <1>9, <2>1, <2>2
<1>15. \A a, b \in F \cup K : a # b =>
          f[a].app # f[b].app /\ f[a].rank # f[b].rank /\ ~(f[a].foreground /\ f[b].foreground)
  <2>1. ASSUME NEW a \in F, NEW b \in F, a # b PROVE FALSE
    BY <1>2, <2>1
  <2>2. ASSUME NEW a \in F, NEW b \in K
        PROVE  /\ f[a].app # f[b].app /\ f[a].rank # f[b].rank
               /\ ~(f[a].foreground /\ f[b].foreground)
    <3>1. Cardinality(F) = 1
      BY <1>2, <2>2
    <3> QED BY <1>8, <1>10, <1>11, <1>13, <1>12, <3>1, <2>2
  <2>3. ASSUME NEW a \in K, NEW b \in K, a # b
        PROVE  /\ f[a].app # f[b].app /\ f[a].rank # f[b].rank
               /\ ~(f[a].foreground /\ f[b].foreground)
    BY <1>2, <1>6, <1>7, <1>11, <1>k, <2>3
  <2> QED BY <2>1, <2>2, <2>3
<1>16. \A x, y \in E : x # y =>
          x.app # y.app /\ x.rank # y.rank /\ ~(x.foreground /\ y.foreground)
  BY <1>9, <1>15
<1>17. Cardinality(E) <= MaxApps
  BY <1>1, <1>2, <1>3, <1>6, <1>8, <1>12
<1> QED
  BY <1>12, <1>14, <1>16, <1>17 DEF E

\* _bindings() keeps within the limit, and gives each cgroup one owner, who is
\* predicted.
LEMMA BindingsAreValid ==
    ASSUME NEW e \in Events
    PROVE  LET B == bindings_of(e)
           IN  /\ IsFiniteSet(B) /\ Cardinality(B) <= MaxDomains
               /\ \A b \in B : \E x \in prediction_entries(e) : x.app = b.app
               /\ \A b, c \in B : b # c => b.domain # c.domain
<1> DEFINE S == Bindable(e)
           Before == [d \in S |-> {b \in S : b < d}]
           K == {d \in S : Cardinality(Before[d]) < MaxDomains}
           owner(d) == CHOOSE a \in Owners(e, d) : TRUE
           f == [d \in K |-> [domain |-> d, app |-> owner(d), hint |-> d \in e.hinted]]
           B == bindings_of(e)
<1>1. IsFiniteSet(S) /\ S \subseteq Nat /\ MaxDomains \in Nat
  <2>1. S \in SUBSET Domains
    BY DEF Bindable
  <2>2. IsFiniteSet(S)
    BY <2>1, FS_Subset, MyfsDeviceAssumption
  <2> QED BY <2>1, <2>2, MyfsDeviceAssumption
<1>2. IsFiniteSet(K) /\ Cardinality(K) <= MaxDomains
  <2>1. Before \in [S -> SUBSET S]
    OBVIOUS
  <2>2. /\ \A a \in S : a \notin Before[a]
        /\ \A a, b \in S : a # b => b \in Before[a] \/ a \in Before[b]
    BY <1>1
  <2>3. \A a, b \in S : b \in Before[a] => Before[b] \subseteq Before[a]
    BY <1>1
  <2> HIDE DEF S, Before
  <2>4. /\ IsFiniteSet(K) /\ Cardinality(K) <= MaxDomains
        /\ \A a \in K : Cardinality(Before[a]) < Cardinality(K)
        /\ \A a, b \in S : a # b => Cardinality(Before[a]) # Cardinality(Before[b])
    BY <1>1, <2>1, <2>2, <2>3, Ranking
  <2> QED BY <2>4
<1>3. ASSUME NEW d \in S PROVE Owners(e, d) = {owner(d)}
  <2>1. Cardinality(Owners(e, d)) = 1
    BY <1>3 DEF Bindable
  <2>2. IsFiniteSet(Owners(e, d))
    <3> DEFINE E == prediction_entries(e)
               O == Owners(e, d)
               g == [x \in {y \in E : <<d, y.app>> \in e.samples} |-> x.app]
    <3>1. IsFiniteSet(E)
      BY EntriesAreValid
    <3>2. IsFiniteSet(DOMAIN g)
      <4>1. DOMAIN g \in SUBSET E
        OBVIOUS
      <4> HIDE DEF g, E
      <4> QED BY <3>1, <4>1, FS_Subset
    <3>3. g \in Surjection(DOMAIN g, O)
      BY DEF Surjection, Owners
    <3> HIDE DEF g, O
    <3>4. IsFiniteSet(O)
      BY <3>2, <3>3, FS_Surjection
    <3> QED BY <3>4 DEF O
  <2>3. \E a : Owners(e, d) = {a}
    BY <2>1, <2>2, FS_Singleton
  <2> QED BY <2>3
<1>4. B = {f[d] : d \in K}
  <2>1. B = UNION {{[domain |-> d, app |-> a, hint |-> d \in e.hinted] : a \in Owners(e, d)} : d \in K}
    <3>1. K = {c \in Bindable(e) : Cardinality({b \in Bindable(e) : b < c}) < MaxDomains}
      OBVIOUS
    <3> QED BY <3>1 DEF bindings_of
  <2>2. \A d \in K : {[domain |-> d, app |-> a, hint |-> d \in e.hinted] : a \in Owners(e, d)} = {f[d]}
    <3> SUFFICES ASSUME NEW d \in K
                 PROVE  {[domain |-> d, app |-> a, hint |-> d \in e.hinted] : a \in Owners(e, d)} = {f[d]}
      OBVIOUS
    <3>1. Owners(e, d) = {owner(d)}
      BY <1>3
    <3>2. f[d] = [domain |-> d, app |-> owner(d), hint |-> d \in e.hinted]
      OBVIOUS
    <3> HIDE DEF owner, f, K
    <3> QED BY <3>1, <3>2
  <2> HIDE DEF B, f, K
  <2>3. B = UNION {{f[d]} : d \in K}
    BY <2>1, <2>2
  <2> QED BY <2>3
<1>5. IsFiniteSet(B) /\ Cardinality(B) <= MaxDomains
  <2>1. f \in Surjection(K, B)
    BY <1>4 DEF Surjection
  <2>2. Cardinality(K) \in Nat
    BY <1>2, FS_CardinalityType
  <2> HIDE DEF f, K, B
  <2>3. IsFiniteSet(B) /\ Cardinality(B) <= Cardinality(K)
    BY <1>2, <2>1, FS_Surjection
  <2>4. Cardinality(B) \in Nat
    BY <2>3, FS_CardinalityType
  <2> QED BY <1>1, <1>2, <2>2, <2>3, <2>4
<1>6. \A d \in K : f[d].domain = d /\ f[d].app = owner(d)
  OBVIOUS
<1>7. \A d \in K : \E x \in prediction_entries(e) : x.app = owner(d)
  BY <1>3 DEF Owners
<1> HIDE DEF f, K, owner
<1>8. \A b \in B : \E x \in prediction_entries(e) : x.app = b.app
  BY <1>4, <1>6, <1>7
<1>9. \A b, c \in B : b # c => b.domain # c.domain
  BY <1>4, <1>6
<1> QED
  BY <1>5, <1>8, <1>9

\* A message of _make_state_v3() with at least one entry passes every check.
LEMMA StateIsAccepted ==
    ASSUME NEW e \in Events, NEW g \in Nat \ {0}, now \in Nat \ {0}, prediction_entries(e) # {}
    PROVE  Accepts(make_state(e, g), now)
<1> DEFINE m == make_state(e, g)
<1>1. /\ m.generation = g /\ m.timestamp = now /\ m.expiry = now + Ttl
      /\ m.entries = prediction_entries(e) /\ m.bindings = bindings_of(e)
  BY DEF make_state
<1>2. Ttl \in Nat \ {0} /\ Ttl <= MaxTtl /\ MaxTtl \in Nat /\ MaxSkew \in Nat
  BY MyfsServiceAssumption, MyfsDeviceAssumption
<1> HIDE DEF m
<1>3. HeaderValid(m)
  BY <1>1, <1>2, EntriesAreValid, BindingsAreValid DEF HeaderValid
<1>4. validate_prior_batch(m, now)
  BY <1>1, <1>2, EntriesAreValid DEF validate_prior_batch
<1>5. validate_bindings(m)
  BY <1>1, BindingsAreValid DEF validate_bindings
<1> QED BY <1>3, <1>4, <1>5 DEF Accepts, m

\* What an older ABI carries of an acceptable message is acceptable.
LEMMA PayloadIsAccepted ==
    ASSUME NEW m \in Messages, NEW abi \in 0..3, NEW t \in Nat, Accepts(m, t)
    PROVE  Accepts(Payload(abi, m), t)
<1> DEFINE w == Payload(abi, m)
           B == m.bindings
           f == [b \in B |-> [b EXCEPT !.hint = @ /\ abi = 3]]
           dom == [b \in B |-> b.domain]
<1>1. B \subseteq Bindings /\ \A b, c \in B : b # c => b.domain # c.domain
  BY DEF Messages, Accepts, validate_bindings
<1>2. IsFiniteSet(B)
  <2>1. dom \in Injection(B, Domains)
    BY <1>1 DEF Injection, IsInjective, Bindings
  <2> HIDE DEF dom, B
  <2> QED BY <2>1, FS_Injection, MyfsDeviceAssumption
<1>3. /\ w.generation = m.generation /\ w.timestamp = m.timestamp /\ w.expiry = m.expiry
      /\ w.entries = m.entries /\ w.bindings = {f[b] : b \in B}
  BY DEF Payload, Messages
<1>4. \A b \in B : f[b].domain = b.domain /\ f[b].app = b.app
  BY <1>1 DEF Bindings
<1>5. Cardinality(w.bindings) <= MaxDomains
  <2>1. f \in Surjection(B, w.bindings)
    BY <1>3 DEF Surjection
  <2>2. Cardinality(B) <= MaxDomains /\ MaxDomains \in Nat
    BY MyfsDeviceAssumption DEF Accepts, HeaderValid
  <2> HIDE DEF f, B, w
  <2>3. IsFiniteSet(w.bindings) /\ Cardinality(w.bindings) <= Cardinality(B)
    BY <1>2, <2>1, FS_Surjection
  <2>4. Cardinality(w.bindings) \in Nat /\ Cardinality(B) \in Nat
    BY <1>2, <2>3, FS_CardinalityType
  <2> QED BY <2>2, <2>3, <2>4
<1> HIDE DEF w, f
<1>6. HeaderValid(w) /\ validate_prior_batch(w, t)
  BY <1>3, <1>5 DEF Accepts, HeaderValid, validate_prior_batch
<1>7. validate_bindings(w)
  BY <1>3, <1>4 DEF Accepts, validate_bindings
<1> QED BY <1>6, <1>7 DEF Accepts, w

\* The form that is sent of an acceptable message is acceptable.
LEMMA WireIsAccepted ==
    ASSUME NEW r \in PublisherStates, NEW t \in Nat, Accepts(r.msg, t)
    PROVE  Accepts(Wire(r), t)
<1>1. r.abi \in 0..3 /\ r.msg \in Messages
  BY DEF PublisherStates
<1> QED BY <1>1, PayloadIsAccepted DEF Wire

\* An acceptable message stays acceptable as time passes: an old timestamp is no
\* reason to refuse it.
LEMMA AcceptedLater ==
    ASSUME NEW m \in Messages, NEW t \in Nat, NEW u \in Nat, t <= u, Accepts(m, t)
    PROVE  Accepts(m, u)
<1>1. m.timestamp \in Nat /\ MaxSkew \in Nat
  BY MyfsDeviceAssumption DEF Messages
<1> QED BY <1>1 DEF Accepts, HeaderValid, validate_prior_batch, validate_bindings

\* The retry sends it under another generation.
LEMMA AcceptedUnderGeneration ==
    ASSUME NEW m \in Messages, NEW t \in Nat, NEW g \in Nat \ {0}, Accepts(m, t)
    PROVE  Accepts([m EXCEPT !.generation = g], t)
BY DEF Messages, Accepts, HeaderValid, validate_prior_batch, validate_bindings

\* From the inference to the answer of the kernel a publisher holds a message
\* that the kernel accepts.
Valid(p) ==
    /\ pub[p].pc \in {"open", "lock", "stale", "resync"} => Accepts(pub[p].msg, now)
    /\ pub[p].result # "invalid"

\* The inductive invariant.
ValidInv == MyfsTypeOK /\ now # 0 /\ \A p \in Publishers : Valid(p)

\* Every step keeps it.
LEMMA StepValid == ValidInv /\ [Next]_vars => ValidInv'
<1> SUFFICES ASSUME ValidInv, [Next]_vars PROVE ValidInv'
  OBVIOUS
<1>0. MyfsTypeOK /\ MyfsTypeOK' /\ now # 0 /\ \A p \in Publishers : Valid(p)
  BY TypeStep DEF ValidInv
<1>t. /\ pub \in [Publishers -> PublisherStates] /\ pub' \in [Publishers -> PublisherStates]
      /\ now \in Nat /\ now' \in Nat
  BY <1>0 DEF MyfsTypeOK
<1>r. \A p \in Publishers : pub[p] \in PublisherStates /\ pub[p].msg \in Messages
  BY <1>t DEF PublisherStates
<1>a. ASSUME NEW p \in Publishers, Valid(p)', now' = now, \A q \in Publishers \ {p} : pub'[q] = pub[q]
      PROVE  ValidInv'
  BY <1>0, <1>a DEF ValidInv, Valid
<1>1. ASSUME NEW p \in Publishers, NEW m \in Modes, Start(p, m) PROVE ValidInv'
  <2>1. Valid(p)' /\ now' = now /\ \A q \in Publishers \ {p} : pub'[q] = pub[q]
    BY <1>1, <1>t DEF Start, Valid, Down, Clock
  <2> QED BY <2>1, <1>a
<1>2. ASSUME NEW p \in Publishers, Probe(p) \/ ProbeFails(p) \/ OpenFails(p) PROVE ValidInv'
  <2>1. Valid(p)' /\ now' = now /\ \A q \in Publishers \ {p} : pub'[q] = pub[q]
    BY <1>2, <1>0, <1>t, <1>r DEF Probe, ProbeFails, OpenFails, Valid, Clock, PublisherStates
  <2> QED BY <2>1, <1>a
<1>3. ASSUME NEW p \in Publishers, NEW e \in Events, Submit(p, e) PROVE ValidInv'
  <2> DEFINE g == pub[p].generation + 1
  <2>0. g \in Nat \ {0} /\ now \in Nat \ {0}
    BY <1>0, <1>t, <1>r DEF PublisherStates
  <2>1. now' = now /\ \A q \in Publishers \ {p} : pub'[q] = pub[q]
    BY <1>3, <1>t DEF Submit
  <2>2. Valid(p)'
    <3>1. CASE prediction_entries(e) = {} \/ pub[p].mode = "dry-run"
      <4>1. pub'[p].pc = pub[p].pc /\ pub'[p].result = pub[p].result /\ pub[p].pc = "idle"
        BY <1>3, <1>r, <1>t, <3>1 DEF Submit, PublisherStates
      <4> QED BY <4>1, <1>0 DEF Valid
    <3>2. CASE prediction_entries(e) # {} /\ pub[p].mode # "dry-run"
      <4>1. pub'[p].msg = make_state(e, g) /\ pub'[p].result = "none"
        BY <1>3, <1>r, <1>t, <3>2 DEF Submit, PublisherStates
      <4>2. Accepts(make_state(e, g), now)
        BY <2>0, <3>2, StateIsAccepted
      <4> HIDE DEF g
      <4> QED BY <4>1, <4>2, <2>1 DEF Valid
    <3> QED BY <3>1, <3>2
  <2> QED BY <2>1, <2>2, <1>a
<1>4. ASSUME NEW p \in Publishers, Set(p) PROVE ValidInv'
  <2>1. Accepts(Wire(pub[p]), now)
    BY <1>4, <1>0, <1>t, <1>r, WireIsAccepted DEF Set, Valid
  <2>2. pub' = [pub EXCEPT ![p].pc = "lock"] /\ now' = now /\ pub[p].pc = "open"
    BY <1>4, <2>1 DEF Set, Clock
  <2>3. Valid(p)' /\ \A q \in Publishers \ {p} : pub'[q] = pub[q]
    BY <1>0, <1>t, <1>r, <2>2 DEF Valid, PublisherStates
  <2> QED BY <2>2, <2>3, <1>a
<1>5. ASSUME NEW p \in Publishers, Update(p) PROVE ValidInv'
  <2>1. Valid(p)' /\ now' = now /\ \A q \in Publishers \ {p} : pub'[q] = pub[q]
    BY <1>5, <1>0, <1>t, <1>r DEF Update, Valid, Clock, PublisherStates
  <2> QED BY <2>1, <1>a
<1>6. ASSUME NEW p \in Publishers, NoMem(p) \/ Stale(p) PROVE ValidInv'
  <2>1. Valid(p)' /\ now' = now /\ \A q \in Publishers \ {p} : pub'[q] = pub[q]
    BY <1>6, <1>0, <1>t, <1>r DEF NoMem, Stale, Valid, Clock, PublisherStates
  <2> QED BY <2>1, <1>a
<1>7. ASSUME NEW p \in Publishers, Publish(p) PROVE ValidInv'
  <2>1. pub'[p].pc = "idle" /\ pub'[p].result = "applied" /\ now' = now
    BY <1>7, <1>r DEF Publish, Clock, PublisherStates
  <2>2. \A q \in Publishers \ {p} :
            pub'[q].pc = pub[q].pc /\ pub'[q].msg = pub[q].msg /\ pub'[q].result = pub[q].result
    BY <1>7, <1>r DEF Publish, PublisherStates
  <2> QED BY <1>0, <2>1, <2>2 DEF ValidInv, Valid
<1>8. ASSUME NEW p \in Publishers, Resync(p) \/ ResyncFails(p) PROVE ValidInv'
  <2>1. PICK g \in Nat \ {0} :
            /\ pub'[p].msg = [pub[p].msg EXCEPT !.generation = g]
            /\ pub'[p].pc = "open" /\ pub'[p].result = pub[p].result
    <3>1. snap.generation + 1 \in Nat \ {0} /\ pub[p].generation + 1 \in Nat \ {0}
      BY <1>0, <1>r DEF MyfsTypeOK, Snapshots, PublisherStates
    <3>2. CASE Resync(p)
      BY <3>1, <3>2, <1>r, <1>t DEF Resync, Retried, PublisherStates
    <3>3. CASE ResyncFails(p)
      BY <3>1, <3>3, <1>r, <1>t DEF ResyncFails, Retried, PublisherStates
    <3> QED BY <1>8, <3>2, <3>3
  <2>2. pub[p].pc = "resync" /\ now' = now /\ \A q \in Publishers \ {p} : pub'[q] = pub[q]
    BY <1>8, <1>t DEF Resync, ResyncFails, Clock
  <2>3. Accepts(pub'[p].msg, now)
    BY <2>1, <2>2, <1>0, <1>r, <1>t, AcceptedUnderGeneration DEF Valid
  <2>4. Valid(p)'
    BY <2>1, <2>2, <2>3, <1>0 DEF Valid
  <2> QED BY <2>2, <2>4, <1>a
<1>9. ASSUME NEW p \in Publishers, Kill(p) PROVE ValidInv'
  <2>1. Valid(p)' /\ now' = now /\ \A q \in Publishers \ {p} : pub'[q] = pub[q]
    BY <1>9, <1>t DEF Kill, Valid, Down
  <2> QED BY <2>1, <1>a
<1>10. CASE Tick
  <2>1. now' = now + 1 /\ pub' = pub
    BY <1>10 DEF Tick
  <2>2. \A p \in Publishers : Accepts(pub[p].msg, now) => Accepts(pub[p].msg, now')
    BY <2>1, <1>t, <1>r, AcceptedLater
  <2> QED BY <2>1, <2>2, <1>0, <1>t DEF ValidInv, Valid
<1>11. CASE UNCHANGED vars
  BY <1>11, <1>0 DEF vars, ValidInv, Valid
<1> QED
  BY <1>1, <1>2, <1>3, <1>4, <1>5, <1>6, <1>7, <1>8, <1>9, <1>10, <1>11 DEF Next, Step

\* The kernel never finds a message of the service invalid, whatever the
\* inference was about and however long the message was on its way.
THEOREM MessagesPassValidation == Spec => []MessagesAreValid
<1>1. Init => ValidInv
  BY TypeInit DEF Init, ValidInv, Valid, Down
<1>2. ValidInv => MessagesAreValid
  BY DEF ValidInv, Valid, MessagesAreValid
<1> QED BY <1>1, <1>2, StepValid, PTL DEF Spec
=============================================================================
