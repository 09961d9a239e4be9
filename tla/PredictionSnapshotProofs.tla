----------------------- MODULE PredictionSnapshotProofs -----------------------
(***************************************************************************)
(* Proofs that the safety properties of PredictionSnapshot hold for all    *)
(* tasks, tables, limits, batches and clocks.                              *)
(*                                                                         *)
(* The inductive invariant says of the published snapshot, and of the one  *)
(* a writer is about to publish, that it is well formed and comes from one *)
(* batch; that the writer about to publish holds the mutex and has cloned  *)
(* the snapshot that is still published; and that what a writer carries    *)
(* to the mutex passed the checks made before it.                          *)
(***************************************************************************)
EXTENDS PredictionSnapshot, SequenceTheorems, TLAPS

-----------------------------------------------------------------------------
(* Tables.                                                                 *)

\* new is the table after entry e was put at position i.
IsPut(new, i, table, size, e, hits, S) ==
    /\ new \in Seq(S) /\ Len(new) <= size
    /\ i \in 1..Len(new) /\ (hits # {} => i \in hits)
    /\ hits = {} /\ Len(table) < size => i = Len(table) + 1
    /\ \A j \in 1..Len(new) : j # i => j \in 1..Len(table) /\ new[j] = table[j]
    /\ new[i] = e
    /\ \A j \in 1..Len(table) : j \in 1..Len(new)

\* Put at the slot parp_snapshot_update_*() chooses changes that entry only, and
\* the table stays within its array.
LEMMA PutProperties ==
    ASSUME NEW S, NEW table \in Seq(S), NEW size \in Nat \ {0}, Len(table) <= size,
           NEW e \in S, NEW hits \in SUBSET (1..Len(table))
    PROVE  IsPut(Put(table, Slot(hits, Len(table), size), e), Slot(hits, Len(table), size),
                 table, size, e, hits, S)
<1> DEFINE i == Slot(hits, Len(table), size)
           new == Put(table, i, e)
<1> SUFFICES IsPut(new, i, table, size, e, hits, S)
  OBVIOUS
<1>1. Len(table) \in Nat
  BY LenProperties
<1>0. hits # {} => i \in hits /\ i \in 1..Len(table)
  <2>1. hits # {} => (CHOOSE h \in hits : TRUE) \in hits
    OBVIOUS
  <2> QED
    BY <2>1 DEF Slot
<1>2. CASE i > Len(table)
  <2>1. hits = {} /\ i = Len(table) + 1 /\ Len(table) < size
    BY <1>0, <1>1, <1>2 DEF Slot
  <2> HIDE DEF i
  <2>2. new = Append(table, e)
    BY <1>2 DEF Put
  <2>3. new \in Seq(S) /\ Len(new) = Len(table) + 1 /\ new[Len(table) + 1] = e
        /\ \A j \in 1..Len(table) : new[j] = table[j]
    BY <2>2
  <2> QED
    <3> HIDE DEF new
    <3> QED
      BY <1>1, <2>1, <2>3 DEF IsPut
<1>3. CASE ~(i > Len(table))
  <2>1. i \in 1..Len(table) /\ (hits # {} => i \in hits)
        /\ (hits = {} => ~(Len(table) < size))
    BY <1>0, <1>1, <1>3 DEF Slot
  <2> HIDE DEF i
  <2>2. new = [table EXCEPT ![i] = e]
    BY <1>3 DEF Put
  <2>3. new \in Seq(S) /\ Len(new) = Len(table)
        /\ \A j \in 1..Len(table) : new[j] = IF j = i THEN e ELSE table[j]
    BY <2>1, <2>2, ExceptSeq
  <2> QED
    <3> HIDE DEF new
    <3> QED
      BY <1>1, <2>1, <2>3 DEF IsPut
<1> QED
  BY <1>2, <1>3

-----------------------------------------------------------------------------
(* What each update makes of a snapshot.                                   *)

\* A snapshot any reader may see.
Sound(s) ==
    /\ WellFormed(s)
    /\ FromOneBatch(s)
    /\ s.generation # 0 => s.expires = s.expiry /\ s.expires # 0
    /\ \A i \in 1..Len(s.bindings) : s.bindings[i].generation # 0

\* A clone (parp_clone_snapshot) is as sound as what it was cloned from.
LEMMA ClonedSound ==
    ASSUME NEW s, Sound(s), now \in Nat
    PROVE  /\ Sound(Cloned(s))
           /\ Cloned(s).version = s.version + 1
           /\ Cloned(s).generation = s.generation
           /\ Cloned(s).bindings = s.bindings
<1> DEFINE n == Cloned(s)
<1>1. s \in SnapshotType
  BY DEF Sound, WellFormed
<1>2. DefaultTtl \in Nat
  BY InputAssumption
<1>3. /\ n \in SnapshotType /\ n.version = s.version + 1 /\ n.generation = s.generation
      /\ n.bindings = s.bindings /\ n.priors = s.priors /\ n.model = s.model
      /\ n.expiry = s.expiry /\ n.expires = IF s.expires = 0 THEN now + DefaultTtl ELSE s.expires
  <2> DEFINE x == IF s.expires = 0 THEN now + DefaultTtl ELSE s.expires
  <2>1. n = [s EXCEPT !.version = s.version + 1, !.expires = x]
    BY DEF Cloned
  <2>2. x \in Nat /\ s.version + 1 \in Nat
    BY <1>1, <1>2 DEF SnapshotType
  <2> QED
    BY <1>1, <2>1, <2>2 DEF SnapshotType
<1> QED
  BY <1>3 DEF Sound, WellFormed, FromOneBatch

\* A binding put into a sound snapshot leaves it sound.
LEMMA BindingSound ==
    ASSUME NEW s, Sound(s), NEW b \in BindingType, b.generation # 0
    PROVE  /\ Sound(WithBinding(s, b))
           /\ WithBinding(s, b).version = s.version
           /\ WithBinding(s, b).generation = s.generation
           /\ Len(s.bindings) < MaxDomains =>
                \A d \in Domains : Bound(s, d) => Bound(WithBinding(s, b), d)
<1> DEFINE hits == {i \in 1..Len(s.bindings) : s.bindings[i].domain = b.domain}
           k == Slot(hits, Len(s.bindings), MaxDomains)
           t == Put(s.bindings, k, b)
           n == WithBinding(s, b)
<1>1. s \in SnapshotType /\ s.bindings \in Seq(BindingType) /\ Len(s.bindings) <= MaxDomains
  BY DEF Sound, WellFormed, SnapshotType
<1>2. hits \in SUBSET (1..Len(s.bindings)) /\ MaxDomains \in Nat \ {0}
  BY SizeAssumption
<1> HIDE DEF hits, k, t
<1>3. /\ t \in Seq(BindingType) /\ Len(t) <= MaxDomains
      /\ k \in 1..Len(t) /\ (hits # {} => k \in hits)
      /\ hits = {} /\ Len(s.bindings) < MaxDomains => k = Len(s.bindings) + 1
      /\ \A j \in 1..Len(t) : j # k => j \in 1..Len(s.bindings) /\ t[j] = s.bindings[j]
      /\ t[k] = b
      /\ \A j \in 1..Len(s.bindings) : j \in 1..Len(t)
  <2>1. IsPut(t, k, s.bindings, MaxDomains, b, hits, BindingType)
    BY <1>1, <1>2, PutProperties DEF k, t
  <2> QED
    BY <2>1 DEF IsPut
<1>4. n = [s EXCEPT !.bindings = t]
  BY <1>1 DEF WithBinding, t, k, hits, SnapshotType
<1>5. /\ n \in SnapshotType /\ n.bindings = t /\ n.version = s.version
      /\ n.generation = s.generation /\ n.priors = s.priors /\ n.model = s.model
      /\ n.expiry = s.expiry /\ n.expires = s.expires
  BY <1>1, <1>3, <1>4 DEF SnapshotType
<1>6. \A j \in 1..Len(t) : j # k => t[j].domain # b.domain
  <2> SUFFICES ASSUME NEW j \in 1..Len(t), j # k, t[j].domain = b.domain
               PROVE  FALSE
    OBVIOUS
  <2>1. j \in hits
    BY <1>3 DEF hits
  <2>2. k \in hits
    BY <2>1, <1>3
  <2>3. j \in 1..Len(s.bindings) /\ k \in 1..Len(s.bindings)
        /\ s.bindings[j].domain = s.bindings[k].domain
    BY <2>1, <2>2 DEF hits
  <2> QED
    BY <2>3 DEF Sound, WellFormed
<1>7. \A i, j \in 1..Len(t) : t[i].domain = t[j].domain => i = j
  <2> SUFFICES ASSUME NEW i \in 1..Len(t), NEW j \in 1..Len(t), t[i].domain = t[j].domain
               PROVE  i = j
    OBVIOUS
  <2>1. CASE i = k \/ j = k
    BY <2>1, <1>3, <1>6
  <2>2. CASE i # k /\ j # k
    BY <2>2, <1>3 DEF Sound, WellFormed
  <2> QED
    BY <2>1, <2>2
<1>8. Sound(n)
  <2>1. WellFormed(n)
    BY <1>3, <1>5, <1>7 DEF Sound, WellFormed
  <2>2. FromOneBatch(n)
    BY <1>5 DEF Sound, FromOneBatch
  <2> QED
    BY <1>3, <1>5, <2>1, <2>2 DEF Sound
<1>9. ASSUME Len(s.bindings) < MaxDomains, NEW d \in Domains, Bound(s, d)
       PROVE  Bound(n, d)
  <2>1. PICK j \in 1..Len(s.bindings) : s.bindings[j].domain = d
    BY <1>9 DEF Bound
  <2>2. j \in 1..Len(t)
    BY <1>3
  <2>3. CASE j # k
    BY <2>1, <2>2, <2>3, <1>3, <1>5 DEF Bound
  <2>4. CASE j = k
    <3>1. k \in hits
      BY <2>4, <1>3, <1>1, <1>9, LenProperties
    <3>2. t[k].domain = d
      BY <2>1, <2>4, <3>1, <1>3 DEF hits
    <3> QED
      BY <3>2, <1>3, <1>5 DEF Bound
  <2> QED
    BY <2>3, <2>4
<1> QED
  BY <1>5, <1>8, <1>9

\* A single prior is only put into a snapshot that comes from no batch.
LEMMA PriorSound ==
    ASSUME NEW s, Sound(s), s.generation = 0, NEW p \in PriorType
    PROVE  /\ Sound(WithPrior(s, p))
           /\ WithPrior(s, p).version = s.version
           /\ WithPrior(s, p).generation = s.generation
           /\ WithPrior(s, p).bindings = s.bindings
<1> DEFINE hits == {i \in 1..Len(s.priors) : s.priors[i].app = p.app}
           k == Slot(hits, Len(s.priors), MaxApps)
           t == Put(s.priors, k, p)
           n == WithPrior(s, p)
<1>1. s \in SnapshotType /\ s.priors \in Seq(PriorType) /\ Len(s.priors) <= MaxApps
  BY DEF Sound, WellFormed, SnapshotType
<1>2. hits \in SUBSET (1..Len(s.priors)) /\ MaxApps \in Nat \ {0}
  BY SizeAssumption
<1> HIDE DEF hits, k, t
<1>3. /\ t \in Seq(PriorType) /\ Len(t) <= MaxApps
      /\ k \in 1..Len(t) /\ (hits # {} => k \in hits)
      /\ \A j \in 1..Len(t) : j # k => j \in 1..Len(s.priors) /\ t[j] = s.priors[j]
      /\ t[k] = p
  <2>1. IsPut(t, k, s.priors, MaxApps, p, hits, PriorType)
    BY <1>1, <1>2, PutProperties DEF k, t
  <2> QED
    BY <2>1 DEF IsPut
<1>4. n = [s EXCEPT !.priors = t]
  BY <1>1 DEF WithPrior, t, k, hits, SnapshotType
<1>5. /\ n \in SnapshotType /\ n.priors = t /\ n.version = s.version
      /\ n.generation = s.generation /\ n.bindings = s.bindings
  BY <1>1, <1>3, <1>4 DEF SnapshotType
<1>6. \A j \in 1..Len(t) : j # k => t[j].app # p.app
  <2> SUFFICES ASSUME NEW j \in 1..Len(t), j # k, t[j].app = p.app
               PROVE  FALSE
    OBVIOUS
  <2>1. j \in hits
    BY <1>3 DEF hits
  <2>2. k \in hits
    BY <2>1, <1>3
  <2>3. j \in 1..Len(s.priors) /\ k \in 1..Len(s.priors) /\ s.priors[j].app = s.priors[k].app
    BY <2>1, <2>2 DEF hits
  <2> QED
    BY <2>3 DEF Sound, WellFormed
<1>7. \A i, j \in 1..Len(t) : t[i].app = t[j].app => i = j
  <2> SUFFICES ASSUME NEW i \in 1..Len(t), NEW j \in 1..Len(t), t[i].app = t[j].app
               PROVE  i = j
    OBVIOUS
  <2>1. CASE i = k \/ j = k
    BY <2>1, <1>3, <1>6
  <2>2. CASE i # k /\ j # k
    BY <2>2, <1>3 DEF Sound, WellFormed
  <2> QED
    BY <2>1, <2>2
<1>8. WellFormed(n)
  BY <1>3, <1>5, <1>7 DEF Sound, WellFormed
<1> QED
  BY <1>5, <1>8 DEF Sound, FromOneBatch

\* What validate_prior_batch() establishes, whatever the time.
Acceptable(b) ==
    /\ b.generation # 0 /\ b.expiry # 0 /\ Len(b.entries) \in 1..MaxApps
    /\ \A i \in 1..Len(b.entries) :
          /\ b.entries[i].app # 0
          /\ \A j \in 1..(i - 1) :
                /\ b.entries[j].app # b.entries[i].app
                /\ ~(b.entries[j].foreground /\ b.entries[i].foreground)

\* The priors of an acceptable batch replace those of a sound snapshot as a whole.
LEMMA BatchSound ==
    ASSUME NEW s, Sound(s), NEW b \in Batches, Acceptable(b)
    PROVE  /\ Sound(WithBatch(s, b))
           /\ WithBatch(s, b).version = s.version
           /\ WithBatch(s, b).generation = b.generation
           /\ WithBatch(s, b).bindings = s.bindings
<1> DEFINE prior(i) == [app |-> b.entries[i].app, score |-> b.entries[i].score,
                        foreground |-> b.entries[i].foreground, expires |-> b.expiry,
                        model |-> b.model, generation |-> b.generation]
           len == Len(b.entries)
           t == [i \in 1..len |-> prior(i)]
           n == WithBatch(s, b)
<1>1. s \in SnapshotType /\ b \in BatchType
  BY BatchAssumption DEF Sound, WellFormed
<1>2. len \in 1..MaxApps /\ len \in Nat /\ MaxApps \in Nat
  BY SizeAssumption DEF Acceptable
<1>3. \A i \in 1..len : prior(i) \in PriorType
  <2> SUFFICES ASSUME NEW i \in 1..len
               PROVE  prior(i) \in PriorType
    OBVIOUS
  <2>1. b.entries[i] \in EntryType
    BY <1>1, ElementOfSeq DEF BatchType
  <2>2. b.entries[i].app \in Apps
    BY <2>1 DEF EntryType, Acceptable
  <2> QED
    BY <1>1, <2>1, <2>2 DEF EntryType, BatchType, PriorType
<1>4. t \in Seq(PriorType) /\ Len(t) = len
  <2>1. t \in [1..len -> PriorType]
    BY <1>3
  <2>2. t \in Seq(PriorType)
    <3>1. Seq(PriorType) = UNION {[1..m -> PriorType] : m \in Nat}
      BY SeqDef
    <3> HIDE DEF t, len
    <3> QED
      BY <2>1, <1>2, <3>1
  <2>3. DOMAIN t = 1..len /\ DOMAIN t = 1..Len(t) /\ Len(t) \in Nat
    BY <2>2, LenProperties
  <2> HIDE DEF t
  <2> QED
    BY <2>2, <2>3, <1>2
<1>5. /\ n \in SnapshotType /\ n.priors = t /\ n.version = s.version
      /\ n.generation = b.generation /\ n.model = b.model /\ n.expiry = b.expiry
      /\ n.expires = b.expiry /\ n.bindings = s.bindings
  <2>1. n = [s EXCEPT !.generation = b.generation, !.model = b.model, !.expiry = b.expiry,
                      !.expires = b.expiry, !.priors = t]
    BY DEF WithBatch
  <2> HIDE DEF t, n
  <2> QED
    BY <1>1, <1>4, <2>1 DEF SnapshotType, BatchType
<1>6. \A i \in 1..len : /\ t[i].app = b.entries[i].app
                        /\ t[i].foreground = b.entries[i].foreground
                        /\ t[i].expires = b.expiry /\ t[i].model = b.model
                        /\ t[i].generation = b.generation
  OBVIOUS
<1> HIDE DEF t, n, prior
<1>7. \A i, j \in 1..len : i # j => /\ t[i].app # t[j].app
                                    /\ ~(t[i].foreground /\ t[j].foreground)
  <2> SUFFICES ASSUME NEW i \in 1..len, NEW j \in 1..len, i # j
               PROVE  /\ t[i].app # t[j].app
                      /\ ~(t[i].foreground /\ t[j].foreground)
    OBVIOUS
  <2>1. i \in 1..(j - 1) \/ j \in 1..(i - 1)
    BY <1>2
  <2> QED
    BY <1>6, <2>1 DEF Acceptable
<1>8. WellFormed(n)
  BY <1>2, <1>4, <1>5, <1>7 DEF Sound, WellFormed
<1>9. FromOneBatch(n)
  BY <1>4, <1>5, <1>6, <1>7 DEF FromOneBatch
<1>10. n.generation # 0 => n.expires = n.expiry /\ n.expires # 0
  BY <1>5 DEF Acceptable
<1>11. \A i \in 1..Len(n.bindings) : n.bindings[i].generation # 0
  BY <1>5 DEF Sound
<1>12. Sound(n)
  BY <1>8, <1>9, <1>10, <1>11 DEF Sound
<1> QED
  BY <1>5, <1>12 DEF n

-----------------------------------------------------------------------------
(* The inductive invariant.                                                *)

Carries(op, arg) ==
    \/ op = "bind" /\ arg \in BindingType /\ arg.generation # 0
    \/ op = "prior" /\ arg \in PriorType
    \/ op = "batch" /\ arg \in Batches /\ Acceptable(arg)

WriterOK(w) ==
    /\ writer[w].pc \in {"idle", "lock", "publish"}
    /\ writer[w].pc = "lock" => Carries(writer[w].op, writer[w].arg)
    /\ writer[w].pc = "publish" =>
         updateLock = w /\ Sound(writer[w].new) /\ Follows(snap, writer[w].new)

IInv ==
    /\ now \in Nat /\ bindGen \in Nat
    /\ Sound(snap)
    /\ DOMAIN writer = Writers
    /\ \A w \in Writers : WriterOK(w)

\* No snapshot and idle writers satisfy the invariant.
LEMMA InitIInv == SnapshotInit => IInv
<1> SUFFICES ASSUME SnapshotInit
             PROVE  IInv
  OBVIOUS
<1>1. NoSnapshot \in SnapshotType /\ Len(NoSnapshot.priors) = 0 /\ Len(NoSnapshot.bindings) = 0
  BY DEF NoSnapshot, SnapshotType
<1>2. Sound(snap)
  BY <1>1, SizeAssumption DEF SnapshotInit, Sound, WellFormed, FromOneBatch, NoSnapshot
<1> QED
  BY <1>2 DEF SnapshotInit, IInv, WriterOK, IdleWriter

\* parp_validate_prior_batch() accepts only batches with a generation, an
\* expiry, and distinct nonzero applications of which one at most is in front.
LEMMA ValidatedIsAcceptable ==
    ASSUME NEW b \in Batches, validate_prior_batch(b, now)
    PROVE  Acceptable(b)
<1>1. b \in BatchType
  BY BatchAssumption
<1> QED
  BY <1>1 DEF validate_prior_batch, Acceptable, BatchType

\* What a writer computes under the mutex is sound and follows the snapshot.
LEMMA ChangedFollows ==
    ASSUME IInv, NEW w \in Writers, writer[w].pc = "lock",
           ~Refused(writer[w].op, writer[w].arg)
    PROVE  /\ Sound(Changed(writer[w].op, writer[w].arg))
           /\ Follows(snap, Changed(writer[w].op, writer[w].arg))
<1> DEFINE op == writer[w].op
           arg == writer[w].arg
           c == Cloned(snap)
           n == Changed(op, arg)
<1> SUFFICES Sound(n) /\ Follows(snap, n)
  OBVIOUS
<1>1. Sound(c) /\ c.version = snap.version + 1 /\ c.generation = snap.generation
      /\ c.bindings = snap.bindings
  BY ClonedSound DEF IInv
<1>2. snap.generation \in Nat
  BY DEF IInv, Sound, WellFormed, SnapshotType
<1>3. Carries(op, arg)
  BY DEF IInv, WriterOK
<1> HIDE DEF op, arg, c
<1>4. CASE op = "bind" /\ arg \in BindingType /\ arg.generation # 0
  <2>1. n = WithBinding(c, arg)
    BY <1>4 DEF Changed, c
  <2>2. Sound(n) /\ n.version = c.version /\ n.generation = c.generation
        /\ (Len(c.bindings) < MaxDomains => \A d \in Domains : Bound(c, d) => Bound(n, d))
    BY <1>1, <1>4, <2>1, BindingSound
  <2> QED
    <3> HIDE DEF n
    <3> QED
      BY <1>1, <1>2, <2>2 DEF Follows, Bound
<1>5. CASE op = "prior" /\ arg \in PriorType
  <2>1. n = WithPrior(c, arg)
    BY <1>5 DEF Changed, c
  <2>2. c.generation = 0
    BY <1>1, <1>5 DEF Refused, op, arg
  <2>3. Sound(n) /\ n.version = c.version /\ n.generation = c.generation /\ n.bindings = c.bindings
    BY <1>1, <1>5, <2>1, <2>2, PriorSound
  <2> QED
    <3> HIDE DEF n
    <3> QED
      BY <1>1, <1>2, <2>3 DEF Follows, Bound
<1>6. CASE op = "batch" /\ arg \in Batches /\ Acceptable(arg)
  <2>1. n = WithBatch(c, arg)
    BY <1>6 DEF Changed, c
  <2>2. Sound(n) /\ n.version = c.version /\ n.generation = arg.generation /\ n.bindings = c.bindings
    BY <1>1, <1>6, <2>1, BatchSound
  <2>3. arg.generation \in Nat
    BY <1>6, BatchAssumption DEF BatchType
  <2>4. ~(arg.generation <= snap.generation)
    BY <1>6 DEF Refused, op, arg
  <2> QED
    <3> HIDE DEF n
    <3> QED
      BY <1>1, <1>2, <2>2, <2>3, <2>4 DEF Follows, Bound
<1> QED
  BY <1>3, <1>4, <1>5, <1>6 DEF Carries, op, arg

\* Every step of every writer preserves the invariant.
LEMMA NextIInv == IInv /\ [SnapshotNext]_<<snapshotVars, now, calls>> => IInv'
<1> SUFFICES ASSUME IInv, [SnapshotNext]_<<snapshotVars, now, calls>>
             PROVE  IInv'
  OBVIOUS
<1> USE DEF IInv
\* A step that leaves the snapshot and the mutex alone and moves writer w only.
<1>1. ASSUME NEW w \in Writers, NEW rec, UNCHANGED <<snap, updateLock, now>>, bindGen' \in Nat,
             writer' = [writer EXCEPT ![w] = rec],
             rec.pc \in {"idle", "lock"}, rec.pc = "lock" => Carries(rec.op, rec.arg)
      PROVE  IInv'
  <2>1. \A v \in Writers : writer'[v] = IF v = w THEN rec ELSE writer[v]
    BY <1>1
  <2>2. \A v \in Writers : WriterOK(v)'
    BY <1>1, <2>1 DEF WriterOK
  <2> QED
    BY <1>1, <2>2
<1>2. ASSUME NEW w \in Writers, Bind(w)
      PROVE  IInv'
  <2>1. PICK d \in Domains, a \in Apps, m \in Models, ttl \in Ttls :
          writer' = [writer EXCEPT ![w] =
              [pc |-> "lock", op |-> "bind", new |-> None,
               arg |-> [domain |-> d, app |-> a, generation |-> bindGen + 1,
                        expires |-> now + ttl, model |-> m]]]
    BY <1>2 DEF Bind
  <2> DEFINE rec == [pc |-> "lock", op |-> "bind", new |-> None,
                     arg |-> [domain |-> d, app |-> a, generation |-> bindGen + 1,
                              expires |-> now + ttl, model |-> m]]
  <2>2. rec.arg \in BindingType /\ rec.arg.generation # 0
    BY InputAssumption DEF BindingType
  <2>3. rec.pc = "lock" /\ rec.op = "bind"
    OBVIOUS
  <2>4. Carries(rec.op, rec.arg)
    BY <2>2, <2>3 DEF Carries
  <2>5. writer' = [writer EXCEPT ![w] = rec]
    BY <2>1
  <2>6. UNCHANGED <<snap, updateLock, now>> /\ bindGen' \in Nat
    BY <1>2 DEF Bind
  <2> HIDE DEF rec
  <2> QED
    BY <1>1, <2>3, <2>4, <2>5, <2>6
<1>3. ASSUME NEW w \in Writers, Prior(w)
      PROVE  IInv'
  <2>1. PICK a \in Apps, m \in Models, ttl \in Ttls :
          writer' = [writer EXCEPT ![w] =
              [pc |-> "lock", op |-> "prior", new |-> None,
               arg |-> [app |-> a, score |-> 0, foreground |-> FALSE, expires |-> now + ttl,
                        model |-> m, generation |-> 0]]]
    BY <1>3 DEF Prior
  <2> DEFINE rec == [pc |-> "lock", op |-> "prior", new |-> None,
                     arg |-> [app |-> a, score |-> 0, foreground |-> FALSE, expires |-> now + ttl,
                              model |-> m, generation |-> 0]]
  <2>2. rec.arg \in PriorType
    BY InputAssumption DEF PriorType
  <2>3. rec.pc = "lock" /\ rec.op = "prior"
    OBVIOUS
  <2>4. Carries(rec.op, rec.arg)
    BY <2>2, <2>3 DEF Carries
  <2>5. writer' = [writer EXCEPT ![w] = rec]
    BY <2>1
  <2>6. UNCHANGED <<snap, updateLock, now>> /\ bindGen' \in Nat
    BY <1>3 DEF Prior
  <2> HIDE DEF rec
  <2> QED
    BY <1>1, <2>3, <2>4, <2>5, <2>6
<1>4. ASSUME NEW w \in Writers, PriorBatch(w)
      PROVE  IInv'
  <2>1. PICK b \in Batches :
          writer' = IF validate_prior_batch(b, now)
                    THEN [writer EXCEPT ![w] = [pc |-> "lock", op |-> "batch", arg |-> b, new |-> None]]
                    ELSE writer
    BY <1>4 DEF PriorBatch
  <2>2. UNCHANGED <<snap, updateLock, bindGen, now>>
    BY <1>4 DEF PriorBatch
  <2>3. CASE validate_prior_batch(b, now)
    <3> DEFINE rec == [pc |-> "lock", op |-> "batch", arg |-> b, new |-> None]
    <3>1. Acceptable(b)
      BY <2>3, ValidatedIsAcceptable
    <3>2. rec.pc = "lock" /\ Carries(rec.op, rec.arg)
      BY <3>1 DEF Carries
    <3>3. writer' = [writer EXCEPT ![w] = rec]
      BY <2>1, <2>3
    <3> HIDE DEF rec
    <3> QED
      BY <1>1, <2>2, <3>2, <3>3
  <2>4. CASE ~validate_prior_batch(b, now)
    <3>1. writer' = writer
      BY <2>1, <2>4
    <3> QED
      BY <2>2, <3>1 DEF WriterOK
  <2> QED
    BY <2>3, <2>4
<1>5. ASSUME NEW w \in Writers, Update(w)
      PROVE  IInv'
  <2> DEFINE n == Changed(writer[w].op, writer[w].arg)
  <2>1. Sound(n) /\ Follows(snap, n)
    BY <1>5, ChangedFollows DEF Update
  <2> HIDE DEF n
  <2>2. /\ updateLock = NoTask /\ updateLock' = w /\ UNCHANGED <<snap, bindGen, now>>
        /\ writer' = [writer EXCEPT ![w] = [IdleWriter EXCEPT !.pc = "publish", !.new = n]]
    BY <1>5 DEF Update, UpdateLockFree, n
  <2>3. \A v \in Writers : writer[v].pc # "publish"
    BY <2>2, WriterAssumption DEF WriterOK
  <2>4. \A v \in Writers : v # w => writer'[v] = writer[v]
    BY <2>2
  <2>5. writer'[w].pc = "publish" /\ writer'[w].new = n
    BY <2>2 DEF IdleWriter
  <2>6. WriterOK(w)'
    BY <2>1, <2>2, <2>5 DEF WriterOK
  <2>7. \A v \in Writers : v # w => WriterOK(v)'
    BY <2>2, <2>3, <2>4 DEF WriterOK
  <2> QED
    BY <2>2, <2>6, <2>7
<1>6. ASSUME NEW w \in Writers, UpdateFails(w)
      PROVE  IInv'
  <2>1. IdleWriter.pc = "idle"
    BY DEF IdleWriter
  <2>2. UNCHANGED <<snap, updateLock, now>> /\ bindGen' \in Nat
        /\ writer' = [writer EXCEPT ![w] = IdleWriter]
    BY <1>6 DEF UpdateFails, ErrorUnlock
  <2> QED
    BY <1>1, <2>1, <2>2
<1>7. ASSUME NEW w \in Writers, Publish(w)
      PROVE  IInv'
  <2>1. /\ snap' = writer[w].new /\ writer' = [writer EXCEPT ![w] = IdleWriter]
        /\ UNCHANGED <<bindGen, now>> /\ writer[w].pc = "publish"
    BY <1>7 DEF Publish
  <2>2. Sound(snap)' /\ updateLock = w
    BY <2>1 DEF WriterOK
  <2>3. \A v \in Writers : v # w => writer[v].pc # "publish" /\ writer'[v] = writer[v]
    BY <2>1, <2>2 DEF WriterOK
  <2>4. writer'[w].pc = "idle"
    BY <2>1 DEF IdleWriter
  <2>5. \A v \in Writers : WriterOK(v)'
    BY <2>3, <2>4 DEF WriterOK
  <2> QED
    BY <2>1, <2>2, <2>5
<1>8. CASE Tick
  BY <1>8 DEF Tick, snapshotVars, WriterOK
<1>9. CASE UNCHANGED <<snapshotVars, now, calls>>
  BY <1>9 DEF snapshotVars, WriterOK
<1> QED
  BY <1>2, <1>3, <1>4, <1>5, <1>6, <1>7, <1>8, <1>9 DEF SnapshotNext, WriterStep

\* The invariant holds in every reachable state.
LEMMA Invariance == SnapshotSpec => []IInv
  BY InitIInv, NextIInv, PTL DEF SnapshotSpec

-----------------------------------------------------------------------------
(* The theorems.                                                           *)

\* The tables of every published snapshot stay within their arrays and have one
\* entry per cgroup and per application (parp_snapshot_update_binding and
\* parp_snapshot_update_prior overwrite an entry only in its own place or in
\* the last one).
THEOREM SnapshotsWellFormed == SnapshotSpec => []SnapshotOK
<1>1. IInv => SnapshotOK
  BY DEF IInv, Sound, SnapshotOK
<1> QED
  BY <1>1, Invariance, PTL

\* Priors of different batches are never mixed (the -EBUSY of
\* parp_snapshot_update_prior and the stamping in replace_prior_batch).
THEOREM PriorsComeFromOneBatch == SnapshotSpec => []OneGeneration
<1>1. IInv => OneGeneration
  BY DEF IInv, Sound, OneGeneration
<1> QED
  BY <1>1, Invariance, PTL

\* A publication follows the snapshot it replaces.
LEMMA StepIsSerial ==
    IInv /\ [SnapshotNext]_<<snapshotVars, now>> => [snap' # snap => Follows(snap, snap')]_snap
<1> SUFFICES ASSUME IInv, [SnapshotNext]_<<snapshotVars, now>>, snap' # snap
             PROVE  Follows(snap, snap')
  OBVIOUS
<1>1. PICK w \in Writers : Publish(w)
  BY DEF SnapshotNext, WriterStep, Tick, Bind, Prior, PriorBatch, Update, UpdateFails, snapshotVars
<1> QED
  BY <1>1 DEF Publish, IInv, WriterOK

\* Publications form one line although the input is checked, and the bind
\* generation taken, before the update mutex.
THEOREM PublicationsAreSerial == SnapshotSpec => UpdatesAreSerial
<1>1. [SnapshotNext]_<<snapshotVars, now, calls>> => [SnapshotNext]_<<snapshotVars, now>>
  OBVIOUS
<1> QED
  BY <1>1, StepIsSerial, Invariance, PTL DEF SnapshotSpec, UpdatesAreSerial

\* The readers agree in every state that satisfies the invariant.
LEMMA ReadersAgreeInIInv == IInv => ReadersAgree
<1> SUFFICES ASSUME IInv, snap.generation # 0, NEW d \in Domains
             PROVE  context_valid(fill_scan_budget_input(snap, d, now)) <=> context_lookup(snap, d, now)
  BY DEF ReadersAgree
<1> DEFINE b == BindingOf(snap, d)
           p == PriorOf(snap, b.app)
           bound == {i \in 1..Len(snap.bindings) : snap.bindings[i].domain = d}
           given == {i \in 1..Len(snap.priors) : snap.priors[i].app = b.app}
<1>1. /\ snap \in SnapshotType /\ FromOneBatch(snap) /\ snap.expires = snap.expiry
      /\ \A i \in 1..Len(snap.bindings) : snap.bindings[i].generation # 0
  BY DEF IInv, Sound, WellFormed
<1>2. context_valid(fill_scan_budget_input(snap, d, now)) <=>
        /\ b # NoBinding /\ b.generation # 0 /\ now < b.expires
        /\ p # NoPrior /\ now < snap.expiry /\ p.generation = snap.generation
        /\ b.model = snap.model /\ p.model = snap.model
  BY DEF context_valid, fill_scan_budget_input
<1>3. context_lookup(snap, d, now) <=>
        /\ now < snap.expires /\ b # NoBinding /\ now < b.expires
        /\ p # NoPrior /\ now < p.expires /\ p.model = b.model
  BY DEF context_lookup
<1>4. CASE bound = {}
  <2>1. b = NoBinding
    BY <1>4 DEF BindingOf, First
  <2> HIDE DEF b, p
  <2> QED
    BY <1>2, <1>3, <2>1
<1>5. CASE bound # {} /\ given = {}
  <2>1. p = NoPrior
    BY <1>5 DEF PriorOf, First
  <2> HIDE DEF b, p
  <2> QED
    BY <1>2, <1>3, <2>1
<1>6. CASE bound # {} /\ given # {}
  <2>1. \E i \in 1..Len(snap.bindings) : b = snap.bindings[i] /\ snap.bindings[i].domain = d
    <3>1. (CHOOSE i \in bound : TRUE) \in bound
      BY <1>6
    <3> QED
      BY <3>1, <1>6 DEF BindingOf, First
  <2>2. \E j \in 1..Len(snap.priors) : p = snap.priors[j]
    <3>1. (CHOOSE j \in given : TRUE) \in given
      BY <1>6
    <3> HIDE DEF b
    <3> QED
      BY <3>1, <1>6 DEF PriorOf, First
  <2> HIDE DEF b, p
  <2>3. b.generation # 0
    BY <1>1, <2>1
  <2>4. p.generation = snap.generation /\ p.model = snap.model /\ p.expires = snap.expiry
    BY <1>1, <2>2 DEF FromOneBatch
  <2> QED
    BY <1>1, <1>2, <1>3, <2>3, <2>4
<1> QED
  BY <1>4, <1>5, <1>6

\* Scan budgets and parp_context_lookup() give the same answer about every
\* cgroup at every time: the fields in which their checks differ are tied
\* together by the way batches are stamped and snapshots are cloned.
THEOREM BothReadersAgree == SnapshotSpec => []ReadersAgree
  BY ReadersAgreeInIInv, Invariance, PTL
=============================================================================
