--------------------------- MODULE ReuseStateProofs ---------------------------
(***************************************************************************)
(* Proofs that the safety properties of ReuseState hold for all CPUs,      *)
(* field widths, sequence lengths, generations and tags.                   *)
(*                                                                         *)
(* The sequence of a page is odd exactly while somebody holds its lock, so *)
(* only the holder stores (LockInv, StoreInv).  A reader compares the      *)
(* sequence with one it read before; Ahead says how far it ran meanwhile,  *)
(* which is less than a wrap, so an unchanged sequence means that nobody   *)
(* wrote and that the words copied so far are those in memory (ReaderInv). *)
(* For the scanner the same argument ties the decision it carries to the   *)
(* page (StepInv, DecisionInv, FolioInv).  A claim is the last store of a  *)
(* critical section and made only after a successful test (SectionOK): at  *)
(* most one per page, direction and epoch, and for the current decision    *)
(* (EpochInv).                                                             *)
(***************************************************************************)
EXTENDS ReuseState, SequenceTheorems, TLAPS

CPUFields == {"pc", "kind", "now", "arg", "todo", "new", "first", "got", "copied", "lag"}
ScanFields == {"step", "expect", "gen", "cur", "flagsOk", "dir", "held", "isolated", "lag"}

Gens == 0..(NrGens - 1)
Times == 0..(TimeMod - 1)

\* One store of a critical section: a payload word and its new value.
Writes == ({"last", "enter"} \X Times) \cup ({"prev", "ema"} \X (0..U16Max))
            \cup ({"epochs"} \X Epochs)

CPUType(x) ==
    /\ DOMAIN x = CPUFields
    /\ x.pc \in {"idle", "begin", "store", "words", "second", "epochs", "check"}
    /\ x.now \in Times /\ x.lag \in 0..MaxLag /\ x.got \in Mems /\ x.new \in Words
    /\ x.todo \in Seq(Writes)
    /\ x.kind = "move" => x.arg \in Gens
    /\ x.kind = "pending" => x.arg = "decided"

\* The two kinds of CPU make different calls.
CallerType(x) ==
    /\ x.pc \in {"idle", "begin", "store", "words", "second"}
    /\ x.pc \in {"begin", "store"} => x.kind \in {"access", "hint", "move", "outcome"}
    /\ x.pc = "words" => x.copied \in 0..4
    /\ x.pc = "second" => x.copied = 5
    /\ x.kind = "outcome" => x.pc \in {"begin", "store"}
ScannerType(x) ==
    /\ x.pc \in {"idle", "begin", "store", "epochs", "check"}
    /\ x.pc \in {"begin", "store"} => x.kind \in {"features", "claim", "move", "release", "pending"}
    /\ x.kind # "outcome"

ScanType ==
    /\ DOMAIN scan = ScanFields
    /\ scan.expect \in 0..(SeqMod - 1) /\ scan.lag \in 0..MaxLag /\ scan.cur \in Gens
    /\ scan.dir \in Dirs \cup {None} /\ scan.held \in Dirs \cup {None}

WorldType ==
    /\ DOMAIN folio = {"where", "gen"} /\ folio.gen \in Gens /\ minGen \in Gens
    /\ tag \in 1..TagMax /\ run \in 1..MaxRuns /\ now \in Times
    /\ done.n \in [Dirs -> Nat] /\ done.tag \in [Dirs -> Nat] /\ DOMAIN done = {"n", "tag"}

Types ==
    /\ word \in Words /\ mem \in Mems
    /\ DOMAIN cpu = AllCPUs
    /\ \A c \in AllCPUs : CPUType(cpu[c])
    /\ \A c \in CPUs : CallerType(cpu[c])
    /\ ScannerType(cpu[Scanner])
    /\ ScanType /\ WorldType

\* The lock's holder is the one CPU inside a critical section, and the sequence
\* is odd exactly then.
LockInv ==
    /\ lock \in AllCPUs \cup {NoCPU}
    /\ \A c \in AllCPUs : cpu[c].pc = "store" <=> lock = c
    /\ Odd(word) <=> lock # NoCPU
    /\ ~fault

\* How far the sequence is ahead of one read when it was base, after n
\* published writes: it wraps at most once.
Ahead(base, n) ==
    LET k == 2 * n + (IF lock = NoCPU THEN 0 ELSE 1)
    IN  word.seq = base + k \/ word.seq = base + k - SeqMod

ReaderInv(c) ==
    Reading(c) =>
        /\ cpu[c].first \in Words
        /\ Ahead(cpu[c].first.seq, cpu[c].lag)
        /\ lock # NoCPU => cpu[c].lag < MaxLag
        /\ cpu[c].lag = 0 /\ lock = NoCPU =>
              \A i \in 1..cpu[c].copied : cpu[c].got[ReadOrder[i]] = mem[ReadOrder[i]]

\* What the scanner's call says about its decision.
StepInv ==
    LET x == cpu[Scanner] IN
    /\ x.pc \in {"epochs", "check"} => scan.step = "revalidate"
    /\ x.pc \in {"begin", "store"} =>
          /\ x.kind = "features" => scan.step = "features"
          /\ x.kind = "claim" => scan.step = "claim" /\ scan.dir \in Dirs
          /\ x.kind = "move" => scan.step = "moving"
          /\ x.kind = "release" => scan.step = "releasing" /\ scan.held \in Dirs
          /\ x.kind = "pending" => scan.step = "pending"
    /\ scan.step \in {"idle", "features", "decide", "claim"} => scan.held = None

DecisionInv ==
    /\ Deciding => /\ Ahead(scan.expect, scan.lag)
                   /\ lock \in CPUs => scan.lag < MaxLag
    /\ scan.step = "claim" /\ cpu[Scanner].pc = "store" /\ cpu[Scanner].arg => scan.lag = 0

FolioInv ==
    /\ folio.where \in {"settled", "free"} => scan.step = "idle"
    /\ folio.where = "free" => \A c \in AllCPUs : cpu[c].pc = "idle"
    /\ \A c \in CPUs : cpu[c].kind = "outcome" =>
          folio.where \in {"isolated", "settled"} /\ scan.step = "idle"

\* A pending store of the epochs puts down what the section found, or a fresh
\* record for the section's run, or adds or drops the scanner's claim.
EpochsStore(kind, ok, v) ==
    /\ v.run <= run
    /\ \/ /\ kind = "access"
          /\ mem.epochs.run = run => v = mem.epochs
          /\ v = mem.epochs \/ (v.up = 0 /\ v.down = 0)
       \/ /\ kind = "claim" /\ ok
          /\ v = [mem.epochs EXCEPT ![scan.dir] = tag]
       \/ /\ kind = "release"
          /\ v = [mem.epochs EXCEPT ![scan.held] = 0]

\* What is left to store by a section of the given kind that tells its caller
\* ok: the epochs come last, and a claim and a release store nothing else.
SectionOK(todo, kind, ok) ==
    \A i \in 1..Len(todo) :
        /\ todo[i][1] = "epochs" => i = Len(todo) /\ EpochsStore(kind, ok, todo[i][2])
        /\ kind \in {"claim", "release"} => todo[i][1] = "epochs"

StoreInv(c) == cpu[c].pc = "store" => SectionOK(cpu[c].todo, cpu[c].kind, cpu[c].arg)

\* The scanner's call has claimed, or has given back, the page.
Claiming == cpu[Scanner].pc = "store" /\ cpu[Scanner].kind = "claim" /\ cpu[Scanner].arg
Released == /\ cpu[Scanner].pc = "store" /\ cpu[Scanner].kind = "release"
            /\ cpu[Scanner].todo = <<>>

\* The page carries a claim in direction d for the decision being made.
Marked(d) ==
    \/ scan.held = d /\ scan.step # "pending"
    \/ Claiming /\ scan.dir = d /\ cpu[Scanner].todo = <<>>

EpochInv ==
    /\ mem.epochs.run <= run
    /\ Claiming => mem.epochs.run = run /\ done.n[scan.dir] = 0
    /\ \A d \in Dirs :
          /\ done.n[d] <= 1
          /\ done.n[d] = 1 => mem.epochs.run = run /\ mem.epochs[d] = tag
          /\ mem.epochs[d] \in {0, done.tag[d]} \/ Marked(d)
          /\ Marked(d) => /\ done.n[d] = 0 /\ mem.epochs.run = run
                          /\ mem.epochs[d] = IF Released THEN 0 ELSE tag

IInv ==
    /\ Types /\ LockInv
    /\ \A c \in CPUs : ReaderInv(c)
    /\ StepInv /\ DecisionInv /\ FolioInv
    /\ \A c \in AllCPUs : StoreInv(c)
    /\ EpochInv

-----------------------------------------------------------------------------
(* Arithmetic.                                                             *)

\* A remainder is smaller than its divisor.
LEMMA Remainder ==
    ASSUME NEW a \in Int, NEW m \in Nat \ {0}
    PROVE  a % m \in 0..(m - 1)
  OBVIOUS

\* The next sequence number: it wraps at SeqMod and is odd after an even one.
LEMMA SequenceNext ==
    ASSUME NEW s \in 0..(SeqMod - 1)
    PROVE  /\ (s + 1) % SeqMod = IF s + 1 = SeqMod THEN 0 ELSE s + 1
           /\ (s + 1) % SeqMod \in 0..(SeqMod - 1)
           /\ ((s + 1) % SeqMod) % 2 = 1 <=> s % 2 # 1
<1> DEFINE n == (s + 1) % SeqMod
<1>1. SeqMod \in Nat \ {0} /\ SeqMod % 2 = 0
  BY SeqAssumption
<1>2. n = IF s + 1 = SeqMod THEN 0 ELSE s + 1
  <2>1. CASE s + 1 = SeqMod
    BY <1>1, <2>1
  <2>2. CASE s + 1 < SeqMod
    BY <1>1, <2>2
  <2> QED BY <1>1, <2>1, <2>2
<1> HIDE DEF n
<1>3. n \in 0..(SeqMod - 1) /\ (n % 2 = 1 <=> s % 2 # 1)
  <2>1. CASE s + 1 = SeqMod
    BY <1>1, <1>2, <2>1
  <2>2. CASE s + 1 # SeqMod
    BY <1>1, <1>2, <2>2
  <2> QED BY <2>1, <2>2
<1> QED
  BY <1>2, <1>3 DEF n

\* The moving averages stay inside their fields.
LEMMA Averages ==
    ASSUME NEW h \in 0..U8Max, NEW old \in 0..U16Max, NEW sample \in Nat
    PROVE  /\ access_ema_on_access(h) \in 0..U8Max
           /\ access_ema_on_candidate(h) \in 0..U8Max
           /\ interval_ema(old, sample) \in 0..U16Max
           /\ Min2(sample, U16Max) \in 0..U16Max
<1>1. U8Max \in Nat /\ U16Max \in Nat
  BY WidthAssumption
<1>2. access_ema_on_access(h) \in 0..U8Max /\ access_ema_on_candidate(h) \in 0..U8Max
  BY <1>1 DEF access_ema_on_access, access_ema_on_candidate, Min2, Max2
<1>3. Min2(sample, U16Max) \in 0..U16Max
  BY <1>1 DEF Min2
<1>4. interval_ema(old, sample) \in 0..U16Max
  BY <1>1, <1>3 DEF interval_ema
<1> QED
  BY <1>2, <1>3, <1>4

\* The initial values are well typed.
LEMMA FreshTypes ==
    /\ FreshWord \in Words /\ FreshMem \in Mems /\ NoEpochs \in Epochs
    /\ CPUType(IdleCPU) /\ CallerType(IdleCPU) /\ ScannerType(IdleCPU)
    /\ IdleCPU.pc = "idle" /\ IdleCPU.kind = None /\ IdleCPU.lag = 0 /\ IdleCPU.got = FreshMem
<1>1. /\ 0 \in 0..U8Max /\ 0 \in 0..U16Max /\ 0 \in 0..CandMax /\ 0 \in Gens /\ 0 \in 0..TagMax
      /\ 0 \in 0..MaxRuns /\ 0 \in 0..(SeqMod - 1) /\ 0 \in Times /\ 0 \in 0..MaxLag
  BY WidthAssumption, SeqAssumption, TimeAssumption DEF Gens, Times
<1>2. FreshWord \in Words
  BY <1>1 DEF FreshWord, Words, Gens
<1>3. NoEpochs \in Epochs
  BY <1>1 DEF NoEpochs, Epochs
<1>4. FreshMem \in Mems
  BY <1>1, <1>3 DEF FreshMem, Mems, Times
<1>5. CPUType(IdleCPU)
  BY <1>1, <1>2, <1>4 DEF IdleCPU, CPUType, CPUFields, None
<1> QED
  BY <1>2, <1>3, <1>4, <1>5 DEF IdleCPU, CallerType, ScannerType, None

-----------------------------------------------------------------------------
(* The critical sections.                                                  *)

\* No store, and one store, as a section.
LEMMA ShortSections ==
    ASSUME NEW kind, NEW ok
    PROVE  /\ <<>> \in Seq(Writes) /\ SectionOK(<<>>, kind, ok)
           /\ \A w \in Writes :
                 /\ <<w>> \in Seq(Writes) /\ <<w>> # <<>>
                 /\ w[1] = "epochs" /\ EpochsStore(kind, ok, w[2]) => SectionOK(<<w>>, kind, ok)
                 /\ w[1] # "epochs" /\ kind \notin {"claim", "release"} => SectionOK(<<w>>, kind, ok)
  BY DEF SectionOK

\* note_access() stores values of the right size, and the epochs last.
LEMMA AccessSection ==
    ASSUME Types, mem.epochs.run <= run, NEW tm \in Times, NEW ok
    PROVE  LET s == note_access(tm) IN
           s.todo \in Seq(Writes) /\ s.new \in Words /\ SectionOK(s.todo, "access", ok)
<1> DEFINE new_run == mem.epochs.run # run
           valid == word.init /\ ~new_run /\ elapsed_valid(tm, mem.last)
           gap == elapsed_ms(tm, mem.last)
           p == IF valid THEN Min2(gap, U16Max) ELSE 0
           e == IF valid THEN interval_ema(mem.ema, gap) ELSE 0
           v == IF new_run THEN [NoEpochs EXCEPT !.run = run] ELSE mem.epochs
           a == IF new_run THEN None ELSE word.action
           h == access_ema_on_access(IF valid THEN word.hot ELSE 0)
           t == << <<"prev", p>>, <<"ema", e>>, <<"last", tm>>, <<"epochs", v>> >>
           n == [word EXCEPT !.hot = h, !.cand = 0, !.unc = FALSE, !.init = TRUE, !.action = a]
<1>1. /\ mem.last \in Times /\ mem.ema \in 0..U16Max /\ mem.epochs \in Epochs /\ word \in Words
      /\ run \in 1..MaxRuns /\ word.hot \in 0..U8Max /\ word.action \in {None, "decided"}
  BY DEF Types, Mems, Words, WorldType, Times
<1>2. gap \in Nat
  <2>1. tm - mem.last \in Int /\ TimeMod \in Nat \ {0}
    BY <1>1, TimeAssumption DEF Times
  <2> QED BY <2>1, Remainder DEF elapsed_ms
<1>3. p \in 0..U16Max /\ e \in 0..U16Max /\ h \in 0..U8Max
  <2>1. 0 \in 0..U16Max /\ 0 \in 0..U8Max
    BY WidthAssumption
  <2> HIDE DEF valid, gap
  <2> QED BY <1>1, <1>2, <2>1, Averages
<1>4. v \in Epochs /\ EpochsStore("access", ok, v)
  <2>1. CASE new_run
    <3>1. v = [up |-> 0, down |-> 0, run |-> run]
      BY <2>1 DEF NoEpochs
    <3>2. v \in Epochs /\ v.run = run /\ v.up = 0 /\ v.down = 0
      BY <1>1, <3>1, WidthAssumption DEF Epochs
    <3> HIDE DEF v
    <3> QED BY <1>1, <2>1, <3>2 DEF EpochsStore
  <2>2. CASE ~new_run
    BY <1>1, <2>2 DEF EpochsStore
  <2> QED BY <2>1, <2>2
<1>5. a \in {None, "decided"}
  BY <1>1
<1>6. note_access(tm) = [todo |-> t, new |-> n]
  BY DEF note_access, Stores
<1> HIDE DEF p, e, v, a, h, valid, new_run, gap
<1>7. n \in Words
  <2>1. 0 \in 0..CandMax
    BY WidthAssumption
  <2> QED BY <1>1, <1>3, <1>5, <2>1, Zenon DEF Words
<1>8. /\ <<"prev", p>> \in Writes /\ <<"ema", e>> \in Writes /\ <<"last", tm>> \in Writes
      /\ <<"epochs", v>> \in Writes
  BY <1>3, <1>4 DEF Writes
<1>9. t \in Seq(Writes) /\ Len(t) = 4
  BY <1>8
<1>10. SectionOK(t, "access", ok)
  BY <1>4 DEF SectionOK
<1> HIDE DEF t, n
<1> QED
  BY <1>6, <1>7, <1>9, <1>10

\* Every section stores values of the right size, stores the epochs last, and
\* tells its caller the truth about them.
LEMMA SectionStores ==
    ASSUME Types, StepInv, mem.epochs.run <= run, NEW c \in AllCPUs, cpu[c].pc = "begin"
    PROVE  LET s == Section(c)
               k == cpu[c].kind
               ok == Verdict(c)
           IN  /\ s.todo \in Seq(Writes) /\ s.new \in Words /\ SectionOK(s.todo, k, ok)
               /\ k = "move" \/ k = "pending" => ok = cpu[c].arg
               /\ k = "claim" =>
                    /\ c = Scanner /\ ok \in BOOLEAN
                    /\ ok => /\ s.todo # <<>> /\ word.seq = scan.expect /\ mem.epochs.run = run
                             /\ mem.epochs[scan.dir] # tag
                    /\ ~ok => s.todo = <<>>
               /\ k = "release" /\ mem.epochs.run = run /\ mem.epochs[scan.held] = tag =>
                    s.todo # <<>>
<1> DEFINE s == Section(c)
           k == cpu[c].kind
           ok == Verdict(c)
<1>1. /\ mem \in Mems /\ mem.epochs \in Epochs /\ word \in Words /\ run \in 1..MaxRuns /\ tag \in 1..TagMax
      /\ mem.epochs.run \in 0..MaxRuns
      /\ now \in Times /\ folio.gen \in Gens /\ cpu[c].now \in Times
      /\ word.hot \in 0..U8Max /\ word.cand \in 0..CandMax
      /\ word.unc \in BOOLEAN /\ word.init \in BOOLEAN
  <2>1. /\ mem \in Mems /\ word \in Words /\ WorldType /\ CPUType(cpu[c])
    BY DEF Types
  <2>2. mem.epochs \in Epochs
    BY <2>1 DEF Mems
  <2> QED BY <2>1, <2>2 DEF Mems, Words, WorldType, CPUType, Epochs
<1>2. k \in {"access", "hint", "move", "outcome", "features", "claim", "release", "pending"}
      /\ (k = "claim" => c = Scanner) /\ (k = "release" => c = Scanner)
      /\ (k = "pending" => cpu[c].arg = "decided") /\ (k = "move" => cpu[c].arg \in Gens)
  BY DEF Types, CPUType, CallerType, ScannerType, AllCPUs
<1>3. CASE k = "access"
  <2>1. s = note_access(cpu[c].now)
    BY <1>3 DEF Section
  <2> HIDE DEF s, ok
  <2>2. s.todo \in Seq(Writes) /\ s.new \in Words /\ SectionOK(s.todo, "access", ok)
    BY <1>1, <2>1, AccessSection
  <2> QED BY <1>3, <2>2 DEF s, ok
<1>4. CASE k = "hint"
  <2> DEFINE u == word.unc \/ word.init
             n == [word EXCEPT !.unc = u]
  <2>1. s = [todo |-> <<>>, new |-> n]
    BY <1>4 DEF Section, note_hint, Stores
  <2>2. u \in BOOLEAN
    OBVIOUS
  <2> HIDE DEF u
  <2>3. n \in Words
    BY <1>1, <2>2 DEF Words
  <2> HIDE DEF n, s, ok
  <2> QED BY <1>4, <2>1, <2>3, ShortSections DEF s, ok
<1>5. CASE k = "move"
  <2> DEFINE g == cpu[c].arg
             n == [word EXCEPT !.gen = g]
             t == IF mem.enter = 0 \/ word.gen # g THEN << <<"enter", now>> >> ELSE <<>>
  <2>1. s = [todo |-> t, new |-> n] /\ ok = cpu[c].arg
    BY <1>5 DEF Section, note_move, Stores, Verdict
  <2>2. n \in Words
    BY <1>1, <1>2, <1>5 DEF Words, Gens
  <2>3. <<"enter", now>> \in Writes /\ <<"enter", now>>[1] # "epochs"
    BY <1>1 DEF Writes
  <2>4. t \in Seq(Writes) /\ SectionOK(t, k, ok)
    BY <1>5, <2>3, ShortSections
  <2> HIDE DEF n, s, ok, t
  <2> QED BY <1>5, <2>1, <2>2, <2>4 DEF s, ok
<1>6. CASE k = "outcome"
  <2> DEFINE n == [word EXCEPT !.action = None]
  <2>1. s = [todo |-> <<>>, new |-> n]
    BY <1>6 DEF Section, outcome, Stores
  <2>2. n \in Words
    BY <1>1 DEF Words
  <2> HIDE DEF n, s, ok
  <2> QED BY <1>6, <2>1, <2>2, ShortSections DEF s, ok
<1>7. CASE k = "features"
  <2> DEFINE h == access_ema_on_candidate(word.hot)
             m == Min2(word.cand + 1, CandMax)
             u == word.unc \/ word.gen # folio.gen
             n == [word EXCEPT !.hot = h, !.cand = m, !.unc = u]
  <2>1. s = [todo |-> <<>>, new |-> n]
    BY <1>7 DEF Section, candidate_features, Stores
  <2>2. h \in 0..U8Max /\ m \in 0..CandMax /\ u \in BOOLEAN
    <3>1. h \in 0..U8Max
      <4>1. 0 \in 0..U16Max /\ 0 \in Nat
        BY WidthAssumption
      <4> QED BY <1>1, <4>1, Averages
    <3> QED BY <1>1, <3>1, WidthAssumption DEF Min2
  <2> HIDE DEF h, m, u
  <2>3. n \in Words
    BY <1>1, <2>2, Zenon DEF Words
  <2> HIDE DEF n, s, ok
  <2> QED BY <1>7, <2>1, <2>3, ShortSections DEF s, ok
<1>8. CASE k = "claim"
  <2> DEFINE can == ClaimAllowed(scan.dir, scan.expect)
             v == [mem.epochs EXCEPT ![scan.dir] = tag]
             t == IF can THEN << <<"epochs", v>> >> ELSE <<>>
  <2>1. s = [todo |-> t, new |-> word] /\ ok = can
    BY <1>8 DEF Section, claim_epoch, Stores, Verdict
  <2>2. can \in BOOLEAN
    BY DEF ClaimAllowed
  <2>3. can => /\ word.seq = scan.expect /\ mem.epochs.run = run /\ mem.epochs[scan.dir] # tag
    BY DEF ClaimAllowed
  <2>4. scan.dir \in Dirs
    BY <1>2, <1>8 DEF StepInv
  <2>5. v \in Epochs /\ v.run = mem.epochs.run
    BY <1>1, <2>4 DEF Epochs, Dirs
  <2>6. can => EpochsStore("claim", can, v)
    BY <1>1, <2>5 DEF EpochsStore
  <2>7. <<"epochs", v>> \in Writes
    BY <2>5 DEF Writes
  <2> HIDE DEF v, can
  <2>8. t \in Seq(Writes) /\ SectionOK(t, "claim", can) /\ (can => t # <<>>) /\ (~can => t = <<>>)
    BY <2>6, <2>7, ShortSections
  <2> HIDE DEF s, ok, t
  <2> QED BY <1>1, <1>2, <1>8, <2>1, <2>2, <2>3, <2>8 DEF s, ok
<1>9. CASE k = "release"
  <2> DEFINE can == mem.epochs.run = run /\ mem.epochs[scan.held] = tag
             v == [mem.epochs EXCEPT ![scan.held] = 0]
             t == IF can THEN << <<"epochs", v>> >> ELSE <<>>
  <2>1. s = [todo |-> t, new |-> word]
    BY <1>9 DEF Section, release_epoch, Stores
  <2>4. scan.held \in Dirs
    BY <1>2, <1>9 DEF StepInv
  <2>5. v \in Epochs /\ v.run = mem.epochs.run
    BY <1>1, <2>4, WidthAssumption DEF Epochs, Dirs
  <2>6. EpochsStore("release", ok, v)
    BY <1>1, <2>5 DEF EpochsStore
  <2>7. <<"epochs", v>> \in Writes
    BY <2>5 DEF Writes
  <2> HIDE DEF v, ok
  <2>8. t \in Seq(Writes) /\ SectionOK(t, "release", ok) /\ (can => t # <<>>)
    BY <2>6, <2>7, ShortSections
  <2> HIDE DEF s, t
  <2> QED BY <1>1, <1>9, <2>1, <2>8 DEF s, ok
<1>10. CASE k = "pending"
  <2> DEFINE n == [word EXCEPT !.action = cpu[c].arg]
  <2>1. s = [todo |-> <<>>, new |-> n] /\ ok = cpu[c].arg
    BY <1>10 DEF Section, set_pending_action, Stores, Verdict
  <2>2. n \in Words
    BY <1>1, <1>2, <1>10 DEF Words
  <2> HIDE DEF n, s, ok
  <2> QED BY <1>10, <2>1, <2>2, ShortSections DEF s, ok
<1> QED
  BY <1>2, <1>3, <1>4, <1>5, <1>6, <1>7, <1>8, <1>9, <1>10

\* A sequence that was base n writes ago, when one more write begins.
LEMMA AheadBegins ==
    ASSUME word \in Words, NEW base \in 0..(SeqMod - 1), NEW n \in 0..MaxLag, Ahead(base, n),
           lock = NoCPU, lock' # NoCPU, word'.seq = (word.seq + 1) % SeqMod
    PROVE  Ahead(base, n)'
<1>1. /\ SeqMod \in Nat /\ MaxLag \in Nat /\ 2 * MaxLag < SeqMod /\ word.seq \in 0..(SeqMod - 1)
  BY SeqAssumption DEF Words
<1>2. word'.seq = IF word.seq + 1 = SeqMod THEN 0 ELSE word.seq + 1
  BY <1>1, SequenceNext
<1>3. word.seq = base + 2 * n \/ word.seq = base + 2 * n - SeqMod
  BY <1>1 DEF Ahead
<1>4. word'.seq = base + (2 * n + 1) \/ word'.seq = base + (2 * n + 1) - SeqMod
  BY <1>1, <1>2, <1>3
<1> QED
  BY <1>4 DEF Ahead

\* ... and when it is published.
LEMMA AheadEnds ==
    ASSUME word \in Words, NEW base \in 0..(SeqMod - 1), NEW n \in 0..MaxLag, n < MaxLag,
           Ahead(base, n), lock # NoCPU, lock' = NoCPU, word'.seq = (word.seq + 1) % SeqMod
    PROVE  Ahead(base, n + 1)'
<1>1. /\ SeqMod \in Nat /\ MaxLag \in Nat /\ 2 * MaxLag < SeqMod /\ word.seq \in 0..(SeqMod - 1)
  BY SeqAssumption DEF Words
<1>2. word'.seq = IF word.seq + 1 = SeqMod THEN 0 ELSE word.seq + 1
  BY <1>1, SequenceNext
<1>3. word.seq = base + (2 * n + 1) \/ word.seq = base + (2 * n + 1) - SeqMod
  BY <1>1 DEF Ahead
<1>4. word'.seq = base + 2 * (n + 1) \/ word'.seq = base + 2 * (n + 1) - SeqMod
  BY <1>1, <1>2, <1>3
<1> QED
  BY <1>4 DEF Ahead

\* A sequence that is unchanged, with nobody writing, was not written between.
LEMMA AheadNot ==
    ASSUME word \in Words, NEW base \in 0..(SeqMod - 1), NEW n \in 0..MaxLag, Ahead(base, n),
           word.seq = base
    PROVE  n = 0 /\ lock = NoCPU
<1>1. /\ SeqMod \in Nat /\ MaxLag \in Nat /\ 2 * MaxLag < SeqMod /\ SeqMod % 2 = 0
  BY SeqAssumption
<1> DEFINE k == IF lock = NoCPU THEN 0 ELSE 1
<1>2. word.seq = base + (2 * n + k) \/ word.seq = base + (2 * n + k) - SeqMod
  BY DEF Ahead
<1>3. k \in {0, 1} /\ (k = 0 => lock = NoCPU)
  OBVIOUS
<1> HIDE DEF k
<1>4. 2 * n + k = 0
  BY <1>1, <1>2, <1>3
<1> QED
  BY <1>3, <1>4

\* write_begin() keeps the invariant: the lock excludes other writers, so that
\* the sequence is even and the call never gives up.
LEMMA BeginKeeps ==
    ASSUME IInv, NEW c \in AllCPUs, write_begin(c)
    PROVE  IInv'
<1>1. /\ Types /\ LockInv /\ StepInv /\ DecisionInv /\ FolioInv /\ EpochInv
      /\ \A q \in CPUs : ReaderInv(q)
      /\ \A q \in AllCPUs : StoreInv(q)
  BY DEF IInv
<1>2. /\ cpu[c].pc = "begin" /\ lock = NoCPU
      /\ c = Scanner \/ (Deciding => scan.lag < MaxLag)
      /\ \A r \in CPUs : Reading(r) => cpu[r].lag < MaxLag
      /\ UNCHANGED <<mem, folio, minGen, tag, run, now, done>>
  BY DEF write_begin, StateLockFree
<1>3. ~Odd(word)
  BY <1>1, <1>2 DEF LockInv
<1> DEFINE t == Section(c).todo
           n == Section(c).new
           ok == Verdict(c)
           k == cpu[c].kind
           y == [cpu[c] EXCEPT !.pc = "store", !.todo = t, !.new = n, !.arg = ok]
<1>4. /\ lock' = c /\ word' = [word EXCEPT !.seq = (@ + 1) % SeqMod]
      /\ cpu' = [cpu EXCEPT ![c] = y] /\ UNCHANGED <<fault, scan>>
  <2>1. DOMAIN cpu = AllCPUs
    BY <1>1 DEF Types
  <2> QED BY <1>3, <2>1 DEF write_begin
<1>5. /\ t \in Seq(Writes) /\ n \in Words /\ SectionOK(t, k, ok)
      /\ k = "move" \/ k = "pending" => ok = cpu[c].arg
      /\ k = "claim" =>
           /\ c = Scanner /\ ok \in BOOLEAN
           /\ ok => /\ t # <<>> /\ word.seq = scan.expect /\ mem.epochs.run = run
                    /\ mem.epochs[scan.dir] # tag
           /\ ~ok => t = <<>>
      /\ k = "release" /\ mem.epochs.run = run /\ mem.epochs[scan.held] = tag => t # <<>>
  <2>1. mem.epochs.run <= run
    BY <1>1 DEF EpochInv
  <2> QED BY <1>1, <1>2, <2>1, SectionStores
<1> HIDE DEF t, n, ok
<1>6. /\ CPUType(cpu[c]) /\ DOMAIN cpu[c] = CPUFields /\ DOMAIN cpu = AllCPUs
      /\ word \in Words /\ word.seq \in 0..(SeqMod - 1)
  BY <1>1 DEF Types, CPUType, Words
<1>7. /\ DOMAIN y = CPUFields /\ y.pc = "store" /\ y.todo = t /\ y.new = n /\ y.arg = ok
      /\ y.kind = k /\ y.now = cpu[c].now /\ y.lag = cpu[c].lag /\ y.got = cpu[c].got
  BY <1>6 DEF CPUFields
<1> HIDE DEF y
<1>8. DOMAIN cpu' = AllCPUs /\ \A q \in AllCPUs : cpu'[q] = IF q = c THEN y ELSE cpu[q]
  BY <1>4, <1>6
<1>9. /\ word' \in Words /\ word'.seq = (word.seq + 1) % SeqMod
      /\ word'.seq % 2 = 1 <=> word.seq % 2 # 1
  <2>1. (word.seq + 1) % SeqMod \in 0..(SeqMod - 1) /\ (((word.seq + 1) % SeqMod) % 2 = 1 <=> word.seq % 2 # 1)
    BY <1>6, SequenceNext
  <2>2. word'.seq = (word.seq + 1) % SeqMod
    BY <1>4, <1>6 DEF Words
  <2>3. word' \in Words
    BY <1>4, <1>6, <2>1 DEF Words
  <2> QED BY <2>1, <2>2, <2>3
<1>10. NoCPU \notin AllCPUs /\ Scanner \in AllCPUs /\ CPUs \subseteq AllCPUs /\ Scanner \notin CPUs
  BY CPUAssumption DEF AllCPUs
<1>11. Types'
  <2>1. \A q \in AllCPUs : CPUType(cpu'[q])
    BY <1>1, <1>5, <1>6, <1>7, <1>8 DEF Types, CPUType
  <2>2. \A q \in CPUs : CallerType(cpu'[q])
    BY <1>1, <1>2, <1>7, <1>8, <1>10 DEF Types, CallerType
  <2>3. ScannerType(cpu'[Scanner])
    BY <1>1, <1>2, <1>7, <1>8, <1>10 DEF Types, ScannerType
  <2>4. ScanType' /\ WorldType'
    BY <1>1, <1>2, <1>4 DEF Types, ScanType, WorldType
  <2>5. mem' \in Mems
    BY <1>1, <1>2 DEF Types
  <2> QED BY <1>8, <1>9, <2>1, <2>2, <2>3, <2>4, <2>5 DEF Types
<1>12. LockInv'
  <2>1. \A q \in AllCPUs : cpu[q].pc # "store"
    BY <1>1, <1>2, <1>10 DEF LockInv
  <2>2. Odd(word)' /\ lock' # NoCPU
    BY <1>3, <1>4, <1>9, <1>10 DEF Odd
  <2>3. \A q \in AllCPUs : cpu'[q].pc = "store" <=> lock' = q
    BY <1>4, <1>7, <1>8, <2>1
  <2> QED BY <1>1, <1>4, <2>2, <2>3 DEF LockInv
<1>13. ASSUME NEW q \in CPUs
       PROVE  ReaderInv(q)'
  <2>1. CASE q = c
    BY <1>7, <1>8, <1>10, <2>1 DEF ReaderInv, Reading
  <2>2. CASE q # c /\ Reading(q)
    <3>1. cpu'[q] = cpu[q] /\ Reading(q)' /\ lock' # NoCPU
      BY <1>4, <1>8, <1>10, <2>2 DEF Reading
    <3>2. cpu[q].first \in Words /\ Ahead(cpu[q].first.seq, cpu[q].lag) /\ cpu[q].lag < MaxLag
      BY <1>1, <1>2, <2>2 DEF ReaderInv
    <3>3. cpu[q].first.seq \in 0..(SeqMod - 1) /\ cpu[q].lag \in 0..MaxLag
      BY <1>1, <1>10, <3>2 DEF Types, CPUType, Words
    <3> DEFINE b == cpu[q].first.seq
               l == cpu[q].lag
    <3>4. \A bb \in 0..(SeqMod - 1), ll \in 0..MaxLag : Ahead(bb, ll) => Ahead(bb, ll)'
      BY <1>2, <1>6, <1>9, <3>1, AheadBegins
    <3>5. Ahead(b, l)'
      <4>1. Ahead(b, l) /\ b' = b /\ l' = l
        BY <3>1, <3>2
      <4> QED BY <3>3, <3>4, <4>1 DEF Ahead
    <3> QED BY <3>1, <3>2, <3>5 DEF ReaderInv
  <2>3. CASE q # c /\ ~Reading(q)
    BY <1>8, <1>10, <2>3 DEF ReaderInv, Reading
  <2> QED BY <2>1, <2>2, <2>3
<1>14. StepInv'
  BY <1>1, <1>2, <1>4, <1>7, <1>8, <1>10 DEF StepInv
<1>15. DecisionInv'
  <2>1. scan' = scan /\ (Deciding' <=> Deciding)
    BY <1>4 DEF Deciding
  <2>2. ASSUME Deciding
        PROVE  Ahead(scan.expect, scan.lag)' /\ (lock' \in CPUs => scan'.lag < MaxLag)
    <3>1. scan.expect \in 0..(SeqMod - 1) /\ scan.lag \in 0..MaxLag
      BY <1>1 DEF Types, ScanType
    <3>2. \A bb \in 0..(SeqMod - 1), ll \in 0..MaxLag : Ahead(bb, ll) => Ahead(bb, ll)'
      BY <1>2, <1>4, <1>6, <1>9, <1>10, AheadBegins
    <3>3. Ahead(scan.expect, scan.lag)
      BY <1>1, <2>2 DEF DecisionInv
    <3>4. Ahead(scan.expect, scan.lag)'
      BY <2>1, <3>1, <3>2, <3>3 DEF Ahead
    <3> QED BY <1>2, <1>4, <1>10, <2>1, <2>2, <3>4
  <2>3. scan.step = "claim" /\ cpu'[Scanner].pc = "store" /\ cpu'[Scanner].arg => scan.lag = 0
    <3> SUFFICES ASSUME scan.step = "claim", cpu'[Scanner].pc = "store", cpu'[Scanner].arg
                 PROVE  scan.lag = 0
      OBVIOUS
    <3>1. c = Scanner
      BY <1>4, <1>10, <1>12 DEF LockInv
    <3>2. k = "claim"
      BY <1>1, <1>2, <3>1 DEF StepInv, Types, ScannerType
    <3>3. ok /\ word.seq = scan.expect
      BY <1>5, <1>7, <1>8, <3>1, <3>2
    <3>4. Ahead(scan.expect, scan.lag)
      BY <1>1 DEF DecisionInv, Deciding
    <3>5. scan.expect \in 0..(SeqMod - 1) /\ scan.lag \in 0..MaxLag
      BY <1>1 DEF Types, ScanType
    <3> QED BY <1>6, <3>3, <3>4, <3>5, AheadNot
  <2> QED BY <1>1, <2>1, <2>2, <2>3 DEF DecisionInv
<1>16. FolioInv'
  BY <1>1, <1>2, <1>4, <1>7, <1>8, <1>10 DEF FolioInv
<1>17. \A q \in AllCPUs : StoreInv(q)'
  <2>1. \A q \in AllCPUs : cpu[q].pc # "store"
    BY <1>1, <1>2, <1>10 DEF LockInv
  <2>2. UNCHANGED <<mem, scan, tag, run>> /\ cpu'[c] = y
    BY <1>2, <1>4, <1>8
  <2>3. StoreInv(c)'
    BY <1>5, <1>7, <2>2 DEF StoreInv, SectionOK, EpochsStore
  <2>4. \A q \in AllCPUs : q # c => StoreInv(q)'
    BY <1>8, <2>1 DEF StoreInv
  <2> QED BY <2>3, <2>4
<1>18. EpochInv'
  <2>1. UNCHANGED <<mem, scan, tag, run, done>>
    BY <1>2, <1>4
  <2>2. CASE c # Scanner
    <3>1. cpu'[Scanner] = cpu[Scanner]
      BY <1>8, <1>10, <2>2
    <3> QED BY <1>1, <2>1, <3>1 DEF EpochInv, Claiming, Marked, Released
  <2>3. CASE c = Scanner
    <3>1. ~Claiming /\ ~Released
      BY <1>2, <2>3 DEF Claiming, Released
    <3>2. cpu'[Scanner] = y
      BY <1>8, <1>10, <2>3
    <3>3. Claiming' => /\ k = "claim" /\ ok /\ mem.epochs.run = run /\ done.n[scan.dir] = 0 /\ t # <<>>
      <4>1. Claiming' => k = "claim" /\ ok
        BY <1>7, <3>2 DEF Claiming
      <4>2. k = "claim" => scan.dir \in Dirs
        BY <1>1, <1>2, <2>3 DEF StepInv
      <4>3. \A d \in Dirs : done.n[d] \in Nat /\ done.n[d] <= 1 /\ (done.n[d] = 1 => mem.epochs[d] = tag)
        BY <1>1 DEF EpochInv, Types, WorldType
      <4>4. \A d \in Dirs : done.n[d] # 0 => mem.epochs[d] = tag
        BY <4>3
      <4> QED BY <1>5, <4>1, <4>2, <4>4
    <3>4. ~Released'
      <4>1. k = "release" => /\ scan.held \in Dirs /\ scan.step = "releasing"
        BY <1>1, <1>2, <2>3 DEF StepInv
      <4>2. k = "release" => mem.epochs.run = run /\ mem.epochs[scan.held] = tag
        BY <1>1, <3>1, <4>1 DEF EpochInv, Marked
      <4> QED BY <1>5, <1>7, <3>2, <4>2 DEF Released
    <3>5. \A d \in Dirs : Marked(d)' <=> Marked(d)
      BY <1>7, <2>1, <3>1, <3>2, <3>3 DEF Marked
    <3> QED BY <1>1, <2>1, <3>1, <3>3, <3>4, <3>5 DEF EpochInv
  <2> QED BY <2>2, <2>3
<1> QED
  BY <1>11, <1>12, <1>13, <1>14, <1>15, <1>16, <1>17, <1>18 DEF IInv

\* A payload word holds what may be stored in it.
LEMMA WriteTypes ==
    ASSUME NEW m \in Mems, NEW w \in Writes
    PROVE  /\ [m EXCEPT ![w[1]] = w[2]] \in Mems
           /\ w[1] # "epochs" => [m EXCEPT ![w[1]] = w[2]].epochs = m.epochs
           /\ w[1] = "epochs" => w[2] \in Epochs /\ [m EXCEPT ![w[1]] = w[2]].epochs = w[2]
<1>1. CASE w \in {"last", "enter"} \X Times
  BY <1>1 DEF Mems, Times
<1>2. CASE w \in {"prev", "ema"} \X (0..U16Max)
  BY <1>2 DEF Mems
<1>3. CASE w \in {"epochs"} \X Epochs
  BY <1>3 DEF Mems
<1> QED
  BY <1>1, <1>2, <1>3 DEF Writes

\* The first store of a section, and the rest.
LEMMA FirstStore ==
    ASSUME NEW S, NEW t \in Seq(S), t # <<>>
    PROVE  /\ Head(t) \in S /\ Tail(t) \in Seq(S) /\ Head(t) = t[1] /\ 1 \in 1..Len(t)
           /\ Len(Tail(t)) = Len(t) - 1 /\ Len(t) \in Nat
           /\ \A i \in 1..Len(Tail(t)) : Tail(t)[i] = t[i + 1] /\ i + 1 \in 1..Len(t)
           /\ Len(t) = 1 => Tail(t) = <<>>
<1>1. /\ Head(t) \in S /\ Tail(t) \in Seq(S) /\ Len(Tail(t)) = Len(t) - 1 /\ Len(t) \in Nat /\ Len(t) # 0
      /\ Head(t) = t[1]
  OBVIOUS
<1>2. \A i \in 1..Len(Tail(t)) : Tail(t)[i] = t[i + 1]
  OBVIOUS
<1>3. \A i \in 1..Len(Tail(t)) : i + 1 \in 1..Len(t)
  BY <1>1
<1>4. Len(t) = 1 => Tail(t) = <<>>
  <2>1. Len(t) = 1 => Len(Tail(t)) = 0
    BY <1>1
  <2> QED BY <1>1, <2>1, EmptySeq
<1> QED
  BY <1>1, <1>2, <1>3, <1>4

\* One store of a critical section keeps the invariant.
LEMMA StoreKeeps ==
    ASSUME IInv, NEW c \in AllCPUs, store_word(c)
    PROVE  IInv'
<1>1. /\ Types /\ LockInv /\ StepInv /\ DecisionInv /\ FolioInv /\ EpochInv
      /\ \A q \in CPUs : ReaderInv(q)
      /\ \A q \in AllCPUs : StoreInv(q)
  BY DEF IInv
<1> DEFINE t == cpu[c].todo
           w == Head(t)
           r == Tail(t)
           y == [cpu[c] EXCEPT !.todo = r]
<1>2. /\ cpu[c].pc = "store" /\ t # <<>> /\ mem' = [mem EXCEPT ![w[1]] = w[2]]
      /\ UNCHANGED <<word, lock, scan, folio, minGen, tag, run, now, fault, done>>
  BY DEF store_word, world
<1>3. cpu' = [cpu EXCEPT ![c] = y] /\ DOMAIN cpu = AllCPUs
  BY <1>1 DEF store_word, Types
<1>4. /\ CPUType(cpu[c]) /\ DOMAIN cpu[c] = CPUFields /\ t \in Seq(Writes) /\ mem \in Mems
  BY <1>1 DEF Types, CPUType
<1>5. /\ w \in Writes /\ r \in Seq(Writes) /\ w = t[1] /\ 1 \in 1..Len(t)
      /\ Len(r) = Len(t) - 1 /\ Len(t) \in Nat
      /\ \A i \in 1..Len(r) : r[i] = t[i + 1] /\ i + 1 \in 1..Len(t)
      /\ Len(t) = 1 => r = <<>>
  BY <1>2, <1>4, FirstStore
<1> HIDE DEF w, r
<1>6. /\ mem' \in Mems /\ mem.epochs \in Epochs
      /\ w[1] # "epochs" => mem'.epochs = mem.epochs
      /\ w[1] = "epochs" => w[2] \in Epochs /\ mem'.epochs = w[2]
  <2>1. mem.epochs \in Epochs
    BY <1>4 DEF Mems
  <2> QED BY <1>2, <1>4, <1>5, <2>1, WriteTypes
<1>7. /\ DOMAIN y = CPUFields /\ y.pc = "store" /\ y.todo = r /\ y.new = cpu[c].new
      /\ y.arg = cpu[c].arg /\ y.kind = cpu[c].kind /\ y.now = cpu[c].now /\ y.lag = cpu[c].lag
      /\ y.got = cpu[c].got
  BY <1>2, <1>4 DEF CPUFields
<1> HIDE DEF y
<1>8. DOMAIN cpu' = AllCPUs /\ \A q \in AllCPUs : cpu'[q] = IF q = c THEN y ELSE cpu[q]
  BY <1>3
<1>9. NoCPU \notin AllCPUs /\ Scanner \in AllCPUs /\ CPUs \subseteq AllCPUs /\ Scanner \notin CPUs
  BY CPUAssumption DEF AllCPUs
<1>10. lock = c /\ lock # NoCPU
  BY <1>1, <1>2, <1>9 DEF LockInv
<1>11. SectionOK(t, cpu[c].kind, cpu[c].arg)
  BY <1>1, <1>2 DEF StoreInv
<1> HIDE DEF t
<1>12. Types'
  <2>1. \A q \in AllCPUs : CPUType(cpu'[q])
    BY <1>1, <1>4, <1>5, <1>7, <1>8 DEF Types, CPUType
  <2>2. \A q \in CPUs : CallerType(cpu'[q])
    BY <1>1, <1>2, <1>7, <1>8, <1>9 DEF Types, CallerType
  <2>3. ScannerType(cpu'[Scanner])
    BY <1>1, <1>2, <1>7, <1>8, <1>9 DEF Types, ScannerType
  <2>4. ScanType' /\ WorldType' /\ word' \in Words
    BY <1>1, <1>2 DEF Types, ScanType, WorldType
  <2> QED BY <1>6, <1>8, <2>1, <2>2, <2>3, <2>4 DEF Types
<1>13. LockInv'
  BY <1>1, <1>2, <1>7, <1>8 DEF LockInv, Odd
<1>14. \A q \in CPUs : ReaderInv(q)'
  BY <1>1, <1>2, <1>7, <1>8, <1>9, <1>10 DEF ReaderInv, Reading, Ahead
<1>15. StepInv'
  BY <1>1, <1>2, <1>7, <1>8, <1>9 DEF StepInv
<1>16. DecisionInv'
  BY <1>1, <1>2, <1>7, <1>8, <1>9 DEF DecisionInv, Deciding, Ahead
<1>17. FolioInv'
  BY <1>1, <1>2, <1>7, <1>8, <1>9 DEF FolioInv
<1>18. \A q \in AllCPUs : StoreInv(q)'
  <2>1. \A q \in AllCPUs : q # c => StoreInv(q)'
    BY <1>1, <1>8, <1>10 DEF StoreInv, LockInv
  <2>2. CASE w[1] = "epochs"
    <3>1. r = <<>>
      BY <1>5, <1>11, <2>2 DEF SectionOK
    <3>2. Len(cpu'[c].todo) = 0
      BY <1>7, <1>8, <3>1
    <3>3. StoreInv(c)'
      BY <3>2 DEF StoreInv, SectionOK
    <3> QED BY <2>1, <3>3
  <2>3. CASE w[1] # "epochs"
    <3>1. mem'.epochs = mem.epochs /\ cpu'[c] = y
      BY <1>6, <1>8, <2>3
    <3>2. \A i \in 1..Len(r) : /\ r[i] = t[i + 1] /\ i + 1 \in 1..Len(t)
                               /\ i + 1 = Len(t) => i = Len(r)
      BY <1>5
    <3>3. cpu'[c].todo = r /\ cpu'[c].kind = cpu[c].kind /\ cpu'[c].arg = cpu[c].arg
      BY <1>7, <3>1
    <3>4. \A v : EpochsStore(cpu[c].kind, cpu[c].arg, v) => EpochsStore(cpu[c].kind, cpu[c].arg, v)'
      BY <1>2, <3>1, <3>3 DEF EpochsStore
    <3>5. \A i \in 1..Len(r) :
             /\ r[i][1] = "epochs" => i = Len(r) /\ EpochsStore(cpu[c].kind, cpu[c].arg, r[i][2])
             /\ cpu[c].kind \in {"claim", "release"} => r[i][1] = "epochs"
      BY <1>11, <3>2 DEF SectionOK
    <3>6. StoreInv(c)'
      BY <1>2, <3>1, <3>3, <3>5 DEF StoreInv, SectionOK, EpochsStore
    <3> QED BY <2>1, <3>6
  <2> QED BY <2>2, <2>3
<1>19. EpochInv'
  <2>0. UNCHANGED <<scan, tag, run, done>> /\ cpu'[c] = y
    BY <1>2, <1>8
  <2>1. CASE w[1] # "epochs"
    <3>1. mem'.epochs = mem.epochs
      BY <1>6, <2>1
    <3>2. cpu[c].kind \notin {"claim", "release"}
      BY <1>5, <1>11, <2>1 DEF SectionOK
    <3>3. /\ cpu'[Scanner].pc = cpu[Scanner].pc /\ cpu'[Scanner].kind = cpu[Scanner].kind
          /\ cpu'[Scanner].arg = cpu[Scanner].arg
          /\ cpu[Scanner].kind \in {"claim", "release"} => cpu'[Scanner].todo = cpu[Scanner].todo
      BY <1>2, <1>7, <1>8, <1>9, <3>2
    <3> QED BY <1>1, <2>0, <3>1, <3>3 DEF EpochInv, Claiming, Marked, Released
  <2>2. CASE w[1] = "epochs"
    <3> DEFINE v == w[2]
    <3>1. mem'.epochs = v /\ v \in Epochs /\ EpochsStore(cpu[c].kind, cpu[c].arg, v) /\ Len(t) = 1
      BY <1>5, <1>6, <1>11, <2>2 DEF SectionOK
    <3>2. r = <<>>
      BY <1>5, <3>1
    <3> HIDE DEF v
    <3>3. CASE cpu[c].kind = "access"
      <4>1. c # Scanner
        BY <1>1, <1>2, <3>3 DEF Types, ScannerType
      <4>2. cpu'[Scanner] = cpu[Scanner]
        BY <1>8, <1>9, <4>1
      <4>3. /\ v.run <= run /\ (mem.epochs.run = run => v = mem.epochs)
            /\ v = mem.epochs \/ (v.up = 0 /\ v.down = 0)
        BY <3>1, <3>3 DEF EpochsStore
      <4>4. \A d \in Dirs : v = mem.epochs \/ v[d] = 0
        BY <4>3 DEF Dirs
      <4> QED BY <1>1, <2>0, <3>1, <4>2, <4>3, <4>4 DEF EpochInv, Claiming, Marked, Released
    <3>4. CASE cpu[c].kind = "claim"
      <4>1. c = Scanner
        BY <1>1, <1>2, <1>9, <3>4 DEF Types, CallerType, AllCPUs
      <4>2. cpu[Scanner].arg /\ v = [mem.epochs EXCEPT ![scan.dir] = tag] /\ scan.dir \in Dirs
            /\ scan.step = "claim" /\ scan.held = None
        BY <1>1, <1>2, <3>1, <3>4, <4>1 DEF EpochsStore, StepInv
      <4>3. /\ v.run = mem.epochs.run /\ v[scan.dir] = tag
            /\ \A d \in Dirs : d # scan.dir => v[d] = mem.epochs[d]
        BY <1>6, <4>2 DEF Epochs, Dirs
      <4>4. Claiming /\ Claiming' /\ ~Released /\ ~Released' /\ cpu'[Scanner].todo = <<>>
        BY <1>2, <1>7, <2>0, <3>2, <3>4, <4>1, <4>2 DEF Claiming, Released
      <4>5. \A d \in Dirs : /\ Marked(d)' <=> d = scan.dir
                            /\ ~Marked(d) \/ d = scan.dir
        BY <2>0, <4>2, <4>4 DEF Marked, Dirs, None
      <4>6. mem.epochs.run = run /\ done.n[scan.dir] = 0
        BY <1>1, <4>4 DEF EpochInv
      <4>7. mem'.epochs.run = run' /\ \A d \in Dirs : mem'.epochs[d] = IF d = scan.dir THEN tag ELSE mem.epochs[d]
        BY <2>0, <3>1, <4>3, <4>6
      <4>8. \A d \in Dirs :
              /\ done.n[d] <= 1
              /\ done.n[d] = 1 => mem'.epochs.run = run /\ mem'.epochs[d] = tag
              /\ mem'.epochs[d] \in {0, done.tag[d]} \/ d = scan.dir
        BY <1>1, <2>0, <4>5, <4>6, <4>7 DEF EpochInv
      <4>9. mem'.epochs.run <= run
        BY <1>1, <2>0, <4>6, <4>7 DEF EpochInv
      <4> QED BY <2>0, <4>4, <4>5, <4>6, <4>7, <4>8, <4>9 DEF EpochInv
    <3>5. CASE cpu[c].kind = "release"
      <4>1. c = Scanner
        BY <1>1, <1>2, <1>9, <3>5 DEF Types, CallerType, AllCPUs
      <4>2. v = [mem.epochs EXCEPT ![scan.held] = 0] /\ scan.held \in Dirs /\ scan.step = "releasing"
        BY <1>1, <1>2, <3>1, <3>5, <4>1 DEF EpochsStore, StepInv
      <4>3. /\ v.run = mem.epochs.run /\ v[scan.held] = 0
            /\ \A d \in Dirs : d # scan.held => v[d] = mem.epochs[d]
        BY <1>6, <4>2 DEF Epochs, Dirs
      <4>4. ~Claiming /\ ~Claiming' /\ ~Released /\ Released'
        BY <1>2, <1>7, <2>0, <3>2, <3>5, <4>1 DEF Claiming, Released, t
      <4>5. \A d \in Dirs : (Marked(d)' <=> d = scan.held) /\ (Marked(d) <=> d = scan.held)
        BY <2>0, <4>2, <4>4 DEF Marked, Dirs, None
      <4>6. mem.epochs.run = run /\ done.n[scan.held] = 0
        BY <1>1, <4>2, <4>5 DEF EpochInv
      <4>7. mem'.epochs.run = run' /\ \A d \in Dirs : mem'.epochs[d] = IF d = scan.held THEN 0 ELSE mem.epochs[d]
        BY <2>0, <3>1, <4>3, <4>6
      <4>8. \A d \in Dirs :
              /\ done.n[d] <= 1
              /\ done.n[d] = 1 => mem'.epochs.run = run /\ mem'.epochs[d] = tag
              /\ mem'.epochs[d] \in {0, done.tag[d]} \/ d = scan.held
        BY <1>1, <2>0, <4>5, <4>6, <4>7 DEF EpochInv
      <4>9. mem'.epochs.run <= run
        BY <1>1, <2>0, <4>6, <4>7 DEF EpochInv
      <4> QED BY <2>0, <4>4, <4>5, <4>6, <4>7, <4>8, <4>9 DEF EpochInv
    <3> QED BY <3>1, <3>3, <3>4, <3>5 DEF EpochsStore
  <2> QED BY <2>1, <2>2
<1> QED
  BY <1>12, <1>13, <1>14, <1>15, <1>16, <1>17, <1>18, <1>19 DEF IInv

\* The scanner's decision once one of its writes is published.
LEMMA AfterWriteKeeps ==
    ASSUME IInv, cpu[Scanner].pc = "store", cpu[Scanner].todo = <<>>,
           NEW seq \in 0..(SeqMod - 1), word' \in Words, word'.seq = seq, lock' = NoCPU,
           scan' = AfterWrite(cpu[Scanner].kind, cpu[Scanner].arg, seq),
           cpu'[Scanner] = IdleCPU, UNCHANGED <<mem, folio, tag, run, done>>,
           \A q \in CPUs : /\ cpu'[q].kind = cpu[q].kind
                           /\ cpu[q].pc = "idle" => cpu'[q].pc = "idle"
    PROVE  ScanType' /\ StepInv' /\ DecisionInv' /\ FolioInv' /\ EpochInv'
<1> DEFINE x == cpu[Scanner]
           ok == cpu[Scanner].arg
<1>1. /\ ScanType /\ StepInv /\ DecisionInv /\ FolioInv /\ EpochInv
      /\ x.kind \in {"features", "claim", "move", "release", "pending"}
  BY DEF IInv, Types, ScannerType
<1>2. IdleCPU.pc = "idle" /\ IdleCPU.kind = None
  BY FreshTypes
<1>3. scan.step # "idle" /\ folio.where \notin {"settled", "free"}
      /\ \A q \in CPUs : cpu[q].kind # "outcome"
  BY <1>1 DEF StepInv, FolioInv
<1>4. FolioInv'
  BY <1>2, <1>3 DEF FolioInv, AllCPUs
<1>5. ~Claiming' /\ ~Released'
  BY <1>2 DEF Claiming, Released
<1>6. 0 \in 0..MaxLag /\ 0 \in Gens /\ 0 \in 0..(SeqMod - 1) /\ SeqMod \in Nat
  BY SeqAssumption, WidthAssumption DEF Gens
<1>7. Ahead(seq, 0)'
  BY <1>6 DEF Ahead
<1>8. CASE x.kind = "features"
  <2>0. scan.step = "features" /\ scan.held = None /\ ~Claiming /\ ~Released
    BY <1>1, <1>8 DEF StepInv, Claiming, Released
  <2>1. /\ DOMAIN scan' = ScanFields /\ scan'.dir = scan.dir /\ scan'.held = scan.held
        /\ scan'.cur = scan.cur
        /\ \/ scan'.step = "decide" /\ scan'.expect = seq /\ scan'.lag = 0
           \/ scan'.step = "native" /\ scan'.expect = scan.expect /\ scan'.lag = scan.lag
    BY <1>1, <1>8 DEF AfterWrite, ScanType, ScanFields
  <2>2. ScanType'
    BY <1>1, <1>6, <2>1 DEF ScanType
  <2>3. StepInv'
    BY <1>2, <2>0, <2>1 DEF StepInv
  <2>4. DecisionInv'
    BY <1>2, <1>7, <2>1, CPUAssumption DEF DecisionInv, Deciding, Ahead, AllCPUs
  <2>5. EpochInv'
    BY <1>1, <1>5, <2>0, <2>1 DEF EpochInv, Marked, Dirs, None
  <2> QED BY <1>4, <2>2, <2>3, <2>4, <2>5
<1>9. CASE x.kind = "claim"
  <2>0. scan.step = "claim" /\ scan.held = None /\ scan.dir \in Dirs /\ ~Released
    BY <1>1, <1>9 DEF StepInv, Released
  <2>1. CASE ok
    <3>1. /\ DOMAIN scan' = ScanFields /\ scan'.dir = scan.dir /\ scan'.held = scan.dir
          /\ scan'.cur = scan.cur /\ scan'.step = "flags" /\ scan'.expect = seq
          /\ scan'.lag = scan.lag
      BY <1>1, <1>9, <2>1 DEF AfterWrite, ScanType, ScanFields
    <3>2. scan.lag = 0
      BY <1>1, <2>0, <2>1 DEF DecisionInv
    <3>3. ScanType' /\ StepInv'
      BY <1>1, <1>2, <1>6, <2>0, <3>1 DEF ScanType, StepInv
    <3>4. DecisionInv'
      BY <1>2, <1>7, <3>1, <3>2, CPUAssumption DEF DecisionInv, Deciding, Ahead, AllCPUs
    <3>5. Claiming
      BY <1>9, <2>1 DEF Claiming
    <3>6. \A d \in Dirs : (Marked(d)' <=> d = scan.dir) /\ (Marked(d) <=> d = scan.dir)
      BY <1>5, <2>0, <3>1, <3>5 DEF Marked, Dirs, None
    <3>7. EpochInv'
      BY <1>1, <1>5, <2>0, <3>6 DEF EpochInv
    <3> QED BY <1>4, <3>3, <3>4, <3>7
  <2>2. CASE ~ok
    <3>1. /\ DOMAIN scan' = ScanFields /\ scan'.dir = None /\ scan'.held = scan.held
          /\ scan'.cur = scan.cur /\ scan'.step = "native" /\ scan'.expect = scan.expect
          /\ scan'.lag = scan.lag
      BY <1>1, <1>9, <2>2 DEF AfterWrite, ScanType, ScanFields
    <3>2. ScanType' /\ StepInv' /\ DecisionInv'
      BY <1>1, <1>2, <2>0, <3>1 DEF ScanType, StepInv, DecisionInv, Deciding
    <3>3. ~Claiming
      BY <2>2 DEF Claiming
    <3>4. \A d \in Dirs : ~Marked(d)' /\ ~Marked(d)
      BY <1>5, <2>0, <3>1, <3>3 DEF Marked, Dirs, None
    <3>5. EpochInv'
      BY <1>1, <1>5, <3>4 DEF EpochInv
    <3> QED BY <1>4, <3>2, <3>5
  <2> QED BY <2>1, <2>2
<1>10. CASE x.kind = "move"
  <2>0. scan.step = "moving" /\ ~Claiming /\ ~Released
    BY <1>1, <1>10 DEF StepInv, Claiming, Released
  <2>1. /\ DOMAIN scan' = ScanFields /\ scan'.dir = scan.dir /\ scan'.held = scan.held
        /\ scan'.cur = scan.cur /\ scan'.step = "finish" /\ scan'.expect = scan.expect
        /\ scan'.lag = scan.lag
    BY <1>1, <1>10 DEF AfterWrite, ScanType, ScanFields
  <2>2. ScanType' /\ StepInv' /\ DecisionInv'
    BY <1>1, <1>2, <2>1 DEF ScanType, StepInv, DecisionInv, Deciding
  <2>3. \A d \in Dirs : Marked(d)' <=> Marked(d)
    BY <1>5, <2>0, <2>1 DEF Marked
  <2>4. EpochInv'
    BY <1>1, <1>5, <2>0, <2>3 DEF EpochInv
  <2> QED BY <1>4, <2>2, <2>4
<1>11. CASE x.kind = "release"
  <2>0. scan.step = "releasing" /\ scan.held \in Dirs /\ ~Claiming /\ Released
    BY <1>1, <1>11 DEF StepInv, Claiming, Released
  <2>1. /\ DOMAIN scan' = ScanFields /\ scan'.dir = scan.dir /\ scan'.held = None
        /\ scan'.cur = scan.cur /\ scan'.step = "finish" /\ scan'.expect = scan.expect
        /\ scan'.lag = scan.lag
    BY <1>1, <1>11 DEF AfterWrite, ScanType, ScanFields
  <2>2. ScanType' /\ StepInv' /\ DecisionInv'
    BY <1>1, <1>2, <2>1 DEF ScanType, StepInv, DecisionInv, Deciding
  <2>3. \A d \in Dirs : ~Marked(d)' /\ (Marked(d) => mem.epochs[d] = 0)
    BY <1>1, <1>5, <2>0, <2>1 DEF Marked, EpochInv, Dirs, None
  <2>4. EpochInv'
    BY <1>1, <1>5, <2>3 DEF EpochInv
  <2> QED BY <1>4, <2>2, <2>4
<1>12. CASE x.kind = "pending"
  <2>0. scan.step = "pending" /\ ~Claiming /\ ~Released
    BY <1>1, <1>12 DEF StepInv, Claiming, Released
  <2>1. /\ DOMAIN scan' = ScanFields /\ scan'.dir = None /\ scan'.held = None
        /\ scan'.cur = 0 /\ scan'.step = "idle" /\ scan'.expect = 0 /\ scan'.lag = 0
    BY <1>12 DEF AfterWrite, ScanFields, IdleScan
  <2>2. ScanType' /\ StepInv' /\ DecisionInv'
    BY <1>2, <1>6, <2>1 DEF ScanType, StepInv, DecisionInv, Deciding
  <2>3. \A d \in Dirs : ~Marked(d)' /\ ~Marked(d)
    BY <1>5, <2>0, <2>1 DEF Marked, Dirs, None
  <2>4. EpochInv'
    BY <1>1, <1>5, <2>3 DEF EpochInv
  <2> QED BY <1>4, <2>2, <2>4
<1> QED
  BY <1>1, <1>8, <1>9, <1>10, <1>11, <1>12

\* write_end() keeps the invariant.
LEMMA EndKeeps ==
    ASSUME IInv, NEW c \in AllCPUs, write_end(c)
    PROVE  IInv'
<1>1. /\ Types /\ LockInv /\ StepInv /\ DecisionInv /\ FolioInv /\ EpochInv
      /\ \A q \in CPUs : ReaderInv(q)
      /\ \A q \in AllCPUs : StoreInv(q)
  BY DEF IInv
<1> DEFINE seq == (word.seq + 1) % SeqMod
           n == cpu[c].new
<1>2. /\ cpu[c].pc = "store" /\ cpu[c].todo = <<>> /\ word' = [n EXCEPT !.seq = seq] /\ lock' = NoCPU
      /\ UNCHANGED <<mem, minGen, tag, run, now, fault, done>>
      /\ folio' = IF cpu[c].kind = "outcome" THEN [folio EXCEPT !.where = "settled"] ELSE folio
      /\ scan' = IF c = Scanner THEN AfterWrite(cpu[c].kind, cpu[c].arg, seq)
                 ELSE IF Deciding THEN [scan EXCEPT !.lag = @ + 1] ELSE scan
      /\ cpu' = [q \in AllCPUs |-> IF q = c THEN IdleCPU
                                   ELSE IF Reading(q) THEN [cpu[q] EXCEPT !.lag = @ + 1]
                                   ELSE cpu[q]]
  BY DEF write_end, world
<1>3. NoCPU \notin AllCPUs /\ Scanner \in AllCPUs /\ CPUs \subseteq AllCPUs /\ Scanner \notin CPUs
  BY CPUAssumption DEF AllCPUs
<1>4. lock = c /\ lock # NoCPU /\ Odd(word) /\ \A q \in AllCPUs : q # c => cpu[q].pc # "store"
  BY <1>1, <1>2, <1>3 DEF LockInv
<1>5. word \in Words /\ word.seq \in 0..(SeqMod - 1) /\ n \in Words
      /\ \A q \in AllCPUs : CPUType(cpu[q]) /\ DOMAIN cpu[q] = CPUFields
  BY <1>1 DEF Types, CPUType, Words
<1>6. seq \in 0..(SeqMod - 1) /\ ~(seq % 2 = 1)
  BY <1>4, <1>5, SequenceNext DEF Odd
<1> HIDE DEF seq, n
<1>7. word' \in Words /\ word'.seq = seq /\ ~Odd(word)'
  BY <1>2, <1>5, <1>6 DEF Words, Odd
<1>8. cpu'[c] = IdleCPU /\ IdleCPU.pc = "idle" /\ IdleCPU.kind = None /\ DOMAIN cpu' = AllCPUs
  BY <1>2, FreshTypes
<1>9. ~Reading(Scanner)
  BY <1>1 DEF Types, ScannerType, Reading
<1>10. ASSUME NEW q \in AllCPUs, q # c
       PROVE  /\ DOMAIN cpu'[q] = CPUFields /\ cpu'[q].pc = cpu[q].pc /\ cpu'[q].kind = cpu[q].kind
              /\ cpu'[q].arg = cpu[q].arg /\ cpu'[q].now = cpu[q].now /\ cpu'[q].got = cpu[q].got
              /\ cpu'[q].new = cpu[q].new /\ cpu'[q].todo = cpu[q].todo
              /\ cpu'[q].first = cpu[q].first /\ cpu'[q].copied = cpu[q].copied
              /\ cpu'[q].lag = IF Reading(q) THEN cpu[q].lag + 1 ELSE cpu[q].lag
  BY <1>2, <1>5, <1>10 DEF CPUFields
<1>11. ASSUME NEW q \in AllCPUs, q # c, Reading(q)
       PROVE  q \in CPUs /\ cpu[q].lag \in 0..MaxLag /\ cpu[q].lag + 1 \in 0..MaxLag /\ cpu[q].lag < MaxLag
  <2>1. q \in CPUs
    BY <1>9, <1>11 DEF AllCPUs
  <2>2. cpu[q].lag \in 0..MaxLag /\ cpu[q].lag < MaxLag
    BY <1>1, <1>4, <1>5, <1>11, <2>1 DEF ReaderInv, CPUType
  <2> QED BY <2>1, <2>2, SeqAssumption
<1>12. /\ \A q \in AllCPUs : CPUType(cpu'[q])
       /\ \A q \in CPUs : CallerType(cpu'[q])
       /\ ScannerType(cpu'[Scanner])
  <2>1. \A q \in AllCPUs : CPUType(cpu'[q])
    <3>1. ASSUME NEW q \in AllCPUs, q # c
          PROVE  CPUType(cpu'[q])
      <4>1. cpu'[q].lag \in 0..MaxLag
        BY <1>5, <1>10, <1>11, <3>1 DEF CPUType
      <4> QED BY <1>5, <1>10, <3>1, <4>1 DEF CPUType
    <3> QED BY <1>8, <3>1, FreshTypes
  <2>2. \A q \in CPUs : CallerType(cpu'[q])
    BY <1>1, <1>3, <1>8, <1>10, FreshTypes DEF Types, CallerType
  <2>3. ScannerType(cpu'[Scanner])
    BY <1>1, <1>3, <1>8, <1>10, FreshTypes DEF Types, ScannerType
  <2> QED BY <2>1, <2>2, <2>3
<1>13. LockInv'
  BY <1>1, <1>2, <1>3, <1>4, <1>7, <1>8, <1>10 DEF LockInv
<1>14. ASSUME NEW q \in CPUs
       PROVE  ReaderInv(q)'
  <2>1. CASE q = c \/ ~Reading(q)
    BY <1>3, <1>8, <1>10, <2>1 DEF ReaderInv, Reading
  <2>2. CASE q # c /\ Reading(q)
    <3>1. cpu[q].lag \in 0..MaxLag /\ cpu[q].lag + 1 \in 0..MaxLag /\ cpu[q].lag < MaxLag /\ q \in AllCPUs
      BY <1>3, <1>11, <2>2
    <3>2. cpu'[q].first = cpu[q].first /\ cpu'[q].lag = cpu[q].lag + 1
      BY <1>10, <2>2, <3>1
    <3>3. cpu[q].first \in Words /\ Ahead(cpu[q].first.seq, cpu[q].lag)
          /\ cpu[q].first.seq \in 0..(SeqMod - 1)
      BY <1>1, <2>2 DEF ReaderInv, Words
    <3>4. \A b \in 0..(SeqMod - 1), l \in 0..MaxLag :
             l < MaxLag /\ Ahead(b, l) =>
                word'.seq = b + 2 * (l + 1) \/ word'.seq = b + 2 * (l + 1) - SeqMod
      <4>1. \A b \in 0..(SeqMod - 1), l \in 0..MaxLag :
               l < MaxLag /\ Ahead(b, l) => Ahead(b, l + 1)'
        BY <1>2, <1>4, <1>5, <1>7, AheadEnds DEF seq
      <4>2. \A b \in 0..(SeqMod - 1), l \in 0..MaxLag :
               Ahead(b, l + 1)' => word'.seq = b + 2 * (l + 1) \/ word'.seq = b + 2 * (l + 1) - SeqMod
        BY <1>2, <1>6, SeqAssumption DEF Ahead
      <4> QED BY <4>1, <4>2
    <3>5. Ahead(cpu[q].first.seq, cpu[q].lag)'
      <4> DEFINE b == cpu[q].first.seq
                 l == cpu[q].lag
      <4>1. word'.seq = b + 2 * (l + 1) \/ word'.seq = b + 2 * (l + 1) - SeqMod
        BY <3>1, <3>3, <3>4
      <4> HIDE DEF b, l
      <4>2. cpu'[q].first.seq = b /\ cpu'[q].lag = l + 1 /\ b \in 0..(SeqMod - 1) /\ l \in 0..MaxLag
        BY <3>1, <3>2, <3>3 DEF b, l
      <4> QED BY <1>2, <4>1, <4>2, SeqAssumption, SMTT(20) DEF Ahead
    <3>6. cpu'[q].lag # 0
      BY <3>1, <3>2
    <3> QED BY <1>2, <3>2, <3>3, <3>5, <3>6 DEF ReaderInv
  <2> QED BY <2>1, <2>2
<1>15. \A q \in AllCPUs : StoreInv(q)'
  BY <1>4, <1>8, <1>10 DEF StoreInv
<1>16. WorldType'
  BY <1>1, <1>2 DEF Types, WorldType
<1>17. ScanType' /\ StepInv' /\ DecisionInv' /\ FolioInv' /\ EpochInv'
  <2>1. CASE c = Scanner
    <3>1. cpu[Scanner].kind # "outcome"
      BY <1>1 DEF Types, ScannerType
    <3>2. \A q \in CPUs : /\ cpu'[q].kind = cpu[q].kind
                          /\ cpu[q].pc = "idle" => cpu'[q].pc = "idle"
      BY <1>3, <1>10, <2>1
    <3> QED BY <1>2, <1>6, <1>7, <1>8, <2>1, <3>1, <3>2, AfterWriteKeeps
  <2>2. CASE c # Scanner
    <3>1. c \in CPUs
      BY <2>2 DEF AllCPUs
    <3>2. cpu'[Scanner] = cpu[Scanner] /\ cpu[Scanner].pc # "store"
      BY <1>2, <1>3, <1>4, <1>9, <2>2
    <3>3. /\ DOMAIN scan' = ScanFields /\ scan'.dir = scan.dir /\ scan'.held = scan.held
          /\ scan'.cur = scan.cur /\ scan'.step = scan.step /\ scan'.expect = scan.expect
          /\ scan'.lag = IF Deciding THEN scan.lag + 1 ELSE scan.lag
      BY <1>1, <1>2, <2>2 DEF Types, ScanType, ScanFields
    <3>4. scan.lag \in 0..MaxLag /\ scan.expect \in 0..(SeqMod - 1) /\ (Deciding => scan.lag < MaxLag)
      BY <1>1, <1>4, <3>1 DEF Types, ScanType, DecisionInv
    <3>5. ScanType'
      <4>1. scan'.lag \in 0..MaxLag
        BY <3>3, <3>4, SeqAssumption
      <4> QED BY <1>1, <3>3, <4>1 DEF Types, ScanType
    <3>6. StepInv'
      BY <1>1, <3>2, <3>3 DEF StepInv
    <3>7. DecisionInv'
      <4>1. ASSUME Deciding
            PROVE  Ahead(scan.expect, scan.lag)'
        <5> DEFINE b == scan.expect
                   l == scan.lag
        <5>1. Ahead(b, l)
          BY <1>1, <4>1 DEF DecisionInv
        <5>2. \A bb \in 0..(SeqMod - 1), ll \in 0..MaxLag :
               ll < MaxLag /\ Ahead(bb, ll) => Ahead(bb, ll + 1)'
          BY <1>2, <1>4, <1>5, <1>7, AheadEnds DEF seq
        <5>3. \A bb \in 0..(SeqMod - 1), ll \in 0..MaxLag :
               Ahead(bb, ll + 1)' => word'.seq = bb + 2 * (ll + 1) \/ word'.seq = bb + 2 * (ll + 1) - SeqMod
          BY <1>2, <1>6, SeqAssumption DEF Ahead
        <5>4. word'.seq = b + 2 * (l + 1) \/ word'.seq = b + 2 * (l + 1) - SeqMod
          BY <3>4, <4>1, <5>1, <5>2, <5>3
        <5> HIDE DEF b, l
        <5>5. scan'.expect = b /\ scan'.lag = l + 1 /\ b \in 0..(SeqMod - 1) /\ l \in 0..MaxLag
          BY <3>3, <3>4, <4>1 DEF b, l
        <5> QED BY <1>2, <5>4, <5>5, SeqAssumption DEF Ahead
      <4>2. Deciding' <=> Deciding
        BY <3>3 DEF Deciding
      <4> QED BY <1>1, <1>2, <1>3, <3>2, <4>1, <4>2 DEF DecisionInv
    <3>8. FolioInv'
      <4>1. cpu[c].pc # "idle" /\ folio.where # "free"
        BY <1>1, <1>2 DEF FolioInv
      <4>2. /\ folio' = folio \/ (cpu[c].kind = "outcome" /\ folio'.where = "settled")
        BY <1>1, <1>2 DEF Types, WorldType
      <4>3. cpu[c].kind = "outcome" => scan.step = "idle"
        BY <1>1, <3>1 DEF FolioInv
      <4>4. \A q \in CPUs : cpu'[q].kind = "outcome" => cpu[q].kind = "outcome"
        BY <1>3, <1>8, <1>10 DEF None
      <4> QED BY <1>1, <3>3, <4>1, <4>2, <4>3, <4>4 DEF FolioInv
    <3>9. EpochInv'
      BY <1>1, <1>2, <3>2, <3>3 DEF EpochInv, Claiming, Marked, Released
    <3> QED BY <3>5, <3>6, <3>7, <3>8, <3>9
  <2> QED BY <2>1, <2>2
<1>18. Types'
  BY <1>1, <1>2, <1>7, <1>8, <1>12, <1>16, <1>17 DEF Types
<1> QED
  BY <1>13, <1>14, <1>15, <1>17, <1>18 DEF IInv

-----------------------------------------------------------------------------
(* Callers without lru_lock.                                               *)

\* A call starts with the clock it has read.
LEMMA CallingType ==
    ASSUME now \in Times, NEW kind, NEW arg,
           kind = "move" => arg \in Gens, kind = "pending" => arg = "decided"
    PROVE  /\ CPUType(Calling(kind, arg)) /\ Calling(kind, arg).pc = "begin"
           /\ Calling(kind, arg).kind = kind
<1> DEFINE y == Calling(kind, arg)
<1>1. /\ DOMAIN y = CPUFields /\ y.pc = "begin" /\ y.kind = kind /\ y.now = now /\ y.arg = arg
      /\ y.lag = IdleCPU.lag /\ y.got = IdleCPU.got /\ y.new = IdleCPU.new /\ y.todo = IdleCPU.todo
  BY DEF Calling, IdleCPU, CPUFields
<1> HIDE DEF y
<1>2. CPUType(y)
  BY <1>1, FreshTypes DEF CPUType
<1> QED
  BY <1>1, <1>2 DEF y

\* A step of caller c that stores nothing keeps the invariant if c's new state
\* is sound by itself.
LEMMA CallerKeeps ==
    ASSUME IInv, NEW c \in CPUs, NEW y, cpu' = [cpu EXCEPT ![c] = y],
           cpu[c].pc # "store", y.pc # "store", CPUType(y), CallerType(y),
           UNCHANGED <<word, mem, lock, scan, minGen, tag, run, now, fault, done>>,
           DOMAIN folio' = {"where", "gen"}, folio'.gen \in Gens, folio'.where = folio.where,
           folio.where = "free" => y.pc = "idle",
           y.kind = "outcome" => folio.where \in {"isolated", "settled"} /\ scan.step = "idle",
           y.pc \in {"words", "second"} =>
              /\ y.first \in Words /\ Ahead(y.first.seq, y.lag)
              /\ lock # NoCPU => y.lag < MaxLag
              /\ y.lag = 0 /\ lock = NoCPU =>
                    \A i \in 1..y.copied : y.got[ReadOrder[i]] = mem[ReadOrder[i]]
    PROVE  IInv'
<1>1. /\ Types /\ LockInv /\ StepInv /\ DecisionInv /\ FolioInv /\ EpochInv
      /\ \A q \in CPUs : ReaderInv(q)
      /\ \A q \in AllCPUs : StoreInv(q)
  BY DEF IInv
<1>2. Scanner \in AllCPUs /\ CPUs \subseteq AllCPUs /\ Scanner # c /\ c \in AllCPUs
  BY CPUAssumption DEF AllCPUs
<1>3. /\ DOMAIN cpu' = AllCPUs /\ \A q \in AllCPUs : cpu'[q] = IF q = c THEN y ELSE cpu[q]
  BY <1>1 DEF Types
<1>4. cpu'[Scanner] = cpu[Scanner]
  BY <1>2, <1>3
<1>5. Types'
  <2>1. ScanType' /\ WorldType'
    BY <1>1 DEF Types, ScanType, WorldType
  <2> QED BY <1>1, <1>2, <1>3, <1>4, <2>1 DEF Types
<1>6. LockInv'
  BY <1>1, <1>3 DEF LockInv, Odd
<1>7. \A q \in CPUs : ReaderInv(q)'
  <2>1. ReaderInv(c)'
    BY <1>2, <1>3 DEF ReaderInv, Reading, Ahead
  <2>2. \A q \in CPUs : q # c => ReaderInv(q)'
    BY <1>1, <1>2, <1>3 DEF ReaderInv, Reading, Ahead
  <2> QED BY <2>1, <2>2
<1>8. StepInv' /\ DecisionInv'
  BY <1>1, <1>4 DEF StepInv, DecisionInv, Deciding, Ahead
<1>9. FolioInv'
  BY <1>1, <1>2, <1>3 DEF FolioInv
<1>10. \A q \in AllCPUs : StoreInv(q)'
  BY <1>1, <1>3 DEF StoreInv, SectionOK, EpochsStore
<1>11. EpochInv'
  BY <1>1, <1>4 DEF EpochInv, Claiming, Marked, Released
<1> QED
  BY <1>5, <1>6, <1>7, <1>8, <1>9, <1>10, <1>11 DEF IInv

\* Every call, move, outcome and lockless read keeps the invariant.
LEMMA CallersKeep ==
    ASSUME IInv, NEW c \in CPUs,
           Access(c) \/ WalkUpdateFolio(c) \/ ShrinkFolioList(c) \/ Snapshot(c)
    PROVE  IInv'
<1>1. /\ Types /\ LockInv /\ FolioInv /\ ReaderInv(c)
  BY DEF IInv
<1>2. /\ CPUType(cpu[c]) /\ CallerType(cpu[c]) /\ DOMAIN cpu[c] = CPUFields /\ DOMAIN cpu = AllCPUs
      /\ c \in AllCPUs /\ now \in Times /\ DOMAIN folio = {"where", "gen"} /\ folio.gen \in Gens
      /\ minGen \in Gens /\ word \in Words /\ mem \in Mems
  BY <1>1 DEF Types, CPUType, WorldType, AllCPUs
<1>3. ASSUME NEW kind \in {"access", "hint", "move", "outcome"}, NEW arg,
             kind = "move" => arg \in Gens,
             kind = "outcome" => folio.where \in {"isolated", "settled"} /\ scan.step = "idle",
             cpu' = [cpu EXCEPT ![c] = Calling(kind, arg)], cpu[c].pc = "idle", folio.where # "free",
             UNCHANGED <<word, mem, lock, scan, minGen, tag, run, now, fault, done>>,
             DOMAIN folio' = {"where", "gen"}, folio'.gen \in Gens, folio'.where = folio.where
      PROVE  IInv'
  <2> DEFINE y == Calling(kind, arg)
  <2>1. CPUType(y) /\ y.pc = "begin" /\ y.kind = kind
    BY <1>2, <1>3, CallingType
  <2> HIDE DEF y
  <2>2. CallerType(y)
    BY <1>3, <2>1 DEF CallerType
  <2>3. cpu' = [cpu EXCEPT ![c] = y]
    BY <1>3 DEF y
  <2> QED BY <1>3, <2>1, <2>2, <2>3, CallerKeeps
<1>4. CASE Access(c)
  <2>1. PICK k \in Events \cap {"access", "hint"} : cpu' = [cpu EXCEPT ![c] = Calling(k, None)]
    BY <1>4 DEF Access
  <2>2. /\ UNCHANGED <<word, mem, lock, scan, folio, minGen, tag, run, now, fault, done>>
        /\ cpu[c].pc = "idle" /\ folio.where # "free"
    BY <1>4 DEF Access, Free, page, world
  <2> QED BY <1>2, <1>3, <2>1, <2>2
<1>5. CASE WalkUpdateFolio(c)
  <2>1. /\ folio' = [folio EXCEPT !.gen = Youngest] /\ cpu' = [cpu EXCEPT ![c] = Calling("move", Youngest)]
        /\ UNCHANGED <<word, mem, lock, scan, minGen, tag, run, now, fault, done>>
        /\ cpu[c].pc = "idle" /\ folio.where # "free"
    BY <1>5 DEF WalkUpdateFolio, Free, page, world
  <2>2. Youngest \in Gens
    <3>1. minGen + NrGens - 1 \in Int /\ NrGens \in Nat \ {0}
      BY <1>2, WidthAssumption DEF Gens
    <3> QED BY <3>1, Remainder DEF Youngest, Gens
  <2>3. DOMAIN folio' = {"where", "gen"} /\ folio'.gen \in Gens /\ folio'.where = folio.where
    BY <1>2, <2>1, <2>2
  <2> QED BY <1>3, <2>1, <2>2, <2>3
<1>6. CASE ShrinkFolioList(c)
  <2>1. /\ cpu' = [cpu EXCEPT ![c] = Calling("outcome", None)]
        /\ UNCHANGED <<word, mem, lock, scan, folio, minGen, tag, run, now, fault, done>>
        /\ cpu[c].pc = "idle" /\ folio.where \in {"isolated", "settled"} /\ scan.step = "idle"
        /\ folio.where # "free"
    BY <1>6 DEF ShrinkFolioList, Free, page, world
  <2> QED BY <1>2, <1>3, <2>1
<1>7. CASE state_snapshot_first(c)
  <2> DEFINE y == [IdleCPU EXCEPT !.pc = "words", !.first = word]
  <2>1. /\ cpu' = [cpu EXCEPT ![c] = y]
        /\ UNCHANGED <<word, mem, lock, scan, folio, minGen, tag, run, now, fault, done>>
        /\ cpu[c].pc = "idle" /\ folio.where # "free" /\ ~Odd(word)
    BY <1>7 DEF state_snapshot_first, Free, page, world
  <2>2. /\ DOMAIN y = CPUFields /\ y.pc = "words" /\ y.first = word /\ y.lag = 0 /\ y.copied = 0
        /\ y.kind = None /\ y.now = IdleCPU.now /\ y.got = IdleCPU.got /\ y.new = IdleCPU.new
        /\ y.todo = IdleCPU.todo
    BY DEF IdleCPU, CPUFields
  <2> HIDE DEF y
  <2>3. CPUType(y) /\ CallerType(y)
    <3>1. CPUType(y)
      BY <2>2, FreshTypes, SeqAssumption DEF CPUType, None
    <3>2. CallerType(y)
      BY <2>2 DEF CallerType, None
    <3> QED BY <3>1, <3>2
  <2>4. lock = NoCPU
    BY <1>1, <2>1 DEF LockInv
  <2>5. Ahead(y.first.seq, y.lag)
    BY <1>2, <2>2, <2>4 DEF Ahead, Words
  <2>6. y.pc # "store" /\ y.kind # "outcome" /\ \A i \in 1..y.copied : FALSE
    BY <2>2 DEF None
  <2> QED BY <1>2, <2>1, <2>2, <2>3, <2>4, <2>5, <2>6, CallerKeeps
<1>8. CASE state_snapshot_word(c)
  <2> DEFINE n == cpu[c].copied + 1
             g == [cpu[c].got EXCEPT ![ReadOrder[n]] = mem[ReadOrder[n]]]
             p == IF n = 5 THEN "second" ELSE "words"
             y == [cpu[c] EXCEPT !.got = g, !.copied = n, !.pc = p]
  <2>1. /\ UNCHANGED <<word, mem, lock, scan, folio, minGen, tag, run, now, fault, done>>
        /\ cpu[c].pc = "words"
    BY <1>8 DEF state_snapshot_word, page, world
  <2>2. cpu' = [cpu EXCEPT ![c] = y]
    BY <1>2, <1>8 DEF state_snapshot_word
  <2>3. cpu[c].copied \in 0..4 /\ cpu[c].got \in Mems /\ n \in 1..5 /\ cpu[c].copied = n - 1
    BY <1>2, <2>1 DEF CallerType, CPUType
  <2>4. p \in {"second", "words"} /\ (p = "second" => n = 5) /\ (p = "words" => n \in 0..4)
    BY <2>3
  <2>5. /\ g \in Mems
        /\ \A i \in 1..5 : g[ReadOrder[i]] = IF i = n THEN mem[ReadOrder[i]] ELSE cpu[c].got[ReadOrder[i]]
    <3>1. CASE n = 1
      BY <1>2, <2>3, <3>1 DEF ReadOrder, Mems
    <3>2. CASE n = 2
      <4>1. g = [cpu[c].got EXCEPT !.prev = mem.prev]
        BY <3>2 DEF ReadOrder
      <4> HIDE DEF g, n
      <4>2. g \in Mems
        BY <1>2, <2>3, <4>1 DEF Mems
      <4>3. /\ g.prev = mem.prev /\ g.last = cpu[c].got.last /\ g.ema = cpu[c].got.ema
            /\ g.enter = cpu[c].got.enter /\ g.epochs = cpu[c].got.epochs
        BY <2>3, <4>1 DEF Mems
      <4> QED BY <3>2, <4>2, <4>3 DEF ReadOrder
    <3>3. CASE n = 3
      BY <1>2, <2>3, <3>3 DEF ReadOrder, Mems
    <3>4. CASE n = 4
      <4>1. g = [cpu[c].got EXCEPT !.enter = mem.enter]
        BY <3>4 DEF ReadOrder
      <4> HIDE DEF g, n
      <4>2. g \in Mems
        BY <1>2, <2>3, <4>1 DEF Mems
      <4>3. /\ g.enter = mem.enter /\ g.last = cpu[c].got.last /\ g.prev = cpu[c].got.prev
            /\ g.ema = cpu[c].got.ema /\ g.epochs = cpu[c].got.epochs
        BY <2>3, <4>1 DEF Mems
      <4> QED BY <3>4, <4>2, <4>3 DEF ReadOrder
    <3>5. CASE n = 5
      <4>1. g = [cpu[c].got EXCEPT !.epochs = mem.epochs]
        BY <3>5 DEF ReadOrder
      <4> HIDE DEF g, n
      <4>2. g \in Mems
        BY <1>2, <2>3, <4>1 DEF Mems
      <4>3. /\ g.epochs = mem.epochs /\ g.last = cpu[c].got.last /\ g.prev = cpu[c].got.prev
            /\ g.ema = cpu[c].got.ema /\ g.enter = cpu[c].got.enter
        BY <2>3, <4>1 DEF Mems
      <4> QED BY <3>5, <4>2, <4>3 DEF ReadOrder
    <3> QED BY <2>3, <3>1, <3>2, <3>3, <3>4, <3>5, SMTT(20)
  <2> HIDE DEF n, g, p
  <2>6. /\ DOMAIN y = CPUFields /\ y.pc = p /\ y.got = g /\ y.copied = n /\ y.first = cpu[c].first
        /\ y.lag = cpu[c].lag /\ y.kind = cpu[c].kind /\ y.now = cpu[c].now /\ y.arg = cpu[c].arg
        /\ y.new = cpu[c].new /\ y.todo = cpu[c].todo
    BY <1>2 DEF CPUFields
  <2> HIDE DEF y
  <2>7. CPUType(y) /\ CallerType(y)
    BY <1>2, <2>1, <2>4, <2>5, <2>6 DEF CPUType, CallerType
  <2>8. /\ y.first \in Words /\ Ahead(y.first.seq, y.lag)
        /\ lock # NoCPU => y.lag < MaxLag
    BY <1>1, <2>1, <2>6 DEF ReaderInv, Reading
  <2>9. y.lag = 0 /\ lock = NoCPU => \A i \in 1..y.copied : y.got[ReadOrder[i]] = mem[ReadOrder[i]]
    <3>1. y.lag = 0 /\ lock = NoCPU =>
            \A i \in 1..(n - 1) : cpu[c].got[ReadOrder[i]] = mem[ReadOrder[i]]
      BY <1>1, <2>1, <2>3, <2>6 DEF ReaderInv, Reading
    <3>2. \A i \in 1..n : i \in 1..5 /\ (i = n \/ i \in 1..(n - 1))
      BY <2>3
    <3> QED BY <2>5, <2>6, <3>1, <3>2
  <2>10. folio.where # "free" /\ (y.kind = "outcome" => folio.where \in {"isolated", "settled"} /\ scan.step = "idle")
    BY <1>1, <1>2, <2>1, <2>6 DEF FolioInv
  <2>11. cpu[c].pc # "store" /\ y.pc # "store"
    BY <2>1, <2>4, <2>6
  <2> QED BY <1>2, <2>1, <2>2, <2>7, <2>8, <2>9, <2>10, <2>11, CallerKeeps
<1>9. CASE state_snapshot_second(c)
  <2>1. /\ UNCHANGED <<word, mem, lock, scan, folio, minGen, tag, run, now, fault, done>>
        /\ cpu[c].pc = "second" /\ cpu' = [cpu EXCEPT ![c] = IdleCPU]
    BY <1>9 DEF state_snapshot_second, page, world
  <2>2. IdleCPU.pc = "idle" /\ IdleCPU.kind # "outcome"
    BY FreshTypes DEF None
  <2>3. CPUType(IdleCPU) /\ CallerType(IdleCPU)
    BY FreshTypes
  <2> QED BY <1>2, <2>1, <2>2, <2>3, CallerKeeps
<1> QED
  BY <1>4, <1>5, <1>6, <1>7, <1>8, <1>9 DEF Snapshot

-----------------------------------------------------------------------------
(* The scanner.                                                            *)

\* A step of the scanner that stores nothing leaves the page's word, payload and
\* lock, and the other CPUs, as they are.
LEMMA ScannerBase ==
    ASSUME IInv, NEW y, cpu'[Scanner] = y, DOMAIN cpu' = AllCPUs,
           \A q \in CPUs : cpu'[q] = cpu[q],
           cpu[Scanner].pc # "store", y.pc # "store", CPUType(y), ScannerType(y),
           UNCHANGED <<word, mem, lock, minGen, tag, run, now, fault>>,
           WorldType', ScanType', StepInv', DecisionInv', FolioInv', EpochInv'
    PROVE  IInv'
<1>1. /\ Types /\ LockInv
      /\ \A q \in CPUs : ReaderInv(q)
      /\ \A q \in AllCPUs : StoreInv(q)
  BY DEF IInv
<1>2. Scanner \in AllCPUs /\ CPUs \subseteq AllCPUs /\ \A q \in AllCPUs : q = Scanner \/ q \in CPUs
  BY DEF AllCPUs
<1>3. Types'
  BY <1>1, <1>2 DEF Types
<1>4. LockInv'
  BY <1>1, <1>2 DEF LockInv, Odd
<1>5. \A q \in CPUs : ReaderInv(q)'
  BY <1>1 DEF ReaderInv, Reading, Ahead
<1>6. \A q \in AllCPUs : StoreInv(q)'
  <2>1. StoreInv(Scanner)'
    BY DEF StoreInv
  <2>2. \A q \in CPUs : cpu[q].pc = "store" => cpu[q].kind \notin {"claim", "release"}
    BY <1>1 DEF Types, CallerType
  <2>3. \A q \in CPUs : StoreInv(q)'
    BY <1>1, <1>2, <2>2 DEF StoreInv, SectionOK, EpochsStore
  <2> QED BY <1>2, <2>1, <2>3
<1> QED
  BY <1>3, <1>4, <1>5, <1>6 DEF IInv

\* A step inside a decision that keeps the reservation and what the decision is
\* based on.
LEMMA ScannerKeeps ==
    ASSUME IInv, NEW y, cpu'[Scanner] = y, DOMAIN cpu' = AllCPUs,
           \A q \in CPUs : cpu'[q] = cpu[q],
           cpu[Scanner].pc # "store", y.pc # "store", CPUType(y), ScannerType(y),
           UNCHANGED <<word, mem, lock, minGen, tag, run, now, fault, done>>,
           DOMAIN folio' = {"where", "gen"}, folio'.gen \in Gens,
           folio'.where \in {folio.where, "isolated"},
           scan.step \notin {"idle", "pending"},
           scan'.step \notin {"idle", "features", "decide", "pending"},
           DOMAIN scan' = ScanFields, scan'.held = scan.held, scan'.lag = scan.lag,
           scan'.expect = scan.expect, scan'.cur \in Gens, scan'.dir \in Dirs \cup {None},
           Deciding' => Deciding,
           scan'.step = "claim" => scan.held = None,
           y.pc \in {"epochs", "check"} => scan'.step = "revalidate",
           y.pc = "begin" => \/ y.kind = "claim" /\ scan'.step = "claim" /\ scan'.dir \in Dirs
                             \/ y.kind = "move" /\ scan'.step = "moving"
                             \/ y.kind = "release" /\ scan'.step = "releasing" /\ scan.held \in Dirs
    PROVE  IInv'
<1>1. Types /\ StepInv /\ DecisionInv /\ FolioInv /\ EpochInv
  BY DEF IInv
<1>2. WorldType'
  BY <1>1 DEF Types, WorldType
<1>3. ScanType'
  BY <1>1 DEF Types, ScanType
<1>4. StepInv'
  BY DEF StepInv
<1>5. DecisionInv'
  BY <1>1 DEF DecisionInv, Ahead
<1>6. FolioInv'
  BY <1>1 DEF FolioInv
<1>7. ~Claiming /\ ~Claiming' /\ ~Released /\ ~Released'
  BY DEF Claiming, Released
<1>8. \A d \in Dirs : Marked(d)' <=> Marked(d)
  BY <1>7 DEF Marked
<1>9. EpochInv'
  BY <1>1, <1>7, <1>8 DEF EpochInv
<1> QED
  BY <1>2, <1>3, <1>4, <1>5, <1>6, <1>9, ScannerBase

\* Between its calls the scanner's CPU is idle.
LEMMA ScannerIsIdle ==
    ASSUME IInv, scan.step \notin {"features", "claim", "moving", "releasing", "pending", "revalidate"}
    PROVE  cpu[Scanner].pc = "idle"
  BY DEF IInv, Types, ScannerType, StepInv

\* A write the scanner starts.
LEMMA ScannerCall ==
    ASSUME IInv, NEW kind \in {"features", "claim", "move", "release", "pending"}, NEW arg,
           kind = "move" => arg \in Gens, kind = "pending" => arg = "decided",
           ScannerCalls(kind, arg)
    PROVE  LET y == Calling(kind, arg) IN
           /\ cpu'[Scanner] = y /\ DOMAIN cpu' = AllCPUs /\ \A q \in CPUs : cpu'[q] = cpu[q]
           /\ CPUType(y) /\ ScannerType(y) /\ y.pc = "begin" /\ y.kind = kind
<1> DEFINE y == Calling(kind, arg)
<1>1. now \in Times /\ DOMAIN cpu = AllCPUs
  BY DEF IInv, Types, WorldType
<1>2. CPUType(y) /\ y.pc = "begin" /\ y.kind = kind
  BY <1>1, CallingType
<1>3. cpu' = [cpu EXCEPT ![Scanner] = y]
  BY DEF ScannerCalls
<1> HIDE DEF y
<1>4. ScannerType(y)
  BY <1>2 DEF ScannerType
<1>5. cpu'[Scanner] = y /\ DOMAIN cpu' = AllCPUs /\ \A q \in CPUs : cpu'[q] = cpu[q]
  BY <1>1, <1>3, CPUAssumption DEF AllCPUs
<1> QED
  BY <1>2, <1>4, <1>5 DEF y

\* A step within a decision that makes no call, or starts one.
LEMMA QuietKeeps ==
    ASSUME IInv, cpu[Scanner].pc \notin {"begin", "store"},
           \/ UNCHANGED cpu /\ (cpu[Scanner].pc \in {"epochs", "check"} => scan'.step = "revalidate")
           \/ cpu' = [cpu EXCEPT ![Scanner] = IdleCPU]
           \/ \E g \in Gens : ScannerCalls("move", g) /\ scan'.step = "moving"
           \/ ScannerCalls("claim", None) /\ scan'.step = "claim" /\ scan'.dir \in Dirs
           \/ ScannerCalls("release", None) /\ scan'.step = "releasing" /\ scan.held \in Dirs,
           UNCHANGED <<page, world, fault, done>>,
           DOMAIN folio' = {"where", "gen"}, folio'.gen \in Gens,
           folio'.where \in {folio.where, "isolated"},
           scan.step \notin {"idle", "pending"},
           scan'.step \notin {"idle", "features", "decide", "pending"},
           DOMAIN scan' = ScanFields, scan'.held = scan.held, scan'.lag = scan.lag,
           scan'.expect = scan.expect, scan'.cur \in Gens, scan'.dir \in Dirs \cup {None},
           Deciding' => Deciding,
           scan'.step = "claim" => scan.held = None
    PROVE  IInv'
<1>1. DOMAIN cpu = AllCPUs /\ CPUType(cpu[Scanner]) /\ ScannerType(cpu[Scanner])
  BY DEF IInv, Types, AllCPUs
<1>2. UNCHANGED <<word, mem, lock, minGen, tag, run, now, fault, done>>
  BY DEF page, world
<1>3. CASE UNCHANGED cpu /\ (cpu[Scanner].pc \in {"epochs", "check"} => scan'.step = "revalidate")
  <2>1. cpu'[Scanner] = cpu[Scanner] /\ DOMAIN cpu' = AllCPUs /\ \A q \in CPUs : cpu'[q] = cpu[q]
    BY <1>1, <1>3
  <2> QED BY <1>1, <1>2, <1>3, <2>1, ScannerKeeps
<1>4. CASE cpu' = [cpu EXCEPT ![Scanner] = IdleCPU]
  <2>1. cpu'[Scanner] = IdleCPU /\ DOMAIN cpu' = AllCPUs /\ \A q \in CPUs : cpu'[q] = cpu[q]
    BY <1>1, <1>4, CPUAssumption DEF AllCPUs
  <2>2. CPUType(IdleCPU) /\ ScannerType(IdleCPU) /\ IdleCPU.pc = "idle"
    BY FreshTypes
  <2> QED BY <1>2, <2>1, <2>2, ScannerKeeps
<1>5. CASE \E g \in Gens : ScannerCalls("move", g) /\ scan'.step = "moving"
  <2>1. PICK g \in Gens : ScannerCalls("move", g) /\ scan'.step = "moving"
    BY <1>5
  <2> DEFINE y == Calling("move", g)
  <2>2. /\ cpu'[Scanner] = y /\ DOMAIN cpu' = AllCPUs /\ \A q \in CPUs : cpu'[q] = cpu[q]
        /\ CPUType(y) /\ ScannerType(y) /\ y.pc = "begin" /\ y.kind = "move"
    BY <2>1, ScannerCall
  <2> HIDE DEF y
  <2> QED BY <1>2, <2>1, <2>2, ScannerKeeps
<1>6. CASE ScannerCalls("claim", None) /\ scan'.step = "claim" /\ scan'.dir \in Dirs
  <2> DEFINE y == Calling("claim", None)
  <2>2. /\ cpu'[Scanner] = y /\ DOMAIN cpu' = AllCPUs /\ \A q \in CPUs : cpu'[q] = cpu[q]
        /\ CPUType(y) /\ ScannerType(y) /\ y.pc = "begin" /\ y.kind = "claim"
    BY <1>6, ScannerCall
  <2> HIDE DEF y
  <2> QED BY <1>2, <1>6, <2>2, ScannerKeeps
<1>7. CASE ScannerCalls("release", None) /\ scan'.step = "releasing" /\ scan.held \in Dirs
  <2> DEFINE y == Calling("release", None)
  <2>2. /\ cpu'[Scanner] = y /\ DOMAIN cpu' = AllCPUs /\ \A q \in CPUs : cpu'[q] = cpu[q]
        /\ CPUType(y) /\ ScannerType(y) /\ y.pc = "begin" /\ y.kind = "release"
    BY <1>7, ScannerCall
  <2> HIDE DEF y
  <2> QED BY <1>2, <1>7, <2>2, ScannerKeeps
<1> QED
  BY <1>3, <1>4, <1>5, <1>6, <1>7

\* What a dropped prediction leaves of the decision.
LEMMA FallbackFields ==
    ASSUME DOMAIN scan = ScanFields, NEW g
    PROVE  LET z == Fallback(g) IN
           /\ DOMAIN z = ScanFields /\ z.held = scan.held /\ z.lag = scan.lag
           /\ z.expect = scan.expect /\ z.cur = g /\ z.dir = None
           /\ z.step \in {"protect", "raced", "native"}
<1> DEFINE p == IF scan.dir = "down" THEN "protect" ELSE IF g # minGen THEN "raced" ELSE "native"
           z == [scan EXCEPT !.dir = None, !.cur = g, !.step = p]
<1>1. p \in {"protect", "raced", "native"}
  OBVIOUS
<1>2. Fallback(g) = z
  BY DEF Fallback
<1> HIDE DEF p
<1>3. /\ DOMAIN z = ScanFields /\ z.held = scan.held /\ z.lag = scan.lag
      /\ z.expect = scan.expect /\ z.cur = g /\ z.dir = None /\ z.step = p
  BY DEF ScanFields
<1> HIDE DEF z
<1> QED
  BY <1>1, <1>2, <1>3

\* A prediction is dropped: the invariant survives a fallback without a call.
LEMMA FallbackKeeps ==
    ASSUME IInv, cpu[Scanner].pc \notin {"begin", "store"}, NEW g \in Gens, scan' = Fallback(g),
           \/ UNCHANGED cpu /\ cpu[Scanner].pc = "idle"
           \/ cpu' = [cpu EXCEPT ![Scanner] = IdleCPU],
           UNCHANGED <<page, world, fault, done, folio>>, scan.step \in {"revalidate", "apply"}
    PROVE  IInv'
<1>1. DOMAIN scan = ScanFields /\ DOMAIN folio = {"where", "gen"} /\ folio.gen \in Gens
  BY DEF IInv, Types, ScanType, WorldType
<1>2. /\ DOMAIN scan' = ScanFields /\ scan'.held = scan.held /\ scan'.lag = scan.lag
      /\ scan'.expect = scan.expect /\ scan'.cur \in Gens /\ scan'.dir = None
      /\ scan'.step \in {"protect", "raced", "native"}
  BY <1>1, FallbackFields
<1>3. ~Deciding'
  BY <1>2 DEF Deciding
<1>4. /\ folio' = folio /\ UNCHANGED <<page, world, fault, done>>
      /\ scan'.dir \in Dirs \cup {None} /\ scan'.step # "claim"
  BY <1>2
<1> QED
  BY <1>1, <1>2, <1>3, <1>4, QuietKeeps

\* One generation up.
LEMMA IncGenKeeps ==
    ASSUME IInv, cpu[Scanner].pc = "idle", IncGen,
           UNCHANGED <<page, world, fault, done>>,
           scan.step \in {"apply", "native", "protect", "reclaim"}
    PROVE  IInv'
<1>1. /\ ScanType /\ DOMAIN folio = {"where", "gen"} /\ minGen \in Gens
  BY DEF IInv, Types, WorldType
<1>2. NextGen(minGen) \in Gens
  <2>1. minGen + 1 \in Int /\ NrGens \in Nat \ {0}
    BY <1>1, WidthAssumption DEF Gens
  <2> QED BY <2>1, Remainder DEF NextGen, Gens
<1>3. /\ folio' = [folio EXCEPT !.gen = NextGen(minGen)] /\ scan' = [scan EXCEPT !.step = "moving"]
      /\ ScannerCalls("move", NextGen(minGen))
  BY DEF IncGen
<1>4. DOMAIN folio' = {"where", "gen"} /\ folio'.gen \in Gens /\ folio'.where = folio.where
  BY <1>1, <1>2, <1>3
<1>5. /\ DOMAIN scan' = ScanFields /\ scan'.held = scan.held /\ scan'.lag = scan.lag
      /\ scan'.expect = scan.expect /\ scan'.cur = scan.cur /\ scan'.dir = scan.dir
      /\ scan'.step = "moving"
  BY <1>1, <1>3 DEF ScanType, ScanFields
<1>6. ~Deciding' /\ scan'.cur \in Gens /\ scan'.dir \in Dirs \cup {None}
  BY <1>1, <1>5 DEF Deciding, ScanType
<1>7. \E g \in Gens : ScannerCalls("move", g) /\ scan'.step = "moving"
  BY <1>2, <1>3, <1>5
<1> QED
  BY <1>4, <1>5, <1>6, <1>7, QuietKeeps

\* A step that only moves the decision along.
LEMMA MoveAlong ==
    ASSUME IInv, cpu[Scanner].pc = "idle", UNCHANGED <<page, world, fault, done, cpu>>,
           NEW p \in {"native", "reclaim", "finish"}, scan' = [scan EXCEPT !.step = p],
           UNCHANGED folio, scan.step \notin {"idle", "pending"}
    PROVE  IInv'
<1>1. /\ ScanType /\ DOMAIN folio = {"where", "gen"} /\ folio.gen \in Gens
  BY DEF IInv, Types, WorldType
<1>2. /\ DOMAIN scan' = ScanFields /\ scan'.held = scan.held /\ scan'.lag = scan.lag
      /\ scan'.expect = scan.expect /\ scan'.cur = scan.cur /\ scan'.dir = scan.dir
      /\ scan'.step = p
  BY <1>1 DEF ScanType, ScanFields
<1>3. ~Deciding' /\ scan'.cur \in Gens /\ scan'.dir \in Dirs \cup {None}
  BY <1>1, <1>2 DEF Deciding, ScanType
<1>4. UNCHANGED <<page, world, fault, done>> /\ UNCHANGED cpu /\ folio' = folio
  OBVIOUS
<1> QED
  BY <1>1, <1>2, <1>3, <1>4, QuietKeeps

\* The revalidation, passed or not, keeps the invariant.
LEMMA RevalidationKeeps ==
    ASSUME IInv, revalidate_first \/ revalidate_epochs \/ revalidate_second
    PROVE  IInv'
<1>1. /\ Types /\ StepInv /\ DecisionInv /\ ScanType /\ CPUType(cpu[Scanner]) /\ ScannerType(cpu[Scanner])
      /\ DOMAIN cpu = AllCPUs /\ word \in Words /\ mem \in Mems
      /\ DOMAIN folio = {"where", "gen"} /\ folio.gen \in Gens
  BY DEF IInv, Types, WorldType, AllCPUs
<1>2. Scanner \in AllCPUs /\ CPUs \subseteq AllCPUs /\ Scanner \notin CPUs
  BY CPUAssumption DEF AllCPUs
<1>3. CASE revalidate_first
  <2>1. /\ scan.step = "revalidate" /\ cpu[Scanner].pc = "idle"
        /\ UNCHANGED <<page, folio, world, fault, done>>
    BY <1>3 DEF revalidate_first, ScannerIdle
  <2>2. CASE fault \/ Odd(word)
    <3>1. scan' = Fallback(scan.cur) /\ UNCHANGED cpu /\ scan.cur \in Gens
      BY <1>1, <1>3, <2>2 DEF revalidate_first, CommitRefused, ScanType
    <3>2. UNCHANGED <<page, world, fault, done, folio>>
      BY <2>1
    <3> QED BY <2>1, <3>1, <3>2, FallbackKeeps
  <2>3. CASE ~(fault \/ Odd(word))
    <3> DEFINE y == [IdleCPU EXCEPT !.pc = "epochs", !.first = word]
    <3>1. cpu' = [cpu EXCEPT ![Scanner] = y] /\ scan' = scan
      BY <1>3, <2>3 DEF revalidate_first, CommitRefused
    <3>2. /\ DOMAIN y = CPUFields /\ y.pc = "epochs" /\ y.lag = 0
          /\ y.kind = None /\ y.now = IdleCPU.now /\ y.got = IdleCPU.got /\ y.new = IdleCPU.new
          /\ y.todo = IdleCPU.todo
      BY DEF IdleCPU, CPUFields
    <3> HIDE DEF y
    <3>3. CPUType(y)
      BY <3>2, FreshTypes, SeqAssumption DEF CPUType, None
    <3>4. ScannerType(y)
      BY <3>2 DEF ScannerType, None
    <3>5. cpu'[Scanner] = y /\ DOMAIN cpu' = AllCPUs /\ \A q \in CPUs : cpu'[q] = cpu[q]
      BY <1>1, <1>2, <3>1
    <3>6. UNCHANGED <<word, mem, lock, minGen, tag, run, now, fault, done>> /\ folio' = folio
      BY <2>1 DEF page, world
    <3>7. (Deciding' => Deciding) /\ scan.cur \in Gens /\ scan.dir \in Dirs \cup {None} /\ DOMAIN scan = ScanFields
      BY <1>1, <3>1 DEF Deciding, ScanType
    <3> QED BY <1>1, <2>1, <3>1, <3>2, <3>3, <3>4, <3>5, <3>6, <3>7, ScannerKeeps
  <2> QED BY <2>2, <2>3
<1>4. CASE revalidate_epochs
  <2> DEFINE g == [cpu[Scanner].got EXCEPT !.epochs = mem.epochs]
             y == [cpu[Scanner] EXCEPT !.pc = "check", !.got = g]
  <2>1. /\ cpu[Scanner].pc = "epochs" /\ UNCHANGED <<page, scan, folio, world, fault, done>>
    BY <1>4 DEF revalidate_epochs
  <2>2. cpu' = [cpu EXCEPT ![Scanner] = y]
    BY <1>1, <1>2, <1>4 DEF revalidate_epochs
  <2>3. g \in Mems
    <3>1. cpu[Scanner].got \in Mems /\ mem.epochs \in Epochs
      BY <1>1 DEF CPUType, Mems
    <3> QED BY <3>1 DEF Mems
  <2> HIDE DEF g
  <2>4. /\ DOMAIN y = CPUFields /\ y.pc = "check" /\ y.got = g
        /\ y.lag = cpu[Scanner].lag /\ y.kind = cpu[Scanner].kind /\ y.now = cpu[Scanner].now
        /\ y.arg = cpu[Scanner].arg /\ y.new = cpu[Scanner].new /\ y.todo = cpu[Scanner].todo
    BY <1>1 DEF CPUType, CPUFields
  <2> HIDE DEF y
  <2>5. CPUType(y)
    BY <1>1, <2>3, <2>4 DEF CPUType
  <2>6. ScannerType(y)
    BY <1>1, <2>4 DEF ScannerType
  <2>7. cpu'[Scanner] = y /\ DOMAIN cpu' = AllCPUs /\ \A q \in CPUs : cpu'[q] = cpu[q]
    BY <1>1, <1>2, <2>2
  <2>8. UNCHANGED <<word, mem, lock, minGen, tag, run, now, fault, done>> /\ folio' = folio /\ scan' = scan
    BY <2>1 DEF page, world
  <2>9. scan.step = "revalidate"
    BY <1>1, <2>1 DEF StepInv
  <2>10. (Deciding' => Deciding) /\ scan.cur \in Gens /\ scan.dir \in Dirs \cup {None} /\ DOMAIN scan = ScanFields
    BY <1>1, <2>8 DEF Deciding, ScanType
  <2> QED BY <1>1, <2>1, <2>4, <2>5, <2>6, <2>7, <2>8, <2>9, <2>10, ScannerKeeps
<1>5. CASE revalidate_second
  <2>1. /\ cpu[Scanner].pc = "check" /\ UNCHANGED <<page, folio, world, fault, done>>
        /\ cpu' = [cpu EXCEPT ![Scanner] = IdleCPU]
    BY <1>5 DEF revalidate_second
  <2>2. scan.step = "revalidate"
    BY <1>1, <2>1 DEF StepInv
  <2>3. UNCHANGED <<page, world, fault, done, folio>>
    BY <2>1
  <2>4. CASE Revalidated /\ scan.flagsOk
    <3>1. scan' = [scan EXCEPT !.step = "apply"]
      BY <1>5, <2>4 DEF revalidate_second
    <3>3. /\ DOMAIN scan' = ScanFields /\ scan'.held = scan.held /\ scan'.lag = scan.lag
          /\ scan'.expect = scan.expect /\ scan'.cur = scan.cur /\ scan'.dir = scan.dir
          /\ scan'.step = "apply"
      BY <1>1, <3>1 DEF ScanType, ScanFields
    <3>4. ~Deciding' /\ scan'.cur \in Gens /\ scan'.dir \in Dirs \cup {None} /\ folio' = folio
      BY <1>1, <2>3, <3>3 DEF Deciding, ScanType
    <3>5. UNCHANGED <<page, world, fault, done>>
      BY <2>3
    <3> QED BY <1>1, <2>1, <2>2, <3>3, <3>4, <3>5, QuietKeeps
  <2>5. CASE ~(Revalidated /\ scan.flagsOk)
    <3>1. scan' = Fallback(scan.cur) /\ scan.cur \in Gens
      BY <1>1, <1>5, <2>5 DEF revalidate_second, ScanType
    <3> QED BY <2>1, <2>2, <2>3, <3>1, FallbackKeeps
  <2> QED BY <2>4, <2>5
<1> QED
  BY <1>3, <1>4, <1>5

\* The scanner takes a folio of the oldest generation.
LEMMA SortKeeps ==
    ASSUME IInv, SortFolio
    PROVE  IInv'
<1> DEFINE y == Calling("features", None)
           z == [IdleScan EXCEPT !.step = "features", !.gen = folio.gen]
<1>1. /\ Types /\ ScanType /\ WorldType /\ StepInv /\ DecisionInv /\ FolioInv /\ EpochInv
  BY DEF IInv, Types
<1>2. /\ scan.step = "idle" /\ folio.where = "lru" /\ scan' = z /\ ScannerCalls("features", None)
      /\ UNCHANGED <<word, mem, lock, minGen, tag, run, now, fault, done, folio>>
  BY DEF SortFolio, page, world
<1>3. /\ cpu'[Scanner] = y /\ DOMAIN cpu' = AllCPUs /\ \A q \in CPUs : cpu'[q] = cpu[q]
      /\ CPUType(y) /\ ScannerType(y) /\ y.pc = "begin" /\ y.kind = "features"
  BY <1>2, ScannerCall
<1>4. /\ DOMAIN z = ScanFields /\ z.step = "features" /\ z.expect = 0 /\ z.lag = 0 /\ z.cur = 0
      /\ z.dir = None /\ z.held = None
  BY DEF IdleScan, ScanFields
<1> HIDE DEF y, z
<1>5. cpu[Scanner].pc = "idle"
  BY <1>2, ScannerIsIdle
<1>6. WorldType'
  BY <1>1, <1>2 DEF WorldType
<1>7. ScanType'
  BY <1>2, <1>4, SeqAssumption, WidthAssumption DEF ScanType, Gens
<1>8. StepInv'
  BY <1>2, <1>3, <1>4 DEF StepInv
<1>9. DecisionInv'
  BY <1>2, <1>4 DEF DecisionInv, Deciding
<1>10. FolioInv'
  <2>1. \A q \in CPUs : cpu'[q].kind # "outcome"
    BY <1>1, <1>2, <1>3 DEF FolioInv
  <2> QED BY <1>2, <2>1 DEF FolioInv
<1>11. \A d \in Dirs : ~Marked(d) /\ ~Marked(d)'
  <2>1. scan.held = None /\ scan'.held = None /\ ~Claiming /\ ~Claiming'
    BY <1>1, <1>2, <1>3, <1>4, <1>5 DEF StepInv, Claiming
  <2> QED BY <2>1 DEF Marked, Dirs, None
<1>12. EpochInv'
  <2>1. ~Claiming'
    BY <1>3 DEF Claiming
  <2> QED BY <1>1, <1>2, <1>11, <2>1 DEF EpochInv
<1> QED
  BY <1>2, <1>3, <1>5, <1>6, <1>7, <1>8, <1>9, <1>10, <1>12, ScannerBase

\* What Finish records: the reservation it commits was made in this epoch, so
\* the direction has no earlier commit.
LEMMA FinishRecords ==
    ASSUME IInv, Finish
    PROVE  /\ DOMAIN done' = {"n", "tag"} /\ done'.n \in [Dirs -> Nat] /\ done'.tag \in [Dirs -> Nat]
           /\ \A d \in Dirs :
                 /\ done'.n[d] <= 1
                 /\ done'.n[d] = 1 => mem.epochs.run = run /\ mem.epochs[d] = tag
                 /\ mem.epochs[d] \in {0, done'.tag[d]}
<1>1. /\ WorldType /\ ScanType /\ EpochInv /\ StepInv
  BY DEF IInv, Types
<1>2. scan.step = "finish"
  BY DEF Finish
<1>3. cpu[Scanner].pc = "idle"
  BY <1>2, ScannerIsIdle
<1>4. ~Claiming /\ ~Released
  BY <1>3 DEF Claiming, Released
<1>5. \A d \in Dirs : Marked(d) <=> scan.held = d
  BY <1>2, <1>4 DEF Marked
<1>6. /\ done.n \in [Dirs -> Nat] /\ done.tag \in [Dirs -> Nat] /\ DOMAIN done = {"n", "tag"}
      /\ tag \in Nat /\ \A d \in Dirs : done.n[d] \in Nat
  BY <1>1, WidthAssumption DEF WorldType
<1>7. CASE Committed
  <2> DEFINE h == scan.held
             n == [done.n EXCEPT ![h] = Min2(@ + 1, 2)]
             t == [done.tag EXCEPT ![h] = tag]
  <2>1. h \in Dirs
    BY <1>1, <1>7 DEF Committed, ScanType
  <2>2. done' = [n |-> n, tag |-> t]
    BY <1>7 DEF Finish
  <2>3. done.n[h] = 0 /\ mem.epochs.run = run /\ mem.epochs[h] = tag
    BY <1>1, <1>4, <1>5, <2>1 DEF EpochInv
  <2> HIDE DEF h
  <2>4. Min2(done.n[h] + 1, 2) = 1
    BY <2>3 DEF Min2
  <2>5. n \in [Dirs -> Nat] /\ \A d \in Dirs : n[d] = IF d = h THEN 1 ELSE done.n[d]
    BY <1>6, <2>1, <2>4
  <2>6. t \in [Dirs -> Nat] /\ \A d \in Dirs : t[d] = IF d = h THEN tag ELSE done.tag[d]
    BY <1>6, <2>1
  <2> HIDE DEF n, t
  <2>7. \A d \in Dirs \ {h} : /\ done.n[d] <= 1
                              /\ done.n[d] = 1 => mem.epochs.run = run /\ mem.epochs[d] = tag
                              /\ mem.epochs[d] \in {0, done.tag[d]}
    BY <1>1, <1>5 DEF EpochInv, h
  <2>8. done'.n = n /\ done'.tag = t /\ DOMAIN done' = {"n", "tag"}
    BY <2>2
  <2> QED BY <2>1, <2>3, <2>5, <2>6, <2>7, <2>8
<1>8. CASE ~Committed
  <2>1. done' = done /\ scan.held = None
    BY <1>8 DEF Finish
  <2>2. \A d \in Dirs : ~Marked(d)
    BY <1>5, <2>1 DEF Dirs, None
  <2> QED BY <1>1, <1>6, <2>1, <2>2 DEF EpochInv
<1> QED
  BY <1>7, <1>8

\* The decision is finished.
LEMMA FinishKeeps ==
    ASSUME IInv, Finish
    PROVE  IInv'
<1>1. /\ Types /\ ScanType /\ WorldType /\ StepInv /\ DecisionInv /\ FolioInv /\ EpochInv
      /\ ScannerType(cpu[Scanner]) /\ CPUType(cpu[Scanner]) /\ DOMAIN cpu = AllCPUs
  BY DEF IInv, Types, AllCPUs
<1>2. /\ scan.step = "finish"
      /\ UNCHANGED <<word, mem, lock, minGen, tag, run, now, fault, folio>>
  BY DEF Finish, page, world
<1>3. cpu[Scanner].pc = "idle"
  BY <1>2, ScannerIsIdle
<1>4. WorldType'
  BY <1>1, <1>2, FinishRecords DEF WorldType
<1>5. \A q \in CPUs : cpu[q].kind # "outcome"
  BY <1>1, <1>2 DEF FolioInv
<1>6. folio.where \notin {"settled", "free"}
  BY <1>1, <1>2 DEF FolioInv
<1>7. SUFFICES ASSUME NEW y, cpu'[Scanner] = y, DOMAIN cpu' = AllCPUs,
                      \A q \in CPUs : cpu'[q] = cpu[q],
                      CPUType(y), ScannerType(y), DOMAIN scan' = ScanFields,
                      scan'.expect \in 0..(SeqMod - 1), scan'.lag \in 0..MaxLag, scan'.cur \in Gens,
                      scan'.dir \in Dirs \cup {None}, scan'.held \in Dirs \cup {None},
                      \/ scan'.step = "pending" /\ y.pc = "begin" /\ y.kind = "pending"
                      \/ scan'.step = "idle" /\ scan'.held = None /\ y.pc = "idle"
               PROVE  IInv'
  <2>1. CASE scan.isolated
    <3> DEFINE y == Calling("pending", "decided")
    <3>1. scan' = [scan EXCEPT !.step = "pending"] /\ ScannerCalls("pending", "decided")
      BY <2>1 DEF Finish
    <3>2. /\ cpu'[Scanner] = y /\ DOMAIN cpu' = AllCPUs /\ \A q \in CPUs : cpu'[q] = cpu[q]
          /\ CPUType(y) /\ ScannerType(y) /\ y.pc = "begin" /\ y.kind = "pending"
      BY <3>1, ScannerCall
    <3> HIDE DEF y
    <3>3. /\ DOMAIN scan' = ScanFields /\ scan'.step = "pending" /\ scan'.expect = scan.expect
          /\ scan'.lag = scan.lag /\ scan'.cur = scan.cur /\ scan'.dir = scan.dir /\ scan'.held = scan.held
      BY <1>1, <3>1 DEF ScanType, ScanFields
    <3>4. /\ scan'.expect \in 0..(SeqMod - 1) /\ scan'.lag \in 0..MaxLag /\ scan'.cur \in Gens
          /\ scan'.dir \in Dirs \cup {None} /\ scan'.held \in Dirs \cup {None}
      BY <1>1, <3>3 DEF ScanType
    <3> QED BY <1>7, <3>2, <3>3, <3>4
  <2>2. CASE ~scan.isolated
    <3>1. scan' = IdleScan /\ cpu' = cpu
      BY <2>2 DEF Finish
    <3>2. /\ DOMAIN scan' = ScanFields /\ scan'.step = "idle" /\ scan'.expect = 0 /\ scan'.lag = 0
          /\ scan'.cur = 0 /\ scan'.dir = None /\ scan'.held = None
      BY <3>1 DEF IdleScan, ScanFields
    <3>3. 0 \in 0..(SeqMod - 1) /\ 0 \in 0..MaxLag /\ 0 \in Gens
      BY SeqAssumption, WidthAssumption DEF Gens
    <3> QED BY <1>1, <1>3, <1>7, <3>1, <3>2, <3>3
  <2> QED BY <2>1, <2>2
<1>8. ScanType'
  BY <1>7 DEF ScanType
<1>9. StepInv'
  BY <1>7 DEF StepInv
<1>10. DecisionInv'
  BY <1>7 DEF DecisionInv, Deciding
<1>11. FolioInv'
  BY <1>2, <1>7, <1>5, <1>6 DEF FolioInv
<1>12. ~Claiming' /\ \A d \in Dirs : ~Marked(d)'
  <2>1. ~Claiming'
    BY <1>7 DEF Claiming
  <2>2. scan'.step = "pending" \/ scan'.held = None
    BY <1>7
  <2> QED BY <2>1, <2>2 DEF Marked, Dirs, None
<1>13. EpochInv'
  BY <1>1, <1>2, <1>12, FinishRecords DEF EpochInv
<1> QED
  BY <1>2, <1>7, <1>3, <1>4, <1>8, <1>9, <1>10, <1>11, <1>13, ScannerBase

\* Every step of the scanner between its writes.
LEMMA ScanKeeps ==
    ASSUME IInv, Scan
    PROVE  IInv'
<1>1. /\ ScanType /\ StepInv /\ DecisionInv /\ DOMAIN folio = {"where", "gen"} /\ folio.gen \in Gens
  BY DEF IInv, Types, WorldType
<1>2. CASE Decide
  <2>1. /\ scan.step = "decide" /\ UNCHANGED <<page, folio, world, fault, done>>
    BY <1>2 DEF Decide
  <2>2. cpu[Scanner].pc = "idle" /\ scan.held = None
    BY <1>1, <2>1, ScannerIsIdle DEF StepInv
  <2>3. CASE scan' = [scan EXCEPT !.step = "native"] /\ UNCHANGED cpu
    BY <2>1, <2>2, <2>3, MoveAlong
  <2>4. CASE (\E d \in Dirs : scan' = [scan EXCEPT !.step = "claim", !.dir = d]) /\ ScannerCalls("claim", None)
    <3>1. PICK d \in Dirs : scan' = [scan EXCEPT !.step = "claim", !.dir = d]
      BY <2>4
    <3>2. /\ DOMAIN scan' = ScanFields /\ scan'.held = scan.held /\ scan'.lag = scan.lag
          /\ scan'.expect = scan.expect /\ scan'.cur = scan.cur /\ scan'.dir = d
          /\ scan'.step = "claim"
      BY <1>1, <3>1 DEF ScanType, ScanFields
    <3>3. Deciding /\ scan'.cur \in Gens /\ scan'.dir \in Dirs
      BY <1>1, <2>1, <3>2 DEF Deciding, ScanType
    <3>4. UNCHANGED <<page, world, fault, done>> /\ folio' = folio
      BY <2>1
    <3> QED BY <1>1, <2>1, <2>2, <2>4, <3>2, <3>3, <3>4, QuietKeeps
  <2> QED BY <1>2, <2>3, <2>4 DEF Decide
<1>3. CASE ReadFlags
  <2>1. /\ scan.step = "flags" /\ UNCHANGED <<page, cpu, folio, world, fault, done>>
    BY <1>3 DEF ReadFlags
  <2>2. PICK r \in BOOLEAN :
          scan' = [scan EXCEPT !.step = "revalidate", !.cur = folio.gen, !.flagsOk = r /\ folio.gen = scan.gen]
    BY <1>3 DEF ReadFlags
  <2> DEFINE f == r /\ folio.gen = scan.gen
  <2>3. scan' = [scan EXCEPT !.step = "revalidate", !.cur = folio.gen, !.flagsOk = f]
    BY <2>2
  <2> HIDE DEF f
  <2>4. /\ DOMAIN scan' = ScanFields /\ scan'.held = scan.held /\ scan'.lag = scan.lag
        /\ scan'.expect = scan.expect /\ scan'.cur = folio.gen /\ scan'.dir = scan.dir
        /\ scan'.step = "revalidate"
    BY <1>1, <2>3 DEF ScanType, ScanFields
  <2>5. Deciding /\ scan'.dir \in Dirs \cup {None} /\ cpu[Scanner].pc = "idle"
    BY <1>1, <2>1, <2>4, ScannerIsIdle DEF Deciding, ScanType
  <2>6. UNCHANGED <<page, world, fault, done>> /\ UNCHANGED cpu /\ folio' = folio
    BY <2>1
  <2> QED BY <1>1, <2>1, <2>4, <2>5, <2>6, QuietKeeps
<1>4. CASE ApplyUpgrade
  <2>1. /\ scan.step = "apply" /\ UNCHANGED <<page, world, fault, done>>
    BY <1>4 DEF ApplyUpgrade
  <2>2. cpu[Scanner].pc = "idle"
    BY <2>1, ScannerIsIdle
  <2>3. CASE IncGen
    BY <2>1, <2>2, <2>3, IncGenKeeps
  <2>4. CASE scan' = Fallback(folio.gen) /\ UNCHANGED <<cpu, folio>>
    BY <1>1, <2>1, <2>2, <2>4, FallbackKeeps
  <2> QED BY <1>4, <2>3, <2>4 DEF ApplyUpgrade
<1>5. CASE ApplyDowngrade
  <2>1. /\ scan.step = "apply" /\ UNCHANGED <<page, cpu, folio, world, fault, done>>
        /\ scan' = [scan EXCEPT !.step = "reclaim"]
    BY <1>5 DEF ApplyDowngrade
  <2>2. cpu[Scanner].pc = "idle"
    BY <2>1, ScannerIsIdle
  <2> QED BY <2>1, <2>2, MoveAlong
<1>6. CASE FollowGen
  <2>1. /\ scan.step = "raced" /\ UNCHANGED <<page, folio, world, fault, done>>
        /\ scan' = [scan EXCEPT !.step = "moving"] /\ ScannerCalls("move", scan.cur)
    BY <1>6 DEF FollowGen
  <2>2. cpu[Scanner].pc = "idle"
    BY <2>1, ScannerIsIdle
  <2>3. /\ DOMAIN scan' = ScanFields /\ scan'.held = scan.held /\ scan'.lag = scan.lag
        /\ scan'.expect = scan.expect /\ scan'.cur = scan.cur /\ scan'.dir = scan.dir
        /\ scan'.step = "moving"
    BY <1>1, <2>1 DEF ScanType, ScanFields
  <2>4. ~Deciding' /\ scan.cur \in Gens /\ scan'.dir \in Dirs \cup {None}
    BY <1>1, <2>3 DEF Deciding, ScanType
  <2>5. UNCHANGED <<page, world, fault, done>> /\ folio' = folio
    BY <2>1
  <2>6. \E g \in Gens : ScannerCalls("move", g) /\ scan'.step = "moving"
    BY <2>1, <2>3, <2>4
  <2> QED BY <1>1, <2>1, <2>2, <2>3, <2>4, <2>5, <2>6, QuietKeeps
<1>7. CASE ProtectNative
  <2>1. /\ scan.step \in {"native", "protect"} /\ UNCHANGED <<page, world, fault, done>>
    BY <1>7 DEF ProtectNative
  <2>2. cpu[Scanner].pc = "idle"
    BY <2>1, ScannerIsIdle
  <2>3. CASE IncGen
    BY <2>1, <2>2, <2>3, IncGenKeeps
  <2>4. CASE scan' = [scan EXCEPT !.step = "finish"] /\ UNCHANGED <<cpu, folio>>
    BY <2>1, <2>2, <2>4, MoveAlong
  <2> QED BY <1>7, <2>3, <2>4 DEF ProtectNative
<1>8. CASE ReclaimNative
  <2>1. /\ scan.step = "native" /\ UNCHANGED <<page, cpu, folio, world, fault, done>>
        /\ scan' = [scan EXCEPT !.step = "reclaim"]
    BY <1>8 DEF ReclaimNative
  <2>2. cpu[Scanner].pc = "idle"
    BY <2>1, ScannerIsIdle
  <2> QED BY <2>1, <2>2, MoveAlong
<1>9. CASE IsolateFolio
  <2>1. /\ scan.step = "reclaim" /\ UNCHANGED <<page, world, fault, done>>
    BY <1>9 DEF IsolateFolio
  <2>2. cpu[Scanner].pc = "idle"
    BY <2>1, ScannerIsIdle
  <2>3. CASE IncGen
    BY <2>1, <2>2, <2>3, IncGenKeeps
  <2>4. CASE /\ scan' = [scan EXCEPT !.step = "finish", !.isolated = TRUE]
             /\ folio' = [folio EXCEPT !.where = "isolated"] /\ UNCHANGED cpu
    <3>1. /\ DOMAIN scan' = ScanFields /\ scan'.held = scan.held /\ scan'.lag = scan.lag
          /\ scan'.expect = scan.expect /\ scan'.cur = scan.cur /\ scan'.dir = scan.dir
          /\ scan'.step = "finish"
      BY <1>1, <2>4 DEF ScanType, ScanFields
    <3>2. DOMAIN folio' = {"where", "gen"} /\ folio'.gen \in Gens /\ folio'.where = "isolated"
      BY <1>1, <2>4
    <3>3. ~Deciding' /\ scan'.cur \in Gens /\ scan'.dir \in Dirs \cup {None}
      BY <1>1, <3>1 DEF Deciding, ScanType
    <3> QED BY <2>1, <2>2, <2>4, <3>1, <3>2, <3>3, QuietKeeps
  <2>5. CASE scan' = [scan EXCEPT !.step = "finish"] /\ UNCHANGED <<cpu, folio>>
    BY <2>1, <2>2, <2>5, MoveAlong
  <2> QED BY <1>9, <2>3, <2>4, <2>5 DEF IsolateFolio
<1>10. CASE CancelReservation
  <2>1. /\ scan.step = "finish" /\ scan.held # None /\ UNCHANGED <<page, folio, world, fault, done>>
        /\ scan' = [scan EXCEPT !.step = "releasing"] /\ ScannerCalls("release", None)
    BY <1>10 DEF CancelReservation
  <2>2. cpu[Scanner].pc = "idle" /\ scan.held \in Dirs
    BY <1>1, <2>1, ScannerIsIdle DEF ScanType
  <2>3. /\ DOMAIN scan' = ScanFields /\ scan'.held = scan.held /\ scan'.lag = scan.lag
        /\ scan'.expect = scan.expect /\ scan'.cur = scan.cur /\ scan'.dir = scan.dir
        /\ scan'.step = "releasing"
    BY <1>1, <2>1 DEF ScanType, ScanFields
  <2>4. ~Deciding' /\ scan'.cur \in Gens /\ scan'.dir \in Dirs \cup {None}
    BY <1>1, <2>3 DEF Deciding, ScanType
  <2>5. UNCHANGED <<page, world, fault, done>> /\ folio' = folio
    BY <2>1
  <2> QED BY <1>1, <2>1, <2>2, <2>3, <2>4, <2>5, QuietKeeps
<1> QED
  BY <1>2, <1>3, <1>4, <1>5, <1>6, <1>7, <1>8, <1>9, <1>10, SortKeeps, RevalidationKeeps, FinishKeeps
  DEF Scan

-----------------------------------------------------------------------------
(* The environment.                                                        *)

\* Without a scan no claim is being made, and the page carries none but the
\* committed ones.
LEMMA NoScan ==
    ASSUME IInv, scan.step = "idle"
    PROVE  /\ cpu[Scanner].pc = "idle" /\ ~Claiming /\ ~Deciding
           /\ \A d \in Dirs : ~Marked(d) /\ mem.epochs[d] \in {0, done.tag[d]}
<1>1. cpu[Scanner].pc = "idle"
  BY ScannerIsIdle
<1>2. ~Claiming /\ ~Deciding
  BY <1>1 DEF Claiming, Deciding
<1>3. scan.held = None
  BY DEF IInv, StepInv
<1>4. \A d \in Dirs : ~Marked(d)
  BY <1>2, <1>3 DEF Marked, Dirs, None
<1> QED
  BY <1>1, <1>2, <1>4 DEF IInv, EpochInv

\* Reclaim gives the folio back, or frees it.
LEMMA FolioLeaves ==
    ASSUME IInv, PutbackFolio \/ FreeFolio
    PROVE  IInv'
<1>1. /\ Types /\ LockInv /\ StepInv /\ DecisionInv /\ FolioInv /\ EpochInv
      /\ \A q \in CPUs : ReaderInv(q)
      /\ \A q \in AllCPUs : StoreInv(q)
  BY DEF IInv
<1>2. UNCHANGED <<word, mem, lock, cpu, scan, minGen, tag, run, now, fault, done>>
  BY DEF PutbackFolio, FreeFolio, page, world
<1>3. scan.step = "idle"
  BY <1>1 DEF PutbackFolio, FreeFolio, FolioInv
<1>4. \A q \in CPUs : cpu[q].kind # "outcome"
  BY <1>1 DEF PutbackFolio, FreeFolio, Types, CallerType, AllCPUs
<1>5. DOMAIN folio' = {"where", "gen"} /\ folio'.gen \in Gens
  BY <1>1 DEF PutbackFolio, FreeFolio, Types, WorldType, Gens
<1>6. folio'.where = "free" => \A q \in AllCPUs : cpu[q].pc = "idle"
  <2>1. CASE PutbackFolio
    <3>1. PICK g \in 0..(NrGens - 1) : folio' = [where |-> "lru", gen |-> g]
      BY <2>1 DEF PutbackFolio
    <3> QED BY <3>1
  <2>2. CASE FreeFolio
    BY <2>2 DEF FreeFolio
  <2> QED BY <2>1, <2>2
<1>7. Types'
  BY <1>1, <1>2, <1>5 DEF Types, ScanType, WorldType
<1>8. LockInv' /\ StepInv' /\ DecisionInv'
  BY <1>1, <1>2 DEF LockInv, StepInv, DecisionInv, Odd, Ahead, Deciding
<1>9. FolioInv'
  BY <1>2, <1>3, <1>4, <1>6 DEF FolioInv
<1>10. (\A q \in CPUs : ReaderInv(q)') /\ \A q \in AllCPUs : StoreInv(q)'
  BY <1>1, <1>2 DEF ReaderInv, Reading, Ahead, StoreInv, SectionOK, EpochsStore
<1>11. EpochInv'
  BY <1>1, <1>2 DEF EpochInv, Claiming, Released, Marked
<1> QED
  BY <1>7, <1>8, <1>9, <1>10, <1>11 DEF IInv

\* A freed page is given out again: nobody is inside its record.
LEMMA AllocKeeps ==
    ASSUME IInv, page_alloc
    PROVE  IInv'
<1>1. /\ Types /\ LockInv /\ StepInv /\ FolioInv /\ WorldType /\ ScanType
  BY DEF IInv, Types
<1>2. /\ folio.where = "free" /\ mem' = FreshMem /\ word' = FreshWord
      /\ UNCHANGED <<lock, cpu, scan, minGen, tag, run, now, fault>>
      /\ done' = [n |-> [d \in Dirs |-> 0], tag |-> [d \in Dirs |-> 0]]
  BY DEF page_alloc, world
<1>3. scan.step = "idle" /\ \A q \in AllCPUs : cpu[q].pc = "idle"
  BY <1>1, <1>2 DEF FolioInv
<1>4. lock = NoCPU
  BY <1>1, <1>3 DEF LockInv
<1>5. PICK g \in 0..(NrGens - 1) : folio' = [where |-> "lru", gen |-> g]
  BY DEF page_alloc
<1>6. DOMAIN folio' = {"where", "gen"} /\ folio'.gen \in Gens /\ folio'.where = "lru"
  BY <1>5 DEF Gens
<1>7. /\ DOMAIN done' = {"n", "tag"} /\ done'.n \in [Dirs -> Nat] /\ done'.tag \in [Dirs -> Nat]
      /\ \A d \in Dirs : done'.n[d] = 0
  BY <1>2
<1>8. /\ mem' \in Mems /\ word' \in Words
  BY <1>2, FreshTypes
<1>9. /\ mem'.epochs.up = 0 /\ mem'.epochs.down = 0 /\ mem'.epochs.run = 0 /\ word'.seq = 0
  BY <1>2 DEF FreshMem, FreshWord, NoEpochs
<1>10. Scanner \in AllCPUs /\ CPUs \subseteq AllCPUs
  BY DEF AllCPUs
<1>11. \A q \in CPUs : cpu[q].kind # "outcome"
  BY <1>1, <1>2 DEF FolioInv
<1>12. Types'
  BY <1>1, <1>2, <1>6, <1>7, <1>8 DEF Types, WorldType, ScanType
<1>13. LockInv'
  BY <1>1, <1>2, <1>4, <1>9 DEF LockInv, Odd
<1>14. StepInv' /\ DecisionInv' /\ FolioInv'
  BY <1>1, <1>2, <1>3, <1>6, <1>10, <1>11 DEF StepInv, DecisionInv, Deciding, FolioInv
<1>15. (\A q \in CPUs : ReaderInv(q)') /\ \A q \in AllCPUs : StoreInv(q)'
  BY <1>2, <1>3, <1>10 DEF ReaderInv, Reading, StoreInv
<1>16. ~Claiming' /\ \A d \in Dirs : ~Marked(d)'
  <2>1. scan.held = None /\ ~Claiming /\ ~Claiming'
    BY <1>1, <1>2, <1>3, <1>10 DEF StepInv, Claiming
  <2> QED BY <1>2, <2>1 DEF Marked, Dirs, None
<1>17. EpochInv'
  <2>1. mem'.epochs.run <= run'
    BY <1>1, <1>2, <1>9 DEF WorldType
  <2>2. \A d \in Dirs : mem'.epochs[d] = 0
    BY <1>9 DEF Dirs
  <2> QED BY <1>7, <1>16, <2>1, <2>2 DEF EpochInv
<1> QED
  BY <1>12, <1>13, <1>14, <1>15, <1>17 DEF IInv

\* A new reclaim epoch, or a new run of the policy: commits count from zero.
LEMMA EpochKeeps ==
    ASSUME IInv, NewEpoch \/ NewRun
    PROVE  IInv'
<1>1. /\ Types /\ LockInv /\ StepInv /\ DecisionInv /\ FolioInv /\ WorldType /\ ScanType /\ EpochInv
      /\ \A q \in CPUs : ReaderInv(q)
      /\ \A q \in AllCPUs : StoreInv(q)
  BY DEF IInv, Types
<1>2. /\ scan.step = "idle" /\ UNCHANGED <<word, mem, lock, cpu, scan, folio, now>>
      /\ tag' = NextTag /\ done' = [done EXCEPT !.n = [d \in Dirs |-> 0]] /\ (fault' = fault \/ ~fault')
  BY DEF NewEpoch, NewRun, page, NoneYet
<1>3. /\ cpu[Scanner].pc = "idle" /\ ~Claiming /\ ~Deciding
      /\ \A d \in Dirs : ~Marked(d) /\ mem.epochs[d] \in {0, done.tag[d]}
  BY <1>2, NoScan
<1>4. /\ run \in 1..MaxRuns /\ tag \in 1..TagMax /\ minGen \in Gens /\ mem.epochs.run \in 0..MaxRuns
  <2>1. mem.epochs \in Epochs
    BY <1>1 DEF Types, Mems
  <2> QED BY <1>1, <2>1 DEF WorldType, Epochs
<1>5. tag' \in 1..TagMax
  BY <1>2, <1>4, WidthAssumption DEF NextTag
<1>6. run' \in 1..MaxRuns /\ (run' = run \/ run' = run + 1)
  BY <1>4, WidthAssumption DEF NewEpoch, NewRun
<1>7. minGen' \in Gens
  <2>1. NextGen(minGen) \in Gens
    <3>1. minGen + 1 \in Int /\ NrGens \in Nat \ {0}
      BY <1>4, WidthAssumption DEF Gens
    <3> QED BY <3>1, Remainder DEF NextGen, Gens
  <2> QED BY <1>4, <2>1 DEF NewEpoch, NewRun
<1>8. /\ DOMAIN done' = {"n", "tag"} /\ done'.n \in [Dirs -> Nat] /\ done'.tag = done.tag
      /\ \A d \in Dirs : done'.n[d] = 0
  <2> DEFINE z == [d \in Dirs |-> 0]
  <2>1. z \in [Dirs -> Nat] /\ \A d \in Dirs : z[d] = 0
    OBVIOUS
  <2>2. done' = [done EXCEPT !.n = z]
    BY <1>2
  <2> HIDE DEF z
  <2> QED BY <1>1, <2>1, <2>2 DEF WorldType
<1>9. Types'
  BY <1>1, <1>2, <1>5, <1>6, <1>7, <1>8 DEF Types, WorldType, ScanType
<1>10. LockInv'
  BY <1>1, <1>2 DEF LockInv, Odd
<1>11. StepInv' /\ DecisionInv' /\ FolioInv'
  BY <1>1, <1>2 DEF StepInv, DecisionInv, Deciding, FolioInv
<1>12. \A q \in CPUs : ReaderInv(q)'
  BY <1>1, <1>2 DEF ReaderInv, Reading, Ahead
<1>13. ~Claiming' /\ \A d \in Dirs : ~Marked(d)'
  BY <1>2, <1>3 DEF Claiming, Marked
<1>14. mem.epochs.run <= run /\ mem.epochs.run <= run'
  BY <1>1, <1>4, <1>6 DEF EpochInv
<1>15. EpochInv'
  BY <1>2, <1>3, <1>8, <1>13, <1>14 DEF EpochInv
<1>16. \A q \in AllCPUs : StoreInv(q)'
  <2> SUFFICES ASSUME NEW q \in AllCPUs, cpu[q].pc = "store"
               PROVE  SectionOK(cpu[q].todo, cpu[q].kind, cpu[q].arg)'
    BY <1>2 DEF StoreInv
  <2>1. q \in CPUs
    BY <1>3 DEF AllCPUs
  <2>2. cpu[q].kind \notin {"claim", "release"} /\ cpu[q].todo \in Seq(Writes)
    BY <1>1, <2>1 DEF Types, CallerType, CPUType
  <2>3. SectionOK(cpu[q].todo, cpu[q].kind, cpu[q].arg)
    BY <1>1 DEF StoreInv
  <2>4. ASSUME NEW i \in 1..Len(cpu[q].todo), cpu[q].todo[i][1] = "epochs"
        PROVE  i = Len(cpu[q].todo) /\ EpochsStore(cpu[q].kind, cpu[q].arg, cpu[q].todo[i][2])'
    <3> DEFINE v == cpu[q].todo[i][2]
    <3>1. i = Len(cpu[q].todo) /\ EpochsStore(cpu[q].kind, cpu[q].arg, v)
      BY <2>3, <2>4 DEF SectionOK
    <3>2. v \in Epochs
      <4>1. cpu[q].todo[i] \in Writes
        BY <2>2
      <4> QED BY <2>4, <4>1 DEF Writes
    <3>3. v' = v
      BY <1>2
    <3> HIDE DEF v
    <3>4. /\ v.run \in Nat /\ v.run <= run /\ cpu[q].kind = "access"
          /\ mem.epochs.run = run => v = mem.epochs
          /\ v = mem.epochs \/ (v.up = 0 /\ v.down = 0)
      BY <2>2, <3>1, <3>2 DEF EpochsStore, Epochs
    <3>5. v.run <= run' /\ (mem.epochs.run = run' => v = mem.epochs)
      BY <1>4, <1>6, <1>14, <3>4
    <3> QED BY <1>2, <3>1, <3>3, <3>4, <3>5 DEF EpochsStore, v
  <2> QED BY <1>2, <2>2, <2>4 DEF SectionOK
<1> QED
  BY <1>9, <1>10, <1>11, <1>12, <1>15, <1>16 DEF IInv

\* Time passes.
LEMMA TickKeeps ==
    ASSUME IInv, Tick
    PROVE  IInv'
<1>1. /\ Types /\ LockInv /\ StepInv /\ DecisionInv /\ FolioInv /\ WorldType /\ EpochInv
      /\ \A q \in CPUs : ReaderInv(q)
      /\ \A q \in AllCPUs : StoreInv(q)
  BY DEF IInv, Types
<1>2. /\ UNCHANGED <<word, mem, lock, cpu, scan, folio, minGen, tag, run, fault, done>>
      /\ now' = (now + 1) % TimeMod
  BY DEF Tick, page
<1>3. now' \in Times
  <2>1. now + 1 \in Int /\ TimeMod \in Nat \ {0}
    BY <1>1, TimeAssumption DEF WorldType, Times
  <2> QED BY <1>2, <2>1, Remainder DEF Times
<1>4. Types'
  BY <1>1, <1>2, <1>3 DEF Types, WorldType, ScanType
<1>5. LockInv' /\ StepInv' /\ DecisionInv' /\ FolioInv'
  BY <1>1, <1>2 DEF LockInv, StepInv, DecisionInv, FolioInv, Odd, Ahead, Deciding
<1>6. (\A q \in CPUs : ReaderInv(q)') /\ \A q \in AllCPUs : StoreInv(q)'
  BY <1>1, <1>2 DEF ReaderInv, Reading, Ahead, StoreInv, SectionOK, EpochsStore
<1>7. EpochInv'
  BY <1>1, <1>2 DEF EpochInv, Claiming, Released, Marked
<1> QED
  BY <1>4, <1>5, <1>6, <1>7 DEF IInv

-----------------------------------------------------------------------------
(* The theorems.                                                           *)

\* The invariant holds initially.
LEMMA Initially == Init => IInv
<1> SUFFICES ASSUME Init PROVE IInv
  OBVIOUS
<1>1. /\ word = FreshWord /\ mem = FreshMem /\ lock = NoCPU /\ scan = IdleScan /\ ~fault
      /\ folio = [where |-> "lru", gen |-> 0] /\ minGen = 0 /\ tag = 1 /\ run = 1 /\ now = 1
      /\ done = [n |-> [d \in Dirs |-> 0], tag |-> [d \in Dirs |-> 0]]
  BY DEF Init
<1>2. DOMAIN cpu = AllCPUs /\ \A c \in AllCPUs : cpu[c] = IdleCPU
  BY DEF Init
<1>3. Scanner \in AllCPUs /\ CPUs \subseteq AllCPUs
  BY DEF AllCPUs
<1>4. \A c \in AllCPUs : cpu[c].pc = "idle" /\ cpu[c].kind # "outcome"
  BY <1>2, FreshTypes DEF None
<1>5. /\ scan.step = "idle" /\ scan.held = None /\ DOMAIN scan = ScanFields /\ scan.expect = 0
      /\ scan.lag = 0 /\ scan.cur = 0 /\ scan.dir = None
  BY <1>1 DEF IdleScan, ScanFields
<1>6. /\ DOMAIN done = {"n", "tag"} /\ done.n \in [Dirs -> Nat] /\ done.tag \in [Dirs -> Nat]
      /\ \A d \in Dirs : done.n[d] = 0
  BY <1>1
<1>7. ScanType
  BY <1>5, SeqAssumption, WidthAssumption DEF ScanType, Gens
<1>8. WorldType
  <2>1. 1 \in Times
    BY TimeAssumption DEF Times
  <2> QED BY <1>1, <1>6, <2>1, WidthAssumption DEF WorldType, Gens
<1>9. Types
  BY <1>1, <1>2, <1>3, <1>7, <1>8, FreshTypes DEF Types
<1>10. LockInv
  <2>1. ~Odd(word)
    BY <1>1 DEF Odd, FreshWord
  <2> QED BY <1>1, <1>4, <2>1, CPUAssumption DEF LockInv, AllCPUs
<1>11. (\A c \in CPUs : ReaderInv(c)) /\ \A c \in AllCPUs : StoreInv(c)
  BY <1>3, <1>4 DEF ReaderInv, Reading, StoreInv
<1>12. StepInv /\ DecisionInv /\ FolioInv
  <2>1. folio.where = "lru"
    BY <1>1
  <2> QED BY <1>3, <1>4, <1>5, <2>1 DEF StepInv, DecisionInv, Deciding, FolioInv
<1>13. EpochInv
  <2>1. ~Claiming /\ \A d \in Dirs : ~Marked(d)
    BY <1>3, <1>4, <1>5 DEF Claiming, Marked, Dirs, None
  <2>2. mem.epochs.run = 0 /\ \A d \in Dirs : mem.epochs[d] = 0
    BY <1>1 DEF FreshMem, NoEpochs, Dirs
  <2> QED BY <1>1, <1>6, <2>1, <2>2 DEF EpochInv
<1> QED
  BY <1>9, <1>10, <1>11, <1>12, <1>13 DEF IInv

\* Every step keeps the invariant.
LEMMA StepKeeps == IInv /\ [Next]_vars => IInv'
<1> SUFFICES ASSUME IInv, [Next]_vars PROVE IInv'
  OBVIOUS
<1>1. CASE \E c \in AllCPUs : Writer(c)
  BY <1>1, BeginKeeps, StoreKeeps, EndKeeps DEF Writer
<1>2. CASE \E c \in CPUs : Access(c) \/ WalkUpdateFolio(c) \/ ShrinkFolioList(c) \/ Snapshot(c)
  BY <1>2, CallersKeep
<1>3. CASE Scan
  BY <1>3, ScanKeeps
<1>4. CASE PutbackFolio \/ FreeFolio
  BY <1>4, FolioLeaves
<1>5. CASE page_alloc
  BY <1>5, AllocKeeps
<1>6. CASE NewEpoch \/ NewRun
  BY <1>6, EpochKeeps
<1>7. CASE Tick
  BY <1>7, TickKeeps
<1>8. CASE UNCHANGED vars
  <2>1. UNCHANGED <<word, mem, lock, cpu, scan, folio, minGen, tag, run, now, fault, done>>
    BY <1>8 DEF vars
  <2>2. Types'
    BY <2>1 DEF IInv, Types, ScanType, WorldType
  <2>3. LockInv' /\ StepInv' /\ DecisionInv' /\ FolioInv'
    BY <2>1 DEF IInv, LockInv, StepInv, DecisionInv, FolioInv, Odd, Ahead, Deciding
  <2>4. (\A q \in CPUs : ReaderInv(q)') /\ \A q \in AllCPUs : StoreInv(q)'
    BY <2>1 DEF IInv, ReaderInv, Reading, Ahead, StoreInv, SectionOK, EpochsStore
  <2>5. EpochInv'
    BY <2>1 DEF IInv, EpochInv, Claiming, Released, Marked
  <2> QED BY <2>2, <2>3, <2>4, <2>5 DEF IInv
<1> QED
  BY <1>1, <1>2, <1>3, <1>4, <1>5, <1>6, <1>7, <1>8 DEF Next

\* The inductive invariant of the page's record and its scanner holds in every
\* reachable state.
THEOREM ReuseInductive == Spec => []IInv
  BY Initially, StepKeeps, PTL DEF Spec

\* Every field of the packed record, of each copy of it and of each value about
\* to be published stays inside its bits.
THEOREM TypesHold == Spec => []TypeOK
<1>1. IInv => TypeOK
  <2> SUFFICES ASSUME IInv PROVE TypeOK
    OBVIOUS
  <2>1. /\ word \in Words /\ mem \in Mems /\ lock \in AllCPUs \cup {NoCPU}
        /\ \A c \in AllCPUs : CPUType(cpu[c])
        /\ ScanType /\ WorldType
    BY DEF IInv, Types, LockInv
  <2>2. run \in 0..MaxRuns /\ tag \in 1..TagMax /\ scan.lag \in 0..MaxLag
    BY <2>1, WidthAssumption DEF WorldType, ScanType
  <2> QED BY <2>1, <2>2 DEF TypeOK, CPUType
<1> QED
  BY ReuseInductive, <1>1, PTL

\* Writers that collide never look like a broken protocol to
\* parp_state_write_begin(): the policy is not disabled by contention.
THEOREM NoContentionFault == Spec => []ContentionIsNoFault
<1>1. IInv => ContentionIsNoFault
  BY DEF IInv, LockInv, ContentionIsNoFault
<1> QED
  BY ReuseInductive, <1>1, PTL

\* A copy parp_effective_tier_state_snapshot() accepts is the record of one
\* moment, although the sequence it compares wraps.
THEOREM CopiesUntorn == Spec => []SnapshotUntorn
<1>1. IInv => SnapshotUntorn
  <2> SUFFICES ASSUME IInv, NEW c \in CPUs, cpu[c].pc = "second", SnapshotStable(c)
               PROVE  \A i \in 1..5 : cpu[c].got[ReadOrder[i]] = mem[ReadOrder[i]]
    BY DEF SnapshotUntorn
  <2>1. /\ ReaderInv(c) /\ word \in Words /\ CallerType(cpu[c]) /\ CPUType(cpu[c])
    BY DEF IInv, Types, AllCPUs
  <2>2. /\ cpu[c].first \in Words /\ Ahead(cpu[c].first.seq, cpu[c].lag) /\ word = cpu[c].first
        /\ cpu[c].lag \in 0..MaxLag /\ cpu[c].copied = 5
        /\ cpu[c].lag = 0 /\ lock = NoCPU =>
              \A i \in 1..cpu[c].copied : cpu[c].got[ReadOrder[i]] = mem[ReadOrder[i]]
    BY <2>1 DEF ReaderInv, Reading, SnapshotStable, CallerType, CPUType
  <2>3. word.seq \in 0..(SeqMod - 1) /\ word.seq = cpu[c].first.seq
    BY <2>1, <2>2 DEF Words
  <2>4. cpu[c].lag = 0 /\ lock = NoCPU
    BY <2>1, <2>2, <2>3, AheadNot
  <2> QED BY <2>2, <2>4
<1> QED
  BY ReuseInductive, <1>1, PTL

\* The revalidation: a decision passes only if the sequence is the one its
\* features, or its claim, left behind, and then nobody wrote meanwhile.
LEMMA RevalidatedIsCurrent ==
    ASSUME IInv, revalidate_second, Revalidated
    PROVE  scan.lag = 0 /\ ~Odd(word)
<1>1. /\ StepInv /\ DecisionInv /\ ScanType /\ word \in Words
  BY DEF IInv, Types
<1>2. scan.step = "revalidate"
  BY <1>1 DEF revalidate_second, StepInv
<1>3. word.seq = scan.expect /\ ~Odd(word)
  BY DEF Revalidated, SnapshotStable
<1>4. Ahead(scan.expect, scan.lag) /\ scan.expect \in 0..(SeqMod - 1) /\ scan.lag \in 0..MaxLag
  BY <1>1, <1>2 DEF DecisionInv, Deciding, ScanType
<1> QED
  BY <1>1, <1>3, <1>4, AheadNot

\* No writer of the scanner's, when it returns, commits a decision.
LEMMA WritesCommitNothing ==
    ASSUME DOMAIN scan = ScanFields, NEW kind \in {"features", "claim", "move", "release", "pending"},
           NEW ok, NEW seq, scan.step # "apply"
    PROVE  AfterWrite(kind, ok, seq).step # "apply"
<1>1. CASE kind = "features"
  BY <1>1 DEF AfterWrite, ScanFields
<1>2. CASE kind = "claim"
  BY <1>2 DEF AfterWrite, ScanFields
<1>3. CASE kind = "move"
  BY <1>3 DEF AfterWrite, ScanFields
<1>4. CASE kind = "release"
  BY <1>4 DEF AfterWrite, ScanFields
<1>5. CASE kind = "pending"
  BY <1>5 DEF AfterWrite, IdleScan
<1> QED
  BY <1>1, <1>2, <1>3, <1>4, <1>5

\* A decision is committed by the revalidation alone, when it finds the page
\* as the decision left it.
LEMMA OnlyRevalidationCommits ==
    ASSUME IInv, [Next]_vars, scan.step # "apply", scan'.step = "apply"
    PROVE  revalidate_second /\ Revalidated
<1>1. /\ DOMAIN scan = ScanFields /\ ScannerType(cpu[Scanner])
      /\ "step" \in ScanFields /\ "dir" \in ScanFields /\ "lag" \in ScanFields
  BY DEF IInv, Types, ScanType, ScanFields
<1>2. ASSUME NEW c \in AllCPUs, Writer(c)
      PROVE  FALSE
  <2>1. CASE write_begin(c)
    <3>1. scan' = scan \/ (c = Scanner /\ scan' = AfterWrite(cpu[c].kind, FALSE, 0))
      BY <2>1 DEF write_begin
    <3>2. c = Scanner => cpu[c].kind \in {"features", "claim", "move", "release", "pending"}
      BY <1>1, <2>1 DEF write_begin, ScannerType
    <3> QED BY <1>1, <3>1, <3>2, WritesCommitNothing
  <2>2. CASE store_word(c)
    BY <2>2 DEF store_word
  <2>3. CASE write_end(c)
    <3>1. \/ scan' = scan \/ scan' = [scan EXCEPT !.lag = @ + 1]
          \/ c = Scanner /\ \E seq : scan' = AfterWrite(cpu[c].kind, cpu[c].arg, seq)
      BY <2>3 DEF write_end
    <3>2. c = Scanner => cpu[c].kind \in {"features", "claim", "move", "release", "pending"}
      BY <1>1, <2>3 DEF write_end, ScannerType
    <3> QED BY <1>1, <3>1, <3>2, WritesCommitNothing
  <2> QED BY <1>2, <2>1, <2>2, <2>3 DEF Writer
<1>3. ASSUME NEW c \in CPUs, Access(c) \/ WalkUpdateFolio(c) \/ ShrinkFolioList(c) \/ Snapshot(c)
      PROVE  FALSE
  <2>1. scan' = scan
    BY <1>3 DEF Access, WalkUpdateFolio, ShrinkFolioList, Snapshot,
                state_snapshot_first, state_snapshot_word, state_snapshot_second
  <2> QED BY <2>1
<1>4. ASSUME NEW g, scan' = Fallback(g)
      PROVE  FALSE
  BY <1>1, <1>4, FallbackFields
<1>5. ASSUME IncGen
      PROVE  FALSE
  BY <1>1, <1>5 DEF IncGen
<1>6. ASSUME Scan
      PROVE  revalidate_second /\ Revalidated
  <2>1. CASE SortFolio
    BY <2>1 DEF SortFolio, IdleScan
  <2>2. CASE Decide
    BY <1>1, <2>2 DEF Decide
  <2>3. CASE ReadFlags
    BY <1>1, <2>3 DEF ReadFlags
  <2>4. CASE revalidate_first
    BY <1>4, <2>4 DEF revalidate_first
  <2>5. CASE revalidate_epochs
    BY <2>5 DEF revalidate_epochs
  <2>6. CASE revalidate_second
    BY <1>4, <2>6 DEF revalidate_second
  <2>7. CASE ApplyUpgrade \/ ApplyDowngrade
    BY <2>7 DEF ApplyUpgrade, ApplyDowngrade
  <2>8. CASE FollowGen \/ ReclaimNative
    BY <1>1, <2>8 DEF FollowGen, ReclaimNative
  <2>9. CASE ProtectNative
    BY <1>1, <1>5, <2>9 DEF ProtectNative
  <2>10. CASE IsolateFolio
    BY <1>1, <1>5, <2>10 DEF IsolateFolio
  <2>11. CASE CancelReservation
    BY <1>1, <2>11 DEF CancelReservation
  <2>12. CASE Finish
    <3>1. scan' = [scan EXCEPT !.step = "pending"] \/ scan' = IdleScan
      BY <2>12 DEF Finish
    <3> QED BY <1>1, <3>1 DEF IdleScan
  <2> QED BY <1>6, <2>1, <2>2, <2>3, <2>4, <2>5, <2>6, <2>7, <2>8, <2>9, <2>10, <2>11, <2>12 DEF Scan
<1>7. CASE PutbackFolio \/ FreeFolio \/ page_alloc \/ NewEpoch \/ NewRun \/ Tick
  <2>1. scan' = scan
    BY <1>7 DEF PutbackFolio, FreeFolio, page_alloc, NewEpoch, NewRun, Tick
  <2> QED BY <2>1
<1>8. CASE UNCHANGED vars
  BY <1>8 DEF vars
<1> QED
  BY <1>2, <1>3, <1>6, <1>7, <1>8 DEF Next

\* The commit revalidation lets a prediction pass only if no other CPU has
\* published a write to the page since its features were taken, and none is
\* under way.
THEOREM CommitsAreCurrent == Spec => CommittedPredictionIsCurrent
<1>1. IInv /\ [Next]_vars =>
        [scan.step # "apply" /\ scan'.step = "apply" => scan.lag = 0 /\ ~Odd(word)]_vars
  BY OnlyRevalidationCommits, RevalidatedIsCurrent
<1> QED
  BY ReuseInductive, <1>1, PTL DEF Spec, CommittedPredictionIsCurrent

\* A folio is upgraded, and downgraded, at most once per reclaim epoch.
THEOREM AtMostOncePerEpoch == Spec => []OncePerEpoch
<1>1. IInv => OncePerEpoch
  BY DEF IInv, EpochInv, OncePerEpoch
<1> QED
  BY ReuseInductive, <1>1, PTL

\* Cancelled reservations leave no claim behind.
THEOREM OnlyCommittedClaims == Spec => []ClaimsAreCommitted
<1>1. IInv => ClaimsAreCommitted
  BY NoScan DEF ClaimsAreCommitted
<1> QED
  BY ReuseInductive, <1>1, PTL

=============================================================================
