----------------------------- MODULE ReuseState -----------------------------
(***************************************************************************)
(* The reuse metadata PARP keeps for one page (struct parp_reuse_page_ext, *)
(* mm/parp/core/effective_tier.c, revision r11) and the CPUs that touch it *)
(* at the same time:                                                       *)
(*                                                                         *)
(*   - accessors report accesses and generation moves without lru_lock;    *)
(*   - the scanner of the page's lruvec takes a snapshot of the features,  *)
(*     claims the page for this reclaim epoch, revalidates, applies or     *)
(*     falls back to the native decision, and finishes;                    *)
(*   - reclaim reports the outcome of an isolated page;                    *)
(*   - lockless readers copy the whole record.                             *)
(*                                                                         *)
(* Writers exclude each other by a spinlock and announce themselves by an  *)
(* odd sequence in the `state' word; they store the payload one word at a  *)
(* time, and a reader is between any two of these stores.  Stores become   *)
(* visible in program order: the kernel configuration is x86.              *)
(*                                                                         *)
(* The sequence has 11 bits (SeqMod) and wraps.  MaxLag bounds how often   *)
(* a reader, or the scanner between snapshot and revalidation, is          *)
(* overtaken by writers; the protocol relies on fewer than SeqMod / 2.     *)
(***************************************************************************)
EXTENDS Integers, Sequences, FiniteSets

CONSTANTS
    CPUs,        \* accessors, readers and reclaimers
    Scanner,     \* the CPU that holds lru_lock
    Events,      \* the calls the CPUs make: subset of EventKinds
    SeqMod,      \* 2^11: the sequence field of the state word
    MaxLag,      \* writes that may overtake one read or one decision
    TimeMod,     \* 2^32: the millisecond clock
    U8Max, U16Max,
    CandMax,     \* 63: the consecutive-candidate field
    NrGens,      \* MAX_NR_GENS
    TagMax,      \* 2^12 - 1: the reclaim-epoch tags
    MaxRuns,     \* bound on OFF -> active transitions (255)
    MaxCalls     \* bound: calls, scans, epochs, runs and clock ticks

EventKinds == {"access", "hint", "move", "snapshot"}

ASSUME SeqAssumption == SeqMod \in Nat /\ SeqMod % 2 = 0 /\ MaxLag \in Nat /\ 2 * MaxLag < SeqMod
ASSUME TimeAssumption == TimeMod \in Nat /\ TimeMod % 2 = 0 /\ TimeMod > 0
ASSUME WidthAssumption ==
    /\ U8Max \in Nat \ {0} /\ U16Max \in Nat \ {0} /\ CandMax \in Nat \ {0}
    /\ NrGens \in Nat \ {0} /\ TagMax \in Nat \ {0} /\ MaxRuns \in Nat \ {0} /\ MaxCalls \in Nat

NoCPU == "none"
None == "none"

ASSUME CPUAssumption ==
    /\ Scanner \notin CPUs /\ NoCPU \notin CPUs \cup {Scanner}
    /\ Events \subseteq EventKinds

VARIABLES
    word,        \* ext->state, one atomic 32-bit word
    mem,         \* the payload words of the page_ext
    lock,        \* the CPU that holds the page's hashed spinlock, or NoCPU
    cpu,         \* what each CPU is doing
    scan,        \* the scanner's decision about this folio
    folio,       \* [where, gen]: LRU membership and folio_lru_gen()
    minGen,      \* lru_gen_from_seq(min_seq)
    tag,         \* ctx->epoch_tag of the lruvec's reclaim epoch
    run,         \* parp_tier_state_epoch
    now,         \* parp_now_ms()
    fault,       \* parp_tier_state_fault
    done,        \* commits per direction in this epoch; last committed tag
    calls        \* calls from outside so far

vars == <<word, mem, lock, cpu, scan, folio, minGen, tag, run, now, fault, done, calls>>
page == <<word, mem, lock>>
world == <<minGen, tag, run, now>>

Outside == calls < MaxCalls /\ calls' = calls + 1

Dirs == {"up", "down"}
AllCPUs == CPUs \cup {Scanner}

Min2(a, b) == IF a <= b THEN a ELSE b
Max2(a, b) == IF a >= b THEN a ELSE b

-----------------------------------------------------------------------------
(* Arithmetic of the record.                                               *)

elapsed_ms(t, then) == (t - then) % TimeMod
elapsed_valid(t, then) == elapsed_ms(t, then) < TimeMod \div 2

\* C division truncates toward zero: a quarter of the distance to the sample.
interval_ema(old, sample) ==
    LET s == Min2(sample, U16Max)
    IN  IF old = 0 THEN s
        ELSE IF s >= old THEN old + (s - old) \div 4 ELSE old - (old - s) \div 4

\* Defect: the moving average is not clamped to its eight bits.
access_ema_on_access_NoClamp(old) ==
    IF old = 0 THEN U8Max ELSE old + Max2((U8Max - old) \div 4, 1)


access_ema_on_access(old) ==
    IF old = 0 THEN U8Max ELSE Min2(old + Max2((U8Max - old) \div 4, 1), U8Max)

access_ema_on_candidate(old) == old - old \div 4

NoEpochs == [up |-> 0, down |-> 0, run |-> 0]
FreshMem == [last |-> 0, prev |-> 0, ema |-> 0, enter |-> 0, epochs |-> NoEpochs]
FreshWord == [hot |-> 0, cand |-> 0, gen |-> 0, action |-> None,
              init |-> FALSE, unc |-> FALSE, seq |-> 0]

-----------------------------------------------------------------------------
(* The critical sections: what each writer stores, in program order, and   *)
(* the state word it publishes at the end.                                 *)

Stores(todo, new) == [todo |-> todo, new |-> new]

note_access(t) ==
    LET new_run == mem.epochs.run # run
        valid == word.init /\ ~new_run /\ elapsed_valid(t, mem.last)
        gap == elapsed_ms(t, mem.last)
    IN  Stores(<< <<"prev", IF valid THEN Min2(gap, U16Max) ELSE 0>>,
                  <<"ema", IF valid THEN interval_ema(mem.ema, gap) ELSE 0>>,
                  <<"last", t>>,
                  <<"epochs", IF new_run THEN [NoEpochs EXCEPT !.run = run] ELSE mem.epochs>> >>,
               [word EXCEPT !.hot = access_ema_on_access(IF valid THEN @ ELSE 0),
                            !.cand = 0, !.unc = FALSE, !.init = TRUE,
                            !.action = IF new_run THEN None ELSE @])

note_hint == Stores(<<>>, [word EXCEPT !.unc = @ \/ word.init])

note_move(t, g) ==
    Stores(IF mem.enter = 0 \/ word.gen # g THEN << <<"enter", t>> >> ELSE <<>>,
           [word EXCEPT !.gen = g])

candidate_features ==
    Stores(<<>>, [word EXCEPT !.hot = access_ema_on_candidate(@),
                              !.cand = Min2(@ + 1, CandMax),
                              !.unc = @ \/ word.gen # folio.gen])

FeaturesValid(t) ==
    /\ word.init /\ ~word.unc
    /\ elapsed_valid(t, mem.last) /\ elapsed_valid(t, mem.enter)
    /\ mem.last # 0 /\ mem.enter # 0
    /\ mem.epochs.run = run
    /\ word.gen = folio.gen

\* Defect: a claim does not look for the one made earlier in this epoch.
ClaimAllowed_Repeats(d, expected) ==
    word.seq = expected /\ mem.epochs.run = run


ClaimAllowed(d, expected) ==
    /\ word.seq = expected
    /\ mem.epochs.run = run
    /\ mem.epochs[d] # tag

claim_epoch(d, expected) ==
    Stores(IF ClaimAllowed(d, expected)
           THEN << <<"epochs", [mem.epochs EXCEPT ![d] = tag]>> >> ELSE <<>>, word)

\* Defect: a cancelled reservation keeps its claim.
release_epoch_Kept(d) == Stores(<<>>, word)


release_epoch(d) ==
    Stores(IF mem.epochs.run = run /\ mem.epochs[d] = tag
           THEN << <<"epochs", [mem.epochs EXCEPT ![d] = 0]>> >> ELSE <<>>, word)

set_pending_action(a) == Stores(<<>>, [word EXCEPT !.action = a])

outcome == Stores(<<>>, [word EXCEPT !.action = None])

Section(c) ==
    CASE cpu[c].kind = "access"   -> note_access(cpu[c].now)
      [] cpu[c].kind = "hint"     -> note_hint
      [] cpu[c].kind = "move"     -> note_move(now, cpu[c].arg)
      [] cpu[c].kind = "features" -> candidate_features
      [] cpu[c].kind = "claim"    -> claim_epoch(scan.dir, scan.expect)
      [] cpu[c].kind = "release"  -> release_epoch(scan.held)
      [] cpu[c].kind = "pending"  -> set_pending_action(cpu[c].arg)
      [] cpu[c].kind = "outcome"  -> outcome

-----------------------------------------------------------------------------
(* CPUs.  A writer goes "begin" -> "store" -> idle; a lockless reader      *)
(* "words" -> "second" -> idle; the scanner's revalidation "epochs" ->     *)
(* "check" -> idle.                                                        *)

IdleCPU == [pc |-> "idle", kind |-> None, now |-> 0, arg |-> None, todo |-> <<>>,
            new |-> FreshWord, first |-> FreshWord, got |-> FreshMem, copied |-> 0, lag |-> 0]

\* cur is the generation in the flags that are compared before the commit.
IdleScan == [step |-> "idle", expect |-> 0, gen |-> 0, cur |-> 0, flagsOk |-> FALSE,
             dir |-> None, held |-> None, isolated |-> FALSE, lag |-> 0]

Calling(kind, arg) == [IdleCPU EXCEPT !.pc = "begin", !.kind = kind, !.now = now, !.arg = arg]

Reading(c) == cpu[c].pc \in {"words", "second"}
\* From the feature snapshot until the revalidation has read the state word.
\* scan.lag counts the writes of this time; nothing in the code notices a later
\* one, and it is not counted.
Deciding == scan.step \in {"decide", "claim", "flags", "revalidate"}

NextGen(g) == (g + 1) % NrGens
Youngest == (minGen + NrGens - 1) % NrGens
Odd(w) == w.seq % 2 = 1

\* What the section tells its caller, besides what it stores.
Verdict(c) == CASE cpu[c].kind = "features" -> FeaturesValid(cpu[c].now)
                [] cpu[c].kind = "claim" -> ClaimAllowed(scan.dir, scan.expect)
                [] OTHER -> cpu[c].arg

\* Defect: writers rely on the sequence alone, as in revision r9.
StateLockFree_Always == TRUE

StateLockFree == lock = NoCPU

\* What the scanner does next, once one of its writes is published with
\* sequence seq.
AfterWrite(kind, ok, seq) ==
    CASE kind = "features" ->
           IF ok THEN [scan EXCEPT !.step = "decide", !.expect = seq, !.lag = 0]
           ELSE [scan EXCEPT !.step = "native"]
      [] kind = "claim" ->
           IF ok THEN [scan EXCEPT !.step = "flags", !.expect = seq, !.held = scan.dir]
           ELSE [scan EXCEPT !.step = "native", !.dir = None]
      [] kind = "move" -> [scan EXCEPT !.step = "finish"]
      [] kind = "release" -> [scan EXCEPT !.step = "finish", !.held = None]
      [] kind = "pending" -> IdleScan

\* parp_state_write_begin().  An odd sequence under the lock is a broken
\* protocol: the call gives up, and all but two callers disable the policy
\* (their parp_state_mark_uncertain() skips a word with an odd sequence).
write_begin(c) ==
    /\ cpu[c].pc = "begin" /\ StateLockFree
    /\ c = Scanner \/ (Deciding => scan.lag < MaxLag)
    /\ \A r \in CPUs : Reading(r) => cpu[r].lag < MaxLag
    /\ IF Odd(word)
       THEN /\ fault' = (fault \/ cpu[c].kind \notin {"features", "claim"})
            /\ cpu' = [cpu EXCEPT ![c] = IdleCPU]
            /\ scan' = IF c = Scanner THEN AfterWrite(cpu[c].kind, FALSE, 0) ELSE scan
            /\ UNCHANGED <<word, lock>>
       ELSE /\ lock' = c
            /\ word' = [word EXCEPT !.seq = (@ + 1) % SeqMod]
            /\ cpu' = [cpu EXCEPT ![c].pc = "store",
                                  ![c].todo = Section(c).todo,
                                  ![c].new = Section(c).new,
                                  ![c].arg = Verdict(c)]
            /\ UNCHANGED <<fault, scan>>
    /\ UNCHANGED <<mem, folio, minGen, tag, run, now, done, calls>>

store_word(c) ==
    /\ cpu[c].pc = "store" /\ cpu[c].todo # <<>>
    /\ mem' = [mem EXCEPT ![Head(cpu[c].todo)[1]] = Head(cpu[c].todo)[2]]
    /\ cpu' = [cpu EXCEPT ![c].todo = Tail(@)]
    /\ UNCHANGED <<word, lock, scan, folio, world, fault, done, calls>>

write_end(c) ==
    LET seq == (word.seq + 1) % SeqMod
    IN  /\ cpu[c].pc = "store" /\ cpu[c].todo = <<>>
        /\ word' = [cpu[c].new EXCEPT !.seq = seq]
        /\ lock' = NoCPU
        /\ cpu' = [x \in AllCPUs |-> IF x = c THEN IdleCPU
                                     ELSE IF Reading(x) THEN [cpu[x] EXCEPT !.lag = @ + 1]
                                     ELSE cpu[x]]
        /\ scan' = IF c = Scanner THEN AfterWrite(cpu[c].kind, cpu[c].arg, seq)
                   ELSE IF Deciding THEN [scan EXCEPT !.lag = @ + 1] ELSE scan
        /\ folio' = IF cpu[c].kind = "outcome" THEN [folio EXCEPT !.where = "settled"] ELSE folio
        /\ UNCHANGED <<mem, world, fault, done, calls>>

-----------------------------------------------------------------------------
(* Callers without lru_lock.                                               *)

Free(c) == cpu[c].pc = "idle" /\ folio.where # "free"

Access(c) ==
    /\ Outside
    /\ Free(c)
    /\ \E k \in Events \cap {"access", "hint"} :
          cpu' = [cpu EXCEPT ![c] = Calling(k, None)]
    /\ UNCHANGED <<page, scan, folio, world, fault, done>>

\* An aging walk gives the folio the youngest generation, then notes the move.
WalkUpdateFolio(c) ==
    /\ Outside
    /\ Free(c) /\ "move" \in Events
    /\ folio.where = "lru" /\ folio.gen # Youngest
    /\ folio' = [folio EXCEPT !.gen = Youngest]
    /\ cpu' = [cpu EXCEPT ![c] = Calling("move", Youngest)]
    /\ UNCHANGED <<page, scan, world, fault, done>>

\* shrink_folio_list() reports the fate of a folio it was given, twice when
\* the folio is activated.
ShrinkFolioList(c) ==
    /\ Outside
    /\ Free(c)
    /\ folio.where \in {"isolated", "settled"} /\ scan.step = "idle"
    /\ \A x \in CPUs : cpu[x].kind # "outcome"
    /\ cpu' = [cpu EXCEPT ![c] = Calling("outcome", None)]
    /\ UNCHANGED <<page, scan, folio, world, fault, done>>

ReadOrder == <<"last", "prev", "ema", "enter", "epochs">>

state_snapshot_first(c) ==
    /\ Outside
    /\ Free(c) /\ "snapshot" \in Events
    /\ ~Odd(word)
    /\ cpu' = [cpu EXCEPT ![c] = [IdleCPU EXCEPT !.pc = "words", !.first = word]]
    /\ UNCHANGED <<page, scan, folio, world, fault, done>>

state_snapshot_word(c) ==
    /\ cpu[c].pc = "words"
    /\ LET n == cpu[c].copied + 1
       IN  cpu' = [cpu EXCEPT ![c].got[ReadOrder[n]] = mem[ReadOrder[n]], ![c].copied = n,
                              ![c].pc = IF n = 5 THEN "second" ELSE "words"]
    /\ UNCHANGED <<page, scan, folio, world, fault, done, calls>>

\* Defect: the reader only waits for an even sequence.
SnapshotStable_OnlyEven(c) == ~Odd(word)

\* The copy is returned if the state word is unchanged, else dropped.
SnapshotStable(c) == word = cpu[c].first /\ ~Odd(word)

state_snapshot_second(c) ==
    /\ cpu[c].pc = "second"
    /\ cpu' = [cpu EXCEPT ![c] = IdleCPU]
    /\ UNCHANGED <<page, scan, folio, world, fault, done, calls>>

-----------------------------------------------------------------------------
(* The scanner: sort_folio(), isolate_folio() and finish, under lru_lock.  *)

ScannerCalls(kind, arg) == cpu' = [cpu EXCEPT ![Scanner] = Calling(kind, arg)]
ScannerIdle == cpu[Scanner].pc = "idle"

SortFolio ==
    /\ Outside
    /\ scan.step = "idle" /\ folio.where = "lru" /\ folio.gen = minGen
    /\ scan' = [IdleScan EXCEPT !.step = "features", !.gen = folio.gen]
    /\ ScannerCalls("features", None)
    /\ UNCHANGED <<page, folio, world, fault, done>>

\* The score, the policy gates and the budgets choose a direction or none.
Decide ==
    /\ scan.step = "decide"
    /\ \/ /\ scan' = [scan EXCEPT !.step = "native"]
          /\ UNCHANGED cpu
       \/ /\ \E d \in Dirs : scan' = [scan EXCEPT !.step = "claim", !.dir = d]
          /\ ScannerCalls("claim", None)
    /\ UNCHANGED <<page, folio, world, fault, done, calls>>

\* The flags of the folio: its generation, and the references that anybody
\* may have added meanwhile.
ReadFlags ==
    /\ scan.step = "flags"
    /\ \E refsSame \in BOOLEAN :
          scan' = [scan EXCEPT !.step = "revalidate", !.cur = folio.gen,
                               !.flagsOk = refsSame /\ folio.gen = scan.gen]
    /\ UNCHANGED <<page, cpu, folio, world, fault, done, calls>>

\* The prediction is dropped.  A folio that was to be downgraded is protected;
\* one that was to be upgraded follows its new generation, else the native
\* decision is taken.
Fallback(cur) ==
    [scan EXCEPT !.dir = None, !.cur = cur,
                 !.step = IF scan.dir = "down" THEN "protect"
                          ELSE IF cur # minGen THEN "raced" ELSE "native"]

\* What the commit asks before it looks at the page.  It also compares mode and
\* configuration, which EffectiveTier models.
CommitRefused == fault

revalidate_first ==
    /\ scan.step = "revalidate" /\ ScannerIdle
    /\ IF CommitRefused \/ Odd(word)
       THEN scan' = Fallback(scan.cur) /\ UNCHANGED cpu
       ELSE /\ cpu' = [cpu EXCEPT ![Scanner] = [IdleCPU EXCEPT !.pc = "epochs", !.first = word]]
            /\ UNCHANGED scan
    /\ UNCHANGED <<page, folio, world, fault, done, calls>>

revalidate_epochs ==
    /\ cpu[Scanner].pc = "epochs"
    /\ cpu' = [cpu EXCEPT ![Scanner].pc = "check", ![Scanner].got["epochs"] = mem.epochs]
    /\ UNCHANGED <<page, scan, folio, world, fault, done, calls>>

\* Defect: revalidation does not compare the sequence of the decision.
Revalidated_AnySequence ==
    SnapshotStable(Scanner) /\ ~word.unc /\ cpu[Scanner].got.epochs.run = run


Revalidated ==
    /\ SnapshotStable(Scanner)
    /\ word.seq = scan.expect
    /\ ~word.unc
    /\ cpu[Scanner].got.epochs.run = run

revalidate_second ==
    /\ cpu[Scanner].pc = "check"
    /\ scan' = IF Revalidated /\ scan.flagsOk THEN [scan EXCEPT !.step = "apply"]
               ELSE Fallback(scan.cur)
    /\ cpu' = [cpu EXCEPT ![Scanner] = IdleCPU]
    /\ UNCHANGED <<page, folio, world, fault, done, calls>>

\* folio_inc_gen() and parp_policy_inc_gen(): one generation up, then note_move.
IncGen ==
    /\ folio' = [folio EXCEPT !.gen = NextGen(minGen)]
    /\ scan' = [scan EXCEPT !.step = "moving"]
    /\ ScannerCalls("move", NextGen(minGen))

\* parp_policy_inc_gen() fails if the flags change under it.
ApplyUpgrade ==
    /\ scan.step = "apply" /\ scan.dir = "up"
    /\ \/ folio.gen = minGen /\ IncGen
       \/ scan' = Fallback(folio.gen) /\ UNCHANGED <<cpu, folio>>
    /\ UNCHANGED <<page, world, fault, done, calls>>

ApplyDowngrade ==
    /\ scan.step = "apply" /\ scan.dir = "down"
    /\ scan' = [scan EXCEPT !.step = "reclaim"]
    /\ UNCHANGED <<page, cpu, folio, world, fault, done, calls>>

\* The folio moves to the list of the generation it was given meanwhile.
FollowGen ==
    /\ scan.step = "raced"
    /\ scan' = [scan EXCEPT !.step = "moving"] /\ ScannerCalls("move", scan.cur)
    /\ UNCHANGED <<page, folio, world, fault, done, calls>>

\* The native decision: protect the folio, or try to reclaim it.
ProtectNative ==
    /\ scan.step \in {"native", "protect"}
    /\ IF folio.gen = minGen THEN IncGen
       ELSE scan' = [scan EXCEPT !.step = "finish"] /\ UNCHANGED <<cpu, folio>>
    /\ UNCHANGED <<page, world, fault, done, calls>>

ReclaimNative ==
    /\ scan.step = "native"
    /\ scan' = [scan EXCEPT !.step = "reclaim"]
    /\ UNCHANGED <<page, cpu, folio, world, fault, done, calls>>

\* Ineligible and dirty folios move on; the others are isolated, or the
\* isolation fails.
IsolateFolio ==
    /\ scan.step = "reclaim"
    /\ \/ folio.gen = minGen /\ IncGen
       \/ /\ scan' = [scan EXCEPT !.step = "finish", !.isolated = TRUE]
          /\ folio' = [folio EXCEPT !.where = "isolated"]
          /\ UNCHANGED cpu
       \/ /\ scan' = [scan EXCEPT !.step = "finish"]
          /\ UNCHANGED <<cpu, folio>>
    /\ UNCHANGED <<page, world, fault, done, calls>>

\* finish: a reservation whose action was not carried out is given back.
Committed == scan.held # None /\ scan.held = scan.dir

CancelReservation ==
    /\ scan.step = "finish" /\ scan.held # None /\ ~Committed
    /\ scan' = [scan EXCEPT !.step = "releasing"]
    /\ ScannerCalls("release", None)
    /\ UNCHANGED <<page, folio, world, fault, done, calls>>

Finish ==
    /\ scan.step = "finish" /\ (scan.held = None \/ Committed)
    /\ done' = IF Committed
               THEN [n |-> [done.n EXCEPT ![scan.held] = Min2(@ + 1, 2)],
                     tag |-> [done.tag EXCEPT ![scan.held] = tag]]
               ELSE done
    /\ IF scan.isolated
       THEN scan' = [scan EXCEPT !.step = "pending"] /\ ScannerCalls("pending", "decided")
       ELSE scan' = IdleScan /\ UNCHANGED cpu
    /\ UNCHANGED <<page, folio, world, fault, calls>>

-----------------------------------------------------------------------------
(* The environment.                                                        *)

PutbackFolio ==
    /\ folio.where = "settled"
    /\ \A c \in CPUs : cpu[c].kind # "outcome"
    /\ \E g \in 0..(NrGens - 1) : folio' = [where |-> "lru", gen |-> g]
    /\ UNCHANGED <<page, cpu, scan, world, fault, done, calls>>

FreeFolio ==
    /\ folio.where = "settled" /\ \A c \in AllCPUs : cpu[c].pc = "idle"
    /\ folio' = [folio EXCEPT !.where = "free"]
    /\ UNCHANGED <<page, cpu, scan, world, fault, done, calls>>

\* parp_effective_tier_page_alloc(): nobody else holds the page.
page_alloc ==
    /\ folio.where = "free"
    /\ mem' = FreshMem /\ word' = FreshWord
    /\ \E g \in 0..(NrGens - 1) : folio' = [where |-> "lru", gen |-> g]
    /\ done' = [n |-> [d \in Dirs |-> 0], tag |-> [d \in Dirs |-> 0]]
    /\ UNCHANGED <<lock, cpu, scan, world, fault, calls>>

NextTag == IF tag = TagMax THEN 1 ELSE tag + 1
NoneYet == [done EXCEPT !.n = [d \in Dirs |-> 0]]

\* The oldest generation is empty: min_seq advances and the next
\* parp_effective_tier_prepare() opens a reclaim epoch.
NewEpoch ==
    /\ Outside
    /\ scan.step = "idle" /\ ~(folio.where = "lru" /\ folio.gen = minGen)
    /\ minGen' = NextGen(minGen) /\ tag' = NextTag /\ done' = NoneYet
    /\ UNCHANGED <<page, cpu, scan, folio, run, now, fault>>

\* OFF -> active: no batch is open, and the next one opens a reclaim epoch.
NewRun ==
    /\ Outside
    /\ scan.step = "idle" /\ run < MaxRuns
    /\ run' = run + 1 /\ fault' = FALSE /\ tag' = NextTag /\ done' = NoneYet
    /\ UNCHANGED <<page, cpu, scan, folio, minGen, now>>

Tick ==
    /\ Outside
    /\ now' = (now + 1) % TimeMod
    /\ UNCHANGED <<page, cpu, scan, folio, minGen, tag, run, fault, done>>

-----------------------------------------------------------------------------
Init ==
    /\ word = FreshWord /\ mem = FreshMem /\ lock = NoCPU
    /\ cpu = [c \in AllCPUs |-> IdleCPU] /\ scan = IdleScan
    /\ folio = [where |-> "lru", gen |-> 0] /\ minGen = 0 /\ tag = 1
    /\ run = 1 /\ now = 1 /\ fault = FALSE /\ calls = 0
    /\ done = [n |-> [d \in Dirs |-> 0], tag |-> [d \in Dirs |-> 0]]

Writer(c) == write_begin(c) \/ store_word(c) \/ write_end(c)

Snapshot(c) == state_snapshot_first(c) \/ state_snapshot_word(c) \/ state_snapshot_second(c)

Scan == \/ SortFolio \/ Decide \/ ReadFlags
        \/ revalidate_first \/ revalidate_epochs \/ revalidate_second
        \/ ApplyUpgrade \/ ApplyDowngrade \/ FollowGen \/ ProtectNative \/ ReclaimNative
        \/ IsolateFolio
        \/ CancelReservation \/ Finish

Next == \/ \E c \in AllCPUs : Writer(c)
        \/ \E c \in CPUs : Access(c) \/ WalkUpdateFolio(c) \/ ShrinkFolioList(c) \/ Snapshot(c)
        \/ Scan
        \/ PutbackFolio \/ FreeFolio \/ page_alloc \/ NewEpoch \/ NewRun \/ Tick

Spec == Init /\ [][Next]_vars

-----------------------------------------------------------------------------
Words == [hot : 0..U8Max, cand : 0..CandMax, gen : 0..(NrGens - 1), action : {None, "decided"},
          init : BOOLEAN, unc : BOOLEAN, seq : 0..(SeqMod - 1)]
Epochs == [up : 0..TagMax, down : 0..TagMax, run : 0..MaxRuns]
Mems == [last : 0..(TimeMod - 1), prev : 0..U16Max, ema : 0..U16Max,
         enter : 0..(TimeMod - 1), epochs : Epochs]

\* Types: every field of the packed record stays inside its bits.
TypeOK ==
    /\ word \in Words /\ mem \in Mems /\ lock \in AllCPUs \cup {NoCPU}
    /\ \A c \in AllCPUs : cpu[c].lag \in 0..MaxLag /\ cpu[c].got \in Mems /\ cpu[c].new \in Words
    /\ scan.lag \in 0..MaxLag /\ run \in 0..MaxRuns /\ tag \in 1..TagMax

\* A lockless copy that parp_effective_tier_state_snapshot() is about to
\* return is the record of one moment: no word of it comes from another
\* writer's half-finished update.
SnapshotUntorn ==
    \A c \in CPUs : cpu[c].pc = "second" /\ SnapshotStable(c) =>
        \A i \in 1..5 : cpu[c].got[ReadOrder[i]] = mem[ReadOrder[i]]

\* Contention between writers is not a protocol fault: the policy is never
\* disabled because of it.
ContentionIsNoFault == ~fault

\* The commit revalidation lets a prediction pass only if, at that moment, no
\* other CPU has published an access, a move or a hint about the page since the
\* features were taken, and none is about to: no write is under way.  It says
\* nothing of a write that begins after the revalidation, before the folio is
\* moved or isolated: the code does not look at the record again.
CommittedPredictionIsCurrent ==
    [][scan.step # "apply" /\ scan'.step = "apply" => scan.lag = 0 /\ ~Odd(word)]_vars

\* A folio is upgraded, and downgraded, at most once per reclaim epoch.
OncePerEpoch == \A d \in Dirs : done.n[d] <= 1

\* Between two scans a claim of the current run that the page carries belongs
\* to a decision that was carried out: cancelled reservations leave none.
ClaimsAreCommitted ==
    scan.step = "idle" /\ lock = NoCPU =>
        \A d \in Dirs : mem.epochs[d] \in {0, done.tag[d]}
=============================================================================
