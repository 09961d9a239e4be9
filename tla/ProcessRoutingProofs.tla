------------------------ MODULE ProcessRoutingProofs ------------------------
(***************************************************************************)
(* The application process index agrees with itself and is complete once   *)
(* the monitor has caught up, the router keeps exactly one request per     *)
(* pending process, and a process stays out of its application's slice     *)
(* only for a known reason: for every set of processes, applications and   *)
(* launcher scopes, every capacity of the buffers and the queue, and every *)
(* loss of events.                                                         *)
(*                                                                         *)
(* The index is changed by operators that each keep its three views in     *)
(* agreement, whatever event they are given, provided the identities in    *)
(* the event name applications of the scope; the types of everything an    *)
(* identity passes through (/proc, the netlink buffer, the helper's cache, *)
(* the datagrams, requests and jobs) are the rest of the invariant IInv.   *)
(* The router's part says besides that no two queued requests, and no      *)
(* queued request and the worker's, are for one process: without it the    *)
(* number of pending processes says nothing about the worker's next step.  *)
(*                                                                         *)
(* What the index knows of the processes is a second invariant.  StreamOK  *)
(* follows the counters from the helper to the monitor: a datagram sent    *)
(* before a drop has a gap of sequence numbers behind it, so the monitor   *)
(* is up to date, on its way to notice (Overdue), or reads another         *)
(* instance. TrackOK follows one process from the kernel over the helper's *)
(* cache (KernelOK) and the datagrams (CacheOK, WordOK) to its entry       *)
(* (FrontOK): the last datagram about a process tells what it is unless an *)
(* event of it still waits, and an exit names the incarnation the index    *)
(* holds.  Then every entry is right, and every process out of place has a *)
(* request that will move it, once nothing about it is on the way          *)
(* (MainOK).                                                               *)
(***************************************************************************)
EXTENDS ProcessRouting, FiniteSetTheorems, SequenceTheorems, WellFoundedInduction, TLAPS

Roles == {"gui", "fixture"}
Entries == [app : Apps, role : Roles, start : Nat] \cup {NoEntry}
Classes == [app : Apps, role : Roles] \cup {[app |-> NoApp, role |-> "none"]}
Identities == [start : Nat, prog : Programs \cup {NoApp}, place : Places]

Indexes == [by_pid : [Pids -> Entries],
            by_app : [Apps -> SUBSET Pids],
            gui_by_app : [Apps -> SUBSET Pids],
            closing : [Apps -> {"no", "empty", "reported"}]]

\* The three views of an index agree: IndexConsistent of any index.
Consistent(ix) ==
    \A a \in Apps :
        /\ ix.by_app[a] = {p \in Pids : ix.by_pid[p].app = a}
        /\ ix.gui_by_app[a] = {p \in ix.by_app[a] : ix.by_pid[p].role = "gui"}
        /\ ix.closing[a] # "no" => ix.gui_by_app[a] = {}

IndexOK(ix) == ix \in Indexes /\ Consistent(ix)

-----------------------------------------------------------------------------
(* Mapping and classification.                                             *)

\* A non-empty set of natural numbers has a least element.
LEMMA LeastExists ==
    ASSUME NEW S, S \subseteq Nat, S # {}
    PROVE  \E x \in S : \A y \in S : x <= y
<1> DEFINE R == OpToRel(<, Nat)
<1>1. IsWellFoundedOn(R, Nat)
  BY NatLessThanWellFounded
<1>2. \A x, y \in Nat : ~(<<y, x>> \in R) => x <= y
  BY DEF OpToRel
<1> HIDE DEF R
<1>3. PICK x \in S : \A y \in S : ~(<<y, x>> \in R)
  BY <1>1, WFMin
<1> QED
  BY <1>2, <1>3

\* A process is mapped to an application of the runtime scope, or to none.
LEMMA MapProcess ==
    ASSUME NEW id
    PROVE  map_process(id) \in Apps \cup {NoApp}
<1> DEFINE hits == {i \in DOMAIN TargetOrder :
                       \/ id.place = [kind |-> "alias", app |-> TargetOrder[i]]
                       \/ id.prog = TargetOrder[i]}
<1>1. CASE hits = {}
  BY <1>1 DEF map_process
<1>2. CASE hits # {}
  <2>1. hits \subseteq DOMAIN TargetOrder
    OBVIOUS
  <2>2. hits \subseteq Nat
    BY <2>1, ProcessIndexAssumption
  <2>3. map_process(id) = TargetOrder[CHOOSE i \in hits : \A j \in hits : i <= j]
    BY <1>2 DEF map_process
  <2> HIDE DEF hits
  <2>4. (CHOOSE i \in hits : \A j \in hits : i <= j) \in hits
    BY <1>2, <2>2, LeastExists
  <2> QED BY <2>1, <2>3, <2>4 DEF Apps
<1> QED
  BY <1>1, <1>2

\* The class of a process names an application and one of the two roles, or
\* nothing.
LEMMA Classify ==
    ASSUME NEW id \in Identities, NEW e \in Entries
    PROVE  /\ classify(id, e) \in Classes
           /\ map_process(id) # NoApp => classify(id, e).app \in Apps
<1> DEFINE mapped == map_process(id)
           r == IF e.app = mapped THEN e.role ELSE "gui"
<1>1. mapped \in Apps \cup {NoApp}
  BY MapProcess
<1> HIDE DEF mapped
<1>2. NoApp \notin Apps
  BY ProcessIndexAssumption
<1>3. CASE InFixtureScope(id.place)
  <2>1. id.place \in Places /\ id.place.kind \in {"alias", "fixture"}
    BY <1>3 DEF InFixtureScope, Identities
  <2>2. id.place.app \in Apps
    BY <2>1 DEF Places, Outside
  <2>3. classify(id, e) = [app |-> id.place.app, role |-> "fixture"]
    BY <1>3 DEF classify
  <2> QED BY <2>2, <2>3 DEF Classes, Roles
<1>4. CASE ~ InFixtureScope(id.place) /\ mapped # NoApp
  <2>1. r \in Roles
    BY <1>1, <1>2, <1>4 DEF Entries, Roles, NoEntry
  <2>2. classify(id, e) = [app |-> mapped, role |-> r]
    BY <1>4 DEF classify, mapped
  <2> HIDE DEF r
  <2> QED BY <1>1, <1>4, <2>1, <2>2 DEF Classes
<1>5. CASE ~ InFixtureScope(id.place) /\ mapped = NoApp
  <2>1. classify(id, e) = IF e.app # NoApp /\ inside_slice(id.place, e.app)
                          THEN [app |-> e.app, role |-> e.role]
                          ELSE [app |-> NoApp, role |-> "none"]
    BY <1>5 DEF classify, mapped
  <2>2. e.app # NoApp => e.app \in Apps /\ e.role \in Roles
    BY DEF Entries, NoEntry
  <2> QED BY <1>5, <2>1, <2>2 DEF Classes, mapped
<1> QED
  BY <1>3, <1>4, <1>5

-----------------------------------------------------------------------------
(* The operations of the index.                                            *)

\* The parts of an index.
LEMMA IndexParts ==
    ASSUME NEW ix \in Indexes
    PROVE  /\ ix.by_pid \in [Pids -> Entries] /\ ix.by_app \in [Apps -> SUBSET Pids]
           /\ ix.gui_by_app \in [Apps -> SUBSET Pids]
           /\ ix.closing \in [Apps -> {"no", "empty", "reported"}]
           /\ \A p \in Pids : ix.by_pid[p] \in Entries
           /\ DOMAIN ix = {"by_pid", "by_app", "gui_by_app", "closing"}
  BY DEF Indexes

\* An entry that names an application is no empty entry.
LEMMA EntryParts ==
    ASSUME NEW e \in Entries
    PROVE  /\ e # NoEntry => e.app \in Apps /\ e.role \in Roles /\ e.start \in Nat
           /\ e.app \in Apps => e # NoEntry
           /\ NoEntry \in Entries /\ NoEntry.app = NoApp /\ NoApp \notin Apps
  BY ProcessIndexAssumption DEF Entries, NoEntry

\* _remove_pid() keeps the views in agreement, and leaves no entry unless the
\* one it finds is of another incarnation.
LEMMA RemovePid ==
    ASSUME NEW ix, IndexOK(ix), NEW p \in Pids, NEW n \in Nat
    PROVE  LET z == remove_pid(ix, p, n) IN
           /\ IndexOK(z)
           /\ \A q \in Pids \ {p} : z.by_pid[q] = ix.by_pid[q]
           /\ n = 0 \/ n = ix.by_pid[p].start => z.by_pid[p] = NoEntry
<1> DEFINE item == ix.by_pid[p]
           left == ix.gui_by_app[item.app] \ {p}
           Skipped == item = NoEntry \/ (n # 0 /\ item.start # 0 /\ n # item.start)
<1>1. ix \in Indexes /\ Consistent(ix) /\ item \in Entries
  BY IndexParts DEF IndexOK
<1>2. CASE Skipped
  BY <1>1, <1>2 DEF remove_pid, IndexOK
<1>3. CASE ~Skipped
  <2> DEFINE c == IF item.role = "gui" /\ left = {} THEN "empty" ELSE ix.closing[item.app]
             pids == [ix.by_pid EXCEPT ![p] = NoEntry]
             apps == [ix.by_app EXCEPT ![item.app] = @ \ {p}]
             guis == [ix.gui_by_app EXCEPT ![item.app] = left]
             clos == [ix.closing EXCEPT ![item.app] = c]
             z == [ix EXCEPT !.by_pid = pids, !.by_app = apps, !.gui_by_app = guis, !.closing = clos]
  <2>1. remove_pid(ix, p, n) = z
    BY <1>1, <1>3, IndexParts DEF remove_pid
  <2>2. item.app \in Apps /\ item.role \in Roles /\ item # NoEntry
    BY <1>1, <1>3, EntryParts
  <2>3. c \in {"no", "empty", "reported"}
    BY <1>1, <2>2, IndexParts
  <2>4. /\ pids \in [Pids -> Entries] /\ apps \in [Apps -> SUBSET Pids] /\ guis \in [Apps -> SUBSET Pids]
        /\ clos \in [Apps -> {"no", "empty", "reported"}]
    BY <1>1, <2>2, <2>3, IndexParts, EntryParts
  <2>5. /\ \A q \in Pids : pids[q] = IF q = p THEN NoEntry ELSE ix.by_pid[q]
        /\ \A a \in Apps : /\ apps[a] = IF a = item.app THEN ix.by_app[a] \ {p} ELSE ix.by_app[a]
                           /\ guis[a] = IF a = item.app THEN left ELSE ix.gui_by_app[a]
                           /\ clos[a] = IF a = item.app THEN c ELSE ix.closing[a]
    BY <1>1, <2>2, IndexParts
  <2>6. \A a \in Apps :
          /\ apps[a] = {q \in Pids : pids[q].app = a}
          /\ guis[a] = {q \in apps[a] : pids[q].role = "gui"}
          /\ clos[a] # "no" => guis[a] = {}
    <3> SUFFICES ASSUME NEW a \in Apps
                 PROVE  /\ apps[a] = {q \in Pids : pids[q].app = a}
                        /\ guis[a] = {q \in apps[a] : pids[q].role = "gui"}
                        /\ clos[a] # "no" => guis[a] = {}
      OBVIOUS
    <3>1. /\ ix.by_app[a] = {q \in Pids : ix.by_pid[q].app = a}
          /\ ix.gui_by_app[a] = {q \in ix.by_app[a] : ix.by_pid[q].role = "gui"}
          /\ ix.closing[a] # "no" => ix.gui_by_app[a] = {}
      BY <1>1 DEF Consistent
    <3>2. NoEntry.app # a
      BY EntryParts, <1>1
    <3> HIDE DEF pids, apps, guis, clos, c
    <3>3. \A q : q \in apps[a] <=> q \in Pids /\ pids[q].app = a
      <4>1. \A q : q \in ix.by_app[a] <=> q \in Pids /\ ix.by_pid[q].app = a
        BY <3>1
      <4>2. apps[a] = IF a = item.app THEN ix.by_app[a] \ {p} ELSE ix.by_app[a]
        BY <2>5
      <4> QED BY <2>5, <3>2, <4>1, <4>2
    <3>4. \A q : q \in guis[a] <=> q \in apps[a] /\ pids[q].role = "gui"
      <4>1. \A q : q \in ix.gui_by_app[a] <=> q \in Pids /\ ix.by_pid[q].app = a /\ ix.by_pid[q].role = "gui"
        BY <3>1
      <4>2. guis[a] = IF a = item.app THEN ix.gui_by_app[a] \ {p} ELSE ix.gui_by_app[a]
        BY <2>5
      <4> QED BY <2>5, <3>2, <3>3, <4>1, <4>2
    <3>5. clos[a] # "no" => guis[a] = {}
      BY <2>5, <3>1 DEF c
    <3> QED BY <3>3, <3>4, <3>5
  <2> HIDE DEF pids, apps, guis, clos, c
  <2>7. z \in Indexes
    BY <1>1, <2>4 DEF Indexes
  <2>8. /\ z.by_pid = pids /\ z.by_app = apps /\ z.gui_by_app = guis /\ z.closing = clos
    BY <1>1, IndexParts
  <2> HIDE DEF z
  <2>9. Consistent(z)
    BY <2>6, <2>8 DEF Consistent
  <2> QED BY <2>1, <2>5, <2>7, <2>8, <2>9 DEF IndexOK
<1> QED
  BY <1>2, <1>3

\* _insert() keeps the views in agreement if an entry of the same application
\* has the same role, and so do its callers see to it.
LEMMA Insert ==
    ASSUME NEW ix, IndexOK(ix), NEW p \in Pids, NEW id \in Identities, NEW class \in Classes,
           class.app \in Apps,
           ix.by_pid[p].app = class.app => ix.by_pid[p].role = class.role
    PROVE  IndexOK(insert(ix, p, id, class))
<1> DEFINE previous == ix.by_pid[p]
           base == IF previous # NoEntry /\ previous.app # class.app
                   THEN remove_pid(ix, p, 0) ELSE ix
           a0 == class.app
           e == [app |-> class.app, role |-> class.role, start |-> id.start]
           gui == class.role = "gui"
           pids == [base.by_pid EXCEPT ![p] = e]
           apps == [base.by_app EXCEPT ![a0] = @ \cup {p}]
           guis == IF gui THEN [base.gui_by_app EXCEPT ![a0] = @ \cup {p}] ELSE base.gui_by_app
           clos == IF gui THEN [base.closing EXCEPT ![a0] = "no"] ELSE base.closing
           z == [base EXCEPT !.by_pid = pids, !.by_app = apps, !.gui_by_app = guis, !.closing = clos]
<1>1. ix \in Indexes /\ Consistent(ix) /\ previous \in Entries
  BY IndexParts DEF IndexOK
<1>2. /\ base \in Indexes /\ Consistent(base)
      /\ base.by_pid[p] = NoEntry \/ (base.by_pid[p].app = class.app /\ base.by_pid[p].role = class.role)
  <2>1. CASE previous # NoEntry /\ previous.app # class.app
    <3>1. base = remove_pid(ix, p, 0)
      BY <2>1
    <3> QED BY <3>1, RemovePid DEF IndexOK
  <2>2. CASE ~(previous # NoEntry /\ previous.app # class.app)
    BY <1>1, <2>2
  <2> QED BY <2>1, <2>2
<1>3. a0 \in Apps /\ class.role \in Roles /\ id.start \in Nat
  BY ProcessIndexAssumption DEF Classes, Identities
<1>4. insert(ix, p, id, class) = z
  <2> HIDE DEF base
  <2>1. DOMAIN base = {"by_pid", "by_app", "gui_by_app", "closing"}
    BY <1>2, IndexParts
  <2> DEFINE entered == [base EXCEPT !.by_pid[p] = e, !.by_app[a0] = @ \cup {p}]
  <2>2. insert(ix, p, id, class) = IF ~gui THEN entered
                                   ELSE [entered EXCEPT !.gui_by_app[a0] = @ \cup {p},
                                                        !.closing[a0] = "no"]
    BY DEF insert, base
  <2>3. entered = [base EXCEPT !.by_pid = pids, !.by_app = apps]
    BY <2>1
  <2> HIDE DEF entered, pids, apps
  <2>4. CASE gui
    BY <2>1, <2>2, <2>3, <2>4
  <2>5. CASE ~gui
    BY <2>1, <2>2, <2>3, <2>5
  <2> QED BY <2>4, <2>5
<1> HIDE DEF base
<1>5. e \in Entries /\ e.app = a0 /\ e.role = class.role
  BY <1>3 DEF Entries
<1> HIDE DEF e, a0
<1>6. /\ pids \in [Pids -> Entries] /\ apps \in [Apps -> SUBSET Pids] /\ guis \in [Apps -> SUBSET Pids]
      /\ clos \in [Apps -> {"no", "empty", "reported"}]
  BY <1>2, <1>3, <1>5, IndexParts
<1>7. /\ \A q \in Pids : pids[q] = IF q = p THEN e ELSE base.by_pid[q]
      /\ \A a \in Apps :
           /\ apps[a] = IF a = a0 THEN base.by_app[a] \cup {p} ELSE base.by_app[a]
           /\ guis[a] = IF gui /\ a = a0 THEN base.gui_by_app[a] \cup {p} ELSE base.gui_by_app[a]
           /\ clos[a] = IF gui /\ a = a0 THEN "no" ELSE base.closing[a]
  <2> HIDE DEF gui
  <2>1. /\ base.by_pid \in [Pids -> Entries] /\ base.by_app \in [Apps -> SUBSET Pids]
        /\ base.gui_by_app \in [Apps -> SUBSET Pids]
        /\ base.closing \in [Apps -> {"no", "empty", "reported"}]
    BY <1>2, IndexParts
  <2>2. \A q \in Pids : pids[q] = IF q = p THEN e ELSE base.by_pid[q]
    BY <2>1
  <2>3. \A a \in Apps : apps[a] = IF a = a0 THEN base.by_app[a] \cup {p} ELSE base.by_app[a]
    BY <2>1
  <2>4. \A a \in Apps : guis[a] = IF gui /\ a = a0 THEN base.gui_by_app[a] \cup {p} ELSE base.gui_by_app[a]
    BY <2>1
  <2>5. \A a \in Apps : clos[a] = IF gui /\ a = a0 THEN "no" ELSE base.closing[a]
    BY <2>1
  <2> QED BY <2>2, <2>3, <2>4, <2>5
<1> HIDE DEF pids, apps, guis, clos
<1>8. \A a \in Apps :
        /\ apps[a] = {q \in Pids : pids[q].app = a}
        /\ guis[a] = {q \in apps[a] : pids[q].role = "gui"}
        /\ clos[a] # "no" => guis[a] = {}
  <2> SUFFICES ASSUME NEW a \in Apps
               PROVE  /\ apps[a] = {q \in Pids : pids[q].app = a}
                      /\ guis[a] = {q \in apps[a] : pids[q].role = "gui"}
                      /\ clos[a] # "no" => guis[a] = {}
    OBVIOUS
  <2>1. /\ base.by_app[a] = {q \in Pids : base.by_pid[q].app = a}
        /\ base.gui_by_app[a] = {q \in base.by_app[a] : base.by_pid[q].role = "gui"}
        /\ base.closing[a] # "no" => base.gui_by_app[a] = {}
    BY <1>2 DEF Consistent
  <2>2. NoEntry.app # a
    BY EntryParts, <1>1
  <2>3. base.by_pid[p].app = a => a = a0 /\ base.by_pid[p].role = class.role
    BY <1>2, <2>2 DEF a0
  <2>4. \A q : q \in apps[a] <=> q \in Pids /\ pids[q].app = a
    <3>1. \A q : q \in base.by_app[a] <=> q \in Pids /\ base.by_pid[q].app = a
      BY <2>1
    <3>2. apps[a] = IF a = a0 THEN base.by_app[a] \cup {p} ELSE base.by_app[a]
      BY <1>7
    <3> QED BY <1>5, <1>7, <2>3, <3>1, <3>2
  <2>5. \A q : q \in guis[a] <=> q \in apps[a] /\ pids[q].role = "gui"
    <3>1. \A q : q \in base.gui_by_app[a]
                   <=> q \in Pids /\ base.by_pid[q].app = a /\ base.by_pid[q].role = "gui"
      BY <2>1
    <3>2. guis[a] = IF gui /\ a = a0 THEN base.gui_by_app[a] \cup {p} ELSE base.gui_by_app[a]
      BY <1>7
    <3>3. CASE gui
      BY <1>5, <1>7, <2>3, <2>4, <3>1, <3>2, <3>3
    <3>4. CASE ~gui
      BY <1>5, <1>7, <2>3, <2>4, <3>1, <3>2, <3>4
    <3> QED BY <3>3, <3>4
  <2>6. clos[a] # "no" => guis[a] = {}
    BY <1>7, <2>1
  <2> QED BY <2>4, <2>5, <2>6
<1>9. z \in Indexes
  BY <1>2, <1>6 DEF Indexes
<1>10. z.by_pid = pids /\ z.by_app = apps /\ z.gui_by_app = guis /\ z.closing = clos
  BY <1>2, IndexParts
<1> HIDE DEF z
<1>11. Consistent(z)
  BY <1>8, <1>10 DEF Consistent
<1> QED
  BY <1>4, <1>9, <1>11 DEF IndexOK

\* A FORK event leaves the views in agreement, whatever the PID was before.
LEMMA ProcessStart ==
    ASSUME NEW ix, IndexOK(ix), NEW p \in Pids, NEW id \in Identities, NEW parent
    PROVE  IndexOK(process_start(ix, p, id, parent))
<1> DEFINE cleared == remove_pid(ix, p, 0)
           from == IF parent \in Pids THEN cleared.by_pid[parent] ELSE NoEntry
           class == classify(id, from)
<1>1. IndexOK(cleared) /\ cleared.by_pid[p] = NoEntry
  BY RemovePid
<1>2. process_start(ix, p, id, parent) = IF class.app = NoApp THEN cleared
                                         ELSE insert(cleared, p, id, class)
  BY DEF process_start
<1> HIDE DEF cleared
<1>3. from \in Entries
  BY <1>1, IndexParts DEF IndexOK, Entries
<1> HIDE DEF from
<1>4. class \in Classes
  BY <1>3, Classify
<1> HIDE DEF class
<1>5. class.app = NoApp \/ class.app \in Apps
  BY <1>4 DEF Classes
<1>6. NoEntry.app = NoApp /\ NoApp \notin Apps
  BY ProcessIndexAssumption DEF NoEntry
<1>7. class.app \in Apps => IndexOK(insert(cleared, p, id, class))
  BY <1>1, <1>4, <1>6, Insert
<1> QED
  BY <1>1, <1>2, <1>5, <1>7

\* An EXEC event leaves the views in agreement: an entry of another application
\* or another role is removed before the new one is entered.
LEMMA ProcessExec ==
    ASSUME NEW ix, IndexOK(ix), NEW p \in Pids, NEW id \in Identities
    PROVE  IndexOK(process_exec(ix, p, id))
<1> DEFINE previous == ix.by_pid[p]
           class == classify(id, previous)
           base == IF previous # NoEntry /\ (previous.app # class.app \/ previous.role # class.role)
                   THEN remove_pid(ix, p, previous.start) ELSE ix
<1>1. previous \in Entries
  BY IndexParts DEF IndexOK
<1>2. class \in Classes
  BY <1>1, Classify
<1>3. process_exec(ix, p, id) = IF class.app = NoApp THEN base ELSE insert(base, p, id, class)
  BY DEF process_exec
<1> HIDE DEF class
<1>4. class.app = NoApp \/ class.app \in Apps
  BY <1>2 DEF Classes
<1>5. NoEntry.app = NoApp /\ NoApp \notin Apps
  BY ProcessIndexAssumption DEF NoEntry
<1>6. CASE previous # NoEntry /\ (previous.app # class.app \/ previous.role # class.role)
  <2>1. previous.start \in Nat
    BY <1>1, <1>6, EntryParts
  <2>2. IndexOK(base) /\ base.by_pid[p] = NoEntry
    BY <1>6, <2>1, RemovePid
  <2> HIDE DEF base
  <2>3. class.app \in Apps => IndexOK(insert(base, p, id, class))
    BY <1>2, <1>5, <2>2, Insert
  <2> QED BY <1>3, <1>4, <2>2, <2>3
<1>7. CASE ~(previous # NoEntry /\ (previous.app # class.app \/ previous.role # class.role))
  <2>1. base = ix
    BY <1>7
  <2> HIDE DEF base
  <2>2. class.app \in Apps /\ ix.by_pid[p].app = class.app => ix.by_pid[p].role = class.role
    BY <1>5, <1>7
  <2>3. class.app \in Apps => IndexOK(insert(ix, p, id, class))
    BY <1>2, <2>2, Insert
  <2> QED BY <1>3, <1>4, <2>1, <2>3
<1> QED
  BY <1>6, <1>7

\* An EXIT event leaves the views in agreement.
LEMMA ProcessExit ==
    ASSUME NEW ix, IndexOK(ix), NEW p \in Pids, NEW id
    PROVE  IndexOK(process_exit(ix, p, id))
<1>1. ix.by_pid[p] \in Entries
  BY IndexParts DEF IndexOK
<1>2. ix.by_pid[p] # NoEntry => ix.by_pid[p].start \in Nat
  BY <1>1, EntryParts
<1>3. ix.by_pid[p] # NoEntry => IndexOK(remove_pid(ix, p, ix.by_pid[p].start))
  BY <1>2, RemovePid
<1> QED
  BY <1>3 DEF process_exit

\* The index of a rebuild.
LEMMA Bootstrap ==
    ASSUME NEW procs \in [Pids -> Identities]
    PROVE  IndexOK(bootstrap(procs))
<1> DEFINE found == {p \in Pids : procs[p] # Blank /\ map_process(procs[p]) # NoApp}
           class == [p \in found |-> classify(procs[p], NoEntry)]
           pids == [p \in Pids |-> IF p \in found
                                   THEN [app |-> class[p].app, role |-> class[p].role,
                                         start |-> procs[p].start]
                                   ELSE NoEntry]
           apps == [a \in Apps |-> {p \in found : class[p].app = a}]
           guis == [a \in Apps |-> {p \in found : class[p].app = a /\ class[p].role = "gui"}]
           clos == [a \in Apps |-> "no"]
           z == [by_pid |-> pids, by_app |-> apps, gui_by_app |-> guis, closing |-> clos]
<1>1. bootstrap(procs) = z
  BY DEF bootstrap
<1>2. NoEntry \in Entries /\ NoEntry.app = NoApp /\ NoApp \notin Apps
  BY ProcessIndexAssumption DEF NoEntry, Entries
<1>3. \A p \in found : class[p] \in Classes /\ class[p].app \in Apps
  BY <1>2, Classify
<1>4. \A p \in found : class[p].role \in Roles /\ procs[p].start \in Nat
  BY <1>2, <1>3 DEF Classes, Identities
<1>5. found \subseteq Pids
  OBVIOUS
<1> HIDE DEF found, class
<1>6. pids \in [Pids -> Entries]
  BY <1>2, <1>3, <1>4 DEF Entries
<1>7. /\ apps \in [Apps -> SUBSET Pids] /\ guis \in [Apps -> SUBSET Pids]
      /\ clos \in [Apps -> {"no", "empty", "reported"}]
  BY <1>5
<1>8. \A a \in Apps :
        /\ \A p : p \in apps[a] <=> p \in Pids /\ pids[p].app = a
        /\ \A p : p \in guis[a] <=> p \in apps[a] /\ pids[p].role = "gui"
        /\ clos[a] = "no"
  <2> TAKE a \in Apps
  <2>1. \A p : p \in apps[a] <=> p \in found /\ class[p].app = a
    OBVIOUS
  <2>2. \A p : p \in guis[a] <=> p \in found /\ class[p].app = a /\ class[p].role = "gui"
    OBVIOUS
  <2>3. \A p \in Pids : /\ p \in found => pids[p].app = class[p].app /\ pids[p].role = class[p].role
                        /\ p \notin found => pids[p].app # a
    BY <1>2
  <2>4. clos[a] = "no"
    OBVIOUS
  <2> HIDE DEF pids, apps, guis, clos
  <2> QED BY <1>5, <2>1, <2>2, <2>3, <2>4
<1> HIDE DEF pids, apps, guis, clos
<1>9. z \in Indexes
  BY <1>6, <1>7 DEF Indexes
<1>10. Consistent(z)
  BY <1>8 DEF Consistent
<1> QED
  BY <1>1, <1>9, <1>10 DEF IndexOK

\* Pruning what cannot be read any more.
LEMMA PruneUnreadable ==
    ASSUME NEW ix, IndexOK(ix), NEW procs
    PROVE  IndexOK(prune_unreadable(ix, procs))
<1> DEFINE gone == {p \in Pids : ix.by_pid[p] # NoEntry /\ procs[p] = Blank}
           guiGone(a) == {p \in gone : ix.by_pid[p].app = a /\ ix.by_pid[p].role = "gui"}
           pids == [p \in Pids |-> IF p \in gone THEN NoEntry ELSE ix.by_pid[p]]
           apps == [a \in Apps |-> ix.by_app[a] \ gone]
           guis == [a \in Apps |-> ix.gui_by_app[a] \ gone]
           clos == [a \in Apps |-> IF guiGone(a) # {} /\ ix.gui_by_app[a] \subseteq gone
                                   THEN "empty" ELSE ix.closing[a]]
           z == [by_pid |-> pids, by_app |-> apps, gui_by_app |-> guis, closing |-> clos]
<1>1. prune_unreadable(ix, procs) = z
  BY DEF prune_unreadable
<1>2. ix \in Indexes /\ Consistent(ix)
  BY DEF IndexOK
<1>3. NoEntry \in Entries /\ NoEntry.app = NoApp /\ NoApp \notin Apps
  BY ProcessIndexAssumption DEF NoEntry, Entries
<1>4. pids \in [Pids -> Entries]
  BY <1>2, <1>3, IndexParts
<1>5. apps \in [Apps -> SUBSET Pids] /\ guis \in [Apps -> SUBSET Pids]
  BY <1>2, IndexParts
<1>6. clos \in [Apps -> {"no", "empty", "reported"}]
  BY <1>2, IndexParts
<1>7. \A a \in Apps :
        /\ \A p : p \in apps[a] <=> p \in Pids /\ pids[p].app = a
        /\ \A p : p \in guis[a] <=> p \in apps[a] /\ pids[p].role = "gui"
        /\ clos[a] # "no" => guis[a] = {}
  <2> TAKE a \in Apps
  <2>1. /\ \A p : p \in ix.by_app[a] <=> p \in Pids /\ ix.by_pid[p].app = a
        /\ \A p : p \in ix.gui_by_app[a] <=> p \in ix.by_app[a] /\ ix.by_pid[p].role = "gui"
        /\ ix.closing[a] # "no" => ix.gui_by_app[a] = {}
    BY <1>2 DEF Consistent
  <2>2. clos[a] # "no" => ix.gui_by_app[a] \subseteq gone
    BY <2>1
  <2>3. \A p \in Pids : pids[p] = IF p \in gone THEN NoEntry ELSE ix.by_pid[p]
    OBVIOUS
  <2>4. apps[a] = ix.by_app[a] \ gone /\ guis[a] = ix.gui_by_app[a] \ gone
    OBVIOUS
  <2> HIDE DEF gone, pids, apps, guis, clos
  <2> QED BY <1>3, <2>1, <2>2, <2>3, <2>4
<1> HIDE DEF pids, apps, guis, clos
<1>8. z \in Indexes
  BY <1>4, <1>5, <1>6 DEF Indexes
<1>9. Consistent(z)
  BY <1>7 DEF Consistent
<1> QED
  BY <1>1, <1>8, <1>9 DEF IndexOK

\* Reporting applications closed that have no GUI process.
LEMMA PopEmptyApps ==
    ASSUME NEW ix, IndexOK(ix), NEW ready \in SUBSET Closable(ix)
    PROVE  IndexOK(pop_empty_apps(ix, ready))
<1> DEFINE clos == [a \in Apps |-> IF a \in ready THEN "reported" ELSE ix.closing[a]]
           z == [ix EXCEPT !.closing = clos]
<1>1. ix \in Indexes /\ Consistent(ix) /\ pop_empty_apps(ix, ready) = z
  BY DEF IndexOK, pop_empty_apps
<1>2. clos \in [Apps -> {"no", "empty", "reported"}]
  BY <1>1, IndexParts
<1>3. \A a \in Apps : clos[a] # "no" => ix.gui_by_app[a] = {}
  BY <1>1 DEF Consistent, Closable
<1> HIDE DEF clos
<1>4. z \in Indexes
  BY <1>1, <1>2 DEF Indexes
<1>5. z.by_pid = ix.by_pid /\ z.by_app = ix.by_app /\ z.gui_by_app = ix.gui_by_app /\ z.closing = clos
  BY <1>1, IndexParts
<1> HIDE DEF z
<1>6. Consistent(z)
  BY <1>1, <1>3, <1>5 DEF Consistent
<1> QED
  BY <1>1, <1>4, <1>6 DEF IndexOK

-----------------------------------------------------------------------------
(* The router's queue.                                                     *)

Reqs == [pid : Pids, app : Apps, role : Roles, start : Nat]

\* The process the worker is busy with.
Busy == IF worker.pc = "idle" THEN {} ELSE {worker.req.pid}

\* The pending processes are those of the queued requests and the worker's, and
\* no process is among them twice.
QueueOK(r) ==
    /\ r.queue \in Seq(Reqs)
    /\ \A p : p \in r.pending <=> p \in Busy \/ \E i \in 1..Len(r.queue) : r.queue[i].pid = p
    /\ \A i, j \in 1..Len(r.queue) : r.queue[i].pid = r.queue[j].pid => i = j
    /\ \A i \in 1..Len(r.queue) : r.queue[i].pid \notin Busy

RequestsOK(r) == DOMAIN r = {"queue", "pending", "refused"} /\ QueueOK(r)

\* _enqueue() admits no second request for a pending process.
LEMMA Enqueue ==
    ASSUME NEW r, RequestsOK(r), NEW req \in Reqs
    PROVE  RequestsOK(enqueue(r, req))
<1> DEFINE z == enqueue(r, req)
           Refusal(s) == z = [r EXCEPT !.refused = s]
<1>1. CASE req.pid \in r.pending \/ ~(Len(r.queue) < QueueCap)
  <2>1. PICK s : z = [r EXCEPT !.refused = s]
    <3> DEFINE s1 == IF Unserved(r, req) THEN r.refused \cup {req.pid} ELSE r.refused
    <3>1. CASE req.pid \in r.pending
      <4>1. z = [r EXCEPT !.refused = s1]
        BY <3>1 DEF enqueue, RequestsOK
      <4> QED BY <4>1
    <3>2. CASE req.pid \notin r.pending
      BY <1>1, <3>2 DEF enqueue
    <3> QED BY <3>1, <3>2
  <2> HIDE DEF z
  <2>2. z.queue = r.queue /\ z.pending = r.pending /\ DOMAIN z = {"queue", "pending", "refused"}
    BY <2>1 DEF RequestsOK
  <2>3. RequestsOK(z)
    BY <2>2 DEF RequestsOK, QueueOK
  <2> QED BY <2>3 DEF z
<1>2. CASE req.pid \notin r.pending /\ Len(r.queue) < QueueCap
  <2>1. z = [r EXCEPT !.queue = Append(@, req), !.pending = @ \cup {req.pid}]
    BY <1>2 DEF enqueue
  <2> HIDE DEF z
  <2> DEFINE q == Append(r.queue, req)
  <2>2. z.queue = q /\ z.pending = r.pending \cup {req.pid}
        /\ DOMAIN z = {"queue", "pending", "refused"}
    BY <2>1 DEF RequestsOK
  <2>3. r.queue \in Seq(Reqs)
    BY DEF RequestsOK, QueueOK
  <2>4. /\ q \in Seq(Reqs) /\ Len(q) = Len(r.queue) + 1
        /\ \A i \in 1..Len(r.queue) : q[i] = r.queue[i]
        /\ q[Len(r.queue) + 1] = req
    BY <2>3
  <2> HIDE DEF q
  <2>5. Len(r.queue) \in Nat
    BY <2>3
  <2>6. \A i \in 1..Len(q) : i \in 1..Len(r.queue) \/ i = Len(q)
    BY <2>4, <2>5
  <2>7. \A i \in 1..Len(r.queue) : i \in 1..Len(q)
    BY <2>4, <2>5
  <2>8. req.pid \notin Busy /\ \A i \in 1..Len(r.queue) : r.queue[i].pid # req.pid
    BY <1>2 DEF RequestsOK, QueueOK
  <2>9. Len(q) \in 1..Len(q) /\ q[Len(q)] = req
    BY <2>4, <2>5
  <2>10. \A p : p \in z.pending <=> p \in Busy \/ \E i \in 1..Len(q) : q[i].pid = p
    <3>1. \A p : p \in r.pending <=> p \in Busy \/ \E i \in 1..Len(r.queue) : r.queue[i].pid = p
      BY DEF RequestsOK, QueueOK
    <3>2. \A p : (\E i \in 1..Len(q) : q[i].pid = p)
                   <=> p = req.pid \/ \E i \in 1..Len(r.queue) : r.queue[i].pid = p
      BY <2>4, <2>6, <2>7, <2>9
    <3> QED BY <2>2, <3>1, <3>2
  <2>11. \A i, j \in 1..Len(q) : q[i].pid = q[j].pid => i = j
    <3>1. \A i, j \in 1..Len(r.queue) : r.queue[i].pid = r.queue[j].pid => i = j
      BY DEF RequestsOK, QueueOK
    <3> QED BY <2>4, <2>6, <2>8, <2>9, <3>1
  <2>12. \A i \in 1..Len(q) : q[i].pid \notin Busy
    <3>1. \A i \in 1..Len(r.queue) : r.queue[i].pid \notin Busy
      BY DEF RequestsOK, QueueOK
    <3> QED BY <2>4, <2>6, <2>8, <2>9, <3>1
  <2>13. RequestsOK(z)
    BY <2>2, <2>4, <2>10, <2>11, <2>12 DEF RequestsOK, QueueOK
  <2> QED BY <2>13 DEF z
<1> QED
  BY <1>1, <1>2

\* A created or executed process is submitted if it is indexed.
LEMMA SubmitOne ==
    ASSUME NEW r, RequestsOK(r), NEW ix, IndexOK(ix), NEW p \in Pids
    PROVE  RequestsOK(Submit(r, ix, p))
<1> DEFINE item == ix.by_pid[p]
           req == [pid |-> p, app |-> item.app, role |-> item.role, start |-> item.start]
<1>1. item \in Entries
  BY IndexParts DEF IndexOK
<1>2. Submit(r, ix, p) = IF item = NoEntry THEN r ELSE enqueue(r, req)
  BY DEF Submit
<1>3. item # NoEntry => req \in Reqs
  BY <1>1, EntryParts DEF Reqs
<1> HIDE DEF item, req
<1> QED
  BY <1>2, <1>3, Enqueue

\* A rebuild submits the processes one after the other, in PID order.
LEMMA SubmitAllSteps ==
    ASSUME NEW r, NEW ix
    PROVE  LET N == Cardinality(Pids) IN
           /\ N \in Nat /\ Pids = 1..N
           /\ \E f : /\ SubmitAll(r, ix) = f[N] /\ f[0] = r
                    /\ \A p \in 1..N : f[p] = Submit(f[p - 1], ix, p)
<1> DEFINE N == Cardinality(Pids)
           At(g, p) == IF p = 0 THEN r ELSE Submit(g[p - 1], ix, p)
           f == CHOOSE g : g = [p \in 0..N |-> At(g, p)]
           Prefix(g, n) == g = [p \in 0..n |-> At(g, p)]
           Bad == {n \in 0..N : ~ \E g : Prefix(g, n)}
<1>1. N \in Nat /\ Pids = 1..N
  BY FS_CardinalityType, ProcessRoutingAssumption
<1>2. SubmitAll(r, ix) = f[N]
  BY DEF SubmitAll
<1> HIDE DEF N
<1>3. Bad = {}
  <2> SUFFICES ASSUME Bad # {} PROVE FALSE
    OBVIOUS
  <2>1. Bad \subseteq Nat
    BY <1>1
  <2>2. PICK n \in Bad : \A m \in Bad : n <= m
    BY <2>1, LeastExists
  <2>3. n \in 0..N /\ n \in Nat
    BY <2>1, <2>2
  <2>4. CASE n = 0
    <3> DEFINE g == [p \in 0..0 |-> r]
    <3>1. Prefix(g, 0)
      OBVIOUS
    <3> QED BY <2>2, <2>4, <3>1
  <2>5. CASE n # 0
    <3>1. n - 1 \in 0..N /\ n - 1 < n
      BY <1>1, <2>3, <2>5
    <3>2. n - 1 \notin Bad
      BY <2>2, <2>3, <3>1
    <3>3. PICK g : Prefix(g, n - 1)
      BY <3>1, <3>2
    <3> DEFINE h == [p \in 0..n |-> IF p = n THEN Submit(g[n - 1], ix, n) ELSE g[p]]
    <3>4. \A p \in 0..(n - 1) : h[p] = g[p] /\ g[p] = At(g, p)
      BY <2>3, <3>3
    <3>5. h[n] = Submit(g[n - 1], ix, n)
      BY <2>3
    <3> HIDE DEF At
    <3>6. \A p \in 0..n : h[p] = At(h, p)
      <4> SUFFICES ASSUME NEW p \in 0..n PROVE h[p] = At(h, p)
        OBVIOUS
      <4>1. CASE p = n
        <5>1. h[p - 1] = g[n - 1]
          BY <2>3, <2>5, <3>4, <4>1
        <5> HIDE DEF h
        <5> QED BY <2>5, <3>5, <4>1, <5>1 DEF At
      <4>2. CASE p # n /\ p # 0
        <5>1. p \in 0..(n - 1) /\ p - 1 \in 0..(n - 1)
          BY <2>3, <4>2
        <5>2. h[p] = At(g, p) /\ h[p - 1] = g[p - 1]
          BY <3>4, <5>1
        <5> HIDE DEF h
        <5> QED BY <4>2, <5>2 DEF At
      <4>3. CASE p = 0 /\ p # n
        <5>1. p \in 0..(n - 1)
          BY <2>3, <4>3
        <5>2. h[p] = At(g, p)
          BY <3>4, <5>1
        <5> HIDE DEF h
        <5> QED BY <4>3, <5>2 DEF At
      <4> QED BY <2>5, <4>1, <4>2, <4>3
    <3>7. h = [p \in 0..n |-> h[p]]
      OBVIOUS
    <3>8. Prefix(h, n)
      <4> HIDE DEF h
      <4> QED BY <3>6, <3>7
    <3> QED BY <2>2, <3>8
  <2> QED BY <2>4, <2>5
<1>4. f = [p \in 0..N |-> At(f, p)]
  <2>1. \E g : Prefix(g, N)
    BY <1>1, <1>3
  <2> QED BY <2>1
<1>5. \A p \in 0..N : f[p] = IF p = 0 THEN r ELSE Submit(f[p - 1], ix, p)
  <2> HIDE DEF f
  <2>1. \A p \in 0..N : f[p] = At(f, p)
    BY <1>4
  <2> QED BY <2>1
<1>6. f[0] = r /\ \A p \in 1..N : f[p] = Submit(f[p - 1], ix, p)
  <2> HIDE DEF f
  <2> QED BY <1>1, <1>5
<1> HIDE DEF f, At, Prefix, Bad
<1> QED
  BY <1>1, <1>2, <1>6 DEF N

\* The submissions of a rebuild keep the queue in order.
LEMMA SubmitEach ==
    ASSUME NEW r, RequestsOK(r), NEW ix, IndexOK(ix)
    PROVE  RequestsOK(SubmitAll(r, ix))
<1> DEFINE N == Cardinality(Pids)
<1>1. /\ N \in Nat /\ Pids = 1..N
      /\ \E f : /\ SubmitAll(r, ix) = f[N] /\ f[0] = r
               /\ \A p \in 1..N : f[p] = Submit(f[p - 1], ix, p)
  BY SubmitAllSteps
<1> HIDE DEF N
<1>2. PICK f : /\ SubmitAll(r, ix) = f[N] /\ f[0] = r
               /\ \A p \in 1..N : f[p] = Submit(f[p - 1], ix, p)
  BY <1>1
<1> DEFINE Wrong == {n \in 0..N : ~ RequestsOK(f[n])}
<1>3. Wrong = {}
  <2> SUFFICES ASSUME Wrong # {} PROVE FALSE
    OBVIOUS
  <2>1. Wrong \subseteq Nat
    BY <1>1
  <2>2. PICK n \in Wrong : \A m \in Wrong : n <= m
    BY <2>1, LeastExists
  <2>3. n \in 0..N /\ ~ RequestsOK(f[n])
    BY <2>2
  <2>4. n # 0
    BY <1>2, <2>3
  <2>5. n \in Pids /\ n \in 1..N /\ n - 1 \in 0..N /\ n - 1 < n
    BY <1>1, <2>3, <2>4
  <2>6. RequestsOK(f[n - 1])
    BY <1>1, <2>2, <2>3, <2>5
  <2>7. f[n] = Submit(f[n - 1], ix, n)
    BY <1>2, <2>5
  <2> QED BY <2>3, <2>5, <2>6, <2>7, SubmitOne
<1> QED
  BY <1>1, <1>2, <1>3

-----------------------------------------------------------------------------
(* The invariant.                                                          *)

Events == [type : {"START", "EXEC", "EXIT"}, pid : Pids, parent : Pids \cup {NoPid}]
Helpers == [up : BOOLEAN, inst : Nat, seq : Nat, drops : Nat, overflows : Nat,
            flooded : BOOLEAN, cache : [Pids -> Identities]]
Datagrams == [kind : {"STATUS", "START", "EXEC", "EXIT"}, inst : Nat, seq : Nat, drops : Nat,
              overflows : Nat, pid : Pids \cup {NoPid}, parent : Pids \cup {NoPid}, id : Identities]
Jobs == [pid : Pids, start : Nat, place : [kind : {"fixture", "slice"}, app : Apps]]

\* Where identities come from and what they pass through.
SourcesOK ==
    /\ live \in [Pids -> Identities]
    /\ netlink \in Seq(Events) /\ helper \in Helpers /\ ops \in Nat
    /\ socket \in Seq(Datagrams)
    /\ \A i \in 1..Len(socket) : socket[i].kind # "STATUS" => socket[i].pid \in Pids

RouterOK ==
    /\ DOMAIN router = {"queue", "pending"} /\ QueueOK(router)
    /\ DOMAIN worker = {"pc", "req"}
    /\ worker.pc # "idle" => worker.req \in Reqs
    /\ jobs \subseteq Jobs

IInv == SourcesOK /\ IndexOK(index) /\ RouterOK

\* Single values of the invariant's types.
LEMMA Values ==
    /\ Blank \in Identities /\ Blank.start = 0
    /\ \A n \in Nat, pl \in Places, g \in Programs :
          [start |-> n, prog |-> g, place |-> pl] \in Identities
    /\ Outside \in Places /\ Generic \in Programs
    /\ [kind : Kinds, app : Apps] \subseteq Places
  BY DEF Blank, Identities, Places, Outside, Programs

\* A datagram of the helper is well typed.
LEMMA MessageType ==
    ASSUME NEW h \in Helpers, NEW id \in Identities
    PROVE  /\ \A e \in Events : /\ Message(e.type, h, e, id) \in Datagrams
                                /\ Message(e.type, h, e, id).pid \in Pids
           /\ StatusMessage(h) \in Datagrams /\ StatusMessage(h).kind = "STATUS"
<1>1. h.inst \in Nat /\ h.seq \in Nat /\ h.drops \in Nat /\ h.overflows \in Nat
  BY DEF Helpers
<1>2. ASSUME NEW e \in Events
      PROVE  Message(e.type, h, e, id) \in Datagrams /\ Message(e.type, h, e, id).pid \in Pids
  BY <1>1 DEF Message, Events, Datagrams
<1>3. StatusMessage(h) \in Datagrams /\ StatusMessage(h).kind = "STATUS"
  BY <1>1, Values DEF StatusMessage, Message, Datagrams
<1> QED
  BY <1>2, <1>3

\* Sending a well-typed datagram, or losing one.
LEMMA SocketKeeps ==
    ASSUME SourcesOK, NEW m \in Datagrams, m.kind # "STATUS" => m.pid \in Pids,
           Sent(m) \/ Dropped
    PROVE  /\ socket' \in Seq(Datagrams) /\ ops' \in Nat
           /\ \A i \in 1..Len(socket') : socket'[i].kind # "STATUS" => socket'[i].pid \in Pids
<1>1. socket \in Seq(Datagrams) /\ ops \in Nat
      /\ \A i \in 1..Len(socket) : socket[i].kind # "STATUS" => socket[i].pid \in Pids
  BY DEF SourcesOK
<1>2. CASE Sent(m)
  <2>1. socket' = Append(socket, m) /\ ops' = ops
    BY <1>2 DEF Sent
  <2>2. /\ socket' \in Seq(Datagrams) /\ Len(socket') = Len(socket) + 1
        /\ \A i \in 1..Len(socket) : socket'[i] = socket[i]
        /\ socket'[Len(socket) + 1] = m
    BY <1>1, <2>1
  <2>3. Len(socket) \in Nat
    BY <1>1
  <2>4. \A i \in 1..Len(socket') : i \in 1..Len(socket) \/ i = Len(socket) + 1
    BY <2>2, <2>3
  <2> QED BY <1>1, <2>1, <2>2, <2>4
<1>3. CASE Dropped
  BY <1>1, <1>3 DEF Dropped, Counted
<1> QED
  BY <1>2, <1>3

\* The monitor takes a datagram.
LEMMA SocketTail ==
    ASSUME SourcesOK, socket # <<>>, socket' = Tail(socket), UNCHANGED <<live, netlink, helper, ops>>
    PROVE  SourcesOK'
<1>1. socket \in Seq(Datagrams) /\ socket' \in Seq(Datagrams) /\ Len(socket) \in Nat
      /\ Len(socket') = Len(socket) - 1 /\ \A i \in 1..Len(socket') : socket'[i] = socket[i + 1]
  BY DEF SourcesOK
<1>2. \A i \in 1..Len(socket') : i + 1 \in 1..Len(socket)
  BY <1>1
<1>3. \A i \in 1..Len(socket') : socket'[i].kind # "STATUS" => socket'[i].pid \in Pids
  BY <1>1, <1>2 DEF SourcesOK
<1> QED
  BY <1>1, <1>3 DEF SourcesOK

\* Steps of others leave the index and the router alone.
LEMMA RouterKeeps ==
    ASSUME RouterOK, UNCHANGED <<router, worker>>, jobs' \subseteq Jobs
    PROVE  RouterOK'
  BY DEF RouterOK, QueueOK, Busy

\* A step of the kernel that emits an event.
LEMMA EmitKeeps ==
    ASSUME IInv, NEW event \in Events, live' \in [Pids -> Identities], Emit(event)
    PROVE  IInv'
<1>1. /\ netlink \in Seq(Events) /\ helper \in Helpers /\ ops \in Nat
      /\ UNCHANGED <<socket, index, router, worker, jobs>> /\ ops' = ops + 1
  BY DEF IInv, SourcesOK, Emit, Counted
<1>2. netlink' \in Seq(Events) /\ helper' \in Helpers
  <2>1. \/ UNCHANGED <<netlink, helper>>
        \/ netlink' = Append(netlink, event) /\ UNCHANGED helper
        \/ helper' = [helper EXCEPT !.flooded = TRUE] /\ UNCHANGED netlink
    BY DEF Emit
  <2>2. Append(netlink, event) \in Seq(Events)
    BY <1>1
  <2>3. [helper EXCEPT !.flooded = TRUE] \in Helpers
    BY <1>1 DEF Helpers
  <2> QED BY <1>1, <2>1, <2>2, <2>3
<1>3. SourcesOK'
  BY <1>1, <1>2 DEF IInv, SourcesOK
<1>4. RouterOK'
  BY <1>1, RouterKeeps DEF IInv, RouterOK
<1>5. IndexOK(index)'
  BY <1>1 DEF IInv, IndexOK, Consistent
<1> QED
  BY <1>3, <1>4, <1>5 DEF IInv

\* What processes do keeps the invariant.
LEMMA KernelKeeps ==
    ASSUME IInv, Kernel
    PROVE  IInv'
<1>1. live \in [Pids -> Identities] /\ ops \in Nat /\ ops + 1 \in Nat
  BY DEF IInv, SourcesOK
<1>2. ASSUME NEW p \in Pids, NEW parent \in Pids \cup {NoPid}, Fork(p, parent)
      PROVE  IInv'
  <2> DEFINE child == IF parent \in Pids THEN [live[parent] EXCEPT !.start = ops + 1]
                      ELSE [start |-> ops + 1, prog |-> Generic, place |-> Outside]
             event == [type |-> "START", pid |-> p, parent |-> parent]
  <2>1. live' = [live EXCEPT ![p] = child] /\ Emit(event)
    BY <1>2 DEF Fork
  <2>2. child \in Identities
    <3>1. CASE parent \in Pids
      BY <1>1, <3>1 DEF Identities
    <3>2. CASE parent \notin Pids
      BY <1>1, <3>2, Values
    <3> QED BY <3>1, <3>2
  <2>3. event \in Events
    BY DEF Events
  <2> HIDE DEF child, event
  <2>4. live' \in [Pids -> Identities]
    BY <1>1, <2>1, <2>2
  <2> QED BY <2>1, <2>3, <2>4, EmitKeeps
<1>3. ASSUME NEW p \in Pids, NEW prog \in Programs, Exec(p, prog)
      PROVE  IInv'
  <2> DEFINE event == [type |-> "EXEC", pid |-> p, parent |-> NoPid]
             id == [live[p] EXCEPT !.prog = prog]
  <2>1. live' = [live EXCEPT ![p] = id] /\ Emit(event)
    BY <1>3 DEF Exec
  <2>2. event \in Events /\ id \in Identities
    BY <1>1 DEF Events, Identities
  <2> HIDE DEF id, event
  <2>3. live' \in [Pids -> Identities]
    BY <1>1, <2>1, <2>2
  <2> QED BY <2>1, <2>2, <2>3, EmitKeeps
<1>4. ASSUME NEW p \in Pids, Exit(p)
      PROVE  IInv'
  <2> DEFINE event == [type |-> "EXIT", pid |-> p, parent |-> NoPid]
  <2>1. live' = [live EXCEPT ![p] = Blank] /\ Emit(event)
    BY <1>4 DEF Exit
  <2>2. event \in Events
    BY DEF Events
  <2>3. live' \in [Pids -> Identities]
    BY <1>1, <2>1, Values
  <2> HIDE DEF event
  <2> QED BY <2>1, <2>2, <2>3, EmitKeeps
<1>5. ASSUME NEW p \in Pids, NEW place \in Scopes, EnterScope(p, place)
      PROVE  IInv'
  <2> DEFINE id == [live[p] EXCEPT !.place = place]
  <2>1. /\ live' = [live EXCEPT ![p] = id] /\ ops' = ops + 1
        /\ UNCHANGED <<netlink, helper, socket, index, router, worker, jobs>>
    BY <1>5 DEF EnterScope, Counted
  <2>2. id \in Identities
    BY <1>1, ProcessRoutingAssumption DEF Identities
  <2> HIDE DEF id
  <2>3. live' \in [Pids -> Identities]
    BY <1>1, <2>1, <2>2
  <2>4. SourcesOK'
    BY <1>1, <2>1, <2>3 DEF IInv, SourcesOK
  <2>5. RouterOK'
    BY <2>1, RouterKeeps DEF IInv, RouterOK
  <2>6. IndexOK(index)'
    BY <2>1 DEF IInv, IndexOK, Consistent
  <2> QED BY <2>4, <2>5, <2>6 DEF IInv
<1> QED
  BY <1>2, <1>3, <1>4, <1>5 DEF Kernel

\* What the helper does keeps the invariant.
LEMMA HelperKeeps ==
    ASSUME IInv, Helper
    PROVE  IInv'
<1>1. /\ live \in [Pids -> Identities] /\ netlink \in Seq(Events) /\ helper \in Helpers
      /\ ops \in Nat /\ helper.cache \in [Pids -> Identities]
  BY DEF IInv, SourcesOK, Helpers
<1>2. UNCHANGED <<live, index, router, worker, jobs>>
  BY DEF Helper, forward_event, Heartbeat, KernelOverflow, HelperDies, HelperStarts
<1>3. SUFFICES SourcesOK'
  <2>1. RouterOK'
    BY <1>2, RouterKeeps DEF IInv, RouterOK
  <2>2. IndexOK(index)'
    BY <1>2 DEF IInv, IndexOK, Consistent
  <2> QED BY <1>3, <2>1, <2>2 DEF IInv
<1>4. SUFFICES /\ netlink' \in Seq(Events) /\ helper' \in Helpers
               /\ \/ UNCHANGED socket /\ (UNCHANGED ops \/ Counted)
                  \/ \E m \in Datagrams :
                        (m.kind # "STATUS" => m.pid \in Pids) /\ (Sent(m) \/ Dropped)
  <2>1. CASE UNCHANGED socket /\ (UNCHANGED ops \/ Counted)
    BY <1>1, <1>2, <1>4, <2>1 DEF IInv, SourcesOK, Counted
  <2>2. CASE \E m \in Datagrams : (m.kind # "STATUS" => m.pid \in Pids) /\ (Sent(m) \/ Dropped)
    BY <1>1, <1>2, <1>4, <2>2, SocketKeeps DEF IInv, SourcesOK
  <2> QED BY <1>4, <2>1, <2>2
<1>5. CASE forward_event
  <2> DEFINE event == Head(netlink)
             id == Metadata(event)
             x == IF event.type = "EXIT" THEN Blank
                  ELSE IF id # Blank THEN id ELSE helper.cache[event.pid]
             c == [helper.cache EXCEPT ![event.pid] = x]
             n == helper.seq + 1
             h == [helper EXCEPT !.seq = n, !.cache = c]
             k == h.drops + 1
  <2>1. event \in Events /\ netlink' \in Seq(Events)
    BY <1>1, <1>5 DEF forward_event
  <2>2. event.pid \in Pids
    BY <2>1 DEF Events
  <2>3. id \in Identities
    BY <1>1, <2>2 DEF Metadata
  <2>4. \/ Sent(Message(event.type, h, event, id)) /\ helper' = h
        \/ Dropped /\ helper' = [h EXCEPT !.drops = k]
    BY <1>1, <1>5 DEF forward_event, Helpers
  <2> HIDE DEF id, event
  <2>5. x \in Identities
    BY <1>1, <2>2, <2>3, Values
  <2> HIDE DEF x
  <2>6. c \in [Pids -> Identities]
    BY <1>1, <2>2, <2>5
  <2> HIDE DEF c
  <2>7. n \in Nat
    BY <1>1 DEF Helpers
  <2> HIDE DEF n
  <2>8. h \in Helpers
    BY <1>1, <2>6, <2>7, Zenon DEF Helpers
  <2>9. k \in Nat
    <3> HIDE DEF h
    <3> QED BY <2>8 DEF Helpers
  <2>10. [h EXCEPT !.drops = k] \in Helpers
    <3> HIDE DEF h, k
    <3> QED BY <2>8, <2>9, Zenon DEF Helpers
  <2> HIDE DEF h
  <2>11. /\ Message(event.type, h, event, id) \in Datagrams
        /\ Message(event.type, h, event, id).pid \in Pids
    BY <2>1, <2>3, <2>8, MessageType
  <2> QED BY <2>1, <2>4, <2>8, <2>10, <2>11
<1>6. CASE Heartbeat
  <2>1. Sent(StatusMessage(helper)) /\ UNCHANGED <<netlink, helper>>
    BY <1>6 DEF Heartbeat
  <2>2. StatusMessage(helper) \in Datagrams /\ StatusMessage(helper).kind = "STATUS"
    BY <1>1, Values, MessageType
  <2> QED BY <1>1, <2>1, <2>2
<1>7. CASE KernelOverflow
  <2> DEFINE n == helper.overflows + 1
             h == [helper EXCEPT !.overflows = n, !.up = FALSE]
  <2>1. helper' = h /\ (Sent(StatusMessage(h)) \/ Dropped) /\ netlink' = <<>>
    BY <1>1, <1>7 DEF KernelOverflow, send_status, Helpers
  <2>2. h \in Helpers
    <3>1. n \in Nat /\ FALSE \in BOOLEAN
      BY <1>1 DEF Helpers
    <3> HIDE DEF n
    <3> QED BY <1>1, <3>1, Zenon DEF Helpers
  <2> HIDE DEF h
  <2>3. StatusMessage(h) \in Datagrams /\ StatusMessage(h).kind = "STATUS"
    BY <2>2, Values, MessageType
  <2> QED BY <2>1, <2>2, <2>3
<1>8. CASE HelperDies
  <2>1. helper' = [helper EXCEPT !.up = FALSE] /\ netlink' = <<>> /\ UNCHANGED socket /\ Counted
    BY <1>8 DEF HelperDies
  <2>2. helper' \in Helpers
    BY <1>1, <2>1 DEF Helpers
  <2> QED BY <2>1, <2>2
<1>9. CASE HelperStarts
  <2> DEFINE n == helper.inst + 1
             h == [up |-> TRUE, inst |-> n, seq |-> 0, drops |-> 0,
                   overflows |-> 0, flooded |-> FALSE, cache |-> live]
  <2>1. helper' = h /\ (Sent(StatusMessage(h)) \/ Dropped) /\ netlink' = netlink
    BY <1>9 DEF HelperStarts, send_status
  <2>2. n \in Nat
    BY <1>1 DEF Helpers
  <2> HIDE DEF n
  <2>3. h \in Helpers
    BY <1>1, <2>2 DEF Helpers
  <2> HIDE DEF h
  <2>4. StatusMessage(h) \in Datagrams /\ StatusMessage(h).kind = "STATUS"
    BY <2>3, Values, MessageType
  <2> QED BY <1>1, <2>1, <2>3, <2>4
<1> QED
  BY <1>5, <1>6, <1>7, <1>8, <1>9 DEF Helper

\* What the monitor submits goes through the queue.
LEMMA SubmittedKeeps ==
    ASSUME RouterOK, NEW r, RequestsOK(r), Submitted(r), UNCHANGED <<worker, jobs>>
    PROVE  RouterOK'
<1>1. /\ router'.queue = r.queue /\ router'.pending = r.pending
      /\ DOMAIN router' = {"queue", "pending"}
  BY DEF Submitted
<1> QED
  BY <1>1 DEF RouterOK, RequestsOK, QueueOK, Busy

\* A rebuild leaves an index, and requests, as they should be.
LEMMA RebuildKeeps ==
    ASSUME IInv, NEW needed \in BOOLEAN
    PROVE  LET ix == Rebuild(needed, index) IN
           IndexOK(ix) /\ RequestsOK(Resubmit(needed, Requests, ix))
<1> DEFINE ix == Rebuild(needed, index)
<1>1. IndexOK(ix)
  BY Bootstrap DEF IInv, SourcesOK, Rebuild
<1>2. RequestsOK(Requests)
  BY DEF IInv, RouterOK, RequestsOK, Requests, QueueOK
<1> HIDE DEF ix
<1>3. RequestsOK(Resubmit(needed, Requests, ix))
  BY <1>1, <1>2, SubmitEach DEF Resubmit
<1> QED
  BY <1>1, <1>3 DEF ix

\* What the monitor does keeps the invariant: a status or an event, with or
\* without a rebuild before it, and the one-second sample.
LEMMA MonitorKeeps ==
    ASSUME IInv, Monitor
    PROVE  IInv'
<1>1. CASE HandleStatus
  <2> DEFINE m == Head(socket)
             rebuild == SourceRestarted(m) \/ CountersChanged(m)
             ix == Rebuild(rebuild, index)
  <2>1. /\ socket # <<>> /\ socket' = Tail(socket) /\ UNCHANGED <<live, netlink, helper, ops>>
        /\ UNCHANGED <<worker, jobs>>
        /\ index' = ix /\ Submitted(Resubmit(rebuild, Requests, ix))
    BY <1>1 DEF HandleStatus
  <2>2. rebuild \in BOOLEAN
    BY DEF SourceRestarted, CountersChanged
  <2> HIDE DEF rebuild
  <2>3. IndexOK(ix) /\ RequestsOK(Resubmit(rebuild, Requests, ix))
    BY <2>2, RebuildKeeps
  <2> HIDE DEF ix
  <2>4. RouterOK'
    BY <2>1, <2>3, SubmittedKeeps DEF IInv
  <2>5. SourcesOK'
    BY <2>1, SocketTail DEF IInv
  <2> QED BY <2>1, <2>3, <2>4, <2>5 DEF IInv
<1>2. CASE HandleEvent
  <2> DEFINE m == Head(socket)
             rebuild == SourceRestarted(m) \/ DeliveryGap(m)
             ix == Rebuild(rebuild, index)
             r == Resubmit(rebuild, Requests, ix)
             ix1 == index'
  <2>1. /\ socket # <<>> /\ socket' = Tail(socket) /\ UNCHANGED <<live, netlink, helper, ops>>
        /\ UNCHANGED <<worker, jobs>> /\ m.kind # "STATUS"
    BY <1>2 DEF HandleEvent
  <2>2. rebuild \in BOOLEAN
    BY DEF SourceRestarted, DeliveryGap
  <2>3. PICK done : /\ done = Handlers(ix, r, m) \/ done = [index |-> ix, requests |-> r]
                    /\ index' = done.index /\ Submitted(done.requests)
    BY <1>2 DEF HandleEvent
  <2> HIDE DEF rebuild
  <2>4. IndexOK(ix) /\ RequestsOK(r)
    BY <2>2, RebuildKeeps
  <2>5. m.pid \in Pids /\ m.id \in Identities /\ m.kind \in {"START", "EXEC", "EXIT"}
    <3>1. socket \in Seq(Datagrams) /\ 1 \in 1..Len(socket) /\ m = socket[1]
      BY <2>1 DEF IInv, SourcesOK
    <3>2. m \in Datagrams /\ m.pid \in Pids
      BY <2>1, <3>1 DEF IInv, SourcesOK
    <3> QED BY <2>1, <3>2 DEF Datagrams
  <2> HIDE DEF ix, r, m
  <2>6. IndexOK(done.index) /\ RequestsOK(done.requests)
    <3>1. CASE done = [index |-> ix, requests |-> r]
      BY <2>4, <3>1
    <3>2. CASE done = Handlers(ix, r, m) /\ m.kind = "START"
      <4> DEFINE z == process_start(ix, m.pid, m.id, m.parent)
      <4>1. done = [index |-> z, requests |-> Submit(r, z, m.pid)]
        BY <3>2 DEF Handlers, createProcess
      <4>2. IndexOK(z)
        BY <2>4, <2>5, ProcessStart
      <4> HIDE DEF z
      <4> QED BY <2>4, <2>5, <4>1, <4>2, SubmitOne
    <3>3. CASE done = Handlers(ix, r, m) /\ m.kind = "EXEC"
      <4> DEFINE z == process_exec(ix, m.pid, m.id)
      <4>1. done = [index |-> z, requests |-> Submit(r, z, m.pid)]
        BY <3>3 DEF Handlers, exeProcess
      <4>2. IndexOK(z)
        BY <2>4, <2>5, ProcessExec
      <4> HIDE DEF z
      <4> QED BY <2>4, <2>5, <4>1, <4>2, SubmitOne
    <3>4. CASE done = Handlers(ix, r, m) /\ m.kind = "EXIT"
      <4>1. done = [index |-> process_exit(ix, m.pid, m.id), requests |-> r]
        BY <3>4 DEF Handlers, destroyProcess
      <4> QED BY <2>4, <2>5, <4>1, ProcessExit
    <3> QED BY <2>3, <2>5, <3>1, <3>2, <3>3, <3>4
  <2>7. RouterOK'
    BY <2>1, <2>3, <2>6, SubmittedKeeps DEF IInv
  <2>8. SourcesOK'
    BY <2>1, SocketTail DEF IInv
  <2> QED BY <2>3, <2>6, <2>7, <2>8 DEF IInv
<1>3. CASE Sample
  <2> DEFINE pruned == prune_unreadable(index, live)
  <2>1. /\ \E ready \in SUBSET Closable(pruned) : index' = pop_empty_apps(pruned, ready)
        /\ UNCHANGED <<live, netlink, helper, socket, ops>> /\ UNCHANGED <<router, worker, jobs>>
    BY <1>3 DEF Sample
  <2>2. IndexOK(pruned)
    BY PruneUnreadable DEF IInv
  <2> HIDE DEF pruned
  <2>3. \E z : IndexOK(z) /\ index' = z
    BY <2>1, <2>2, PopEmptyApps
  <2>4. RouterOK'
    BY <2>1, RouterKeeps DEF IInv, RouterOK
  <2>5. SourcesOK'
    BY <2>1 DEF IInv, SourcesOK
  <2> QED BY <2>3, <2>4, <2>5 DEF IInv
<1> QED
  BY <1>1, <1>2, <1>3 DEF Monitor

\* A step of the worker within one request.
LEMMA WorkerKeeps ==
    ASSUME IInv, worker.pc # "idle", NEW pc \in {"done", "observe"},
           worker' = [worker EXCEPT !.pc = pc],
           UNCHANGED <<live, netlink, helper, socket, index, router>>, ops' \in Nat,
           jobs' \subseteq Jobs
    PROVE  IInv'
<1>1. DOMAIN worker = {"pc", "req"} /\ worker.req \in Reqs
  BY DEF IInv, RouterOK
<1>2. DOMAIN worker' = {"pc", "req"} /\ worker'.req = worker.req /\ worker'.pc = pc
  BY <1>1
<1>3. Busy' = Busy
  BY <1>2 DEF Busy
<1>4. RouterOK'
  BY <1>1, <1>2, <1>3 DEF IInv, RouterOK, QueueOK
<1>5. SourcesOK' /\ IndexOK(index)'
  BY DEF IInv, SourcesOK, IndexOK, Consistent
<1> QED
  BY <1>4, <1>5 DEF IInv

\* The worker takes the next request, and forgets the one it has served.
LEMMA RequestKeeps ==
    ASSUME IInv, TakeRequest \/ FinishRequest
    PROVE  IInv'
<1>1. /\ DOMAIN router = {"queue", "pending"} /\ router.queue \in Seq(Reqs)
      /\ DOMAIN worker = {"pc", "req"} /\ Len(router.queue) \in Nat
      /\ \A p : p \in router.pending <=> p \in Busy \/ \E i \in 1..Len(router.queue) : router.queue[i].pid = p
      /\ \A i, j \in 1..Len(router.queue) : router.queue[i].pid = router.queue[j].pid => i = j
      /\ \A i \in 1..Len(router.queue) : router.queue[i].pid \notin Busy
  BY DEF IInv, RouterOK, QueueOK
<1>2. SourcesOK' /\ IndexOK(index)' /\ jobs' \subseteq Jobs
  BY DEF IInv, SourcesOK, IndexOK, Consistent, RouterOK, TakeRequest, FinishRequest
<1>3. CASE TakeRequest
  <2> DEFINE q == router.queue
             t == Tail(q)
             req == Head(q)
  <2>1. /\ worker.pc = "idle" /\ q # <<>> /\ worker' = [pc |-> "check", req |-> req]
        /\ router' = [router EXCEPT !.queue = t]
    BY <1>3 DEF TakeRequest
  <2>2. /\ t \in Seq(Reqs) /\ Len(t) = Len(q) - 1 /\ \A i \in 1..Len(t) : t[i] = q[i + 1]
        /\ req = q[1] /\ req \in Reqs /\ Len(q) >= 1
    BY <1>1, <2>1
  <2>3. /\ router'.queue = t /\ router'.pending = router.pending /\ DOMAIN router' = {"queue", "pending"}
        /\ worker'.pc = "check" /\ worker'.req = req /\ DOMAIN worker' = {"pc", "req"}
    BY <1>1, <2>1
  <2>4. Busy = {} /\ Busy' = {req.pid}
    BY <2>1, <2>3 DEF Busy
  <2> HIDE DEF q, t, req
  <2>5. \A i \in 1..Len(t) : i + 1 \in 1..Len(q)
    BY <1>1, <2>2 DEF q
  <2>6. \A i \in 1..Len(q) : i = 1 \/ (i - 1 \in 1..Len(t) /\ q[i] = t[i - 1])
    <3> TAKE i \in 1..Len(q)
    <3>1. i # 1 => i - 1 \in 1..Len(t) /\ (i - 1) + 1 = i
      BY <1>1, <2>2 DEF q
    <3> QED BY <2>2, <3>1
  <2>7. 1 \in 1..Len(q)
    BY <1>1, <2>2 DEF q
  <2>8. \A p : (\E i \in 1..Len(q) : q[i].pid = p) <=> p = req.pid \/ \E i \in 1..Len(t) : t[i].pid = p
    BY <2>2, <2>5, <2>6, <2>7
  <2>9. \A i, j \in 1..Len(t) : t[i].pid = t[j].pid => i = j
    <3> TAKE i, j \in 1..Len(t)
    <3>1. t[i].pid = t[j].pid => i + 1 = j + 1
      BY <1>1, <2>2, <2>5 DEF q
    <3>2. i \in Nat /\ j \in Nat
      OBVIOUS
    <3> QED BY <3>1, <3>2
  <2>10. \A i \in 1..Len(t) : t[i].pid # req.pid
    <3> TAKE i \in 1..Len(t)
    <3>1. i + 1 \in 1..Len(q) /\ i + 1 # 1 /\ t[i] = q[i + 1]
      BY <2>2, <2>5
    <3> QED BY <1>1, <2>2, <2>7, <3>1 DEF q
  <2>11. \A p : p \in router'.pending <=> p \in Busy' \/ \E i \in 1..Len(t) : t[i].pid = p
    BY <1>1, <2>3, <2>4, <2>8 DEF q
  <2>12. QueueOK(router)'
    BY <2>2, <2>3, <2>4, <2>9, <2>10, <2>11 DEF QueueOK
  <2> QED BY <1>2, <2>2, <2>3, <2>12 DEF IInv, RouterOK
<1>4. CASE FinishRequest
  <2>1. /\ worker.pc = "done" /\ router' = [router EXCEPT !.pending = @ \ {worker.req.pid}]
        /\ worker' = Idle
    BY <1>4 DEF FinishRequest
  <2>2. /\ router'.queue = router.queue /\ router'.pending = router.pending \ {worker.req.pid}
        /\ DOMAIN router' = {"queue", "pending"} /\ worker'.pc = "idle" /\ DOMAIN worker' = {"pc", "req"}
    BY <1>1, <2>1 DEF Idle
  <2>3. Busy = {worker.req.pid} /\ Busy' = {}
    BY <2>1, <2>2 DEF Busy
  <2>4. QueueOK(router)'
    BY <1>1, <2>2, <2>3 DEF QueueOK
  <2> QED BY <1>2, <2>2, <2>4 DEF IInv, RouterOK
<1> QED
  BY <1>3, <1>4

\* What the worker does keeps the invariant.
LEMMA RoutingKeeps ==
    ASSUME IInv, Worker
    PROVE  IInv'
<1>1. /\ jobs \subseteq Jobs /\ ops \in Nat /\ (worker.pc # "idle" => worker.req \in Reqs)
  BY DEF IInv, RouterOK, SourcesOK
<1>2. worker.pc # "idle" => Job(worker.req) \in Jobs
  <2> DEFINE k == IF worker.req.role = "fixture" THEN "fixture" ELSE "slice"
  <2>1. Job(worker.req) = [pid |-> worker.req.pid, start |-> worker.req.start,
                           place |-> [kind |-> k, app |-> worker.req.app]]
    BY DEF Job
  <2>2. k \in {"fixture", "slice"}
    OBVIOUS
  <2> HIDE DEF k
  <2> QED BY <1>1, <2>1, <2>2 DEF Reqs, Jobs
<1>3. CASE TakeRequest \/ FinishRequest
  BY <1>3, RequestKeeps
<1>4. CASE Checked \/ Observed \/ NotObserved
  <2>1. /\ worker.pc # "idle" /\ Step("done")
        /\ UNCHANGED <<live, netlink, helper, socket, index, router>> /\ UNCHANGED <<jobs, ops>>
    BY <1>4 DEF Checked, Observed, NotObserved
  <2> QED BY <1>1, <2>1, WorkerKeeps DEF Step
<1>5. CASE RouteFails
  <2>1. /\ worker.pc # "idle" /\ Step("done")
        /\ UNCHANGED <<live, netlink, helper, socket, index, router>> /\ ops' = ops + 1
        /\ jobs' \in {jobs, jobs \cup {Job(worker.req)}}
    BY <1>5 DEF RouteFails, Counted
  <2>2. jobs' \subseteq Jobs /\ ops' \in Nat
    BY <1>1, <1>2, <2>1
  <2> QED BY <2>1, <2>2, WorkerKeeps DEF Step
<1>6. CASE StartTransientUnit
  <2>1. /\ worker.pc # "idle" /\ Step("observe")
        /\ UNCHANGED <<live, netlink, helper, socket, index, router>> /\ ops' = ops
        /\ jobs' = jobs \cup {Job(worker.req)}
    BY <1>6 DEF StartTransientUnit
  <2>2. jobs' \subseteq Jobs /\ ops' \in Nat
    BY <1>1, <1>2, <2>1
  <2> QED BY <2>1, <2>2, WorkerKeeps DEF Step
<1> QED
  BY <1>3, <1>4, <1>5, <1>6 DEF Worker

\* systemd runs a job.
LEMMA SystemdKeeps ==
    ASSUME IInv, Systemd
    PROVE  IInv'
<1>1. PICK job \in jobs : RunJob(job)
  BY DEF Systemd
<1>2. /\ live \in [Pids -> Identities] /\ jobs \subseteq Jobs /\ job \in Jobs
  BY DEF IInv, SourcesOK, RouterOK
<1>3. job.pid \in Pids /\ job.place \in Places
  <2>1. job.place \in [kind : {"fixture", "slice"}, app : Apps]
    BY <1>2 DEF Jobs
  <2>2. job.place \in [kind : Kinds, app : Apps]
    BY <2>1 DEF Kinds
  <2> QED BY <1>2, <2>2, Values DEF Jobs
<1> DEFINE id == [live[job.pid] EXCEPT !.place = job.place]
<1>4. /\ jobs' = jobs \ {job}
      /\ live' = IF live[job.pid] = Blank THEN live ELSE [live EXCEPT ![job.pid] = id]
      /\ UNCHANGED <<netlink, helper, socket, index, router, worker, ops>>
  BY <1>1, <1>2, <1>3 DEF RunJob
<1>5. id \in Identities
  BY <1>2, <1>3 DEF Identities
<1> HIDE DEF id
<1>6. live' \in [Pids -> Identities]
  BY <1>2, <1>3, <1>4, <1>5
<1>7. SourcesOK' /\ IndexOK(index)'
  BY <1>4, <1>6 DEF IInv, SourcesOK, IndexOK, Consistent
<1>8. RouterOK'
  BY <1>2, <1>4, RouterKeeps DEF IInv
<1> QED
  BY <1>7, <1>8 DEF IInv

-----------------------------------------------------------------------------
(* The theorems.                                                           *)

\* The invariant holds initially.
LEMMA Initially == Init => IInv
<1> SUFFICES ASSUME Init PROVE IInv
  OBVIOUS
<1>1. live \in [Pids -> Identities] /\ netlink = <<>> /\ ops = 0 /\ worker = Idle /\ jobs = {}
      /\ router = [queue |-> <<>>, pending |-> {}] /\ index = EmptyIndex
  BY Values DEF Init
<1>2. helper \in Helpers /\ socket = <<StatusMessage(helper)>>
  <2>1. PICK h \in History :
          helper = [up |-> TRUE, inst |-> 1, seq |-> h, drops |-> h, overflows |-> 0,
                    flooded |-> FALSE, cache |-> live]
    BY DEF Init
  <2>2. h \in Nat
    BY ProcessRoutingAssumption
  <2>3. helper \in Helpers
    BY <1>1, <2>1, <2>2 DEF Helpers
  <2> QED BY <2>3 DEF Init
<1>3. StatusMessage(helper) \in Datagrams /\ StatusMessage(helper).kind = "STATUS"
  BY <1>2, Values, MessageType
<1>4. SourcesOK
  <2>1. socket \in Seq(Datagrams) /\ Len(socket) = 1 /\ socket[1] = StatusMessage(helper)
    BY <1>2, <1>3
  <2>2. \A i \in 1..Len(socket) : socket[i].kind # "STATUS" => socket[i].pid \in Pids
    BY <1>3, <2>1
  <2> QED BY <1>1, <1>2, <2>1, <2>2 DEF SourcesOK
<1>5. IndexOK(index)
  <2>1. NoEntry \in Entries /\ \A a \in Apps : NoEntry.app # a
    BY ProcessIndexAssumption DEF Entries, NoEntry
  <2>2. index \in Indexes
    BY <1>1, <2>1 DEF EmptyIndex, Indexes
  <2>3. /\ \A p \in Pids : index.by_pid[p] = NoEntry
        /\ \A a \in Apps : index.by_app[a] = {} /\ index.gui_by_app[a] = {} /\ index.closing[a] = "no"
    BY <1>1 DEF EmptyIndex
  <2>4. Consistent(index)
    BY <2>1, <2>3 DEF Consistent
  <2> QED BY <2>2, <2>4 DEF IndexOK
<1>6. RouterOK
  <2>1. /\ router.queue = <<>> /\ router.pending = {} /\ DOMAIN router = {"queue", "pending"}
        /\ worker.pc = "idle" /\ DOMAIN worker = {"pc", "req"}
    BY <1>1 DEF Idle
  <2>2. QueueOK(router)
    BY <2>1 DEF QueueOK, Busy
  <2> QED BY <1>1, <2>1, <2>2 DEF RouterOK
<1> QED
  BY <1>4, <1>5, <1>6 DEF IInv

\* Every step keeps the invariant.
LEMMA StepKeeps == IInv /\ [Next]_vars => IInv'
<1>1. CASE UNCHANGED vars
  BY <1>1 DEF IInv, SourcesOK, IndexOK, Consistent, RouterOK, QueueOK, Busy, vars
<1> QED
  BY <1>1, KernelKeeps, HelperKeeps, MonitorKeeps, RoutingKeeps, SystemdKeeps DEF Next

\* The inductive invariant of the index, the router and what feeds them holds
\* in every reachable state.
THEOREM RoutingInductive == Spec => []IInv
  BY Initially, StepKeeps, PTL DEF Spec

\* The three views of the application process index agree, whatever events are
\* lost, repeated or applied to a later index.
THEOREM IndexViewsAgree == Spec => []IndexConsistent
<1>1. IInv => IndexConsistent
  BY DEF IInv, IndexOK, Consistent, IndexConsistent
<1> QED
  BY RoutingInductive, <1>1, PTL

\* The processes of a queue without repetitions are as many as its requests.
LEMMA QueueCardinality ==
    ASSUME NEW q \in Seq(Reqs), \A i, j \in 1..Len(q) : q[i].pid = q[j].pid => i = j
    PROVE  LET S == {q[i].pid : i \in 1..Len(q)} IN IsFiniteSet(S) /\ Cardinality(S) = Len(q)
<1> DEFINE D == 1..Len(q)
           S == {q[i].pid : i \in D}
           f == [i \in D |-> q[i].pid]
<1>1. Len(q) \in Nat
  OBVIOUS
<1>2. IsFiniteSet(D) /\ Cardinality(D) = Len(q)
  <2>1. IsFiniteSet(D) /\ Cardinality(D) = IF 1 > Len(q) THEN 0 ELSE Len(q) - 1 + 1
    BY <1>1, FS_Interval
  <2> HIDE DEF D
  <2> QED BY <1>1, <2>1
<1>3. f \in Bijection(D, S)
  BY DEF Bijection, Injection, Surjection, IsInjective
<1>4. ExistsBijection(D, S)
  BY <1>3 DEF ExistsBijection
<1> HIDE DEF D, S, f
<1>5. IsFiniteSet(S) /\ Cardinality(S) = Cardinality(D)
  BY <1>2, <1>4, FS_Bijection
<1> QED
  BY <1>2, <1>5 DEF S, D

\* A process is pending exactly while one request for it is queued or worked
\* on, so that it can be submitted again however its request ends.
THEOREM PendingIsServed == Spec => []PendingServed
<1>1. IInv => PendingServed
  <2> SUFFICES ASSUME IInv PROVE PendingServed
    OBVIOUS
  <2> DEFINE q == router.queue
             S == {q[i].pid : i \in 1..Len(q)}
  <2>1. /\ q \in Seq(Reqs)
        /\ \A p : p \in router.pending <=> p \in Busy \/ \E i \in 1..Len(q) : q[i].pid = p
        /\ \A i, j \in 1..Len(q) : q[i].pid = q[j].pid => i = j
        /\ \A i \in 1..Len(q) : q[i].pid \notin Busy
    BY DEF IInv, RouterOK, QueueOK
  <2>2. IsFiniteSet(S) /\ Cardinality(S) = Len(q)
    BY <2>1, QueueCardinality
  <2>3. IsFiniteSet(Busy) /\ Cardinality(Busy) \in Nat
    <3>1. CASE worker.pc = "idle"
      BY <3>1, FS_EmptySet DEF Busy
    <3>2. CASE worker.pc # "idle"
      <4>1. Busy = {worker.req.pid}
        BY <3>2 DEF Busy
      <4>2. IsFiniteSet({worker.req.pid}) /\ Cardinality({worker.req.pid}) = 1
        BY FS_Singleton
      <4> QED BY <4>1, <4>2
    <3> QED BY <3>1, <3>2
  <2>4. router.pending = S \cup Busy /\ S \cap Busy = {}
    BY <2>1
  <2>5. DOMAIN q = 1..Len(q)
    BY <2>1
  <2> HIDE DEF S
  <2>6. Cardinality(S \cup Busy) = Cardinality(S) + Cardinality(Busy)
    <3>1. Cardinality(S \cup Busy) = Cardinality(S) + Cardinality(Busy) - Cardinality(S \cap Busy)
      BY <2>2, <2>3, FS_Union
    <3>2. Cardinality(S \cap Busy) = 0
      BY <2>4, FS_EmptySet
    <3>3. Cardinality(S) \in Nat
      BY <2>2, FS_CardinalityType
    <3> QED BY <2>3, <3>1, <3>2, <3>3
  <2>7. Cardinality(router.pending) = Len(q) + Cardinality(Busy)
    BY <2>2, <2>4, <2>6
  <2> QED BY <2>4, <2>5, <2>7 DEF PendingServed, Busy, S
<1> QED
  BY RoutingInductive, <1>1, PTL

-----------------------------------------------------------------------------
(* What the events make of one entry.                                      *)

\* Start times agree when one of them could not be read or they are the same.
Agree(s, t) == s = 0 \/ t = 0 \/ s = t

\* The entry of a process with identity id and class class.
EntryOf(id, class) ==
    IF class.app = NoApp THEN NoEntry
    ELSE [app |-> class.app, role |-> class.role, start |-> id.start]

\* _insert() changes the entry of its process only.
LEMMA InsertEntry ==
    ASSUME NEW ix, IndexOK(ix), NEW p \in Pids, NEW id, NEW class
    PROVE  LET z == insert(ix, p, id, class) IN
           /\ z.by_pid[p] = [app |-> class.app, role |-> class.role, start |-> id.start]
           /\ \A q \in Pids \ {p} : z.by_pid[q] = ix.by_pid[q]
<1> DEFINE previous == ix.by_pid[p]
           base == IF previous # NoEntry /\ previous.app # class.app
                   THEN remove_pid(ix, p, 0) ELSE ix
           e == [app |-> class.app, role |-> class.role, start |-> id.start]
           entered == [base EXCEPT !.by_pid[p] = e, !.by_app[class.app] = @ \cup {p}]
           z == insert(ix, p, id, class)
<1>1. IndexOK(base) /\ \A q \in Pids \ {p} : base.by_pid[q] = ix.by_pid[q]
  <2>1. LET y == remove_pid(ix, p, 0) IN
        /\ IndexOK(y)
        /\ \A q \in Pids \ {p} : y.by_pid[q] = ix.by_pid[q]
        /\ 0 = 0 \/ 0 = ix.by_pid[p].start => y.by_pid[p] = NoEntry
    BY RemovePid
  <2> QED BY <2>1
<1>2. \/ z = entered
      \/ z = [entered EXCEPT !.gui_by_app[class.app] = @ \cup {p}, !.closing[class.app] = "no"]
  BY DEF insert
<1> HIDE DEF base, e, z
<1>3. base.by_pid \in [Pids -> Entries] /\ DOMAIN base = {"by_pid", "by_app", "gui_by_app", "closing"}
  BY <1>1, IndexParts DEF IndexOK
<1>4. entered.by_pid = [base.by_pid EXCEPT ![p] = e]
      /\ DOMAIN entered = {"by_pid", "by_app", "gui_by_app", "closing"}
  BY <1>3
<1> HIDE DEF entered
<1>5. z.by_pid = [base.by_pid EXCEPT ![p] = e]
  BY <1>2, <1>4
<1> QED
  BY <1>1, <1>3, <1>5 DEF z, e

\* FORK: the entry is made from the identity and some inherited entry.
LEMMA StartEntry ==
    ASSUME NEW ix, IndexOK(ix), NEW p \in Pids, NEW id \in Identities, NEW parent
    PROVE  LET z == process_start(ix, p, id, parent) IN
           /\ \E from \in Entries : z.by_pid[p] = EntryOf(id, classify(id, from))
           /\ \A q \in Pids \ {p} : z.by_pid[q] = ix.by_pid[q]
<1> DEFINE cleared == remove_pid(ix, p, 0)
           from == IF parent \in Pids THEN cleared.by_pid[parent] ELSE NoEntry
           class == classify(id, from)
<1>1. /\ IndexOK(cleared)
      /\ \A q \in Pids \ {p} : cleared.by_pid[q] = ix.by_pid[q]
      /\ cleared.by_pid[p] = NoEntry
  BY RemovePid
<1>2. process_start(ix, p, id, parent) = IF class.app = NoApp THEN cleared
                                         ELSE insert(cleared, p, id, class)
  BY DEF process_start
<1> HIDE DEF cleared
<1>3. from \in Entries
  BY <1>1, IndexParts DEF IndexOK, Entries
<1> HIDE DEF from
<1>4. CASE class.app = NoApp
  BY <1>1, <1>2, <1>3, <1>4 DEF EntryOf
<1>5. CASE class.app # NoApp
  <2> HIDE DEF class
  <2>1. LET z == insert(cleared, p, id, class) IN
        /\ z.by_pid[p] = [app |-> class.app, role |-> class.role, start |-> id.start]
        /\ \A q \in Pids \ {p} : z.by_pid[q] = cleared.by_pid[q]
    BY <1>1, InsertEntry
  <2>2. process_start(ix, p, id, parent).by_pid[p] = EntryOf(id, class)
    BY <1>2, <1>5, <2>1 DEF EntryOf
  <2>3. \A q \in Pids \ {p} : process_start(ix, p, id, parent).by_pid[q] = ix.by_pid[q]
    BY <1>1, <1>2, <1>5, <2>1
  <2> QED BY <1>3, <2>2, <2>3 DEF class
<1> QED
  BY <1>4, <1>5

\* EXEC: the entry is made from the identity and the entry before.
LEMMA ExecEntry ==
    ASSUME NEW ix, IndexOK(ix), NEW p \in Pids, NEW id \in Identities
    PROVE  LET z == process_exec(ix, p, id) IN
           /\ \E from \in Entries : z.by_pid[p] = EntryOf(id, classify(id, from))
           /\ \A q \in Pids \ {p} : z.by_pid[q] = ix.by_pid[q]
<1> DEFINE previous == ix.by_pid[p]
           class == classify(id, previous)
           base == IF previous # NoEntry /\ (previous.app # class.app \/ previous.role # class.role)
                   THEN remove_pid(ix, p, previous.start) ELSE ix
<1>1. previous \in Entries
  BY IndexParts DEF IndexOK
<1>2. process_exec(ix, p, id) = IF class.app = NoApp THEN base ELSE insert(base, p, id, class)
  BY DEF process_exec
<1> HIDE DEF class
<1>3. /\ IndexOK(base)
      /\ \A q \in Pids \ {p} : base.by_pid[q] = ix.by_pid[q]
      /\ class.app = NoApp => base.by_pid[p] = NoEntry
  <2>1. CASE previous # NoEntry /\ (previous.app # class.app \/ previous.role # class.role)
    <3>1. previous.start \in Nat
      BY <1>1, <2>1, EntryParts
    <3>2. LET y == remove_pid(ix, p, previous.start) IN
          /\ IndexOK(y)
          /\ \A q \in Pids \ {p} : y.by_pid[q] = ix.by_pid[q]
          /\ previous.start = 0 \/ previous.start = ix.by_pid[p].start => y.by_pid[p] = NoEntry
      BY <3>1, RemovePid
    <3> QED BY <2>1, <3>2
  <2>2. CASE ~(previous # NoEntry /\ (previous.app # class.app \/ previous.role # class.role))
    <3>1. previous # NoEntry => previous.app # NoApp
      BY <1>1, EntryParts
    <3> QED BY <2>2, <3>1
  <2> QED BY <2>1, <2>2
<1> HIDE DEF base
<1>4. CASE class.app = NoApp
  <2>1. process_exec(ix, p, id).by_pid[p] = EntryOf(id, class)
    BY <1>2, <1>3, <1>4 DEF EntryOf
  <2> QED BY <1>1, <1>2, <1>3, <1>4, <2>1 DEF class
<1>5. CASE class.app # NoApp
  <2>1. LET z == insert(base, p, id, class) IN
        /\ z.by_pid[p] = [app |-> class.app, role |-> class.role, start |-> id.start]
        /\ \A q \in Pids \ {p} : z.by_pid[q] = base.by_pid[q]
    BY <1>3, InsertEntry
  <2>2. process_exec(ix, p, id).by_pid[p] = EntryOf(id, class)
    BY <1>2, <1>5, <2>1 DEF EntryOf
  <2>3. \A q \in Pids \ {p} : process_exec(ix, p, id).by_pid[q] = ix.by_pid[q]
    BY <1>2, <1>3, <1>5, <2>1
  <2> QED BY <1>1, <2>2, <2>3 DEF class
<1> QED
  BY <1>4, <1>5

\* EXIT: the entry goes unless it is of another incarnation.
LEMMA ExitEntry ==
    ASSUME NEW ix, IndexOK(ix), NEW p \in Pids, NEW id
    PROVE  LET z == process_exit(ix, p, id) IN
           /\ Agree(id.start, ix.by_pid[p].start) => z.by_pid[p] = NoEntry
           /\ \A q \in Pids \ {p} : z.by_pid[q] = ix.by_pid[q]
<1> DEFINE previous == ix.by_pid[p]
<1>1. previous \in Entries /\ (previous # NoEntry => previous.start \in Nat)
  BY IndexParts, EntryParts DEF IndexOK
<1>2. CASE previous = NoEntry
  BY <1>2 DEF process_exit
<1>3. CASE previous # NoEntry
  <2>1. LET y == remove_pid(ix, p, previous.start) IN
        /\ IndexOK(y)
        /\ \A q \in Pids \ {p} : y.by_pid[q] = ix.by_pid[q]
        /\ previous.start = 0 \/ previous.start = ix.by_pid[p].start => y.by_pid[p] = NoEntry
    BY <1>1, <1>3, RemovePid
  <2> QED BY <1>3, <2>1 DEF process_exit, Agree
<1> QED
  BY <1>2, <1>3

\* A rebuild enters what the mapper recognises.
BootEntry(id) ==
    IF id # Blank /\ map_process(id) # NoApp THEN EntryOf(id, classify(id, NoEntry)) ELSE NoEntry

\* The entries of a rebuilt index.
LEMMA BootstrapEntry ==
    ASSUME NEW procs \in [Pids -> Identities], NEW p \in Pids
    PROVE  bootstrap(procs).by_pid[p] = BootEntry(procs[p])
<1> DEFINE class == classify(procs[p], NoEntry)
<1>1. NoEntry \in Entries /\ NoApp \notin Apps
  BY EntryParts DEF Entries
<1>2. map_process(procs[p]) # NoApp => class.app \in Apps
  BY <1>1, Classify
<1>3. bootstrap(procs).by_pid[p] =
        IF procs[p] # Blank /\ map_process(procs[p]) # NoApp
        THEN [app |-> class.app, role |-> class.role, start |-> procs[p].start] ELSE NoEntry
  BY DEF bootstrap
<1> QED
  BY <1>1, <1>2, <1>3 DEF BootEntry, EntryOf

-----------------------------------------------------------------------------
(* What a process is taken for.                                            *)

\* A process outside the alias scopes is mapped by its program alone.
LEMMA MapByProgram ==
    ASSUME NEW id \in Identities, id.place.kind # "alias"
    PROVE  /\ map_process(id) = IF id.prog \in Apps THEN id.prog ELSE NoApp
           /\ id = Blank => map_process(id) = NoApp
<1> DEFINE hits == {i \in DOMAIN TargetOrder :
                       \/ id.place = [kind |-> "alias", app |-> TargetOrder[i]]
                       \/ id.prog = TargetOrder[i]}
<1>1. \A i \in hits : i \in DOMAIN TargetOrder /\ id.prog = TargetOrder[i]
  OBVIOUS
<1>2. map_process(id) = IF hits = {} THEN NoApp
                        ELSE TargetOrder[CHOOSE i \in hits : \A j \in hits : i <= j]
  BY DEF map_process
<1>3. hits = {} <=> id.prog \notin Apps
  <2>1. id.prog \in Apps => \E i \in DOMAIN TargetOrder : id.prog = TargetOrder[i]
    BY DEF Apps
  <2>2. \A i \in DOMAIN TargetOrder : TargetOrder[i] \in Apps
    BY DEF Apps
  <2>3. (\E i \in DOMAIN TargetOrder : id.prog = TargetOrder[i]) => hits # {}
    OBVIOUS
  <2> HIDE DEF hits
  <2> QED BY <1>1, <2>1, <2>2, <2>3
<1>4. hits \subseteq Nat
  BY ProcessIndexAssumption
<1>5. Blank.prog = NoApp /\ NoApp \notin Apps
  BY ProcessIndexAssumption DEF Blank
<1> HIDE DEF hits
<1>6. hits # {} => (CHOOSE i \in hits : \A j \in hits : i <= j) \in hits
  BY <1>4, LeastExists
<1> QED
  BY <1>1, <1>2, <1>3, <1>5, <1>6

\* A process in an alias scope is mapped to something.
LEMMA MapAlias ==
    ASSUME NEW id \in Identities, id.place.kind = "alias"
    PROVE  map_process(id) # NoApp
<1>1. id.place \in [kind : Kinds, app : Apps]
  BY DEF Identities, Places, Outside
<1>2. PICK i \in DOMAIN TargetOrder : id.place.app = TargetOrder[i]
  BY <1>1 DEF Apps
<1>3. id.place = [kind |-> "alias", app |-> TargetOrder[i]]
  BY <1>1, <1>2
<1> DEFINE hits == {j \in DOMAIN TargetOrder :
                       \/ id.place = [kind |-> "alias", app |-> TargetOrder[j]]
                       \/ id.prog = TargetOrder[j]}
<1>4. hits # {}
  BY <1>3
<1>5. map_process(id) = TargetOrder[CHOOSE j \in hits : \A k \in hits : j <= k]
  BY <1>4 DEF map_process
<1>6. hits \subseteq DOMAIN TargetOrder /\ DOMAIN TargetOrder \subseteq Nat
  BY ProcessIndexAssumption
<1> HIDE DEF hits
<1>7. (CHOOSE j \in hits : \A k \in hits : j <= k) \in DOMAIN TargetOrder
  BY <1>4, <1>6, LeastExists
<1> QED
  BY <1>5, <1>7, ProcessIndexAssumption DEF Apps

\* The application a process belongs to by itself.
AppOf(id) == classify(id, NoEntry).app

\* It is where it belongs: in the application's slice, or in its own experiment
\* scope.
PlacedAs(id) ==
    \/ inside_slice(id.place, AppOf(id))
    \/ id.place = [kind |-> "automation", app |-> AppOf(id)]

\* A request the worker will find right.
Fits(id, req) ==
    /\ req.start = id.start /\ req.app = AppOf(id)
    /\ target_for_identity(id) = [app |-> req.app, role |-> req.role]

\* The application by place and program.
LEMMA AppOfCases ==
    ASSUME NEW id \in Identities
    PROVE  /\ AppOf(id) = IF InFixtureScope(id.place) THEN id.place.app ELSE map_process(id)
           /\ AppOf(Blank) = NoApp
           /\ id.prog \in Apps /\ ~ InFixtureScope(id.place) => AppOf(id) = id.prog
<1>1. ASSUME NEW x \in Identities
      PROVE  AppOf(x) = IF InFixtureScope(x.place) THEN x.place.app ELSE map_process(x)
  <2>1. CASE InFixtureScope(x.place)
    BY <2>1 DEF AppOf, classify
  <2>2. CASE ~ InFixtureScope(x.place) /\ map_process(x) # NoApp
    BY <2>2 DEF AppOf, classify
  <2>3. CASE ~ InFixtureScope(x.place) /\ map_process(x) = NoApp
    <3>1. NoEntry.app = NoApp
      BY DEF NoEntry
    <3> QED BY <2>3, <3>1 DEF AppOf, classify
  <2> QED BY <2>1, <2>2, <2>3
<1>2. Blank \in Identities /\ ~ InFixtureScope(Blank.place) /\ Blank.place.kind # "alias"
  BY Values DEF Blank, Outside, InFixtureScope
<1>3. AppOf(Blank) = NoApp
  <2>1. map_process(Blank) = NoApp
    BY <1>2, MapByProgram
  <2> QED BY <1>1, <1>2, <2>1
<1>4. id.prog \in Apps /\ ~ InFixtureScope(id.place) => map_process(id) = id.prog
  BY MapByProgram DEF InFixtureScope
<1> QED
  BY <1>1, <1>3, <1>4

\* What a process inherits matters only if it belongs to no application itself.
LEMMA InheritedClass ==
    ASSUME NEW id \in Identities, NEW from \in Entries, AppOf(id) # NoApp
    PROVE  classify(id, from).app = AppOf(id)
<1>1. AppOf(id) = IF InFixtureScope(id.place) THEN id.place.app ELSE map_process(id)
  BY AppOfCases
<1>2. CASE InFixtureScope(id.place)
  BY <1>1, <1>2 DEF classify
<1>3. CASE ~ InFixtureScope(id.place)
  BY <1>1, <1>3 DEF classify
<1> QED
  BY <1>2, <1>3

\* The entry made from an identity tells its start time and its application.
LEMMA EntryOfIdentity ==
    ASSUME NEW id \in Identities, NEW from \in Entries
    PROVE  LET e == EntryOf(id, classify(id, from)) IN
           /\ e = NoEntry \/ e.start = id.start
           /\ e.start \in {0, id.start}
           /\ AppOf(id) # NoApp =>
                /\ e # NoEntry /\ e.app = AppOf(id)
                /\ \/ [app |-> e.app, role |-> e.role] # target_for_identity(id)
                   \/ \A p : Fits(id, [pid |-> p, app |-> e.app, role |-> e.role, start |-> e.start])
<1> DEFINE class == classify(id, from)
           e == EntryOf(id, class)
<1>1. /\ class.app = NoApp => e = NoEntry
      /\ class.app # NoApp => e.app = class.app /\ e.role = class.role /\ e.start = id.start
  BY DEF EntryOf
<1>2. NoEntry.start = 0 /\ NoEntry.app = NoApp
  BY DEF NoEntry
<1>3. AppOf(id) # NoApp => class.app = AppOf(id)
  BY InheritedClass
<1> HIDE DEF class, e
<1> QED
  BY <1>1, <1>2, <1>3 DEF class, e, Fits

\* A rebuild enters a process that belongs to an application unless it already
\* is in that application's slice.
LEMMA BootEntryOfIdentity ==
    ASSUME NEW id \in Identities
    PROVE  LET e == BootEntry(id) IN
           /\ e = NoEntry \/ e.start = id.start
           /\ e.start \in {0, id.start}
           /\ id = Blank => e = NoEntry
           /\ id.prog \in Apps /\ ~ InFixtureScope(id.place) => e.app = id.prog
           /\ AppOf(id) # NoApp /\ ~ PlacedAs(id) =>
                /\ e # NoEntry
                /\ \/ [app |-> e.app, role |-> e.role] # target_for_identity(id)
                   \/ \A p : Fits(id, [pid |-> p, app |-> e.app, role |-> e.role, start |-> e.start])
<1> DEFINE e == BootEntry(id)
           o == EntryOf(id, classify(id, NoEntry))
<1>1. NoEntry \in Entries /\ NoEntry.start = 0 /\ NoApp \notin Apps
  BY EntryParts DEF NoEntry, Entries
<1>2. e = IF id # Blank /\ map_process(id) # NoApp THEN o ELSE NoEntry
  BY DEF BootEntry
<1>3. /\ o = NoEntry \/ o.start = id.start
      /\ o.start \in {0, id.start}
      /\ AppOf(id) # NoApp =>
           /\ o # NoEntry /\ o.app = AppOf(id)
           /\ \/ [app |-> o.app, role |-> o.role] # target_for_identity(id)
              \/ \A p : Fits(id, [pid |-> p, app |-> o.app, role |-> o.role, start |-> o.start])
  BY <1>1, EntryOfIdentity
<1>4. /\ AppOf(id) = IF InFixtureScope(id.place) THEN id.place.app ELSE map_process(id)
      /\ AppOf(Blank) = NoApp
      /\ id.prog \in Apps /\ ~ InFixtureScope(id.place) => AppOf(id) = id.prog
  BY AppOfCases
<1> HIDE DEF e, o
<1>5. AppOf(id) # NoApp /\ ~ PlacedAs(id) => e = o
  <2> SUFFICES ASSUME AppOf(id) # NoApp, ~ PlacedAs(id) PROVE map_process(id) # NoApp
    BY <1>2, <1>4
  <2>1. CASE ~ InFixtureScope(id.place)
    BY <1>4, <2>1
  <2>2. CASE id.place.kind = "alias"
    BY <2>2, MapAlias
  <2>3. CASE id.place.kind = "fixture"
    BY <1>4, <2>3 DEF PlacedAs, inside_slice, InFixtureScope
  <2> QED BY <2>1, <2>2, <2>3 DEF InFixtureScope
<1>6. id.prog \in Apps /\ ~ InFixtureScope(id.place) => e = o /\ AppOf(id) = id.prog
  BY <1>1, <1>2, <1>4
<1>7. id = Blank => e = NoEntry
  BY <1>2
<1>8. /\ e = NoEntry \/ e.start = id.start
      /\ e.start \in {0, id.start}
  BY <1>1, <1>2, <1>3
<1>9. id.prog \in Apps /\ ~ InFixtureScope(id.place) => e.app = id.prog
  BY <1>1, <1>3, <1>6
<1> QED
  BY <1>3, <1>5, <1>7, <1>8, <1>9 DEF e

\* A request that fits is served unless the process is already in place.
LEMMA FitsMoves ==
    ASSUME NEW id \in Identities, NEW req \in Reqs, Fits(id, req), ~ PlacedAs(id)
    PROVE  ~ NothingToMove(id, req)
<1>1. req.app \in Apps /\ NoApp \notin Apps
  BY ProcessIndexAssumption DEF Reqs
<1>2. AppOf(id) = req.app /\ target_for_identity(id) = [app |-> req.app, role |-> req.role]
      /\ req.start = id.start
  BY DEF Fits
<1>3. id # Blank
  <2>1. AppOf(Blank) = NoApp
    BY AppOfCases
  <2> QED BY <1>1, <1>2, <2>1
<1>4. RouteTarget(id, req) = [app |-> req.app, role |-> req.role]
  <2>1. target_for_identity(id).app # NoApp
    BY <1>1, <1>2
  <2> QED BY <1>2, <2>1 DEF RouteTarget
<1> QED
  BY <1>2, <1>3, <1>4 DEF NothingToMove, PlacedAs

\* The job of a request that names a process's class puts it into the slice of
\* its application, and leaves a fixture a fixture.
LEMMA JobPlaces ==
    ASSUME NEW id \in Identities, NEW req \in Reqs,
           classify(id, NoEntry) = [app |-> req.app, role |-> req.role]
    PROVE  LET new == [id EXCEPT !.place = Job(req).place] IN
           /\ inside_slice(new.place, AppOf(new))
           /\ ~ InFixtureScope(new.place) => ~ InFixtureScope(id.place)
<1> DEFINE k == IF req.role = "fixture" THEN "fixture" ELSE "slice"
           pl == [kind |-> k, app |-> req.app]
           new == [id EXCEPT !.place = pl]
<1>1. Job(req).place = pl
  BY DEF Job
<1>2. req.app \in Apps /\ req.app # NoApp
  BY ProcessIndexAssumption DEF Reqs
<1>3. pl \in Places
  BY <1>2 DEF Places, Kinds
<1> HIDE DEF pl
<1>4. new \in Identities /\ new.prog = id.prog /\ new.place = pl
  BY <1>3 DEF Identities
<1> HIDE DEF new
<1>5. pl.kind = k /\ pl.app = req.app
  BY DEF pl
<1>6. AppOf(new) = IF InFixtureScope(pl) THEN pl.app ELSE map_process(new)
  BY <1>4, AppOfCases
<1>7. CASE req.role = "fixture"
  BY <1>1, <1>4, <1>5, <1>6, <1>7 DEF inside_slice, InFixtureScope, new
<1>8. CASE req.role # "fixture"
  <2>1. ~ InFixtureScope(id.place)
    <3>1. InFixtureScope(id.place) => classify(id, NoEntry).role = "fixture"
      BY DEF classify
    <3> QED BY <1>8, <3>1
  <2>2. pl.kind = "slice" /\ ~ InFixtureScope(pl)
    BY <1>5, <1>8 DEF InFixtureScope
  <2>3. AppOf(id) = req.app /\ AppOf(id) = map_process(id)
    BY <2>1, AppOfCases DEF AppOf
  <2>4. map_process(new) = map_process(id)
    <3>1. /\ map_process(id) = IF id.prog \in Apps THEN id.prog ELSE NoApp
          /\ id = Blank => map_process(id) = NoApp
      BY <2>1, MapByProgram DEF InFixtureScope
    <3>2. /\ map_process(new) = IF new.prog \in Apps THEN new.prog ELSE NoApp
          /\ new = Blank => map_process(new) = NoApp
      BY <1>4, <2>2, MapByProgram
    <3> QED BY <1>4, <3>1, <3>2
  <2> QED BY <1>1, <1>4, <1>5, <1>6, <2>1, <2>2, <2>3, <2>4 DEF inside_slice, new
<1> QED
  BY <1>7, <1>8

-----------------------------------------------------------------------------
(* What becomes of a request.                                              *)

RequestFor(ix, p) ==
    LET item == ix.by_pid[p]
    IN  [pid |-> p, app |-> item.app, role |-> item.role, start |-> item.start]

\* A request is queued, about to be looked at or being served, or it was
\* refused.
Answered(z, req) ==
    \/ req.pid \in z.refused
    \/ \E i \in 1..Len(z.queue) : z.queue[i] = req
    \/ worker.req = req /\ worker.pc \in {"check", "observe"}

\* Requests are added behind those that wait.
Grows(r, z) ==
    /\ Len(r.queue) <= Len(z.queue) /\ r.refused \subseteq z.refused
    /\ \A i \in 1..Len(r.queue) : z.queue[i] = r.queue[i]

\* Requests that grow twice grow.
LEMMA GrowsOn ==
    ASSUME NEW r, NEW y, NEW z, RequestsOK(r), RequestsOK(y), RequestsOK(z), Grows(r, y), Grows(y, z)
    PROVE  /\ Grows(r, z)
           /\ \A req : Answered(y, req) => Answered(z, req)
<1>1. Len(r.queue) \in Nat /\ Len(y.queue) \in Nat /\ Len(z.queue) \in Nat
  BY DEF RequestsOK, QueueOK
<1>2. /\ \A i \in 1..Len(r.queue) : i \in 1..Len(y.queue)
      /\ \A i \in 1..Len(y.queue) : i \in 1..Len(z.queue)
  BY <1>1 DEF Grows
<1>3. Grows(r, z)
  BY <1>1, <1>2 DEF Grows
<1>4. \A req : Answered(y, req) => Answered(z, req)
  BY <1>2 DEF Grows, Answered
<1> QED
  BY <1>3, <1>4

\* _enqueue() answers a request.
LEMMA EnqueueAnswers ==
    ASSUME NEW r, RequestsOK(r), NEW req \in Reqs
    PROVE  LET z == enqueue(r, req) IN Grows(r, z) /\ Answered(z, req)
<1> DEFINE z == enqueue(r, req)
<1>1. r.queue \in Seq(Reqs) /\ Len(r.queue) \in Nat /\ DOMAIN r = {"queue", "pending", "refused"}
  BY DEF RequestsOK, QueueOK
<1>2. CASE req.pid \in r.pending
  <2> DEFINE s == IF Unserved(r, req) THEN r.refused \cup {req.pid} ELSE r.refused
  <2>1. z = [r EXCEPT !.refused = s]
    BY <1>1, <1>2 DEF enqueue
  <2> HIDE DEF s, z
  <2>2. z.queue = r.queue /\ z.refused = s
    BY <1>1, <2>1
  <2>3. CASE Unserved(r, req)
    <3>1. r.refused \subseteq s /\ req.pid \in s
      BY <2>3 DEF s
    <3> QED BY <1>1, <2>2, <3>1 DEF Grows, Answered, z
  <2>4. CASE ~ Unserved(r, req)
    <3>1. \/ \E i \in 1..Len(r.queue) : r.queue[i] = req
          \/ worker.req = req /\ worker.pc \in {"check", "observe"}
      BY <2>4 DEF Unserved
    <3>2. s = r.refused
      BY <2>4 DEF s
    <3> QED BY <1>1, <2>2, <3>1, <3>2 DEF Grows, Answered, z
  <2> QED BY <2>3, <2>4
<1>3. CASE req.pid \notin r.pending /\ Len(r.queue) < QueueCap
  <2>1. z = [r EXCEPT !.queue = Append(@, req), !.pending = @ \cup {req.pid}]
    BY <1>3 DEF enqueue
  <2> HIDE DEF z
  <2>2. z.queue = Append(r.queue, req) /\ z.refused = r.refused
    BY <1>1, <2>1
  <2>3. /\ Len(z.queue) = Len(r.queue) + 1
        /\ \A i \in 1..Len(r.queue) : z.queue[i] = r.queue[i]
        /\ z.queue[Len(r.queue) + 1] = req
    BY <1>1, <2>2
  <2>4. Len(r.queue) + 1 \in 1..Len(z.queue) /\ Len(r.queue) <= Len(z.queue)
    BY <1>1, <2>3
  <2> QED BY <2>2, <2>3, <2>4 DEF Grows, Answered, z
<1>4. CASE req.pid \notin r.pending /\ ~(Len(r.queue) < QueueCap)
  <2>1. z = [r EXCEPT !.refused = @ \cup {req.pid}]
    BY <1>4 DEF enqueue
  <2> HIDE DEF z
  <2>2. z.queue = r.queue /\ z.refused = r.refused \cup {req.pid}
    BY <1>1, <2>1
  <2> QED BY <1>1, <2>2 DEF Grows, Answered, z
<1> QED
  BY <1>2, <1>3, <1>4

\* So does a submission, if the process is indexed.
LEMMA SubmitAnswers ==
    ASSUME NEW r, RequestsOK(r), NEW ix, IndexOK(ix), NEW p \in Pids
    PROVE  LET z == Submit(r, ix, p) IN
           /\ RequestsOK(z) /\ Grows(r, z)
           /\ ix.by_pid[p] # NoEntry => Answered(z, RequestFor(ix, p))
<1> DEFINE item == ix.by_pid[p]
           req == [pid |-> p, app |-> item.app, role |-> item.role, start |-> item.start]
           z == Submit(r, ix, p)
<1>1. item \in Entries
  BY IndexParts DEF IndexOK
<1>2. z = IF item = NoEntry THEN r ELSE enqueue(r, req)
  BY DEF Submit
<1>3. item # NoEntry => req \in Reqs
  BY <1>1, EntryParts DEF Reqs
<1>4. RequestsOK(z)
  BY SubmitOne
<1>5. RequestFor(ix, p) = req
  BY DEF RequestFor
<1> HIDE DEF item, req, z
<1>6. CASE item = NoEntry
  <2>1. Len(r.queue) \in Nat
    BY DEF RequestsOK, QueueOK
  <2> QED BY <1>2, <1>4, <1>6, <2>1 DEF Grows, z, item
<1>7. CASE item # NoEntry
  <2>1. LET y == enqueue(r, req) IN Grows(r, y) /\ Answered(y, req)
    BY <1>3, <1>7, EnqueueAnswers
  <2> QED BY <1>2, <1>4, <1>5, <1>7, <2>1 DEF z
<1> QED
  BY <1>6, <1>7

\* A rebuild submits every process it has entered.
LEMMA SubmitAllAnswers ==
    ASSUME NEW r, RequestsOK(r), NEW ix, IndexOK(ix)
    PROVE  LET z == SubmitAll(r, ix) IN
           /\ Grows(r, z)
           /\ \A p \in Pids : ix.by_pid[p] # NoEntry => Answered(z, RequestFor(ix, p))
<1> DEFINE N == Cardinality(Pids)
<1>1. /\ N \in Nat /\ Pids = 1..N
      /\ \E f : /\ SubmitAll(r, ix) = f[N] /\ f[0] = r
               /\ \A p \in 1..N : f[p] = Submit(f[p - 1], ix, p)
  BY SubmitAllSteps
<1> HIDE DEF N
<1>2. PICK f : /\ SubmitAll(r, ix) = f[N] /\ f[0] = r
               /\ \A p \in 1..N : f[p] = Submit(f[p - 1], ix, p)
  BY <1>1
<1> DEFINE Done(n) ==
             /\ RequestsOK(f[n]) /\ Grows(r, f[n])
             /\ \A p \in 1..n : ix.by_pid[p] # NoEntry => Answered(f[n], RequestFor(ix, p))
           Wrong == {n \in 0..N : ~ Done(n)}
<1>3. Done(0)
  <2>1. Len(r.queue) \in Nat
    BY DEF RequestsOK, QueueOK
  <2> QED BY <1>2, <2>1 DEF Grows
<1>4. ASSUME NEW n \in 1..N, Done(n - 1)
      PROVE  Done(n)
  <2>1. n \in Pids /\ f[n] = Submit(f[n - 1], ix, n) /\ n \in Nat
    BY <1>1, <1>2
  <2>2. RequestsOK(f[n - 1])
    BY <1>4
  <2>3. LET z == Submit(f[n - 1], ix, n) IN
        /\ RequestsOK(z) /\ Grows(f[n - 1], z)
        /\ ix.by_pid[n] # NoEntry => Answered(z, RequestFor(ix, n))
    BY <2>1, <2>2, SubmitAnswers
  <2>4. /\ RequestsOK(f[n]) /\ Grows(f[n - 1], f[n])
        /\ ix.by_pid[n] # NoEntry => Answered(f[n], RequestFor(ix, n))
    BY <2>1, <2>3
  <2>5. /\ Grows(r, f[n])
        /\ \A req : Answered(f[n - 1], req) => Answered(f[n], req)
    BY <1>4, <2>2, <2>4, GrowsOn
  <2>6. \A p \in 1..n : p = n \/ p \in 1..(n - 1)
    BY <2>1
  <2> QED BY <1>4, <2>4, <2>5, <2>6
<1> HIDE DEF Done
<1>5. Wrong = {}
  <2> SUFFICES ASSUME Wrong # {} PROVE FALSE
    OBVIOUS
  <2>1. Wrong \subseteq Nat
    BY <1>1
  <2>2. PICK n \in Wrong : \A m \in Wrong : n <= m
    BY <2>1, LeastExists
  <2>3. n \in 0..N /\ ~ Done(n)
    BY <2>2
  <2>4. n # 0
    BY <1>3, <2>3
  <2>5. n \in 1..N /\ n - 1 \in 0..N /\ n - 1 < n
    BY <1>1, <2>3, <2>4
  <2>6. Done(n - 1)
    BY <1>1, <2>2, <2>3, <2>5
  <2> QED BY <1>4, <2>3, <2>5, <2>6
<1>6. Done(N)
  BY <1>1, <1>5
<1> QED
  BY <1>1, <1>2, <1>6 DEF Done

-----------------------------------------------------------------------------
(* What the monitor makes of a datagram.                                   *)

\* A fitting request for the process waits or is being served.
Served(p) ==
    \/ \E i \in 1..Len(router.queue) :
           router.queue[i].pid = p /\ Fits(live[p], router.queue[i])
    \/ /\ worker.pc \in {"check", "observe"}
       /\ worker.req.pid = p /\ Fits(live[p], worker.req)

\* The datagram makes the monitor rebuild its index.
Forces(m) ==
    SourceRestarted(m) \/ IF m.kind = "STATUS" THEN CountersChanged(m) ELSE DeliveryGap(m)

\* The request for the entry the step leaves is answered.
Taken(p) ==
    \/ p \in lost'
    \/ \E i \in 1..Len(router'.queue) : router'.queue[i] = RequestFor(index', p)
    \/ worker.req = RequestFor(index', p) /\ worker.pc \in {"check", "observe"}

\* An answer among the requests handed in is an answer of the router.
LEMMA SubmittedTakes ==
    ASSUME NEW r, Submitted(r), NEW p, Answered(r, RequestFor(index', p))
    PROVE  Taken(p)
<1>1. router'.queue = r.queue /\ r.refused \subseteq lost'
  BY DEF Submitted
<1>2. RequestFor(index', p).pid = p
  BY DEF RequestFor
<1> QED
  BY <1>1, <1>2 DEF Answered, Taken

\* Handing in requests takes none away.
LEMMA SubmittedServes ==
    ASSUME IInv, NEW r, RequestsOK(r), Grows(Requests, r), Submitted(r), UNCHANGED <<live, worker>>
    PROVE  lost \subseteq lost' /\ \A p : Served(p) => Served(p)'
<1>1. router'.queue = r.queue /\ lost \subseteq lost' /\ Requests.queue = router.queue
  BY DEF Submitted, Requests
<1>2. Len(router.queue) \in Nat /\ Len(r.queue) \in Nat /\ Len(router.queue) <= Len(r.queue)
  BY <1>1 DEF IInv, RouterOK, QueueOK, RequestsOK, Grows
<1>3. \A i \in 1..Len(router.queue) : i \in 1..Len(r.queue) /\ r.queue[i] = router.queue[i]
  BY <1>1, <1>2 DEF Grows
<1> QED
  BY <1>1, <1>3 DEF Served

\* A rebuild enters and submits every process; without one everything stays.
LEMMA RebuildAnswers ==
    ASSUME IInv, NEW needed \in BOOLEAN
    PROVE  LET ix == Rebuild(needed, index)
               r == Resubmit(needed, Requests, ix) IN
           /\ IndexOK(ix) /\ RequestsOK(r) /\ Grows(Requests, r)
           /\ \A p \in Pids :
                /\ needed => /\ ix.by_pid[p] = BootEntry(live[p])
                             /\ ix.by_pid[p] # NoEntry => Answered(r, RequestFor(ix, p))
                /\ ~ needed => ix.by_pid[p] = index.by_pid[p]
<1> DEFINE ix == Rebuild(needed, index)
           r == Resubmit(needed, Requests, ix)
<1>1. IndexOK(ix) /\ RequestsOK(r)
  BY RebuildKeeps
<1>2. RequestsOK(Requests)
  BY DEF IInv, RouterOK, RequestsOK, Requests, QueueOK
<1>3. CASE needed
  <2>1. ix = bootstrap(live) /\ r = SubmitAll(Requests, ix)
    BY <1>3 DEF Rebuild, Resubmit
  <2>2. \A p \in Pids : ix.by_pid[p] = BootEntry(live[p])
    BY <2>1, BootstrapEntry DEF IInv, SourcesOK
  <2> HIDE DEF ix, r
  <2>3. LET z == SubmitAll(Requests, ix) IN
        /\ Grows(Requests, z)
        /\ \A p \in Pids : ix.by_pid[p] # NoEntry => Answered(z, RequestFor(ix, p))
    BY <1>1, <1>2, SubmitAllAnswers
  <2> QED BY <1>1, <1>3, <2>1, <2>2, <2>3 DEF ix, r
<1>4. CASE ~ needed
  <2>1. ix = index /\ r = Requests
    BY <1>4 DEF Rebuild, Resubmit
  <2>2. Len(Requests.queue) \in Nat
    BY <1>2 DEF RequestsOK, QueueOK
  <2>3. Grows(Requests, Requests)
    BY <2>2 DEF Grows
  <2> HIDE DEF ix, r
  <2> QED BY <1>1, <1>4, <2>1, <2>3 DEF ix, r
<1> QED
  BY <1>3, <1>4

\* A status changes the index by a rebuild only.
LEMMA StatusHandled ==
    ASSUME IInv, HandleStatus
    PROVE  LET m == Head(socket) IN
           /\ m.kind = "STATUS"
           /\ lost \subseteq lost' /\ \A p : Served(p) => Served(p)'
           /\ \A p \in Pids :
                IF Forces(m)
                THEN /\ index'.by_pid[p] = BootEntry(live[p])
                     /\ index'.by_pid[p] # NoEntry => Taken(p)
                ELSE index'.by_pid[p] = index.by_pid[p]
<1> DEFINE m == Head(socket)
           needed == SourceRestarted(m) \/ CountersChanged(m)
           ix == Rebuild(needed, index)
           r == Resubmit(needed, Requests, ix)
<1>1. m.kind = "STATUS" /\ index' = ix /\ Submitted(r) /\ UNCHANGED <<live, worker>>
  BY DEF HandleStatus
<1>2. needed \in BOOLEAN /\ (needed <=> Forces(m))
  BY <1>1 DEF SourceRestarted, CountersChanged, Forces
<1> HIDE DEF m, needed
<1>3. /\ IndexOK(ix) /\ RequestsOK(r) /\ Grows(Requests, r)
      /\ \A p \in Pids :
           /\ needed => /\ ix.by_pid[p] = BootEntry(live[p])
                        /\ ix.by_pid[p] # NoEntry => Answered(r, RequestFor(ix, p))
           /\ ~ needed => ix.by_pid[p] = index.by_pid[p]
  BY <1>2, RebuildAnswers
<1> HIDE DEF ix, r
<1>4. lost \subseteq lost' /\ \A p : Served(p) => Served(p)'
  BY <1>1, <1>3, SubmittedServes
<1>5. \A p : Answered(r, RequestFor(ix, p)) => Taken(p)
  BY <1>1, SubmittedTakes
<1> QED
  BY <1>1, <1>2, <1>3, <1>4, <1>5 DEF m

\* An event that is not stale changes the entry of its process, besides.
LEMMA EventHandled ==
    ASSUME IInv, HandleEvent, Head(socket).seq > Watermarks(Head(socket)).seq
    PROVE  LET m == Head(socket)
               before(p) == IF Forces(m) THEN BootEntry(live[p]) ELSE index.by_pid[p] IN
           /\ m.kind \in {"START", "EXEC", "EXIT"} /\ m.pid \in Pids /\ m.id \in Identities
           /\ lost \subseteq lost' /\ \A p : Served(p) => Served(p)'
           /\ \A p \in Pids \ {m.pid} :
                /\ index'.by_pid[p] = before(p)
                /\ Forces(m) /\ index'.by_pid[p] # NoEntry => Taken(p)
           /\ m.kind # "EXIT" =>
                /\ \E from \in Entries :
                       index'.by_pid[m.pid] = EntryOf(m.id, classify(m.id, from))
                /\ index'.by_pid[m.pid] # NoEntry => Taken(m.pid)
           /\ m.kind = "EXIT" /\ Agree(m.id.start, before(m.pid).start) =>
                index'.by_pid[m.pid] = NoEntry
<1> DEFINE m == Head(socket)
           needed == SourceRestarted(m) \/ DeliveryGap(m)
           ix == Rebuild(needed, index)
           r == Resubmit(needed, Requests, ix)
           before(p) == IF Forces(m) THEN BootEntry(live[p]) ELSE index.by_pid[p]
           p0 == m.pid
           id == m.id
<1>1. /\ socket # <<>> /\ m.kind # "STATUS" /\ UNCHANGED <<live, worker>>
      /\ index' = Handlers(ix, r, m).index /\ Submitted(Handlers(ix, r, m).requests)
  BY DEF HandleEvent
<1>2. p0 \in Pids /\ id \in Identities /\ m.kind \in {"START", "EXEC", "EXIT"}
  <2>1. socket \in Seq(Datagrams) /\ 1 \in 1..Len(socket) /\ m = socket[1]
    BY <1>1 DEF IInv, SourcesOK
  <2>2. m \in Datagrams /\ m.pid \in Pids
    BY <1>1, <2>1 DEF IInv, SourcesOK
  <2> QED BY <1>1, <2>2 DEF Datagrams
<1>3. needed \in BOOLEAN /\ (needed <=> Forces(m))
  BY <1>1 DEF SourceRestarted, DeliveryGap, Forces
<1> HIDE DEF needed
<1>4. /\ IndexOK(ix) /\ RequestsOK(r) /\ Grows(Requests, r)
      /\ \A p \in Pids :
           /\ needed => /\ ix.by_pid[p] = BootEntry(live[p])
                        /\ ix.by_pid[p] # NoEntry => Answered(r, RequestFor(ix, p))
           /\ ~ needed => ix.by_pid[p] = index.by_pid[p]
  BY <1>3, RebuildAnswers
<1> HIDE DEF ix, r
<1>5. \A p \in Pids : ix.by_pid[p] = before(p)
  BY <1>3, <1>4
<1>6. PICK z, y :
        /\ index' = z /\ Submitted(y) /\ RequestsOK(y) /\ Grows(r, y)
        /\ \A q \in Pids \ {p0} : z.by_pid[q] = ix.by_pid[q]
        /\ m.kind # "EXIT" =>
             /\ \E from \in Entries : z.by_pid[p0] = EntryOf(id, classify(id, from))
             /\ z.by_pid[p0] # NoEntry => Answered(y, RequestFor(z, p0))
        /\ m.kind = "EXIT" /\ Agree(id.start, ix.by_pid[p0].start) => z.by_pid[p0] = NoEntry
  <2> HIDE DEF m
  <2>1. CASE m.kind = "START"
    <3> DEFINE z == process_start(ix, p0, id, m.parent)
               y == Submit(r, z, p0)
    <3>1. Handlers(ix, r, m) = [index |-> z, requests |-> y]
      BY <2>1 DEF Handlers, createProcess
    <3>2. IndexOK(z)
      BY <1>2, <1>4, ProcessStart
    <3>3. /\ \E from \in Entries : z.by_pid[p0] = EntryOf(id, classify(id, from))
          /\ \A q \in Pids \ {p0} : z.by_pid[q] = ix.by_pid[q]
      <4>1. IndexOK(ix) /\ p0 \in Pids /\ id \in Identities
        BY <1>2, <1>4
      <4> HIDE DEF p0, id
      <4> QED BY <4>1, StartEntry
    <3> HIDE DEF z
    <3>4. /\ RequestsOK(y) /\ Grows(r, y)
          /\ z.by_pid[p0] # NoEntry => Answered(y, RequestFor(z, p0))
      BY <1>2, <1>4, <3>2, SubmitAnswers
    <3> HIDE DEF y
    <3>5. index' = z /\ Submitted(y)
      BY <1>1, <3>1
    <3> QED BY <2>1, <3>3, <3>4, <3>5
  <2>2. CASE m.kind = "EXEC"
    <3> DEFINE z == process_exec(ix, p0, id)
               y == Submit(r, z, p0)
    <3>1. Handlers(ix, r, m) = [index |-> z, requests |-> y]
      BY <2>2 DEF Handlers, exeProcess
    <3>2. IndexOK(z)
      BY <1>2, <1>4, ProcessExec
    <3>3. /\ \E from \in Entries : z.by_pid[p0] = EntryOf(id, classify(id, from))
          /\ \A q \in Pids \ {p0} : z.by_pid[q] = ix.by_pid[q]
      BY <1>2, <1>4, ExecEntry
    <3> HIDE DEF z
    <3>4. /\ RequestsOK(y) /\ Grows(r, y)
          /\ z.by_pid[p0] # NoEntry => Answered(y, RequestFor(z, p0))
      BY <1>2, <1>4, <3>2, SubmitAnswers
    <3> HIDE DEF y
    <3>5. index' = z /\ Submitted(y)
      BY <1>1, <3>1
    <3> QED BY <2>2, <3>3, <3>4, <3>5
  <2>3. CASE m.kind = "EXIT"
    <3> DEFINE z == process_exit(ix, p0, id)
    <3>1. Handlers(ix, r, m) = [index |-> z, requests |-> r]
      BY <2>3 DEF Handlers, destroyProcess
    <3>2. /\ Agree(id.start, ix.by_pid[p0].start) => z.by_pid[p0] = NoEntry
          /\ \A q \in Pids \ {p0} : z.by_pid[q] = ix.by_pid[q]
      <4>1. p0 \in Pids /\ IndexOK(ix)
        BY <1>2, <1>4
      <4> HIDE DEF p0, id
      <4> QED BY <4>1, ExitEntry
    <3>3. Grows(r, r)
      <4>1. Len(r.queue) \in Nat
        BY <1>4 DEF RequestsOK, QueueOK
      <4> QED BY <4>1 DEF Grows
    <3> HIDE DEF z
    <3>4. index' = z /\ Submitted(r)
      BY <1>1, <3>1
    <3> QED BY <1>4, <2>3, <3>2, <3>3, <3>4
  <2> QED BY <1>2, <2>1, <2>2, <2>3
<1> HIDE DEF m, p0, id, before
<1>7. RequestsOK(Requests)
  BY DEF IInv, RouterOK, RequestsOK, Requests, QueueOK
<1>8. /\ Grows(Requests, y)
      /\ \A req : Answered(r, req) => Answered(y, req)
  BY <1>4, <1>6, <1>7, GrowsOn
<1>9. lost \subseteq lost' /\ \A p : Served(p) => Served(p)'
  BY <1>1, <1>6, <1>8, SubmittedServes
<1>10. \A p : Answered(y, RequestFor(z, p)) => Taken(p)
  BY <1>6, SubmittedTakes
<1>11. \A p \in Pids \ {p0} :
         /\ index'.by_pid[p] = before(p)
         /\ Forces(m) /\ index'.by_pid[p] # NoEntry => Taken(p)
  <2> TAKE p \in Pids \ {p0}
  <2>1. index'.by_pid[p] = before(p) /\ index'.by_pid[p] = ix.by_pid[p]
    BY <1>5, <1>6
  <2>2. RequestFor(z, p) = RequestFor(ix, p)
    BY <1>6 DEF RequestFor
  <2> QED BY <1>3, <1>4, <1>6, <1>8, <1>10, <2>1, <2>2
<1>12. m.kind # "EXIT" =>
         /\ \E from \in Entries : index'.by_pid[p0] = EntryOf(id, classify(id, from))
         /\ index'.by_pid[p0] # NoEntry => Taken(p0)
  BY <1>6, <1>10
<1>13. m.kind = "EXIT" /\ Agree(id.start, before(p0).start) => index'.by_pid[p0] = NoEntry
  BY <1>2, <1>5, <1>6
<1> QED
  BY <1>2, <1>9, <1>11, <1>12, <1>13 DEF m, p0, id, before

-----------------------------------------------------------------------------
(* The stream of datagrams.                                                *)

\* The helper hears of the kernel's events.
Watching == helper.up /\ ~ helper.flooded

\* The monitor follows the running instance (0: it has not read anything yet).
Current == Watching /\ (monitor.inst = helper.inst \/ (monitor.inst = 0 /\ helper.inst = 1))

\* The datagram with event s of the running instance is not on its way.
Missed(s) ==
    \A i \in 1..Len(socket) :
        ~ (socket[i].inst = helper.inst /\ socket[i].kind # "STATUS" /\ socket[i].seq = s)

\* The monitor has a drop to find out about: from the next counter it reads, or
\* from the sequence numbers, if the first status of the instance hid the drop.
Overdue ==
    \/ /\ monitor.inst = 0 /\ socket[1].drops # helper.drops
    \/ /\ monitor.inst # 0
       /\ monitor.initialized /\ monitor.drops # helper.drops
    \/ /\ monitor.inst # 0
       /\ ~ monitor.initialized \/ ~ monitor.fresh
       /\ monitor.seq > 0
       /\ \E s \in monitor.seq + 1 .. helper.seq : Missed(s)

\* What the monitor has read is older than the datagram.
Ahead(m) ==
    /\ monitor.inst <= m.inst
    /\ monitor.inst = m.inst =>
         /\ m.kind # "STATUS" => monitor.seq < m.seq
         /\ monitor.initialized => monitor.drops <= m.drops

\* The datagram tells of the helper's past; a drop since then left a gap behind it.
Emitted(m) ==
    /\ 1 <= m.inst /\ m.inst <= helper.inst
    /\ IF m.kind = "STATUS" THEN m.pid \notin Pids ELSE m.seq > 0
    /\ m.inst = helper.inst =>
         /\ m.seq <= helper.seq /\ m.drops <= helper.drops
         /\ m.drops < helper.drops => \E s \in m.seq + 1 .. helper.seq : Missed(s)
         /\ helper.drops = 0 => \A s \in m.seq + 1 .. helper.seq : ~ Missed(s)

Follows(m, n) ==
    /\ m.inst <= n.inst
    /\ m.inst = n.inst =>
         /\ m.drops <= n.drops /\ m.seq <= n.seq
         /\ n.kind # "STATUS" => m.seq < n.seq

MonitorOK ==
    /\ monitor \in [inst : Nat, seq : Nat, drops : Nat, overflows : Nat,
                    initialized : BOOLEAN, fresh : BOOLEAN]
    /\ 1 <= helper.inst /\ monitor.inst <= helper.inst
    /\ monitor.inst # 0 /\ ~ monitor.initialized => monitor.seq > 0
    /\ monitor.inst = 0 => socket # <<>> /\ socket[1].kind = "STATUS" /\ socket[1].inst = 1
    /\ monitor.inst = helper.inst =>
         /\ monitor.seq <= helper.seq
         /\ monitor.initialized => monitor.drops <= helper.drops
         /\ helper.drops = 0 => \A s \in monitor.seq + 1 .. helper.seq : ~ Missed(s)

StreamOK ==
    /\ MonitorOK
    /\ \A i \in 1..Len(socket) : Ahead(socket[i]) /\ Emitted(socket[i])
    /\ \A i, j \in 1..Len(socket) : i < j => Follows(socket[i], socket[j])

\* The counters of the helper and of the datagrams are numbers.
LEMMA Counters ==
    ASSUME SourcesOK
    PROVE  /\ helper.inst \in Nat /\ helper.seq \in Nat /\ helper.drops \in Nat
           /\ helper.overflows \in Nat /\ helper.up \in BOOLEAN /\ helper.flooded \in BOOLEAN
           /\ helper.cache \in [Pids -> Identities]
           /\ Len(socket) \in Nat
           /\ \A i \in 1..Len(socket) :
                /\ socket[i] \in Datagrams
                /\ socket[i].inst \in Nat /\ socket[i].seq \in Nat /\ socket[i].drops \in Nat
                /\ socket[i].overflows \in Nat
<1>1. helper \in Helpers /\ socket \in Seq(Datagrams)
  BY DEF SourcesOK
<1>2. Len(socket) \in Nat /\ \A i \in 1..Len(socket) : socket[i] \in Datagrams
  BY <1>1
<1>3. \A m \in Datagrams : m.inst \in Nat /\ m.seq \in Nat /\ m.drops \in Nat /\ m.overflows \in Nat
  BY DEF Datagrams
<1> QED
  BY <1>1, <1>2, <1>3 DEF Helpers

\* A queue with an element more.
LEMMA AppendParts ==
    ASSUME NEW S, NEW q \in Seq(S), NEW e, NEW z, z = Append(q, e)
    PROVE  /\ Len(q) \in Nat /\ Len(z) = Len(q) + 1 /\ z # <<>>
           /\ \A i \in 1..Len(q) : i \in 1..Len(z) /\ z[i] = q[i]
           /\ Len(q) + 1 \in 1..Len(z) /\ z[Len(q) + 1] = e
           /\ \A i \in 1..Len(z) : i \in 1..Len(q) \/ i = Len(q) + 1
           /\ q # <<>> => z[1] = q[1]
<1>1. Len(q) \in Nat
  OBVIOUS
<1>2. /\ Len(z) = Len(q) + 1
      /\ \A i \in 1..Len(q) : z[i] = q[i]
      /\ z[Len(q) + 1] = e
  OBVIOUS
<1>3. q # <<>> => 1 \in 1..Len(q)
  OBVIOUS
<1> QED
  BY <1>1, <1>2, <1>3

\* A queue with its first element taken.
LEMMA TailParts ==
    ASSUME NEW S, NEW q \in Seq(S), q # <<>>, NEW z, z = Tail(q)
    PROVE  /\ Len(q) \in Nat /\ 1 \in 1..Len(q) /\ Head(q) = q[1]
           /\ Len(z) = Len(q) - 1
           /\ \A i \in 1..Len(z) : i + 1 \in 1..Len(q) /\ z[i] = q[i + 1]
           /\ \A i \in 1..Len(q) : i = 1 \/ (i - 1 \in 1..Len(z) /\ z[i - 1] = q[i])
<1>1. Len(q) \in Nat /\ Len(q) # 0
  OBVIOUS
<1>2. Head(q) = q[1] /\ Len(z) = Len(q) - 1
      /\ \A i \in 1..Len(z) : z[i] = q[i + 1]
  BY <1>1
<1>3. \A i \in 1..Len(q) : i = 1 \/ (i - 1 \in 1..Len(z) /\ i = (i - 1) + 1)
  BY <1>1, <1>2
<1>4. \A i \in 1..Len(q) : i = 1 \/ (i - 1 \in 1..Len(z) /\ z[i - 1] = q[i])
  <2> TAKE i \in 1..Len(q)
  <2>1. i - 1 \in 1..Len(z) => z[i - 1] = q[(i - 1) + 1]
    BY <1>2
  <2>2. i = 1 \/ (i - 1 \in 1..Len(z) /\ i = (i - 1) + 1)
    BY <1>3
  <2> QED BY <2>1, <2>2
<1>5. 1 \in 1..Len(q) /\ \A i \in 1..Len(z) : i + 1 \in 1..Len(q)
  BY <1>1, <1>2
<1> QED
  BY <1>1, <1>2, <1>4, <1>5

\* A datagram more.
LEMMA SocketAppend ==
    ASSUME SourcesOK, NEW m, socket' = Append(socket, m)
    PROVE  /\ Len(socket') = Len(socket) + 1 /\ socket' # <<>>
           /\ \A i \in 1..Len(socket) : i \in 1..Len(socket') /\ socket'[i] = socket[i]
           /\ Len(socket) + 1 \in 1..Len(socket') /\ socket'[Len(socket) + 1] = m
           /\ \A i \in 1..Len(socket') : i \in 1..Len(socket) \/ i = Len(socket) + 1
           /\ socket # <<>> => socket'[1] = socket[1]
<1>1. socket \in Seq(Datagrams)
  BY DEF SourcesOK
<1> QED
  BY <1>1, AppendParts

\* A datagram less.
LEMMA SocketTake ==
    ASSUME SourcesOK, socket # <<>>, socket' = Tail(socket)
    PROVE  /\ 1 \in 1..Len(socket) /\ Head(socket) = socket[1]
           /\ Len(socket') = Len(socket) - 1
           /\ \A i \in 1..Len(socket') : i + 1 \in 1..Len(socket) /\ socket'[i] = socket[i + 1]
           /\ \A i \in 1..Len(socket) : i = 1 \/ (i - 1 \in 1..Len(socket') /\ socket'[i - 1] = socket[i])
<1>1. socket \in Seq(Datagrams)
  BY DEF SourcesOK
<1> QED
  BY <1>1, TailParts

\* A datagram more misses one event less.
LEMMA MissedSent ==
    ASSUME SourcesOK, NEW m, socket' = Append(socket, m), helper'.inst = helper.inst
    PROVE  \A s : Missed(s)' <=> /\ Missed(s)
                                /\ ~ (m.inst = helper.inst /\ m.kind # "STATUS" /\ m.seq = s)
<1>1. /\ \A i \in 1..Len(socket) : i \in 1..Len(socket') /\ socket'[i] = socket[i]
      /\ Len(socket) + 1 \in 1..Len(socket') /\ socket'[Len(socket) + 1] = m
      /\ \A i \in 1..Len(socket') : i \in 1..Len(socket) \/ i = Len(socket) + 1
  BY SocketAppend
<1> QED
  BY <1>1 DEF Missed

\* A datagram taken leaves its event missed.
LEMMA MissedTaken ==
    ASSUME SourcesOK, socket # <<>>, socket' = Tail(socket), helper'.inst = helper.inst
    PROVE  LET m == Head(socket) IN
           \A s : Missed(s) <=> /\ Missed(s)'
                               /\ ~ (m.inst = helper.inst /\ m.kind # "STATUS" /\ m.seq = s)
<1>1. /\ 1 \in 1..Len(socket) /\ Head(socket) = socket[1]
      /\ \A i \in 1..Len(socket') : i + 1 \in 1..Len(socket) /\ socket'[i] = socket[i + 1]
      /\ \A i \in 1..Len(socket) : i = 1 \/ (i - 1 \in 1..Len(socket') /\ socket'[i - 1] = socket[i])
  BY SocketTake
<1> DEFINE m == Head(socket)
<1>2. \A s : Missed(s) => Missed(s)'
                         /\ ~ (m.inst = helper.inst /\ m.kind # "STATUS" /\ m.seq = s)
  BY <1>1 DEF Missed
<1>3. ASSUME NEW s, Missed(s)', ~ (m.inst = helper.inst /\ m.kind # "STATUS" /\ m.seq = s)
      PROVE  Missed(s)
  <2> SUFFICES ASSUME NEW i \in 1..Len(socket)
               PROVE  ~ (socket[i].inst = helper.inst /\ socket[i].kind # "STATUS" /\ socket[i].seq = s)
    BY DEF Missed
  <2>1. CASE i = 1
    BY <1>1, <1>3, <2>1
  <2>2. CASE i # 1
    <3>1. i - 1 \in 1..Len(socket') /\ socket'[i - 1] = socket[i]
      BY <1>1, <2>2
    <3>2. \A j \in 1..Len(socket') :
            ~ (socket'[j].inst = helper.inst /\ socket'[j].kind # "STATUS" /\ socket'[j].seq = s)
      BY <1>3 DEF Missed
    <3> QED BY <3>1, <3>2
  <2> QED BY <2>1, <2>2
<1> QED
  BY <1>2, <1>3

\* Steps that leave the stream and its counters alone.
LEMMA StreamSame ==
    ASSUME StreamOK, UNCHANGED <<socket, monitor>>,
           helper'.inst = helper.inst, helper'.seq = helper.seq, helper'.drops = helper.drops
    PROVE  StreamOK' /\ (Overdue' <=> Overdue)
  BY DEF StreamOK, MonitorOK, Ahead, Emitted, Follows, Missed, Overdue

\* The next datagram of the running instance is sent.
LEMMA StreamSent ==
    ASSUME SourcesOK, StreamOK, NEW m, socket' = Append(socket, m), UNCHANGED monitor,
           helper'.inst = helper.inst, helper'.drops = helper.drops,
           m.inst = helper.inst, m.drops = helper.drops, m.seq = helper'.seq,
           helper'.seq = IF m.kind = "STATUS" THEN helper.seq ELSE helper.seq + 1,
           m.kind = "STATUS" => m.pid \notin Pids
    PROVE  StreamOK' /\ (Overdue => Overdue')
<1>1. /\ Len(socket') = Len(socket) + 1 /\ socket' # <<>>
      /\ \A i \in 1..Len(socket) : i \in 1..Len(socket') /\ socket'[i] = socket[i]
      /\ Len(socket) + 1 \in 1..Len(socket') /\ socket'[Len(socket) + 1] = m
      /\ \A i \in 1..Len(socket') : i \in 1..Len(socket) \/ i = Len(socket) + 1
      /\ socket # <<>> => socket'[1] = socket[1]
  BY SocketAppend
<1>2. /\ helper.inst \in Nat /\ helper.seq \in Nat /\ helper.drops \in Nat /\ Len(socket) \in Nat
      /\ helper'.seq \in Nat /\ helper.seq <= helper'.seq
      /\ \A i \in 1..Len(socket) : socket[i].inst \in Nat /\ socket[i].seq \in Nat
                                   /\ socket[i].drops \in Nat
  BY Counters
<1>3. \A s : Missed(s)' <=> /\ Missed(s)
                           /\ ~ (m.inst = helper.inst /\ m.kind # "STATUS" /\ m.seq = s)
  BY MissedSent
<1>4. ASSUME NEW n \in Nat
      PROVE  /\ (\E s \in n + 1 .. helper.seq : Missed(s)) =>
                    \E s \in n + 1 .. helper'.seq : Missed(s)'
             /\ (\A s \in n + 1 .. helper.seq : ~ Missed(s)) =>
                    \A s \in n + 1 .. helper'.seq : ~ Missed(s)'
  <2>1. \A s \in n + 1 .. helper.seq : s \in n + 1 .. helper'.seq /\ (Missed(s) => Missed(s)')
    BY <1>2, <1>3
  <2>2. \A s \in n + 1 .. helper'.seq : s \in n + 1 .. helper.seq \/ ~ Missed(s)'
    BY <1>2, <1>3
  <2>3. \A s : Missed(s)' => Missed(s)
    BY <1>3
  <2> QED BY <2>1, <2>2, <2>3
<1>5. monitor.inst \in Nat /\ monitor.seq \in Nat /\ monitor.drops \in Nat
  BY DEF StreamOK, MonitorOK
<1>6. MonitorOK'
  <2>1. monitor.inst = helper.inst =>
          /\ monitor.seq <= helper'.seq
          /\ monitor.initialized => monitor.drops <= helper.drops
          /\ helper.drops = 0 => \A s \in monitor.seq + 1 .. helper'.seq : ~ Missed(s)'
    <3>1. monitor.inst = helper.inst =>
            /\ monitor.seq <= helper.seq
            /\ monitor.initialized => monitor.drops <= helper.drops
            /\ helper.drops = 0 => \A s \in monitor.seq + 1 .. helper.seq : ~ Missed(s)
      BY DEF StreamOK, MonitorOK
    <3>2. (\A s \in monitor.seq + 1 .. helper.seq : ~ Missed(s)) =>
              \A s \in monitor.seq + 1 .. helper'.seq : ~ Missed(s)'
      BY <1>4, <1>5
    <3>3. monitor.seq <= helper.seq => monitor.seq <= helper'.seq
      BY <1>2, <1>5
    <3> QED BY <3>1, <3>2, <3>3
  <2> QED BY <1>1, <2>1 DEF StreamOK, MonitorOK
<1>7. Ahead(m) /\ Emitted(m)'
  <2>1. Ahead(m)
    BY <1>2, <1>5 DEF StreamOK, MonitorOK, Ahead
  <2>2. 1 <= helper.inst
    BY DEF StreamOK, MonitorOK
  <2>3. m.kind # "STATUS" => m.seq > 0
    BY <1>2
  <2>4. ~ (m.drops < helper'.drops) /\ m.seq <= helper'.seq /\ m.drops <= helper'.drops
    BY <1>2
  <2>5. \A s \in m.seq + 1 .. helper'.seq : FALSE
    BY <1>2
  <2>6. Emitted(m)'
    <3>1. 1 <= m.inst /\ m.inst <= helper'.inst
      BY <1>2, <2>2
    <3>2. IF m.kind = "STATUS" THEN m.pid \notin Pids ELSE m.seq > 0
      BY <2>3
    <3> QED BY <2>4, <2>5, <3>1, <3>2 DEF Emitted
  <2> QED BY <2>1, <2>6
<1>8. ASSUME NEW i \in 1..Len(socket)
      PROVE  Ahead(socket[i]) /\ Emitted(socket[i])' /\ Follows(socket[i], m)
  <2>1. Ahead(socket[i]) /\ Emitted(socket[i])
    BY DEF StreamOK
  <2>2. socket[i] = socket'[i]
    BY <1>1
  <2> DEFINE n == socket[i]
  <2>3. n.seq \in Nat /\ n.inst \in Nat /\ n.drops \in Nat
    BY <1>2
  <2>4. /\ (\E s \in n.seq + 1 .. helper.seq : Missed(s)) =>
                    \E s \in n.seq + 1 .. helper'.seq : Missed(s)'
        /\ (\A s \in n.seq + 1 .. helper.seq : ~ Missed(s)) =>
                    \A s \in n.seq + 1 .. helper'.seq : ~ Missed(s)'
    BY <1>4, <2>3
  <2>5. /\ 1 <= n.inst /\ n.inst <= helper.inst
        /\ IF n.kind = "STATUS" THEN n.pid \notin Pids ELSE n.seq > 0
        /\ n.inst = helper.inst =>
             /\ n.seq <= helper'.seq /\ n.drops <= helper.drops
             /\ n.drops < helper.drops => \E s \in n.seq + 1 .. helper'.seq : Missed(s)'
             /\ helper.drops = 0 => \A s \in n.seq + 1 .. helper'.seq : ~ Missed(s)'
    <3>1. /\ 1 <= n.inst /\ n.inst <= helper.inst
          /\ IF n.kind = "STATUS" THEN n.pid \notin Pids ELSE n.seq > 0
          /\ n.inst = helper.inst =>
               /\ n.seq <= helper.seq /\ n.drops <= helper.drops
               /\ n.drops < helper.drops => \E s \in n.seq + 1 .. helper.seq : Missed(s)
               /\ helper.drops = 0 => \A s \in n.seq + 1 .. helper.seq : ~ Missed(s)
      BY <2>1 DEF Emitted
    <3>2. n.seq <= helper.seq => n.seq <= helper'.seq
      BY <1>2, <2>3
    <3> HIDE DEF n
    <3> QED BY <2>4, <3>1, <3>2
  <2>6. Emitted(socket[i])'
    BY <2>2, <2>5 DEF Emitted
  <2>7. Follows(socket[i], m)
    BY <1>2, <2>1, <2>3 DEF Emitted, Follows
  <2> QED BY <2>1, <2>6, <2>7
<1>9. \A i \in 1..Len(socket') : Ahead(socket[i])' /\ Emitted(socket[i])'
  <2> TAKE i \in 1..Len(socket')
  <2>1. CASE i \in 1..Len(socket)
    <3>1. Ahead(socket[i])
      BY <1>8, <2>1
    <3> QED BY <1>1, <1>8, <2>1, <3>1 DEF Ahead
  <2>2. CASE i = Len(socket) + 1
    <3>1. socket'[i] = m
      BY <1>1, <2>2
    <3> QED BY <1>7, <3>1 DEF Ahead, Emitted
  <2> QED BY <1>1, <2>1, <2>2
<1>10. \A i, j \in 1..Len(socket') : i < j => Follows(socket'[i], socket'[j])
  <2> SUFFICES ASSUME NEW i \in 1..Len(socket'), NEW j \in 1..Len(socket'), i < j
               PROVE  Follows(socket'[i], socket'[j])
    OBVIOUS
  <2>1. i \in 1..Len(socket) /\ socket'[i] = socket[i]
    BY <1>1, <1>2
  <2>2. CASE j \in 1..Len(socket)
    BY <1>1, <2>1, <2>2 DEF StreamOK
  <2>3. CASE j = Len(socket) + 1
    BY <1>1, <1>8, <2>1, <2>3
  <2> QED BY <1>1, <2>2, <2>3
<1>11. Overdue => Overdue'
  <2>1. monitor.inst = 0 => socket'[1] = socket[1]
    BY <1>1 DEF StreamOK, MonitorOK
  <2> QED BY <1>4, <1>5, <2>1 DEF Overdue
<1> QED
  BY <1>6, <1>9, <1>10, <1>11 DEF StreamOK, Follows

\* An event does not fit into the socket: the monitor has something to find out.
LEMMA StreamDropped ==
    ASSUME SourcesOK, StreamOK, socket # <<>>, UNCHANGED <<socket, monitor>>,
           helper'.inst = helper.inst, helper'.seq = helper.seq + 1, helper'.drops = helper.drops + 1
    PROVE  StreamOK' /\ (Current' => Overdue')
<1>1. /\ helper.inst \in Nat /\ helper.seq \in Nat /\ helper.drops \in Nat /\ Len(socket) \in Nat
      /\ \A i \in 1..Len(socket) : socket[i].inst \in Nat /\ socket[i].seq \in Nat
                                   /\ socket[i].drops \in Nat
  BY Counters
<1>2. monitor.inst \in Nat /\ monitor.seq \in Nat /\ monitor.drops \in Nat
  BY DEF StreamOK, MonitorOK
<1>3. \A s : Missed(s)' <=> Missed(s)
  BY DEF Missed
<1>4. \A s : s = helper.seq + 1 => Missed(s)'
  <2>1. \A i \in 1..Len(socket) : socket[i].inst = helper.inst => socket[i].seq # helper.seq + 1
    BY <1>1 DEF StreamOK, Emitted
  <2> QED BY <1>3, <2>1 DEF Missed
<1>5. \A n \in Nat : n <= helper.seq => \E s \in n + 1 .. helper'.seq : Missed(s)'
  <2> TAKE n \in Nat
  <2>1. n <= helper.seq => helper.seq + 1 \in n + 1 .. helper'.seq
    BY <1>1
  <2> QED BY <1>4, <2>1
<1>6. MonitorOK'
  BY <1>1, <1>2, <1>3 DEF StreamOK, MonitorOK
<1>7. ASSUME NEW i \in 1..Len(socket)
      PROVE  Ahead(socket[i])' /\ Emitted(socket[i])'
  <2> DEFINE n == socket[i]
  <2>1. n.seq \in Nat /\ n.inst \in Nat /\ n.drops \in Nat
    BY <1>1
  <2>2. n.seq <= helper.seq => \E s \in n.seq + 1 .. helper'.seq : Missed(s)'
    BY <1>5, <2>1
  <2>3. Ahead(socket[i]) /\ Emitted(socket[i])
    BY DEF StreamOK
  <2>4. /\ 1 <= n.inst /\ n.inst <= helper'.inst
        /\ IF n.kind = "STATUS" THEN n.pid \notin Pids ELSE n.seq > 0
        /\ n.inst = helper'.inst =>
             /\ n.seq <= helper'.seq /\ n.drops <= helper'.drops
             /\ n.drops < helper'.drops => \E s \in n.seq + 1 .. helper'.seq : Missed(s)'
             /\ helper'.drops # 0
    <3>1. /\ 1 <= n.inst /\ n.inst <= helper.inst
          /\ IF n.kind = "STATUS" THEN n.pid \notin Pids ELSE n.seq > 0
          /\ n.inst = helper.inst => n.seq <= helper.seq /\ n.drops <= helper.drops
      BY <2>3 DEF Emitted
    <3> HIDE DEF n
    <3>2. /\ helper'.drops # 0
          /\ n.seq <= helper.seq => n.seq <= helper'.seq
          /\ n.drops <= helper.drops => n.drops <= helper'.drops
      <4>1. helper.seq \in Nat /\ helper.drops \in Nat
        BY <1>1
      <4> QED BY <2>1, <4>1
    <3> QED BY <2>2, <3>1, <3>2
  <2>5. Emitted(socket[i])'
    BY <2>4 DEF Emitted
  <2> QED BY <2>3, <2>5 DEF Ahead
<1>8. StreamOK'
  BY <1>6, <1>7 DEF StreamOK, Follows
<1>9. Current' => Overdue'
  <2> SUFFICES ASSUME Current' PROVE Overdue'
    OBVIOUS
  <2>1. CASE monitor.inst = 0
    <3>1. 1 \in 1..Len(socket) /\ socket[1].inst = helper.inst
      BY <1>1, <2>1 DEF StreamOK, MonitorOK, Current
    <3>2. socket[1].drops <= helper.drops
      BY <3>1 DEF StreamOK, Emitted
    <3>3. socket[1].drops # helper'.drops
      BY <1>1, <3>1, <3>2
    <3> QED BY <2>1, <3>3 DEF Overdue
  <2>2. CASE monitor.inst # 0
    <3>1. monitor.inst = helper.inst /\ monitor.seq <= helper.seq
          /\ (monitor.initialized => monitor.drops # helper'.drops)
          /\ (~ monitor.initialized => monitor.seq > 0)
      BY <1>1, <1>2, <2>2 DEF StreamOK, MonitorOK, Current
    <3>2. \E s \in monitor.seq + 1 .. helper'.seq : Missed(s)'
      BY <1>2, <1>5, <3>1
    <3> QED BY <2>2, <3>1, <3>2 DEF Overdue
  <2> QED BY <2>1, <2>2
<1> QED
  BY <1>8, <1>9

\* A new instance starts, and its first status may fit into the socket.
LEMMA StreamRestart ==
    ASSUME SourcesOK, StreamOK, UNCHANGED monitor,
           helper'.inst = helper.inst + 1, helper'.seq = 0, helper'.drops = 0,
           NEW m, m.kind = "STATUS", m.pid \notin Pids, m.inst = helper'.inst, m.seq = 0, m.drops = 0,
           socket' = Append(socket, m) \/ (socket # <<>> /\ socket' = socket)
    PROVE  StreamOK' /\ ~ Current'
<1>1. /\ helper.inst \in Nat /\ helper.seq \in Nat /\ helper.drops \in Nat /\ Len(socket) \in Nat
      /\ \A i \in 1..Len(socket) : socket[i].inst \in Nat /\ socket[i].seq \in Nat
                                   /\ socket[i].drops \in Nat
  BY Counters
<1>2. monitor.inst \in Nat /\ monitor.inst <= helper.inst /\ 1 <= helper.inst
  BY DEF StreamOK, MonitorOK
<1>3. /\ \A i \in 1..Len(socket) : i \in 1..Len(socket') /\ socket'[i] = socket[i]
      /\ \A i \in 1..Len(socket') : i \in 1..Len(socket)
                                    \/ (i = Len(socket) + 1 /\ socket'[i] = m)
      /\ socket # <<>> => socket' # <<>> /\ socket'[1] = socket[1]
  <2>1. CASE socket' = Append(socket, m)
    <3>1. /\ Len(socket') = Len(socket) + 1 /\ socket' # <<>>
          /\ \A i \in 1..Len(socket) : i \in 1..Len(socket') /\ socket'[i] = socket[i]
          /\ Len(socket) + 1 \in 1..Len(socket') /\ socket'[Len(socket) + 1] = m
          /\ \A i \in 1..Len(socket') : i \in 1..Len(socket) \/ i = Len(socket) + 1
          /\ socket # <<>> => socket'[1] = socket[1]
      BY <2>1, SocketAppend
    <3> QED BY <3>1
  <2>2. CASE socket' = socket
    BY <2>2
  <2> QED BY <2>1, <2>2
<1>4. MonitorOK'
  BY <1>1, <1>2, <1>3 DEF StreamOK, MonitorOK
<1>5. Ahead(m) /\ Emitted(m)'
  BY <1>1, <1>2 DEF Ahead, Emitted
<1>6. ASSUME NEW i \in 1..Len(socket)
      PROVE  Ahead(socket[i]) /\ Emitted(socket[i])' /\ Follows(socket[i], m)
  <2>1. Ahead(socket[i]) /\ Emitted(socket[i]) /\ socket'[i] = socket[i]
    BY <1>3 DEF StreamOK
  <2>2. 1 <= socket[i].inst /\ socket[i].inst <= helper.inst /\ socket[i].inst < helper'.inst
        /\ (IF socket[i].kind = "STATUS" THEN socket[i].pid \notin Pids ELSE socket[i].seq > 0)
    BY <1>1, <2>1 DEF Emitted
  <2>3. Emitted(socket[i])'
    BY <1>1, <2>1, <2>2 DEF Emitted
  <2>4. Follows(socket[i], m)
    BY <1>1, <2>2 DEF Follows
  <2> QED BY <2>1, <2>3, <2>4
<1>7. \A i \in 1..Len(socket') : Ahead(socket[i])' /\ Emitted(socket[i])'
  <2> TAKE i \in 1..Len(socket')
  <2>1. CASE i \in 1..Len(socket)
    <3>1. Ahead(socket[i])
      BY <1>6, <2>1
    <3> QED BY <1>3, <1>6, <2>1, <3>1 DEF Ahead
  <2>2. CASE socket'[i] = m
    BY <1>5, <2>2 DEF Ahead, Emitted
  <2> QED BY <1>3, <2>1, <2>2
<1>8. \A i, j \in 1..Len(socket') : i < j => Follows(socket'[i], socket'[j])
  <2> SUFFICES ASSUME NEW i \in 1..Len(socket'), NEW j \in 1..Len(socket'), i < j
               PROVE  Follows(socket'[i], socket'[j])
    OBVIOUS
  <2>0. i \in Nat /\ j \in Nat
    OBVIOUS
  <2>1. CASE j \in 1..Len(socket)
    <3>1. i \in 1..Len(socket)
      BY <1>1, <2>0, <2>1
    <3> QED BY <1>3, <2>1, <3>1 DEF StreamOK
  <2>2. CASE j = Len(socket) + 1 /\ socket'[j] = m
    <3>1. i \in 1..Len(socket)
      BY <1>1, <1>3, <2>0, <2>2
    <3> QED BY <1>3, <1>6, <2>2, <3>1
  <2> QED BY <1>3, <2>1, <2>2
<1>9. ~ Current'
  BY <1>1, <1>2 DEF Current
<1> QED
  BY <1>4, <1>7, <1>8, <1>9 DEF StreamOK, Follows

\* What the monitor keeps of a datagram.
LEMMA MonitorStep ==
    ASSUME SourcesOK, StreamOK, HandleStatus \/ HandleEvent
    PROVE  LET m == Head(socket)
               w == Watermarks(m) IN
           /\ socket # <<>> /\ socket' = Tail(socket) /\ UNCHANGED <<live, netlink, helper>>
           /\ IF m.inst = monitor.inst THEN w = monitor
              ELSE w.seq = 0 /\ w.drops = 0 /\ ~ w.initialized /\ w.fresh /\ w.overflows = 0
           /\ monitor' \in [inst : Nat, seq : Nat, drops : Nat, overflows : Nat,
                            initialized : BOOLEAN, fresh : BOOLEAN]
           /\ monitor'.inst = m.inst
           /\ m.kind = "STATUS" =>
                /\ monitor'.initialized /\ monitor'.drops = m.drops
                /\ monitor'.seq = IF w.seq = 0 THEN m.seq ELSE w.seq
                /\ ~ Forces(m) => (monitor'.fresh <=> IF w.initialized THEN w.fresh ELSE m.drops = 0)
           /\ m.kind # "STATUS" =>
                /\ w.seq < m.seq
                /\ (monitor'.initialized <=> w.initialized) /\ monitor'.drops = w.drops
                /\ monitor'.seq = m.seq
                /\ ~ Forces(m) => (monitor'.fresh <=> w.fresh)
<1> DEFINE m == Head(socket)
           w == Watermarks(m)
           M == [inst : Nat, seq : Nat, drops : Nat, overflows : Nat,
                 initialized : BOOLEAN, fresh : BOOLEAN]
<1>1. socket # <<>> /\ socket' = Tail(socket) /\ UNCHANGED <<live, netlink, helper>>
  BY DEF HandleStatus, HandleEvent
<1>2. 1 \in 1..Len(socket) /\ m = socket[1]
  BY <1>1, SocketTake
<1>3. m \in Datagrams /\ m.inst \in Nat /\ m.seq \in Nat /\ m.drops \in Nat /\ m.overflows \in Nat
  BY <1>2, Counters
<1>4. Ahead(m) /\ Emitted(m) /\ monitor \in M
  BY <1>2 DEF StreamOK, MonitorOK
<1>5. w = IF m.inst = monitor.inst THEN monitor
          ELSE [inst |-> m.inst, seq |-> 0, drops |-> 0, overflows |-> 0,
                initialized |-> FALSE, fresh |-> TRUE]
  BY DEF Watermarks
<1>6. /\ IF m.inst = monitor.inst THEN w = monitor
         ELSE w.seq = 0 /\ w.drops = 0 /\ ~ w.initialized /\ w.fresh /\ w.overflows = 0
      /\ w \in M /\ w.inst = m.inst
  <2> HIDE DEF m, w
  <2>1. CASE m.inst = monitor.inst
    BY <1>4, <1>5, <2>1
  <2>2. CASE m.inst # monitor.inst
    BY <1>3, <1>5, <2>2
  <2> QED BY <2>1, <2>2
<1>7. m.kind # "STATUS" => w.seq < m.seq
  BY <1>3, <1>4, <1>6 DEF Ahead, Emitted
<1> HIDE DEF m, w
<1>8. CASE HandleStatus
  <2> DEFINE needed == SourceRestarted(m) \/ CountersChanged(m)
             f == \/ needed
                  \/ IF w.initialized THEN w.fresh ELSE m.drops = 0
             q == IF w.seq = 0 THEN m.seq ELSE w.seq
  <2>1. m.kind = "STATUS"
        /\ monitor' = [w EXCEPT !.drops = m.drops, !.overflows = m.overflows,
                                !.initialized = TRUE, !.seq = q, !.fresh = f]
    BY <1>6, <1>8 DEF HandleStatus, m, w
  <2>2. needed <=> Forces(m)
    BY <2>1 DEF Forces, SourceRestarted, CountersChanged
  <2>3. f \in BOOLEAN /\ q \in Nat /\ (~ Forces(m) => (f <=> IF w.initialized THEN w.fresh ELSE m.drops = 0))
    BY <1>3, <1>6, <2>2 DEF SourceRestarted, CountersChanged
  <2>4. q = IF w.seq = 0 THEN m.seq ELSE w.seq
    OBVIOUS
  <2> HIDE DEF f, q, needed
  <2>5. /\ monitor' \in M /\ monitor'.inst = m.inst /\ monitor'.drops = m.drops
        /\ monitor'.initialized /\ monitor'.seq = q /\ monitor'.fresh = f
    BY <1>3, <1>6, <2>1, <2>3
  <2> QED BY <1>1, <1>6, <2>1, <2>3, <2>4, <2>5 DEF m, w
<1>9. CASE HandleEvent
  <2> DEFINE needed == SourceRestarted(m) \/ DeliveryGap(m)
             f == w.fresh \/ needed
  <2>1. m.kind # "STATUS"
        /\ monitor' = [w EXCEPT !.seq = IF m.seq > @ THEN m.seq ELSE @, !.fresh = @ \/ needed]
    BY <1>9 DEF HandleEvent, m, w
  <2>2. monitor' = [w EXCEPT !.seq = m.seq, !.fresh = f]
    BY <1>3, <1>6, <1>7, <2>1
  <2>3. needed <=> Forces(m)
    BY <2>1 DEF Forces, SourceRestarted, DeliveryGap
  <2>4. f \in BOOLEAN /\ (~ Forces(m) => (f <=> w.fresh))
    BY <1>6, <2>3 DEF SourceRestarted, DeliveryGap
  <2> HIDE DEF f, needed
  <2>5. /\ monitor' \in M /\ monitor'.inst = m.inst /\ monitor'.drops = w.drops
        /\ monitor'.initialized = w.initialized /\ monitor'.seq = m.seq /\ monitor'.fresh = f
    BY <1>3, <1>6, <2>2, <2>4
  <2> QED BY <1>1, <1>6, <1>7, <2>1, <2>4, <2>5 DEF m, w
<1> QED
  BY <1>8, <1>9

\* Reading a datagram keeps the stream in order.  What is left to find out stays
\* so unless the monitor rebuilds its index, and after an event that was sent
\* before the last drop there is something left to find out.
LEMMA StreamHandled ==
    ASSUME SourcesOK, StreamOK, HandleStatus \/ HandleEvent
    PROVE  LET m == Head(socket) IN
           /\ StreamOK'
           /\ Current' => m.inst = helper.inst /\ (Current \/ Forces(m))
           /\ Current' /\ Overdue /\ ~ Forces(m) => Overdue'
           /\ Current' /\ m.kind # "STATUS" /\ ~ Overdue' => m.drops = helper.drops
           /\ m.kind # "STATUS" => m.seq > Watermarks(m).seq
<1> DEFINE m == Head(socket)
           w == Watermarks(m)
           M == [inst : Nat, seq : Nat, drops : Nat, overflows : Nat,
                 initialized : BOOLEAN, fresh : BOOLEAN]
<1>1. /\ socket # <<>> /\ socket' = Tail(socket) /\ UNCHANGED <<live, netlink, helper>>
      /\ IF m.inst = monitor.inst THEN w = monitor
         ELSE w.seq = 0 /\ w.drops = 0 /\ ~ w.initialized /\ w.fresh /\ w.overflows = 0
      /\ monitor' \in M
      /\ monitor'.inst = m.inst
      /\ m.kind = "STATUS" =>
           /\ monitor'.initialized /\ monitor'.drops = m.drops
           /\ monitor'.seq = IF w.seq = 0 THEN m.seq ELSE w.seq
           /\ ~ Forces(m) => (monitor'.fresh <=> IF w.initialized THEN w.fresh ELSE m.drops = 0)
      /\ m.kind # "STATUS" =>
           /\ w.seq < m.seq
           /\ (monitor'.initialized <=> w.initialized) /\ monitor'.drops = w.drops
           /\ monitor'.seq = m.seq
           /\ ~ Forces(m) => (monitor'.fresh <=> w.fresh)
  BY MonitorStep
<1>2. /\ 1 \in 1..Len(socket) /\ m = socket[1]
      /\ Len(socket') = Len(socket) - 1
      /\ \A i \in 1..Len(socket') : i + 1 \in 1..Len(socket) /\ socket'[i] = socket[i + 1]
      /\ \A i \in 1..Len(socket) : i = 1 \/ (i - 1 \in 1..Len(socket') /\ socket'[i - 1] = socket[i])
  BY <1>1, SocketTake
<1>3. /\ helper.inst \in Nat /\ helper.seq \in Nat /\ helper.drops \in Nat /\ Len(socket) \in Nat
      /\ \A i \in 1..Len(socket) : socket[i].inst \in Nat /\ socket[i].seq \in Nat
                                   /\ socket[i].drops \in Nat
  BY Counters
<1>4. m.inst \in Nat /\ m.seq \in Nat /\ m.drops \in Nat
  BY <1>2, <1>3
<1>5. \A s : Missed(s) <=> /\ Missed(s)'
                          /\ ~ (m.inst = helper.inst /\ m.kind # "STATUS" /\ m.seq = s)
  BY <1>1, MissedTaken
<1>6. Ahead(m) /\ Emitted(m) /\ monitor \in M /\ MonitorOK
  BY <1>2 DEF StreamOK, MonitorOK
<1>7. \A i \in 1..Len(socket') : Ahead(socket'[i]) /\ Emitted(socket'[i]) /\ Follows(m, socket'[i])
  <2> TAKE i \in 1..Len(socket')
  <2>1. i + 1 \in 1..Len(socket) /\ socket'[i] = socket[i + 1] /\ 1 < i + 1
    BY <1>2
  <2>2. Follows(socket[1], socket[i + 1])
    BY <1>2, <2>1 DEF StreamOK
  <2> QED BY <1>2, <2>1, <2>2 DEF StreamOK
<1>8. \A i \in 1..Len(socket') : socket'[i].inst \in Nat /\ socket'[i].seq \in Nat
                                 /\ socket'[i].drops \in Nat
  BY <1>2, <1>3
<1> HIDE DEF m
<1>w. w.seq = IF m.inst = monitor.inst THEN monitor.seq ELSE 0
  BY <1>1
<1> HIDE DEF w
<1>9. monitor'.seq \in Nat /\ monitor'.drops \in Nat /\ monitor'.inst \in Nat
  BY <1>1
<1>10. ASSUME NEW s \in Nat, s > m.seq \/ m.kind = "STATUS"
       PROVE  Missed(s)' <=> Missed(s)
  BY <1>4, <1>5, <1>10
<1>11. MonitorOK'
  <2>1. monitor'.inst # 0 /\ (~ monitor'.initialized => monitor'.seq > 0)
    BY <1>1, <1>4, <1>6, <1>w DEF Emitted
  <2>2. ASSUME m.inst = helper.inst
        PROVE  /\ monitor'.seq <= helper.seq
               /\ monitor'.initialized => monitor'.drops <= helper.drops
               /\ helper.drops = 0 => \A s \in monitor'.seq + 1 .. helper.seq : ~ Missed(s)'
    <3>1. monitor'.seq <= helper.seq
      BY <1>1, <1>4, <1>6, <1>w, <2>2 DEF Emitted, MonitorOK
    <3>2. monitor'.initialized => monitor'.drops <= helper.drops
      BY <1>1, <1>4, <1>6, <2>2 DEF Emitted, MonitorOK
    <3>3. ASSUME helper.drops = 0, NEW s \in monitor'.seq + 1 .. helper.seq
          PROVE  ~ Missed(s)'
      <4>1. s \in Nat /\ s > monitor'.seq /\ s <= helper.seq
        BY <1>3, <1>9
      <4>2. s > m.seq \/ m.kind = "STATUS"
        BY <1>1, <4>1
      <4>3. s \in m.seq + 1 .. helper.seq \/ (m.inst = monitor.inst /\ s \in monitor.seq + 1 .. helper.seq)
        BY <1>1, <1>3, <1>4, <1>6, <1>w, <4>1
      <4>4. ~ Missed(s)
        BY <1>6, <2>2, <3>3, <4>3 DEF Emitted, MonitorOK
      <4> QED BY <1>10, <4>1, <4>2, <4>4
    <3> QED BY <3>1, <3>2, <3>3
  <2>3. 1 <= helper.inst /\ m.inst <= helper.inst
    BY <1>6 DEF Emitted, MonitorOK
  <2> QED BY <1>1, <2>1, <2>2, <2>3 DEF MonitorOK
<1>12. ASSUME NEW i \in 1..Len(socket')
       PROVE  Ahead(socket[i])' /\ Emitted(socket[i])'
  <2> DEFINE n == socket'[i]
  <2>1. Ahead(n) /\ Emitted(n) /\ Follows(m, n)
    BY <1>7
  <2>2. n.inst \in Nat /\ n.seq \in Nat /\ n.drops \in Nat
    BY <1>8
  <2> HIDE DEF n
  <2>3. Ahead(socket[i])'
    <3>1. m.inst <= n.inst
      BY <2>1 DEF Follows
    <3>2. m.inst = n.inst /\ n.kind # "STATUS" => monitor'.seq < n.seq
      BY <1>1, <1>4, <1>6, <1>w, <2>1, <2>2 DEF Follows, Ahead
    <3>3. m.inst = n.inst /\ monitor'.initialized => monitor'.drops <= n.drops
      BY <1>1, <1>4, <1>6, <2>1, <2>2 DEF Follows, Ahead
    <3>4. /\ monitor'.inst <= n.inst
          /\ monitor'.inst = n.inst =>
               /\ n.kind # "STATUS" => monitor'.seq < n.seq
               /\ monitor'.initialized => monitor'.drops <= n.drops
      BY <1>1, <3>1, <3>2, <3>3
    <3> QED BY <3>4 DEF n, Ahead
  <2>4. Emitted(socket[i])'
    <3>1. \A s \in n.seq + 1 .. helper.seq : Missed(s) => Missed(s)'
      BY <1>5
    <3>2. n.inst = helper.inst /\ helper.drops = 0 =>
            \A s \in n.seq + 1 .. helper.seq : ~ Missed(s)'
      <4> SUFFICES ASSUME n.inst = helper.inst, helper.drops = 0,
                          NEW s \in n.seq + 1 .. helper.seq
                   PROVE  ~ Missed(s)'
        OBVIOUS
      <4>1. s \in Nat /\ ~ Missed(s)
        BY <1>3, <2>1, <2>2 DEF Emitted
      <4>2. PICK j \in 1..Len(socket) : socket[j].inst = helper.inst /\ socket[j].kind # "STATUS"
                                       /\ socket[j].seq = s
        BY <4>1 DEF Missed
      <4>3. CASE j # 1
        <5>1. j - 1 \in 1..Len(socket') /\ socket'[j - 1] = socket[j]
          BY <1>2, <4>3
        <5> QED BY <1>1, <4>2, <5>1 DEF Missed
      <4>4. CASE j = 1
        <5>1. m.inst = helper.inst /\ m.kind # "STATUS" /\ m.seq = s
          BY <1>2, <4>2, <4>4
        <5>2. s > n.seq
          BY <1>3, <2>2
        <5>3. i + 1 \in 1..Len(socket) /\ n = socket[i + 1]
          BY <1>2 DEF n
        <5> QED BY <1>4, <1>6, <2>1, <2>2, <5>1, <5>2 DEF Follows
      <4> QED BY <4>3, <4>4
    <3>3. /\ 1 <= n.inst /\ n.inst <= helper.inst
          /\ IF n.kind = "STATUS" THEN n.pid \notin Pids ELSE n.seq > 0
          /\ n.inst = helper.inst =>
               /\ n.seq <= helper.seq /\ n.drops <= helper.drops
               /\ n.drops < helper.drops => \E s \in n.seq + 1 .. helper.seq : Missed(s)'
               /\ helper.drops = 0 => \A s \in n.seq + 1 .. helper.seq : ~ Missed(s)'
      BY <2>1, <3>1, <3>2 DEF Emitted
    <3> QED BY <1>1, <3>3 DEF n, Emitted
  <2> QED BY <2>3, <2>4
<1>13. \A i, j \in 1..Len(socket') : i < j => Follows(socket'[i], socket'[j])
  <2> SUFFICES ASSUME NEW i \in 1..Len(socket'), NEW j \in 1..Len(socket'), i < j
               PROVE  Follows(socket'[i], socket'[j])
    OBVIOUS
  <2>1. i + 1 < j + 1 /\ i + 1 \in 1..Len(socket) /\ j + 1 \in 1..Len(socket)
        /\ socket'[i] = socket[i + 1] /\ socket'[j] = socket[j + 1]
    BY <1>2
  <2> QED BY <2>1 DEF StreamOK
<1>14. Current' => m.inst = helper.inst /\ (Current \/ Forces(m))
  <2>1. Current' => Watching /\ m.inst = helper.inst
    BY <1>1, <1>4, <1>6 DEF Current, Watching, MonitorOK, Emitted
  <2>2. monitor.inst = 0 => m.inst = 1
    BY <1>2, <1>6 DEF MonitorOK
  <2>3. monitor.inst # 0 /\ monitor.inst # m.inst => Forces(m)
    BY DEF Forces, SourceRestarted
  <2> QED BY <2>1, <2>2, <2>3 DEF Current
<1>15. Current' /\ Overdue /\ ~ Forces(m) => Overdue'
  <2> SUFFICES ASSUME Current', Overdue, ~ Forces(m) PROVE Overdue'
    OBVIOUS
  <2>1. m.inst = helper.inst /\ monitor'.inst = helper.inst /\ helper.inst # 0 /\ helper' = helper
    BY <1>1, <1>6, <1>14 DEF MonitorOK
  <2>2. monitor.inst = 0 \/ monitor.inst = m.inst
    BY <1>14, <2>1 DEF Current
  <2>3. CASE monitor.inst = 0
    <3>1. m.kind = "STATUS" /\ socket[1].drops # helper.drops
      BY <1>2, <1>6, <2>3 DEF MonitorOK, Overdue
    <3> QED BY <1>1, <1>2, <2>1, <3>1 DEF Overdue
  <2>4. CASE monitor.inst = m.inst /\ monitor.initialized /\ monitor.drops # helper.drops
    <3>1. w = monitor
      BY <1>1, <2>4
    <3>2. m.kind = "STATUS" => m.drops = monitor.drops
      BY <2>4, <3>1 DEF Forces, CountersChanged, w
    <3> QED BY <1>1, <2>1, <2>4, <3>1, <3>2 DEF Overdue
  <2>5. CASE /\ monitor.inst = m.inst /\ (~ monitor.initialized \/ ~ monitor.fresh)
             /\ monitor.seq > 0 /\ \E s \in monitor.seq + 1 .. helper.seq : Missed(s)
    <3>1. w = monitor /\ monitor.seq \in Nat /\ monitor.drops \in Nat
      BY <1>1, <1>6, <2>5
    <3>2. helper.drops # 0
      BY <1>6, <2>1, <2>5 DEF MonitorOK
    <3>3. \E s \in monitor'.seq + 1 .. helper.seq : Missed(s)'
      <4>1. PICK s \in monitor.seq + 1 .. helper.seq : Missed(s)
        BY <2>5
      <4>2. Missed(s)' /\ ~ (m.kind # "STATUS" /\ m.seq = s)
        BY <1>5, <2>1, <4>1
      <4>3. m.kind # "STATUS" => m.seq = monitor.seq + 1
        BY <1>1, <1>4, <2>5, <3>1 DEF Forces, DeliveryGap, w
      <4>4. s \in monitor'.seq + 1 .. helper.seq
        <5>1. m.kind = "STATUS" => monitor'.seq = monitor.seq
          BY <1>1, <2>5, <3>1
        <5>2. m.kind # "STATUS" => monitor'.seq = monitor.seq + 1 /\ s # monitor.seq + 1
          BY <1>1, <4>2, <4>3
        <5>3. helper.seq \in Nat /\ monitor.seq \in Nat
          BY <1>3, <3>1
        <5>4. s \in Nat /\ monitor.seq + 1 <= s /\ s <= helper.seq
          BY <5>3
        <5>5. CASE m.kind = "STATUS"
          BY <5>1, <5>3, <5>4, <5>5
        <5>6. CASE m.kind # "STATUS"
          BY <5>2, <5>3, <5>4, <5>6
        <5> QED BY <5>5, <5>6
      <4> QED BY <4>2, <4>4
    <3>4. monitor'.seq > 0
      BY <1>1, <1>4, <1>9, <2>5, <3>1
    <3>5. CASE m.kind = "STATUS"
      <4>1. \/ monitor'.initialized /\ monitor'.drops # helper.drops
            \/ ~ monitor'.fresh
        BY <1>1, <2>5, <3>1, <3>2, <3>5
      <4> QED BY <2>1, <3>3, <3>4, <4>1 DEF Overdue
    <3>6. CASE m.kind # "STATUS"
      <4>1. ~ monitor'.initialized \/ ~ monitor'.fresh
        BY <1>1, <2>5, <3>1, <3>6
      <4> QED BY <2>1, <3>3, <3>4, <4>1 DEF Overdue
    <3> QED BY <3>5, <3>6
  <2>6. monitor.inst # 0 => monitor.inst = m.inst
    BY <2>2
  <2> QED BY <2>3, <2>4, <2>5, <2>6 DEF Overdue
<1>16. Current' /\ m.kind # "STATUS" /\ ~ Overdue' => m.drops = helper.drops
  <2> SUFFICES ASSUME Current', m.kind # "STATUS", m.drops # helper.drops PROVE Overdue'
    OBVIOUS
  <2>1. m.inst = helper.inst /\ monitor'.inst = helper.inst /\ helper.inst # 0 /\ helper' = helper
    BY <1>1, <1>6, <1>14 DEF MonitorOK
  <2>2. m.drops < helper.drops /\ \E s \in m.seq + 1 .. helper.seq : Missed(s)
    BY <1>3, <1>4, <1>6, <2>1 DEF Emitted
  <2>3. \E s \in monitor'.seq + 1 .. helper'.seq : Missed(s)'
    BY <1>1, <1>5, <2>1, <2>2
  <2>4. monitor'.seq > 0 /\ monitor'.inst # 0
    BY <1>1, <1>4, <1>w, <1>6, <2>1 DEF Emitted
  <2>5. CASE ~ monitor'.initialized
    BY <2>3, <2>4, <2>5 DEF Overdue
  <2>6. CASE monitor'.initialized
    <3>1. m.inst = monitor.inst /\ w = monitor /\ monitor.initialized /\ monitor.drops <= m.drops
          /\ monitor.drops \in Nat
      BY <1>1, <1>6, <2>6 DEF Ahead
    <3>2. monitor'.drops # helper'.drops
      BY <1>1, <1>3, <1>4, <2>1, <2>2, <3>1
    <3> QED BY <2>4, <2>6, <3>2 DEF Overdue
  <2> QED BY <2>5, <2>6
<1>17. m.kind # "STATUS" => m.seq > w.seq
  BY <1>1, <1>4, <1>6, <1>w
<1>18. StreamOK'
  BY <1>11, <1>12, <1>13 DEF StreamOK, Follows
<1> QED
  BY <1>14, <1>15, <1>16, <1>17, <1>18 DEF m, w

-----------------------------------------------------------------------------
(* What is known of a process on the way of its events.                    *)

\* An event of the process, or of its start, waits in the netlink buffer; a
\* datagram about it waits in the socket.
Waiting(p) == \E k \in 1..Len(netlink) : netlink[k].pid = p
NewBorn(p) == \E k \in 1..Len(netlink) : netlink[k].pid = p /\ netlink[k].type = "START"
Underway(p) == \E i \in 1..Len(socket) : socket[i].pid = p

\* Datagram i is the last one about the process, and no datagram was dropped
\* since it was sent.
LastWord(i, p) ==
    /\ socket[i].pid = p /\ socket[i].inst = helper.inst /\ socket[i].drops = helper.drops
    /\ \A j \in 1..Len(socket) : i < j => socket[j].pid # p

\* Datagram i is the next one about the same process after j, and no datagram
\* was dropped between them.
NextWord(j, i) ==
    /\ j < i /\ socket[j].pid = socket[i].pid
    /\ socket[j].inst = socket[i].inst /\ socket[j].drops = socket[i].drops
    /\ \A l \in 1..Len(socket) : j < l /\ l < i => socket[l].pid # socket[i].pid

\* The reading still tells what the process is, up to a migration that put it
\* where it belongs or that others made.
Accurate(id, p) ==
    /\ id.start = live[p].start /\ id.prog = live[p].prog
    /\ \/ p \in moved
       \/ id.place = live[p].place
       \/ /\ inside_slice(live[p].place, AppOf(live[p]))
          /\ live[p].prog \in Apps /\ ~ InFixtureScope(live[p].place) =>
                 ~ InFixtureScope(id.place)

\* An exit that waits without a later event was the process's last step; the
\* helper's cache may lag behind a process only while its start waits.
KernelOK ==
    /\ ~ helper.up => netlink = <<>>
    /\ Watching =>
         /\ \A k \in 1..Len(netlink) :
                /\ netlink[k].type = "EXIT"
                /\ \A l \in 1..Len(netlink) : k < l => netlink[l].pid # netlink[k].pid
                => live[netlink[k].pid] = Blank
         /\ \A p \in Pids :
                live[p] # Blank /\ ~ NewBorn(p) => Agree(helper.cache[p].start, live[p].start)

\* The last datagram about a process tells what the helper's cache holds, and
\* an exit is sent with the start time of the incarnation sent before it.
CacheOK ==
    /\ \A p \in Pids, i \in 1..Len(socket) :
           LastWord(i, p) =>
               IF socket[i].kind = "EXIT" THEN helper.cache[p].start = 0
               ELSE Agree(helper.cache[p].start, socket[i].id.start)
    /\ \A j, i \in 1..Len(socket) :
           NextWord(j, i) /\ socket[i].kind = "EXIT" =>
               IF socket[j].kind = "EXIT" THEN socket[i].id.start = 0
               ELSE Agree(socket[i].id.start, socket[j].id.start)

\* It also tells what the process is, unless a later event waits.
WordOK ==
    Watching =>
        \A p \in Pids, i \in 1..Len(socket) :
            LastWord(i, p) /\ ~ Waiting(p) =>
                IF socket[i].kind = "EXIT" THEN live[p] = Blank ELSE Accurate(socket[i].id, p)

\* The index agrees with the cache, or with the exit that is on its way.
FrontOK ==
    Current /\ ~ Overdue =>
        \A p \in Pids :
            /\ ~ Underway(p) /\ ~ NewBorn(p) =>
                   Agree(helper.cache[p].start, index.by_pid[p].start)
            /\ ~ Waiting(p) =>
                   \A i \in 1..Len(socket) :
                       /\ LastWord(i, p) /\ socket[i].kind = "EXIT"
                       /\ \A j \in 1..Len(socket) : j < i => socket[j].pid # p
                       => Agree(socket[i].id.start, index.by_pid[p].start)

\* What IndexComplete and PlacementExcused say of one process, the latter while
\* a fitting request may still be served.
EntryOK(p) ==
    /\ index.by_pid[p] # NoEntry => index.by_pid[p].start = live[p].start
    /\ live[p].prog \in Apps /\ ~ InFixtureScope(live[p].place) /\ p \notin moved =>
           index.by_pid[p].app = live[p].prog

PlaceOK(p) ==
    \/ AppOf(live[p]) = NoApp \/ PlacedAs(live[p])
    \/ p \in lost \cup moved \/ Misjudged(p) \/ Served(p)

MainOK ==
    Current /\ ~ Overdue =>
        \A p \in Pids : ~ Waiting(p) /\ ~ Underway(p) => EntryOK(p) /\ PlaceOK(p)

TrackOK == KernelOK /\ CacheOK /\ WordOK /\ FrontOK /\ MainOK

\* Nothing is claimed while the helper does not hear of the kernel's events.
LEMMA Unwatched ==
    ASSUME CacheOK', ~ Watching', ~ helper'.up => netlink' = <<>>
    PROVE  TrackOK'
  BY DEF TrackOK, KernelOK, WordOK, FrontOK, MainOK, Current

\* The helper's cache, while no datagram comes or goes.
LEMMA CacheSame ==
    ASSUME CacheOK, UNCHANGED socket,
           helper'.inst = helper.inst, helper'.drops = helper.drops, helper'.cache = helper.cache
    PROVE  CacheOK'
  BY DEF CacheOK, NextWord, LastWord

\* The kernel and the helper's cache, while no event comes or goes.
LEMMA KernelSame ==
    ASSUME SourcesOK, KernelOK, UNCHANGED <<netlink, helper>>,
           \A p \in Pids : live'[p].start = live[p].start /\ (live'[p] = Blank <=> live[p] = Blank)
    PROVE  KernelOK'
<1>1. \A k \in 1..Len(netlink) : netlink[k].pid \in Pids
  <2>1. netlink \in Seq(Events)
    BY DEF SourcesOK
  <2>2. \A k \in 1..Len(netlink) : netlink[k] \in Events
    BY <2>1
  <2> QED BY <2>2 DEF Events
<1> QED
  BY <1>1 DEF KernelOK, Watching, NewBorn

\* A step that leaves the stream alone.  What may change is what the model
\* knows of the processes: claims can be lost only with an event that waits.
LEMMA QuietStep ==
    ASSUME WordOK, FrontOK, MainOK, UNCHANGED <<socket, monitor, helper>>,
           \A p \in Pids :
             /\ Waiting(p) => Waiting(p)'
             /\ NewBorn(p) => NewBorn(p)'
             /\ index'.by_pid[p].start \in {0, index.by_pid[p].start}
             /\ ~ Waiting(p)' =>
                  /\ live[p] = Blank => live'[p] = Blank
                  /\ \A id : Accurate(id, p) => Accurate(id, p)'
                  /\ EntryOK(p) /\ PlaceOK(p) => EntryOK(p)' /\ PlaceOK(p)'
    PROVE  WordOK' /\ FrontOK' /\ MainOK'
<1>1. /\ Watching' <=> Watching
      /\ Current' <=> Current
      /\ Overdue' <=> Overdue
      /\ \A p : Underway(p)' <=> Underway(p)
      /\ \A i, p : LastWord(i, p)' <=> LastWord(i, p)
  BY DEF Watching, Current, Overdue, Missed, Underway, LastWord
<1>2. WordOK'
  <2> SUFFICES ASSUME Watching, NEW p \in Pids, NEW i \in 1..Len(socket), LastWord(i, p), ~ Waiting(p)'
               PROVE  IF socket[i].kind = "EXIT" THEN live'[p] = Blank ELSE Accurate(socket[i].id, p)'
    BY <1>1 DEF WordOK
  <2>1. IF socket[i].kind = "EXIT" THEN live[p] = Blank ELSE Accurate(socket[i].id, p)
    BY DEF WordOK
  <2>2. Accurate(socket[i].id, p) => Accurate(socket[i].id, p)'
    <3> DEFINE id == socket[i].id
    <3>1. socket'[i].id = id
      OBVIOUS
    <3> HIDE DEF id
    <3>2. Accurate(id, p) =>
            /\ id.start = live'[p].start /\ id.prog = live'[p].prog
            /\ \/ p \in moved'
               \/ id.place = live'[p].place
               \/ /\ inside_slice(live'[p].place, AppOf(live'[p]))
                  /\ live'[p].prog \in Apps /\ ~ InFixtureScope(live'[p].place) =>
                         ~ InFixtureScope(id.place)
      BY DEF Accurate
    <3> QED BY <3>1, <3>2 DEF id, Accurate
  <2> QED BY <2>1, <2>2
<1>3. FrontOK'
  BY <1>1 DEF FrontOK, Agree
<1>4. MainOK'
  BY <1>1 DEF MainOK
<1> QED
  BY <1>2, <1>3, <1>4

-----------------------------------------------------------------------------
(* What a step of the kernel does to these claims.                         *)

\* The netlink buffer with an event more.
LEMMA NetlinkAppend ==
    ASSUME SourcesOK, NEW e, netlink' = Append(netlink, e)
    PROVE  \A p : /\ Waiting(p)' <=> Waiting(p) \/ e.pid = p
                  /\ NewBorn(p)' <=> NewBorn(p) \/ (e.pid = p /\ e.type = "START")
<1>1. netlink \in Seq(Events)
  BY DEF SourcesOK
<1>2. /\ \A i \in 1..Len(netlink) : i \in 1..Len(netlink') /\ netlink'[i] = netlink[i]
      /\ Len(netlink) + 1 \in 1..Len(netlink') /\ netlink'[Len(netlink) + 1] = e
      /\ \A i \in 1..Len(netlink') : i \in 1..Len(netlink) \/ i = Len(netlink) + 1
  BY <1>1, AppendParts
<1>3. ASSUME NEW p
      PROVE  /\ Waiting(p)' <=> Waiting(p) \/ e.pid = p
             /\ NewBorn(p)' <=> NewBorn(p) \/ (e.pid = p /\ e.type = "START")
  BY <1>2 DEF Waiting, NewBorn
<1> QED
  BY <1>3

\* What is claimed of a process the step leaves alone.
LEMMA ClaimsSame ==
    ASSUME NEW p, live'[p] = live[p], index'.by_pid[p] = index.by_pid[p],
           p \in lost => p \in lost', p \in moved => p \in moved', Served(p) => Served(p)'
    PROVE  /\ live[p] = Blank => live'[p] = Blank
           /\ \A id : Accurate(id, p) => Accurate(id, p)'
           /\ EntryOK(p) => EntryOK(p)'
           /\ PlaceOK(p) => PlaceOK(p)'
<1>1. \A id : Accurate(id, p) => Accurate(id, p)'
  BY DEF Accurate
<1>2. EntryOK(p) => EntryOK(p)'
  BY DEF EntryOK
<1>3. PlaceOK(p) => PlaceOK(p)'
  <2>1. Misjudged(p)' <=> Misjudged(p)
    BY DEF Misjudged
  <2>2. AppOf(live'[p]) = AppOf(live[p]) /\ (PlacedAs(live'[p]) <=> PlacedAs(live[p]))
    OBVIOUS
  <2> QED BY <2>1, <2>2 DEF PlaceOK
<1> QED
  BY <1>1, <1>2, <1>3

\* A request for a process that does not change stays what it was.
LEMMA ServedSame ==
    ASSUME NEW p, live'[p] = live[p], UNCHANGED <<router, worker>>
    PROVE  Served(p) => Served(p)'
  BY DEF Served

\* A kernel event: its process is claimed nothing of while the event waits.
LEMMA EmitTracks ==
    ASSUME IInv, TrackOK, NEW e, e.pid \in Pids, Emit(e),
           \A q \in Pids \ {e.pid} :
              live'[q] = live[q] /\ (q \in lost <=> q \in lost') /\ (q \in moved <=> q \in moved'),
           e.type = "EXIT" => live'[e.pid] = Blank,
           e.type # "START" => \/ live'[e.pid] = Blank
                               \/ live[e.pid] # Blank /\ live'[e.pid].start = live[e.pid].start
    PROVE  TrackOK'
<1> DEFINE p == e.pid
<1>0. /\ KernelOK /\ CacheOK /\ WordOK /\ FrontOK /\ MainOK /\ SourcesOK
      /\ UNCHANGED <<socket, monitor, index, router, worker, jobs>>
  BY DEF TrackOK, IInv, Emit
<1>1. CacheOK'
  <2>1. helper'.inst = helper.inst /\ helper'.drops = helper.drops /\ helper'.cache = helper.cache
    BY <1>0 DEF Emit, SourcesOK, Helpers
  <2> QED BY <1>0, <2>1, CacheSame
<1>2. CASE ~ Watching'
  <2>1. ~ helper'.up => netlink' = <<>>
    <3>1. helper \in Helpers
      BY <1>0 DEF SourcesOK
    <3> QED BY <1>0, <3>1 DEF Emit, KernelOK, Helpers
  <2> QED BY <1>1, <1>2, <2>1, Unwatched
<1>3. CASE Watching'
  <2>1. helper' = helper /\ netlink' = Append(netlink, e) /\ Watching
    <3>1. helper \in Helpers
      BY <1>0 DEF SourcesOK
    <3> QED BY <1>3, <3>1 DEF Emit, Watching, Helpers
  <2>2. \A q : /\ Waiting(q)' <=> Waiting(q) \/ p = q
               /\ NewBorn(q)' <=> NewBorn(q) \/ (p = q /\ e.type = "START")
    BY <1>0, <2>1, NetlinkAppend
  <2>3. index' = index /\ helper' = helper /\ UNCHANGED <<socket, monitor>>
    BY <1>0, <2>1
  <2>4. ASSUME NEW q \in Pids
        PROVE  /\ Waiting(q) => Waiting(q)'
               /\ NewBorn(q) => NewBorn(q)'
               /\ index'.by_pid[q].start \in {0, index.by_pid[q].start}
               /\ ~ Waiting(q)' =>
                    /\ live[q] = Blank => live'[q] = Blank
                    /\ \A id : Accurate(id, q) => Accurate(id, q)'
                    /\ EntryOK(q) /\ PlaceOK(q) => EntryOK(q)' /\ PlaceOK(q)'
    <3>1. CASE q = p
      BY <2>2, <2>3, <3>1
    <3>2. CASE q # p
      <4>1. live'[q] = live[q] /\ (q \in lost <=> q \in lost') /\ (q \in moved <=> q \in moved')
        BY <3>2
      <4>2. Served(q) => Served(q)'
        BY <1>0, <4>1, ServedSame
      <4>3. /\ live[q] = Blank => live'[q] = Blank
            /\ \A id : Accurate(id, q) => Accurate(id, q)'
            /\ EntryOK(q) => EntryOK(q)'
            /\ PlaceOK(q) => PlaceOK(q)'
        BY <2>3, <4>1, <4>2, ClaimsSame
      <4> QED BY <2>2, <2>3, <4>3
    <3> QED BY <3>1, <3>2
  <2>5. WordOK' /\ FrontOK' /\ MainOK'
    BY <1>0, <2>3, <2>4, QuietStep
  <2>6. KernelOK'
    <3>1. netlink \in Seq(Events)
      BY <1>0 DEF SourcesOK
    <3>2. /\ \A i \in 1..Len(netlink) : i \in 1..Len(netlink') /\ netlink'[i] = netlink[i]
          /\ Len(netlink) + 1 \in 1..Len(netlink') /\ netlink'[Len(netlink) + 1] = e
          /\ \A i \in 1..Len(netlink') : i \in 1..Len(netlink) \/ i = Len(netlink) + 1
          /\ Len(netlink) \in Nat
      BY <2>1, <3>1, AppendParts
    <3>3. \A k \in 1..Len(netlink) : netlink[k].pid \in Pids /\ k < Len(netlink) + 1
      <4>1. \A k \in 1..Len(netlink) : netlink[k] \in Events
        BY <3>1
      <4> QED BY <3>2, <4>1 DEF Events
    <3>4. ASSUME NEW k \in 1..Len(netlink'), netlink'[k].type = "EXIT",
                 \A l \in 1..Len(netlink') : k < l => netlink'[l].pid # netlink'[k].pid
          PROVE  live'[netlink'[k].pid] = Blank
      <4>1. CASE k = Len(netlink) + 1
        BY <3>2, <3>4, <4>1
      <4>2. CASE k \in 1..Len(netlink)
        <5>1. netlink'[k] = netlink[k] /\ netlink[k].pid \in Pids \ {p}
          BY <3>2, <3>3, <3>4, <4>2
        <5>2. \A l \in 1..Len(netlink) : k < l => netlink[l].pid # netlink[k].pid
          BY <3>2, <3>4, <5>1
        <5>3. live[netlink[k].pid] = Blank
          BY <1>0, <2>1, <3>4, <4>2, <5>1, <5>2 DEF KernelOK
        <5> QED BY <5>1, <5>3
      <4> QED BY <3>2, <4>1, <4>2
    <3>5. ASSUME NEW q \in Pids, live'[q] # Blank, ~ NewBorn(q)'
          PROVE  Agree(helper.cache[q].start, live'[q].start)
      <4>1. ~ NewBorn(q)
        BY <2>2, <3>5
      <4>2. live[q] # Blank /\ live'[q].start = live[q].start
        BY <2>2, <3>5
      <4> QED BY <1>0, <2>1, <4>1, <4>2 DEF KernelOK
    <3>6. helper'.up
      BY <1>3 DEF Watching
    <3> QED BY <2>1, <3>4, <3>5, <3>6 DEF KernelOK
  <2> QED BY <1>1, <2>5, <2>6 DEF TrackOK
<1> QED
  BY <1>2, <1>3

\* Only the place of a process changes: it is moved by others, or to where it
\* belongs.
LEMMA PlaceTracks ==
    ASSUME IInv, TrackOK, NEW p \in Pids, NEW place,
           live' = [live EXCEPT ![p].place = place], live[p] # Blank, live'[p] # Blank,
           UNCHANGED <<netlink, helper, socket, monitor, index, router, worker, lost>>,
           moved \subseteq moved',
           \/ p \in moved'
           \/ /\ inside_slice(live'[p].place, AppOf(live'[p]))
              /\ ~ InFixtureScope(live'[p].place) => ~ InFixtureScope(live[p].place)
    PROVE  TrackOK'
<1>0. /\ KernelOK /\ CacheOK /\ WordOK /\ FrontOK /\ MainOK /\ SourcesOK
      /\ live \in [Pids -> Identities]
  BY DEF TrackOK, IInv, SourcesOK
<1>1. /\ \A q \in Pids \ {p} : live'[q] = live[q]
      /\ live'[p].start = live[p].start /\ live'[p].prog = live[p].prog
  BY <1>0 DEF Identities
<1>2. KernelOK'
  BY <1>0, <1>1, KernelSame
<1>3. ASSUME NEW q \in Pids
      PROVE  /\ Waiting(q) => Waiting(q)'
             /\ NewBorn(q) => NewBorn(q)'
             /\ index'.by_pid[q].start \in {0, index.by_pid[q].start}
             /\ ~ Waiting(q)' =>
                  /\ live[q] = Blank => live'[q] = Blank
                  /\ \A id : Accurate(id, q) => Accurate(id, q)'
                  /\ EntryOK(q) /\ PlaceOK(q) => EntryOK(q)' /\ PlaceOK(q)'
  <2>1. /\ Waiting(q) => Waiting(q)'
        /\ NewBorn(q) => NewBorn(q)'
        /\ index'.by_pid[q].start \in {0, index.by_pid[q].start}
    BY DEF Waiting, NewBorn
  <2>2. CASE q = p
    <3>1. ASSUME NEW id, Accurate(id, p)
          PROVE  Accurate(id, p)'
      <4>1. id.start = live'[p].start /\ id.prog = live'[p].prog
        BY <1>1, <3>1 DEF Accurate
      <4>2. \/ p \in moved'
            \/ /\ inside_slice(live'[p].place, AppOf(live'[p]))
               /\ live'[p].prog \in Apps /\ ~ InFixtureScope(live'[p].place) =>
                      ~ InFixtureScope(id.place)
        BY <1>1, <3>1 DEF Accurate
      <4> QED BY <4>1, <4>2 DEF Accurate
    <3>2. EntryOK(p) => EntryOK(p)'
      BY <1>1 DEF EntryOK
    <3>3. PlaceOK(p)'
      BY DEF PlaceOK, PlacedAs
    <3> QED BY <2>1, <2>2, <3>1, <3>2, <3>3
  <2>3. CASE q # p
    <3>1. live'[q] = live[q] /\ (q \in moved => q \in moved')
      BY <1>1, <2>3
    <3>2. Served(q) => Served(q)'
      BY <3>1, ServedSame
    <3>3. /\ live[q] = Blank => live'[q] = Blank
          /\ \A id : Accurate(id, q) => Accurate(id, q)'
          /\ EntryOK(q) => EntryOK(q)'
          /\ PlaceOK(q) => PlaceOK(q)'
      BY <3>1, <3>2, ClaimsSame
    <3> QED BY <2>1, <3>3
  <2> QED BY <2>2, <2>3
<1>4. WordOK' /\ FrontOK' /\ MainOK'
  BY <1>0, <1>3, QuietStep
<1>5. CacheOK'
  BY <1>0, CacheSame
<1> QED
  BY <1>2, <1>4, <1>5 DEF TrackOK

\* A launcher enters a scope: nothing is claimed of where it is.
LEMMA EnterTracks ==
    ASSUME IInv, TrackOK, NEW p \in Pids, NEW place, EnterScope(p, place)
    PROVE  TrackOK'
<1>1. /\ UNCHANGED <<netlink, helper, socket, monitor, index, router, worker, lost>>
      /\ live' = [live EXCEPT ![p].place = place] /\ moved' = moved \cup {p}
      /\ live[p].prog = Generic /\ live \in [Pids -> Identities]
  BY DEF IInv, EnterScope, SourcesOK
<1>2. live'[p].prog = Generic
  BY <1>1 DEF Identities
<1>3. live[p] # Blank /\ live'[p] # Blank
  BY <1>1, <1>2, ProcessIndexAssumption DEF Blank
<1> QED
  BY <1>1, <1>3, PlaceTracks

\* Every step of the kernel.
LEMMA KernelTracks ==
    ASSUME IInv, TrackOK, Kernel
    PROVE  TrackOK'
<1>0. live \in [Pids -> Identities]
  BY DEF IInv, SourcesOK
<1>1. ASSUME NEW p \in Pids, NEW parent \in Pids \cup {NoPid}, Fork(p, parent)
      PROVE  TrackOK'
  <2> DEFINE e == [type |-> "START", pid |-> p, parent |-> parent]
  <2>1. Emit(e) /\ lost' = lost \ {p} /\ moved' = moved \ {p}
        /\ \A q \in Pids \ {p} : live'[q] = live[q]
    BY <1>0, <1>1 DEF Fork
  <2>2. e.pid = p /\ e.type = "START"
    OBVIOUS
  <2> HIDE DEF e
  <2> QED BY <2>1, <2>2, EmitTracks
<1>2. ASSUME NEW p \in Pids, NEW prog \in Programs, Exec(p, prog)
      PROVE  TrackOK'
  <2> DEFINE e == [type |-> "EXEC", pid |-> p, parent |-> NoPid]
  <2>1. Emit(e) /\ lost' = lost \ {p} /\ moved' = moved \ {p} /\ live[p] # Blank
        /\ live' = [live EXCEPT ![p].prog = prog]
    BY <1>2 DEF Exec
  <2>2. live'[p].start = live[p].start /\ \A q \in Pids \ {p} : live'[q] = live[q]
    BY <1>0, <2>1 DEF Identities
  <2>3. e.pid = p /\ e.type = "EXEC"
    OBVIOUS
  <2> HIDE DEF e
  <2> QED BY <2>1, <2>2, <2>3, EmitTracks
<1>3. ASSUME NEW p \in Pids, Exit(p)
      PROVE  TrackOK'
  <2> DEFINE e == [type |-> "EXIT", pid |-> p, parent |-> NoPid]
  <2>1. Emit(e) /\ UNCHANGED <<lost, moved>> /\ live'[p] = Blank
        /\ \A q \in Pids \ {p} : live'[q] = live[q]
    BY <1>0, <1>3 DEF Exit
  <2>2. e.pid = p /\ e.type = "EXIT"
    OBVIOUS
  <2> HIDE DEF e
  <2> QED BY <2>1, <2>2, EmitTracks
<1>4. ASSUME NEW p \in Pids, NEW place \in Scopes, EnterScope(p, place)
      PROVE  TrackOK'
  BY <1>4, EnterTracks
<1> QED
  BY <1>1, <1>2, <1>3, <1>4 DEF Kernel

-----------------------------------------------------------------------------
(* Systemd, the samples and the worker.                                    *)

\* systemd runs a job: the running request's puts the process where it belongs.
LEMMA SystemdTracks ==
    ASSUME IInv, TrackOK, Systemd
    PROVE  TrackOK'
<1>1. PICK job \in jobs : RunJob(job)
  BY DEF Systemd
<1> DEFINE p == job.pid
           req == worker.req
<1>2. /\ UNCHANGED <<netlink, helper, socket, monitor, index, router, worker, lost>>
      /\ live' = IF live[p] = Blank THEN live ELSE [live EXCEPT ![p].place = job.place]
      /\ moved \subseteq moved'
      /\ p \notin moved' => /\ worker.pc = "observe" /\ job = Job(req)
                            /\ classify(live[p], NoEntry) = [app |-> req.app, role |-> req.role]
  BY <1>1 DEF RunJob
<1>3. /\ job \in Jobs /\ p \in Pids /\ job.place.kind \in {"fixture", "slice"}
      /\ live \in [Pids -> Identities] /\ SourcesOK
      /\ worker.pc # "idle" => req \in Reqs
  <2>1. job \in Jobs
    BY <1>1 DEF IInv, RouterOK
  <2> QED BY <2>1 DEF Jobs, IInv, SourcesOK, RouterOK
<1> HIDE DEF p, req
<1>4. CASE live[p] = Blank
  <2>0. /\ KernelOK /\ CacheOK /\ WordOK /\ FrontOK /\ MainOK /\ live' = live
    BY <1>2, <1>4 DEF TrackOK
  <2>1. ASSUME NEW q \in Pids
        PROVE  /\ Waiting(q) => Waiting(q)'
               /\ NewBorn(q) => NewBorn(q)'
               /\ index'.by_pid[q].start \in {0, index.by_pid[q].start}
               /\ ~ Waiting(q)' =>
                    /\ live[q] = Blank => live'[q] = Blank
                    /\ \A id : Accurate(id, q) => Accurate(id, q)'
                    /\ EntryOK(q) /\ PlaceOK(q) => EntryOK(q)' /\ PlaceOK(q)'
    <3>1. /\ Waiting(q) => Waiting(q)'
          /\ NewBorn(q) => NewBorn(q)'
          /\ index'.by_pid[q].start \in {0, index.by_pid[q].start}
      BY <1>2 DEF Waiting, NewBorn
    <3>2. Served(q) => Served(q)'
      BY <1>2, <2>0, ServedSame
    <3>3. /\ live[q] = Blank => live'[q] = Blank
          /\ \A id : Accurate(id, q) => Accurate(id, q)'
          /\ EntryOK(q) => EntryOK(q)'
          /\ PlaceOK(q) => PlaceOK(q)'
      BY <1>2, <2>0, <3>2, ClaimsSame
    <3> QED BY <3>1, <3>3
  <2>2. WordOK' /\ FrontOK' /\ MainOK'
    BY <1>2, <2>0, <2>1, QuietStep
  <2>3. KernelOK'
    BY <1>2, <1>3, <2>0, KernelSame
  <2>4. CacheOK'
    BY <1>2, <2>0, CacheSame
  <2> QED BY <2>2, <2>3, <2>4 DEF TrackOK
<1>5. CASE live[p] # Blank
  <2>1. live' = [live EXCEPT ![p].place = job.place]
        /\ live'[p] = [live[p] EXCEPT !.place = job.place]
    BY <1>2, <1>3, <1>5
  <2>2. live'[p].place = job.place
    BY <1>3, <2>1 DEF Identities
  <2>3. live'[p] # Blank
    BY <1>3, <2>2 DEF Blank, Outside
  <2>4. ASSUME p \notin moved'
        PROVE  /\ inside_slice(live'[p].place, AppOf(live'[p]))
               /\ ~ InFixtureScope(live'[p].place) => ~ InFixtureScope(live[p].place)
    <3>1. /\ req \in Reqs /\ job.place = Job(req).place /\ live[p] \in Identities
          /\ classify(live[p], NoEntry) = [app |-> req.app, role |-> req.role]
      BY <1>2, <1>3, <2>4
    <3>2. LET new == [live[p] EXCEPT !.place = Job(req).place] IN
          /\ inside_slice(new.place, AppOf(new))
          /\ ~ InFixtureScope(new.place) => ~ InFixtureScope(live[p].place)
      BY <3>1, JobPlaces
    <3> QED BY <2>1, <3>1, <3>2
  <2> QED BY <1>2, <1>3, <1>5, <2>1, <2>3, <2>4, PlaceTracks
<1> QED
  BY <1>4, <1>5

\* The sample removes entries of processes that are gone.
LEMMA SampleTracks ==
    ASSUME IInv, TrackOK, Sample
    PROVE  TrackOK'
<1>0. /\ KernelOK /\ CacheOK /\ WordOK /\ FrontOK /\ MainOK /\ SourcesOK
      /\ UNCHANGED <<live, netlink, helper, socket, monitor, router, worker, jobs, lost, moved, ops>>
  BY DEF TrackOK, IInv, Sample
<1>1. PICK ready : index' = pop_empty_apps(prune_unreadable(index, live), ready)
  BY DEF Sample
<1>2. \A q \in Pids : index'.by_pid[q] = IF index.by_pid[q] # NoEntry /\ live[q] = Blank
                                         THEN NoEntry ELSE index.by_pid[q]
  BY <1>1 DEF pop_empty_apps, prune_unreadable
<1>3. AppOf(Blank) = NoApp /\ NoEntry.start = 0 /\ Blank.prog \notin Apps
  BY AppOfCases, Values, ProcessIndexAssumption DEF NoEntry, Blank
<1>4. ASSUME NEW q \in Pids
      PROVE  /\ Waiting(q) => Waiting(q)'
             /\ NewBorn(q) => NewBorn(q)'
             /\ index'.by_pid[q].start \in {0, index.by_pid[q].start}
             /\ ~ Waiting(q)' =>
                  /\ live[q] = Blank => live'[q] = Blank
                  /\ \A id : Accurate(id, q) => Accurate(id, q)'
                  /\ EntryOK(q) /\ PlaceOK(q) => EntryOK(q)' /\ PlaceOK(q)'
  <2>1. /\ Waiting(q) => Waiting(q)'
        /\ NewBorn(q) => NewBorn(q)'
        /\ index'.by_pid[q].start \in {0, index.by_pid[q].start}
        /\ live[q] = Blank => live'[q] = Blank
        /\ \A id : Accurate(id, q) => Accurate(id, q)'
    BY <1>0, <1>2, <1>3 DEF Waiting, NewBorn, Accurate
  <2>2. CASE live[q] = Blank
    <3>1. live'[q] = Blank /\ (index'.by_pid[q] = NoEntry \/ index'.by_pid[q] = index.by_pid[q])
      BY <1>0, <1>2, <2>2
    <3>2. EntryOK(q) => EntryOK(q)'
      BY <1>2, <1>3, <2>2, <3>1 DEF EntryOK
    <3>3. PlaceOK(q)'
      BY <1>3, <3>1 DEF PlaceOK
    <3> QED BY <2>1, <3>2, <3>3
  <2>3. CASE live[q] # Blank
    <3>1. index'.by_pid[q] = index.by_pid[q] /\ live'[q] = live[q]
      BY <1>0, <1>2, <2>3
    <3>2. Served(q) => Served(q)'
      BY <1>0, ServedSame
    <3>3. /\ live[q] = Blank => live'[q] = Blank
          /\ \A id : Accurate(id, q) => Accurate(id, q)'
          /\ EntryOK(q) => EntryOK(q)'
          /\ PlaceOK(q) => PlaceOK(q)'
      BY <1>0, <3>1, <3>2, ClaimsSame
    <3> QED BY <2>1, <3>3
  <2> QED BY <2>2, <2>3
<1>5. WordOK' /\ FrontOK' /\ MainOK'
  BY <1>0, <1>4, QuietStep
<1>6. KernelOK'
  BY <1>0, KernelSame
<1>7. CacheOK'
  BY <1>0, CacheSame
<1> QED
  BY <1>5, <1>6, <1>7 DEF TrackOK

\* The worker drops no request that fits: it serves it, gives it up, or finds
\* the process in place.
LEMMA WorkerServes ==
    ASSUME IInv, Worker
    PROVE  /\ UNCHANGED <<live, netlink, helper, socket, monitor, index, moved>>
           /\ lost \subseteq lost'
           /\ \A p \in Pids : Served(p) =>
                  \/ Served(p)' \/ p \in lost'
                  \/ AppOf(live[p]) = NoApp \/ PlacedAs(live[p])
<1> DEFINE req == worker.req
<1>1. /\ live \in [Pids -> Identities] /\ router.queue \in Seq(Reqs)
      /\ worker.pc # "idle" => req \in Reqs
      /\ DOMAIN worker = {"pc", "req"} /\ DOMAIN router = {"queue", "pending"}
  BY DEF IInv, SourcesOK, RouterOK, QueueOK
<1>2. CASE TakeRequest
  <2>1. /\ worker.pc = "idle" /\ router.queue # <<>>
        /\ worker' = [pc |-> "check", req |-> Head(router.queue)]
        /\ router' = [router EXCEPT !.queue = Tail(@)]
        /\ UNCHANGED <<live, netlink, helper, socket, monitor, index, lost, moved>>
    BY <1>2 DEF TakeRequest
  <2>2. router'.queue = Tail(router.queue)
    BY <1>1, <2>1
  <2>3. /\ Head(router.queue) = router.queue[1]
        /\ \A i \in 1..Len(router.queue) :
              i = 1 \/ (i - 1 \in 1..Len(router'.queue) /\ router'.queue[i - 1] = router.queue[i])
    BY <1>1, <2>1, <2>2, TailParts
  <2>4. ASSUME NEW p \in Pids, Served(p)
        PROVE  Served(p)'
    <3>1. PICK i \in 1..Len(router.queue) :
              router.queue[i].pid = p /\ Fits(live[p], router.queue[i])
      BY <2>1, <2>4 DEF Served
    <3>2. CASE i = 1
      <4>1. worker'.pc = "check" /\ worker'.req = router.queue[i]
        BY <2>1, <2>3, <3>2
      <4> QED BY <2>1, <3>1, <4>1 DEF Served
    <3>3. CASE i # 1
      <4>1. i - 1 \in 1..Len(router'.queue) /\ router'.queue[i - 1] = router.queue[i]
        BY <2>3, <3>3
      <4>2. \E k \in 1..Len(router'.queue) : router'.queue[k] = router.queue[i]
        BY <4>1
      <4> QED BY <2>1, <3>1, <4>2 DEF Served
    <3> QED BY <3>2, <3>3
  <2> QED BY <2>1, <2>4
<1>3. ASSUME Checked \/ Observed
      PROVE  /\ UNCHANGED <<live, netlink, helper, socket, monitor, index, moved, lost, router>>
             /\ \A p \in Pids : Served(p) =>
                    Served(p)' \/ AppOf(live[p]) = NoApp \/ PlacedAs(live[p])
  <2>1. UNCHANGED <<live, netlink, helper, socket, monitor, index, moved, lost, router>>
    BY <1>3 DEF Checked, Observed
  <2>2. ASSUME NEW p \in Pids, worker.pc \in {"check", "observe"}, req.pid = p, Fits(live[p], req)
        PROVE  AppOf(live[p]) = NoApp \/ PlacedAs(live[p])
    <3>1. live[p] \in Identities /\ req \in Reqs
      BY <1>1, <2>2
    <3>2. CASE Checked
      <4>1. NothingToMove(live[p], req)
        BY <2>2, <3>2 DEF Checked
      <4> QED BY <2>2, <3>1, <4>1, FitsMoves
    <3>3. CASE Observed
      <4>1. live[p] = Blank \/ inside_slice(live[p].place, req.app)
        BY <2>2, <3>3 DEF Observed
      <4>2. AppOf(Blank) = NoApp
        BY <3>1, AppOfCases
      <4>3. req.app = AppOf(live[p])
        BY <2>2 DEF Fits
      <4> QED BY <4>1, <4>2, <4>3 DEF PlacedAs
    <3> QED BY <1>3, <3>2, <3>3
  <2>3. ASSUME NEW p \in Pids, Served(p)
        PROVE  Served(p)' \/ AppOf(live[p]) = NoApp \/ PlacedAs(live[p])
    <3>1. CASE \E i \in 1..Len(router.queue) :
                  router.queue[i].pid = p /\ Fits(live[p], router.queue[i])
      BY <2>1, <3>1 DEF Served
    <3>2. CASE worker.pc \in {"check", "observe"} /\ req.pid = p /\ Fits(live[p], req)
      BY <2>2, <3>2
    <3> QED BY <2>3, <3>1, <3>2 DEF Served
  <2> QED BY <2>1, <2>3
<1>4. ASSUME RouteFails \/ NotObserved
      PROVE  /\ UNCHANGED <<live, netlink, helper, socket, monitor, index, moved, router>>
             /\ lost \subseteq lost'
             /\ \A p \in Pids : Served(p) => Served(p)' \/ p \in lost'
  <2>1. /\ UNCHANGED <<live, netlink, helper, socket, monitor, index, moved, router>>
        /\ lost' = IF live[req.pid].start = req.start THEN lost \cup {req.pid} ELSE lost
    BY <1>4 DEF RouteFails, NotObserved, GiveUp
  <2>2. ASSUME NEW p \in Pids, Served(p)
        PROVE  Served(p)' \/ p \in lost'
    <3>1. CASE \E i \in 1..Len(router.queue) :
                  router.queue[i].pid = p /\ Fits(live[p], router.queue[i])
      BY <2>1, <3>1 DEF Served
    <3>2. CASE req.pid = p /\ Fits(live[p], req)
      BY <2>1, <3>2 DEF Fits
    <3> QED BY <2>2, <3>1, <3>2 DEF Served
  <2> QED BY <2>1, <2>2
<1>5. CASE StartTransientUnit
  <2>1. /\ UNCHANGED <<live, netlink, helper, socket, monitor, index, moved, lost, router>>
        /\ worker.pc = "check" /\ worker' = [worker EXCEPT !.pc = "observe"]
    BY <1>5 DEF StartTransientUnit, Step
  <2>2. worker'.pc = "observe" /\ worker'.req = worker.req
    BY <1>1, <2>1
  <2> QED BY <2>1, <2>2 DEF Served
<1>6. CASE FinishRequest
  <2>1. /\ UNCHANGED <<live, netlink, helper, socket, monitor, index, moved, lost>>
        /\ worker.pc = "done" /\ router' = [router EXCEPT !.pending = @ \ {worker.req.pid}]
    BY <1>6 DEF FinishRequest
  <2>2. router'.queue = router.queue
    BY <1>1, <2>1
  <2> QED BY <2>1, <2>2 DEF Served
<1> QED
  BY <1>2, <1>3, <1>4, <1>5, <1>6 DEF Worker

\* Every step of the worker: a request is served, given up, or had nothing to move.
LEMMA WorkerTracks ==
    ASSUME IInv, TrackOK, Worker
    PROVE  TrackOK'
<1>0. /\ KernelOK /\ CacheOK /\ WordOK /\ FrontOK /\ MainOK /\ SourcesOK
  BY DEF TrackOK, IInv
<1>1. /\ UNCHANGED <<live, netlink, helper, socket, monitor, index, moved>>
      /\ lost \subseteq lost'
      /\ \A p \in Pids : Served(p) =>
             \/ Served(p)' \/ p \in lost'
             \/ AppOf(live[p]) = NoApp \/ PlacedAs(live[p])
  BY WorkerServes
<1>2. ASSUME NEW q \in Pids
      PROVE  /\ Waiting(q) => Waiting(q)'
             /\ NewBorn(q) => NewBorn(q)'
             /\ index'.by_pid[q].start \in {0, index.by_pid[q].start}
             /\ ~ Waiting(q)' =>
                  /\ live[q] = Blank => live'[q] = Blank
                  /\ \A id : Accurate(id, q) => Accurate(id, q)'
                  /\ EntryOK(q) /\ PlaceOK(q) => EntryOK(q)' /\ PlaceOK(q)'
  <2>1. /\ Waiting(q) => Waiting(q)'
        /\ NewBorn(q) => NewBorn(q)'
        /\ index'.by_pid[q].start \in {0, index.by_pid[q].start}
        /\ live[q] = Blank => live'[q] = Blank
        /\ \A id : Accurate(id, q) => Accurate(id, q)'
    BY <1>1 DEF Waiting, NewBorn, Accurate
  <2>2. EntryOK(q) => EntryOK(q)'
    BY <1>1 DEF EntryOK
  <2>3. PlaceOK(q) => PlaceOK(q)'
    <3>1. Misjudged(q)' <=> Misjudged(q)
      BY <1>1 DEF Misjudged
    <3>2. /\ Served(q) => Served(q)' \/ q \in lost' \/ AppOf(live'[q]) = NoApp \/ PlacedAs(live'[q])
          /\ live'[q] = live[q] /\ (q \in lost => q \in lost') /\ moved' = moved
      BY <1>1
    <3> QED BY <3>1, <3>2 DEF PlaceOK
  <2> QED BY <2>1, <2>2, <2>3
<1>3. WordOK' /\ FrontOK' /\ MainOK'
  BY <1>0, <1>1, <1>2, QuietStep
<1>4. KernelOK'
  BY <1>0, <1>1, KernelSame
<1>5. CacheOK'
  BY <1>0, <1>1, CacheSame
<1> QED
  BY <1>3, <1>4, <1>5 DEF TrackOK

-----------------------------------------------------------------------------
(* The helper.                                                             *)

\* What a datagram more means for those that wait.
LEMMA WordsSent ==
    ASSUME SourcesOK, NEW m, socket' = Append(socket, m),
           helper'.inst = helper.inst, helper'.drops = helper.drops,
           m.inst = helper.inst, m.drops = helper.drops
    PROVE  /\ \A p : Underway(p)' <=> Underway(p) \/ m.pid = p
           /\ \A p, i : i \in 1..Len(socket) /\ LastWord(i, p)' => LastWord(i, p) /\ m.pid # p
           /\ \A j, i : i \in 1..Len(socket) /\ j \in 1..Len(socket) /\ NextWord(j, i)' => NextWord(j, i)
           /\ \A j, i : j \in 1..Len(socket) /\ i = Len(socket) + 1 /\ NextWord(j, i)' =>
                            LastWord(j, m.pid)
           /\ \A p, i : i = Len(socket) + 1 /\ LastWord(i, p)' => m.pid = p
<1>1. /\ \A i \in 1..Len(socket) : i \in 1..Len(socket') /\ socket'[i] = socket[i]
      /\ Len(socket) + 1 \in 1..Len(socket') /\ socket'[Len(socket) + 1] = m
      /\ \A i \in 1..Len(socket') : i \in 1..Len(socket) \/ i = Len(socket) + 1
  BY SocketAppend
<1>2. Len(socket) \in Nat /\ \A i \in 1..Len(socket) : i < Len(socket) + 1
  <2>1. Len(socket) \in Nat
    BY Counters
  <2> QED BY <2>1
<1>3. \A p : Underway(p)' <=> Underway(p) \/ m.pid = p
  BY <1>1 DEF Underway
<1>4. ASSUME NEW p, NEW i \in 1..Len(socket), LastWord(i, p)'
      PROVE  LastWord(i, p) /\ m.pid # p
  BY <1>1, <1>2, <1>4 DEF LastWord
<1>5. ASSUME NEW j \in 1..Len(socket), NEW i \in 1..Len(socket), NextWord(j, i)'
      PROVE  NextWord(j, i)
  BY <1>1, <1>5 DEF NextWord
<1>6. ASSUME NEW j \in 1..Len(socket), NEW i, i = Len(socket) + 1, NextWord(j, i)'
      PROVE  LastWord(j, m.pid)
  BY <1>1, <1>2, <1>6 DEF NextWord, LastWord
<1>7. \A p, i : i = Len(socket) + 1 /\ LastWord(i, p)' => m.pid = p
  BY <1>1 DEF LastWord
<1> QED
  BY <1>3, <1>4, <1>5, <1>6, <1>7

\* No status is about a process.
LEMMA StatusOfNone ==
    ASSUME NEW h
    PROVE  /\ StatusMessage(h).kind = "STATUS" /\ StatusMessage(h).pid \notin Pids
           /\ StatusMessage(h).inst = h.inst /\ StatusMessage(h).seq = h.seq
           /\ StatusMessage(h).drops = h.drops
<1>1. NoPid \notin Pids
  <2>1. Pids = 1..Cardinality(Pids) /\ Cardinality(Pids) \in Nat
    BY ProcessRoutingAssumption, FS_CardinalityType
  <2> QED BY <2>1 DEF NoPid
<1> QED
  BY <1>1 DEF StatusMessage, Message

\* A status more tells nothing of a process.
LEMMA CacheStatus ==
    ASSUME SourcesOK, CacheOK, NEW m, m.kind = "STATUS", m.pid \notin Pids,
           socket' = Append(socket, m), m.inst = helper.inst, m.drops = helper.drops,
           helper'.inst = helper.inst, helper'.drops = helper.drops, helper'.cache = helper.cache
    PROVE  CacheOK'
<1>1. /\ \A i \in 1..Len(socket) : socket'[i] = socket[i]
      /\ socket'[Len(socket) + 1] = m
      /\ \A i \in 1..Len(socket') : i \in 1..Len(socket) \/ i = Len(socket) + 1
      /\ Len(socket) \in Nat
  BY SocketAppend, Counters
<1>2. /\ \A p, i : i \in 1..Len(socket) /\ LastWord(i, p)' => LastWord(i, p)
      /\ \A j, i : i \in 1..Len(socket) /\ j \in 1..Len(socket) /\ NextWord(j, i)' => NextWord(j, i)
      /\ \A p, i : i = Len(socket) + 1 /\ LastWord(i, p)' => m.pid = p
  BY WordsSent
<1>3. ASSUME NEW p \in Pids, NEW i \in 1..Len(socket'), LastWord(i, p)'
      PROVE  IF socket'[i].kind = "EXIT" THEN helper'.cache[p].start = 0
             ELSE Agree(helper'.cache[p].start, socket'[i].id.start)
  <2>1. i \in 1..Len(socket) /\ LastWord(i, p) /\ socket'[i] = socket[i]
    BY <1>1, <1>2, <1>3
  <2> QED BY <2>1 DEF CacheOK
<1>4. ASSUME NEW j \in 1..Len(socket'), NEW i \in 1..Len(socket'), NextWord(j, i)',
             socket'[i].kind = "EXIT"
      PROVE  IF socket'[j].kind = "EXIT" THEN socket'[i].id.start = 0
             ELSE Agree(socket'[i].id.start, socket'[j].id.start)
  <2>1. i \in 1..Len(socket)
    BY <1>1, <1>4
  <2>2. j \in 1..Len(socket)
    <3>1. j < i
      BY <1>4 DEF NextWord
    <3> QED BY <1>1, <2>1, <3>1
  <2>3. NextWord(j, i) /\ socket'[i] = socket[i] /\ socket'[j] = socket[j]
    BY <1>1, <1>2, <1>4, <2>1, <2>2
  <2> QED BY <1>4, <2>1, <2>2, <2>3 DEF CacheOK
<1> QED
  BY <1>3, <1>4 DEF CacheOK

\* A heartbeat: the new status tells of no process.
LEMMA HeartbeatTracks ==
    ASSUME IInv, StreamOK, TrackOK, Heartbeat
    PROVE  StreamOK' /\ TrackOK'
<1> DEFINE m == StatusMessage(helper)
<1>0. /\ SourcesOK /\ KernelOK /\ CacheOK /\ WordOK /\ FrontOK /\ MainOK
      /\ socket' = Append(socket, m)
      /\ UNCHANGED <<live, netlink, helper, monitor, index, router, worker, jobs, lost, moved>>
  BY DEF IInv, TrackOK, Heartbeat, Sent
<1>1. m.kind = "STATUS" /\ m.pid \notin Pids /\ m.inst = helper.inst /\ m.seq = helper.seq
      /\ m.drops = helper.drops
  BY StatusOfNone
<1> HIDE DEF m
<1>2. StreamOK' /\ (Overdue => Overdue')
  BY <1>0, <1>1, StreamSent
<1>3. CacheOK'
  BY <1>0, <1>1, CacheStatus
<1>4. /\ \A i \in 1..Len(socket) : i \in 1..Len(socket') /\ socket'[i] = socket[i]
      /\ \A i \in 1..Len(socket') : i \in 1..Len(socket) \/ i = Len(socket) + 1
  BY <1>0, SocketAppend
<1>5. /\ \A p \in Pids : Underway(p)' <=> Underway(p)
      /\ \A p \in Pids : \A i \in 1..Len(socket') :
             LastWord(i, p)' => i \in 1..Len(socket) /\ LastWord(i, p)
  <2>1. /\ \A p : Underway(p)' <=> Underway(p) \/ m.pid = p
        /\ \A p, i : i \in 1..Len(socket) /\ LastWord(i, p)' => LastWord(i, p) /\ m.pid # p
        /\ \A p, i : i = Len(socket) + 1 /\ LastWord(i, p)' => m.pid = p
    BY <1>0, <1>1, WordsSent
  <2> QED BY <1>1, <1>4, <2>1
<1>6. /\ Current' => Current
      /\ Watching' <=> Watching
      /\ \A p : (Waiting(p)' <=> Waiting(p)) /\ (NewBorn(p)' <=> NewBorn(p))
  BY <1>0 DEF Current, Watching, Waiting, NewBorn
<1>7. KernelOK'
  BY <1>0, KernelSame
<1>8. WordOK'
  <2> SUFFICES ASSUME Watching, NEW p \in Pids, NEW i \in 1..Len(socket'), LastWord(i, p)', ~ Waiting(p)
               PROVE  IF socket'[i].kind = "EXIT" THEN live[p] = Blank ELSE Accurate(socket'[i].id, p)
    BY <1>0, <1>6 DEF WordOK, Accurate
  <2>1. i \in 1..Len(socket) /\ LastWord(i, p) /\ socket'[i] = socket[i]
    BY <1>4, <1>5
  <2> QED BY <1>0, <2>1 DEF WordOK
<1>9. FrontOK'
  <2> SUFFICES ASSUME Current, ~ Overdue, NEW p \in Pids
               PROVE  /\ ~ Underway(p)' /\ ~ NewBorn(p)' =>
                             Agree(helper.cache[p].start, index.by_pid[p].start)
                      /\ ~ Waiting(p)' =>
                             \A i \in 1..Len(socket') :
                                 /\ LastWord(i, p)' /\ socket'[i].kind = "EXIT"
                                 /\ \A j \in 1..Len(socket') : j < i => socket'[j].pid # p
                                 => Agree(socket'[i].id.start, index.by_pid[p].start)
    BY <1>0, <1>2, <1>6 DEF FrontOK
  <2>1. ~ Underway(p)' /\ ~ NewBorn(p)' => Agree(helper.cache[p].start, index.by_pid[p].start)
    BY <1>0, <1>5, <1>6 DEF FrontOK
  <2>2. ASSUME ~ Waiting(p)', NEW i \in 1..Len(socket'), LastWord(i, p)', socket'[i].kind = "EXIT",
               \A j \in 1..Len(socket') : j < i => socket'[j].pid # p
        PROVE  Agree(socket'[i].id.start, index.by_pid[p].start)
    <3>1. i \in 1..Len(socket) /\ LastWord(i, p) /\ socket'[i] = socket[i]
      BY <1>4, <1>5, <2>2
    <3>2. \A j \in 1..Len(socket) : j < i => socket[j].pid # p
      BY <1>4, <2>2
    <3> QED BY <1>0, <1>6, <2>2, <3>1, <3>2 DEF FrontOK
  <2> QED BY <2>1, <2>2
<1>10. MainOK'
  <2> SUFFICES ASSUME Current', ~ Overdue', NEW p \in Pids, ~ Waiting(p)', ~ Underway(p)'
               PROVE  EntryOK(p)' /\ PlaceOK(p)'
    BY DEF MainOK
  <2>1. EntryOK(p) /\ PlaceOK(p)
    BY <1>0, <1>2, <1>5, <1>6 DEF MainOK
  <2>2. Served(p) => Served(p)'
    BY <1>0, ServedSame
  <2> QED BY <1>0, <2>1, <2>2, ClaimsSame
<1> QED
  BY <1>2, <1>3, <1>7, <1>8, <1>9, <1>10 DEF TrackOK

\* The helper dies, or it finds that the netlink buffer has overflowed.
LEMMA HelperEnds ==
    ASSUME IInv, StreamOK, TrackOK, KernelOverflow \/ HelperDies
    PROVE  StreamOK' /\ TrackOK'
<1>0. /\ SourcesOK /\ CacheOK /\ helper \in Helpers
  BY DEF IInv, TrackOK, SourcesOK
<1>1. /\ ~ helper'.up /\ netlink' = <<>> /\ UNCHANGED monitor
      /\ helper'.inst = helper.inst /\ helper'.seq = helper.seq /\ helper'.drops = helper.drops
      /\ helper'.cache = helper.cache
      /\ \/ UNCHANGED socket
         \/ \E m : /\ m.kind = "STATUS" /\ m.pid \notin Pids /\ m.inst = helper.inst
                   /\ m.seq = helper.seq /\ m.drops = helper.drops
                   /\ socket' = Append(socket, m)
  <2>1. CASE HelperDies
    BY <1>0, <2>1 DEF HelperDies, Helpers
  <2>2. CASE KernelOverflow
    <3> DEFINE h == [helper EXCEPT !.overflows = @ + 1, !.up = FALSE]
    <3>1. /\ helper' = h /\ netlink' = <<>> /\ UNCHANGED monitor
          /\ UNCHANGED socket \/ socket' = Append(socket, StatusMessage(h))
      BY <2>2 DEF KernelOverflow, send_status, Sent, Dropped
    <3>2. ~ h.up /\ h.inst = helper.inst /\ h.seq = helper.seq /\ h.drops = helper.drops
          /\ h.cache = helper.cache
      BY <1>0 DEF Helpers
    <3> HIDE DEF h
    <3>3. StatusMessage(h).kind = "STATUS" /\ StatusMessage(h).pid \notin Pids
          /\ StatusMessage(h).inst = h.inst /\ StatusMessage(h).seq = h.seq
          /\ StatusMessage(h).drops = h.drops
      BY StatusOfNone
    <3> QED BY <3>1, <3>2, <3>3
  <2> QED BY <2>1, <2>2
<1>2. StreamOK' /\ CacheOK'
  <2>1. CASE UNCHANGED socket
    BY <1>0, <1>1, <2>1, StreamSame, CacheSame
  <2>2. ASSUME NEW m, m.kind = "STATUS", m.pid \notin Pids, m.inst = helper.inst,
               m.seq = helper.seq, m.drops = helper.drops, socket' = Append(socket, m)
        PROVE  StreamOK' /\ CacheOK'
    <3>1. StreamOK' /\ (Overdue => Overdue')
      BY <1>0, <1>1, <2>2, StreamSent
    <3>2. CacheOK'
      BY <1>0, <1>1, <2>2, CacheStatus
    <3> QED BY <3>1, <3>2
  <2> QED BY <1>1, <2>1, <2>2
<1>3. ~ Watching'
  BY <1>1 DEF Watching
<1> QED
  BY <1>1, <1>2, <1>3, Unwatched

\* The netlink buffer with its first event taken.
LEMMA NetlinkTake ==
    ASSUME SourcesOK, netlink # <<>>, netlink' = Tail(netlink)
    PROVE  LET e == Head(netlink) IN
           /\ e \in Events
           /\ \A p : /\ Waiting(p) <=> Waiting(p)' \/ e.pid = p
                     /\ NewBorn(p) <=> NewBorn(p)' \/ (e.pid = p /\ e.type = "START")
           /\ KernelOK /\ Watching /\ e.type = "EXIT" =>
                \A p : e.pid = p /\ ~ Waiting(p)' => live[p] = Blank
           /\ KernelOK /\ Watching /\ UNCHANGED live =>
                \A k \in 1..Len(netlink') :
                    /\ netlink'[k].type = "EXIT"
                    /\ \A l \in 1..Len(netlink') : k < l => netlink'[l].pid # netlink'[k].pid
                    => live'[netlink'[k].pid] = Blank
<1> DEFINE e == Head(netlink)
<1>1. netlink \in Seq(Events)
  BY DEF SourcesOK
<1>2. /\ Len(netlink) \in Nat /\ 1 \in 1..Len(netlink) /\ e = netlink[1]
      /\ Len(netlink') = Len(netlink) - 1
      /\ \A i \in 1..Len(netlink') : i + 1 \in 1..Len(netlink) /\ netlink'[i] = netlink[i + 1]
      /\ \A i \in 1..Len(netlink) :
            i = 1 \/ (i - 1 \in 1..Len(netlink') /\ netlink'[i - 1] = netlink[i])
  BY <1>1, TailParts
<1>3. e \in Events
  BY <1>1, <1>2
<1>4. ASSUME NEW p
      PROVE  /\ Waiting(p) <=> Waiting(p)' \/ e.pid = p
             /\ NewBorn(p) <=> NewBorn(p)' \/ (e.pid = p /\ e.type = "START")
  <2>1. Waiting(p)' => Waiting(p)
    BY <1>2 DEF Waiting
  <2>2. NewBorn(p)' => NewBorn(p)
    BY <1>2 DEF NewBorn
  <2>3. /\ e.pid = p => Waiting(p)
        /\ e.pid = p /\ e.type = "START" => NewBorn(p)
    BY <1>2 DEF Waiting, NewBorn
  <2>4. ASSUME NEW k \in 1..Len(netlink), netlink[k].pid = p
        PROVE  /\ Waiting(p)' \/ e.pid = p
               /\ netlink[k].type = "START" => NewBorn(p)' \/ (e.pid = p /\ e.type = "START")
    <3>1. CASE k = 1
      BY <1>2, <2>4, <3>1
    <3>2. CASE k # 1
      <4>1. k - 1 \in 1..Len(netlink') /\ netlink'[k - 1] = netlink[k]
        BY <1>2, <3>2
      <4>2. \E i \in 1..Len(netlink') : netlink'[i] = netlink[k]
        BY <4>1
      <4> QED BY <2>4, <4>2 DEF Waiting, NewBorn
    <3> QED BY <3>1, <3>2
  <2> QED BY <2>1, <2>2, <2>3, <2>4 DEF Waiting, NewBorn
<1>5. ASSUME KernelOK, Watching, e.type = "EXIT", NEW p, e.pid = p, ~ Waiting(p)'
      PROVE  live[p] = Blank
  <2>1. \A l \in 1..Len(netlink) : 1 < l => netlink[l].pid # netlink[1].pid
    <3> SUFFICES ASSUME NEW l \in 1..Len(netlink), 1 < l
                 PROVE  netlink[l].pid # p
      BY <1>2, <1>5
    <3>1. l - 1 \in 1..Len(netlink') /\ netlink'[l - 1] = netlink[l]
      BY <1>2
    <3> QED BY <1>5, <3>1 DEF Waiting
  <2> QED BY <1>2, <1>5, <2>1 DEF KernelOK
<1>6. ASSUME KernelOK, Watching, UNCHANGED live, NEW k \in 1..Len(netlink'), netlink'[k].type = "EXIT",
             \A l \in 1..Len(netlink') : k < l => netlink'[l].pid # netlink'[k].pid
      PROVE  live'[netlink'[k].pid] = Blank
  <2>1. k + 1 \in 1..Len(netlink) /\ netlink'[k] = netlink[k + 1]
    BY <1>2
  <2>2. ASSUME NEW l \in 1..Len(netlink), k + 1 < l
        PROVE  netlink[l].pid # netlink[k + 1].pid
    <3>1. l - 1 \in 1..Len(netlink') /\ netlink'[l - 1] = netlink[l] /\ k < l - 1
      BY <1>2, <2>2
    <3> QED BY <1>6, <2>1, <3>1
  <2> QED BY <1>6, <2>1, <2>2 DEF KernelOK
<1> QED
  BY <1>3, <1>4, <1>5, <1>6

\* The helper has forwarded event e with the metadata id.
Forwarded(e, id) ==
    /\ id = IF e.type = "EXIT" THEN helper.cache[e.pid] ELSE live[e.pid]
    /\ UNCHANGED <<live, monitor, index, router, worker, lost, moved>>
    /\ helper.up /\ helper'.up /\ helper'.flooded = helper.flooded
    /\ helper'.inst = helper.inst /\ helper'.seq = helper.seq + 1
    /\ helper'.cache[e.pid] = IF e.type = "EXIT" THEN Blank
                              ELSE IF id # Blank THEN id ELSE helper.cache[e.pid]
    /\ \A p \in Pids \ {e.pid} : helper'.cache[p] = helper.cache[p]
    /\ \/ /\ socket # <<>> /\ UNCHANGED socket /\ helper'.drops = helper.drops + 1
       \/ /\ helper'.drops = helper.drops
          /\ \E m : /\ m.kind = e.type /\ m.inst = helper.inst /\ m.seq = helper'.seq
                    /\ m.drops = helper.drops /\ m.pid = e.pid /\ m.id = id
                    /\ socket' = Append(socket, m)
    /\ \A p : /\ Waiting(p) <=> Waiting(p)' \/ e.pid = p
              /\ NewBorn(p) <=> NewBorn(p)' \/ (e.pid = p /\ e.type = "START")
    /\ Watching /\ e.type = "EXIT" /\ ~ Waiting(e.pid)' => live[e.pid] = Blank
    /\ Watching =>
         \A k \in 1..Len(netlink') :
             /\ netlink'[k].type = "EXIT"
             /\ \A l \in 1..Len(netlink') : k < l => netlink'[l].pid # netlink'[k].pid
             => live'[netlink'[k].pid] = Blank

\* The event forwarded, apart.
LEMMA ForwardParts ==
    ASSUME IInv, KernelOK, forward_event
    PROVE  \E e \in Events : \E id : Forwarded(e, id)
<1> DEFINE e0 == Head(netlink)
           id0 == Metadata(e0)
           c == IF e0.type = "EXIT" THEN Blank ELSE IF id0 # Blank THEN id0 ELSE helper.cache[e0.pid]
           h == [helper EXCEPT !.seq = @ + 1, !.cache[e0.pid] = c]
           k == [h EXCEPT !.drops = @ + 1]
           m == Message(e0.type, h, e0, id0)
<1>1. /\ helper.up /\ netlink # <<>> /\ netlink' = Tail(netlink)
      /\ UNCHANGED <<live, monitor, index, router, worker, jobs, lost, moved>>
      /\ \/ socket' = Append(socket, m) /\ helper' = h
         \/ socket # <<>> /\ UNCHANGED socket /\ helper' = k
  BY DEF forward_event, Sent, Dropped
<1>2. SourcesOK /\ helper \in Helpers
  BY DEF IInv, SourcesOK
<1>3. /\ e0 \in Events
      /\ \A p : /\ Waiting(p) <=> Waiting(p)' \/ e0.pid = p
                /\ NewBorn(p) <=> NewBorn(p)' \/ (e0.pid = p /\ e0.type = "START")
      /\ KernelOK /\ Watching /\ e0.type = "EXIT" =>
           \A p : e0.pid = p /\ ~ Waiting(p)' => live[p] = Blank
      /\ KernelOK /\ Watching /\ UNCHANGED live =>
           \A n \in 1..Len(netlink') :
               /\ netlink'[n].type = "EXIT"
               /\ \A l \in 1..Len(netlink') : n < l => netlink'[l].pid # netlink'[n].pid
               => live'[netlink'[n].pid] = Blank
  BY <1>1, <1>2, NetlinkTake
<1>4. /\ e0.pid \in Pids
      /\ id0 = IF e0.type = "EXIT" THEN helper.cache[e0.pid] ELSE live[e0.pid]
  BY <1>3 DEF Events, Metadata
<1> HIDE DEF id0, c, e0
<1>5. /\ h.up = helper.up /\ h.flooded = helper.flooded /\ h.inst = helper.inst
      /\ h.seq = helper.seq + 1 /\ h.drops = helper.drops
      /\ h.cache[e0.pid] = c /\ \A p \in Pids \ {e0.pid} : h.cache[p] = helper.cache[p]
      /\ DOMAIN h = DOMAIN helper
  BY <1>2, <1>4 DEF Helpers
<1> HIDE DEF h
<1>7. /\ k.up = helper.up /\ k.flooded = helper.flooded /\ k.inst = helper.inst
      /\ k.seq = helper.seq + 1 /\ k.drops = helper.drops + 1
      /\ k.cache = h.cache
  BY <1>2, <1>5 DEF Helpers
<1>8. /\ m.kind = e0.type /\ m.inst = helper.inst /\ m.seq = helper.seq + 1
      /\ m.drops = helper.drops /\ m.pid = e0.pid /\ m.id = id0
  BY <1>5 DEF Message
<1> HIDE DEF k, m
<1>9. /\ helper'.up /\ helper'.flooded = helper.flooded
      /\ helper'.inst = helper.inst /\ helper'.seq = helper.seq + 1
      /\ helper'.cache = h.cache
      /\ \/ /\ socket # <<>> /\ UNCHANGED socket /\ helper'.drops = helper.drops + 1
         \/ /\ helper'.drops = helper.drops /\ socket' = Append(socket, m)
  BY <1>1, <1>5, <1>7
<1>10. \E e : e = e0
  OBVIOUS
<1>11. PICK e : e = e0
  BY <1>10
<1>12. c = IF e.type = "EXIT" THEN Blank ELSE IF id0 # Blank THEN id0 ELSE helper.cache[e.pid]
  BY <1>11 DEF c
<1>13. Watching /\ e.type = "EXIT" /\ ~ Waiting(e.pid)' => live[e.pid] = Blank
  BY <1>3, <1>11
<1>14. \E id : id = id0
  OBVIOUS
<1>15. PICK id : id = id0
  BY <1>14
<1>16. /\ helper'.cache[e.pid] = IF e.type = "EXIT" THEN Blank
                                       ELSE IF id # Blank THEN id ELSE helper.cache[e.pid]
       /\ \A p \in Pids \ {e.pid} : helper'.cache[p] = helper.cache[p]
  BY <1>5, <1>9, <1>11, <1>12, <1>15
<1>17. \/ /\ socket # <<>> /\ UNCHANGED socket /\ helper'.drops = helper.drops + 1
       \/ /\ helper'.drops = helper.drops
          /\ m.kind = e.type /\ m.inst = helper.inst /\ m.seq = helper'.seq
          /\ m.drops = helper.drops /\ m.pid = e.pid /\ m.id = id
          /\ socket' = Append(socket, m)
  BY <1>8, <1>9, <1>11, <1>15
<1>18. e \in Events /\ id = IF e.type = "EXIT" THEN helper.cache[e.pid] ELSE live[e.pid]
  BY <1>3, <1>4, <1>11, <1>15
<1>19. \A p : /\ Waiting(p) <=> Waiting(p)' \/ e.pid = p
              /\ NewBorn(p) <=> NewBorn(p)' \/ (e.pid = p /\ e.type = "START")
  BY <1>3, <1>11
<1>20. Watching =>
           \A n \in 1..Len(netlink') :
               /\ netlink'[n].type = "EXIT"
               /\ \A l \in 1..Len(netlink') : n < l => netlink'[l].pid # netlink'[n].pid
               => live'[netlink'[n].pid] = Blank
  BY <1>1, <1>3
<1>21. Forwarded(e, id)
  BY <1>1, <1>9, <1>13, <1>16, <1>17, <1>18, <1>19, <1>20 DEF Forwarded
<1> QED
  BY <1>18, <1>21

\* An event forwarded, or lost on the way: then the monitor has a drop to find out about.
LEMMA ForwardTracks ==
    ASSUME IInv, StreamOK, TrackOK, forward_event
    PROVE  StreamOK' /\ TrackOK'
<1>0. /\ SourcesOK /\ KernelOK /\ CacheOK /\ WordOK /\ FrontOK /\ MainOK
      /\ Len(socket) \in Nat
  BY Counters DEF IInv, TrackOK
<1>a. PICK e \in Events : \E id : Forwarded(e, id)
  BY <1>0, ForwardParts
<1>b. PICK id : Forwarded(e, id)
  BY <1>a
<1> USE DEF Forwarded
<1> DEFINE p == e.pid
<1>1. p \in Pids /\ e.type \in {"START", "EXEC", "EXIT"}
  BY DEF Events
<1>2. Blank.start = 0
  BY Values
<1>3. Watching' <=> Watching
  BY <1>b DEF Watching
<1>4. KernelOK'
  <2> SUFFICES ASSUME Watching, NEW q \in Pids, live'[q] # Blank, ~ NewBorn(q)'
               PROVE  Agree(helper'.cache[q].start, live'[q].start)
    BY <1>b, <1>3 DEF KernelOK
  <2>1. CASE q = p
    BY <1>b, <1>2, <2>1 DEF Agree
  <2>2. CASE q # p
    <3>1. ~ NewBorn(q) /\ live[q] # Blank
      BY <1>b, <2>2
    <3>2. Agree(helper.cache[q].start, live[q].start)
      BY <1>0, <3>1 DEF KernelOK
    <3> QED BY <1>b, <2>2, <3>2
  <2> QED BY <2>1, <2>2
<1>5. CASE socket # <<>> /\ UNCHANGED socket /\ helper'.drops = helper.drops + 1
  <2>1. StreamOK' /\ (Current' => Overdue')
    BY <1>0, <1>b, <1>5, StreamDropped
  <2>2. \A q \in Pids, i \in 1..Len(socket) : ~ LastWord(i, q)'
    <3> SUFFICES ASSUME NEW i \in 1..Len(socket), socket[i].inst = helper.inst
                 PROVE  socket[i].drops # helper'.drops
      BY <1>b, <1>5 DEF LastWord
    <3>1. socket[i].drops <= helper.drops
      BY DEF StreamOK, Emitted
    <3>2. socket[i].drops \in Nat /\ helper.drops \in Nat
      BY <1>0, Counters
    <3> QED BY <1>5, <3>1, <3>2
  <2>3. CacheOK'
    BY <1>0, <1>5, <2>2 DEF CacheOK, NextWord
  <2>4. WordOK' /\ FrontOK' /\ MainOK'
    BY <1>5, <2>1, <2>2 DEF WordOK, FrontOK, MainOK
  <2> QED BY <1>4, <2>1, <2>3, <2>4 DEF TrackOK
<1>6. ASSUME helper'.drops = helper.drops, NEW m,
             m.kind = e.type, m.inst = helper.inst, m.seq = helper'.seq, m.drops = helper.drops,
             m.pid = p, m.id = id, socket' = Append(socket, m)
      PROVE  StreamOK' /\ TrackOK'
  <2>1. StreamOK' /\ (Overdue => Overdue')
    BY <1>0, <1>1, <1>b, <1>6, StreamSent
  <2>2. /\ \A i \in 1..Len(socket) : i \in 1..Len(socket') /\ socket'[i] = socket[i] /\ i < Len(socket) + 1
        /\ Len(socket) + 1 \in 1..Len(socket') /\ socket'[Len(socket) + 1] = m
        /\ \A i \in 1..Len(socket') : i \in 1..Len(socket) \/ i = Len(socket) + 1
    BY <1>0, <1>6, SocketAppend
  <2>3. /\ \A q : Underway(q)' <=> Underway(q) \/ p = q
        /\ \A q, i : i \in 1..Len(socket) /\ LastWord(i, q)' => LastWord(i, q) /\ p # q
        /\ \A j, i : i \in 1..Len(socket) /\ j \in 1..Len(socket) /\ NextWord(j, i)' => NextWord(j, i)
        /\ \A j, i : j \in 1..Len(socket) /\ i = Len(socket) + 1 /\ NextWord(j, i)' => LastWord(j, p)
        /\ \A q, i : i = Len(socket) + 1 /\ LastWord(i, q)' => p = q
    BY <1>0, <1>b, <1>6, WordsSent
  <2>4. CacheOK'
    <3>1. ASSUME NEW q \in Pids, NEW i \in 1..Len(socket'), LastWord(i, q)'
          PROVE  IF socket'[i].kind = "EXIT" THEN helper'.cache[q].start = 0
                 ELSE Agree(helper'.cache[q].start, socket'[i].id.start)
      <4>1. CASE i \in 1..Len(socket)
        <5>1. LastWord(i, q) /\ q # p /\ socket'[i] = socket[i]
          BY <2>2, <2>3, <3>1, <4>1
        <5>2. helper'.cache[q] = helper.cache[q]
          BY <1>b, <5>1
        <5> QED BY <1>0, <4>1, <5>1, <5>2 DEF CacheOK
      <4>2. CASE i = Len(socket) + 1
        <5>1. q = p /\ socket'[i].kind = e.type /\ socket'[i].id = id
          BY <1>6, <2>2, <2>3, <3>1, <4>2
        <5> QED BY <1>b, <1>2, <5>1 DEF Agree
      <4> QED BY <2>2, <4>1, <4>2
    <3>2. ASSUME NEW j \in 1..Len(socket'), NEW i \in 1..Len(socket'), NextWord(j, i)',
                 socket'[i].kind = "EXIT"
          PROVE  IF socket'[j].kind = "EXIT" THEN socket'[i].id.start = 0
                 ELSE Agree(socket'[i].id.start, socket'[j].id.start)
      <4>0. j \in 1..Len(socket) /\ socket'[j] = socket[j]
        <5>1. j < i
          BY <3>2 DEF NextWord
        <5>2. j \in 1..Len(socket)
          BY <1>0, <2>2, <5>1
        <5> QED BY <2>2, <5>2
      <4>1. CASE i \in 1..Len(socket)
        <5>1. NextWord(j, i) /\ socket'[i] = socket[i]
          BY <2>2, <2>3, <3>2, <4>0, <4>1
        <5> QED BY <1>0, <3>2, <4>0, <4>1, <5>1 DEF CacheOK
      <4>2. CASE i = Len(socket) + 1
        <5>1. LastWord(j, p)
          BY <2>3, <3>2, <4>0, <4>2
        <5>2. e.type = "EXIT" /\ socket'[i].id = helper.cache[p]
          BY <1>b, <1>6, <2>2, <3>2, <4>2
        <5>3. IF socket[j].kind = "EXIT" THEN helper.cache[p].start = 0
              ELSE Agree(helper.cache[p].start, socket[j].id.start)
          BY <1>0, <1>1, <4>0, <5>1 DEF CacheOK
        <5> QED BY <4>0, <5>2, <5>3
      <4> QED BY <2>2, <4>1, <4>2
    <3> QED BY <3>1, <3>2 DEF CacheOK
  <2>5. WordOK'
    <3> SUFFICES ASSUME Watching, NEW q \in Pids, NEW i \in 1..Len(socket'), LastWord(i, q)',
                        ~ Waiting(q)'
                 PROVE  IF socket'[i].kind = "EXIT" THEN live[q] = Blank
                        ELSE Accurate(socket'[i].id, q)
      BY <1>3, <1>b DEF WordOK, Accurate
    <3>1. CASE i \in 1..Len(socket)
      <4>1. LastWord(i, q) /\ q # p /\ socket'[i] = socket[i] /\ ~ Waiting(q)
        BY <1>b, <2>2, <2>3, <3>1
      <4> QED BY <1>0, <3>1, <4>1 DEF WordOK
    <3>2. CASE i = Len(socket) + 1
      <4>1. q = p /\ socket'[i].kind = e.type /\ socket'[i].id = id
        BY <1>6, <2>2, <2>3, <3>2
      <4>2. CASE e.type = "EXIT"
        BY <1>b, <4>1, <4>2
      <4>3. CASE e.type # "EXIT"
        BY <1>b, <4>1, <4>3 DEF Accurate
      <4> QED BY <4>2, <4>3
    <3> QED BY <2>2, <3>1, <3>2
  <2>6. Current' => Current
    BY <1>3, <1>b DEF Current
  <2>7. FrontOK'
    <3> SUFFICES ASSUME Current, ~ Overdue, NEW q \in Pids
                 PROVE  /\ ~ Underway(q)' /\ ~ NewBorn(q)' =>
                               Agree(helper'.cache[q].start, index.by_pid[q].start)
                        /\ ~ Waiting(q)' =>
                               \A i \in 1..Len(socket') :
                                   /\ LastWord(i, q)' /\ socket'[i].kind = "EXIT"
                                   /\ \A j \in 1..Len(socket') : j < i => socket'[j].pid # q
                                   => Agree(socket'[i].id.start, index.by_pid[q].start)
      BY <1>b, <2>1, <2>6 DEF FrontOK
    <3>1. ~ Underway(q)' /\ ~ NewBorn(q)' => Agree(helper'.cache[q].start, index.by_pid[q].start)
      <4> SUFFICES ASSUME ~ Underway(q)', ~ NewBorn(q)'
                   PROVE  Agree(helper'.cache[q].start, index.by_pid[q].start)
        OBVIOUS
      <4>1. q # p /\ ~ Underway(q) /\ ~ NewBorn(q)
        BY <1>b, <2>3
      <4>2. helper'.cache[q] = helper.cache[q]
        BY <1>b, <4>1
      <4> QED BY <1>0, <4>1, <4>2 DEF FrontOK
    <3>2. ASSUME ~ Waiting(q)', NEW i \in 1..Len(socket'), LastWord(i, q)', socket'[i].kind = "EXIT",
                 \A j \in 1..Len(socket') : j < i => socket'[j].pid # q
          PROVE  Agree(socket'[i].id.start, index.by_pid[q].start)
      <4>1. CASE i \in 1..Len(socket)
        <5>1. LastWord(i, q) /\ q # p /\ socket'[i] = socket[i] /\ ~ Waiting(q)
          BY <1>b, <2>2, <2>3, <3>2, <4>1
        <5>2. \A j \in 1..Len(socket) : j < i => socket[j].pid # q
          BY <2>2, <3>2
        <5> QED BY <1>0, <3>2, <4>1, <5>1, <5>2 DEF FrontOK
      <4>2. CASE i = Len(socket) + 1
        <5>1. q = p /\ e.type = "EXIT" /\ socket'[i].id = helper.cache[q]
          BY <1>b, <1>6, <2>2, <2>3, <3>2, <4>2
        <5>2. ~ Underway(q)
          BY <2>2, <3>2, <4>2 DEF Underway
        <5>3. ~ NewBorn(q)
          <6>1. ~ NewBorn(q)'
            BY <3>2 DEF NewBorn, Waiting
          <6> QED BY <1>b, <5>1, <6>1
        <5> QED BY <1>0, <5>1, <5>2, <5>3 DEF FrontOK
      <4> QED BY <2>2, <4>1, <4>2
    <3> QED BY <3>1, <3>2
  <2>8. MainOK'
    <3> SUFFICES ASSUME Current', ~ Overdue', NEW q \in Pids, ~ Waiting(q)', ~ Underway(q)'
                 PROVE  EntryOK(q)' /\ PlaceOK(q)'
      BY DEF MainOK
    <3>1. EntryOK(q) /\ PlaceOK(q)
      BY <1>0, <1>b, <2>1, <2>3, <2>6 DEF MainOK
    <3>2. live'[q] = live[q] /\ index'.by_pid[q] = index.by_pid[q] /\ UNCHANGED <<router, worker>>
          /\ (q \in lost => q \in lost') /\ (q \in moved => q \in moved')
      BY <1>b
    <3>3. Served(q) => Served(q)'
      BY <3>2, ServedSame
    <3> QED BY <3>1, <3>2, <3>3, ClaimsSame
  <2> QED BY <1>4, <2>1, <2>4, <2>5, <2>7, <2>8 DEF TrackOK
<1> QED
  BY <1>b, <1>5, <1>6

\* A new instance: its predecessors' datagrams say nothing any more.
LEMMA HelperStartsTracks ==
    ASSUME IInv, StreamOK, TrackOK, HelperStarts
    PROVE  StreamOK' /\ TrackOK'
<1> DEFINE h == [up |-> TRUE, inst |-> helper.inst + 1, seq |-> 0, drops |-> 0,
                 overflows |-> 0, flooded |-> FALSE, cache |-> live]
           m == StatusMessage(h)
<1>0. /\ SourcesOK /\ KernelOK /\ CacheOK
  BY DEF IInv, TrackOK
<1>1. /\ ~ helper.up /\ helper' = h /\ UNCHANGED <<live, netlink, monitor>>
      /\ socket' = Append(socket, m) \/ (socket # <<>> /\ socket' = socket)
  BY DEF HelperStarts, send_status, Sent, Dropped
<1>2. /\ m.kind = "STATUS" /\ m.pid \notin Pids /\ m.inst = h.inst /\ m.seq = h.seq
      /\ m.drops = h.drops
  BY StatusOfNone
<1>3. /\ helper'.inst = helper.inst + 1 /\ helper'.seq = 0 /\ helper'.drops = 0
      /\ helper'.cache = live
      /\ m.inst = helper'.inst /\ m.seq = 0 /\ m.drops = 0
  BY <1>1, <1>2
<1> HIDE DEF h, m
<1>4. StreamOK' /\ ~ Current'
  BY <1>0, <1>1, <1>2, <1>3, StreamRestart
<1>5. Len(socket) \in Nat
      /\ \A i \in 1..Len(socket') :
           \/ i \in 1..Len(socket) /\ socket'[i] = socket[i]
           \/ i = Len(socket) + 1 /\ socket'[i] = m
  <2>1. CASE socket' = Append(socket, m)
    BY <1>0, <2>1, SocketAppend, Counters
  <2>2. CASE socket' = socket
    BY <1>0, <2>2, Counters
  <2> QED BY <1>1, <2>1, <2>2
<1>6. \A p \in Pids, i \in 1..Len(socket') : ~ LastWord(i, p)'
  <2> SUFFICES ASSUME NEW p \in Pids, NEW i \in 1..Len(socket')
               PROVE  socket'[i].pid # p \/ socket'[i].inst # helper'.inst
    BY DEF LastWord
  <2>1. CASE i \in 1..Len(socket) /\ socket'[i] = socket[i]
    <3>1. socket[i].inst <= helper.inst
      BY <2>1 DEF StreamOK, Emitted
    <3>2. socket[i].inst \in Nat /\ helper.inst \in Nat
      BY <1>0, <2>1, Counters
    <3> QED BY <1>3, <2>1, <3>1, <3>2
  <2> QED BY <1>2, <1>5, <2>1
<1>7. CacheOK'
  <2> SUFFICES ASSUME NEW j \in 1..Len(socket'), NEW i \in 1..Len(socket'), NextWord(j, i)',
                      socket'[i].kind = "EXIT"
               PROVE  IF socket'[j].kind = "EXIT" THEN socket'[i].id.start = 0
                      ELSE Agree(socket'[i].id.start, socket'[j].id.start)
    BY <1>6 DEF CacheOK
  <2>1. i \in 1..Len(socket) /\ socket'[i] = socket[i]
    BY <1>2, <1>5
  <2>2. j \in 1..Len(socket) /\ socket'[j] = socket[j]
    <3>1. j < i
      BY DEF NextWord
    <3> QED BY <1>5, <2>1, <3>1
  <2>3. \A l \in 1..Len(socket) : l < i => l \in 1..Len(socket') /\ socket'[l] = socket[l]
    <3>1. \A l \in 1..Len(socket) : l < i => l \in 1..Len(socket')
      <4>1. Len(socket') \in Nat
        BY <1>0, <1>1, <1>5, SocketAppend
      <4> QED BY <1>5, <2>1, <4>1
    <3> QED BY <1>5, <3>1
  <2>4. NextWord(j, i)
    BY <2>1, <2>2, <2>3 DEF NextWord
  <2> QED BY <1>0, <2>1, <2>2, <2>4 DEF CacheOK
<1>8. KernelOK'
  <2>1. netlink' = <<>> /\ Len(<<>>) = 0
    BY <1>0, <1>1 DEF KernelOK
  <2>2. ~ (\E k \in 1..Len(netlink') : TRUE)
    BY <2>1
  <2> QED BY <1>1, <1>3, <2>1, <2>2 DEF KernelOK, Agree
<1>9. WordOK' /\ FrontOK' /\ MainOK'
  BY <1>4, <1>6 DEF WordOK, FrontOK, MainOK
<1> QED
  BY <1>4, <1>7, <1>8, <1>9 DEF TrackOK

-----------------------------------------------------------------------------
(* The monitor.                                                            *)

\* What a datagram less means for those that wait.
LEMMA WordsTaken ==
    ASSUME SourcesOK, socket # <<>>, socket' = Tail(socket), UNCHANGED helper
    PROVE  LET m == Head(socket) IN
           /\ \A p : Underway(p) <=> Underway(p)' \/ m.pid = p
           /\ \A p : \A i \in 1..Len(socket') : LastWord(i, p)' => LastWord(i + 1, p)
           /\ \A j, i \in 1..Len(socket') : NextWord(j, i)' => NextWord(j + 1, i + 1)
           /\ \A p : \A i \in 1..Len(socket') :
                /\ LastWord(i, p)' /\ m.pid = p /\ m.inst = helper.inst /\ m.drops = helper.drops
                /\ \A j \in 1..Len(socket') : j < i => socket'[j].pid # p
                => NextWord(1, i + 1)
           /\ \A p : m.pid = p /\ ~ Underway(p)' /\ m.inst = helper.inst /\ m.drops = helper.drops
                     => LastWord(1, p)
<1> DEFINE m == Head(socket)
<1>1. /\ 1 \in 1..Len(socket) /\ m = socket[1]
      /\ Len(socket') = Len(socket) - 1
      /\ \A i \in 1..Len(socket') : i + 1 \in 1..Len(socket) /\ socket'[i] = socket[i + 1]
      /\ \A i \in 1..Len(socket) : i = 1 \/ (i - 1 \in 1..Len(socket') /\ socket'[i - 1] = socket[i])
  BY SocketTake
<1>2. Len(socket) \in Nat
  BY Counters
<1> HIDE DEF m
<1>3. ASSUME NEW p
      PROVE  Underway(p) <=> Underway(p)' \/ m.pid = p
  <2>1. Underway(p) => Underway(p)' \/ m.pid = p
    BY <1>1 DEF Underway
  <2>2. m.pid = p => Underway(p)
    BY <1>1 DEF Underway
  <2>3. Underway(p)' => Underway(p)
    BY <1>1 DEF Underway
  <2> QED BY <2>1, <2>2, <2>3
<1>4. ASSUME NEW p, NEW i \in 1..Len(socket'), LastWord(i, p)'
      PROVE  LastWord(i + 1, p)
  <2>1. socket'[i] = socket[i + 1]
    BY <1>1
  <2>2. \A l \in 1..Len(socket) : i + 1 < l => socket[l].pid # p
    <3> SUFFICES ASSUME NEW l \in 1..Len(socket), i + 1 < l PROVE socket[l].pid # p
      OBVIOUS
    <3>1. l - 1 \in 1..Len(socket') /\ socket'[l - 1] = socket[l] /\ i < l - 1
      BY <1>1, <1>2
    <3> QED BY <1>4, <3>1 DEF LastWord
  <2> QED BY <1>4, <2>1, <2>2 DEF LastWord
<1>5. ASSUME NEW j \in 1..Len(socket'), NEW i \in 1..Len(socket'), NextWord(j, i)'
      PROVE  NextWord(j + 1, i + 1)
  <2>1. socket'[i] = socket[i + 1] /\ socket'[j] = socket[j + 1]
    BY <1>1
  <2>2. j + 1 < i + 1
    BY <1>5 DEF NextWord
  <2>3. \A l \in 1..Len(socket) : j + 1 < l /\ l < i + 1 => socket[l].pid # socket[i + 1].pid
    <3> SUFFICES ASSUME NEW l \in 1..Len(socket), j + 1 < l, l < i + 1
                 PROVE  socket[l].pid # socket[i + 1].pid
      OBVIOUS
    <3>1. l - 1 \in 1..Len(socket') /\ socket'[l - 1] = socket[l] /\ j < l - 1 /\ l - 1 < i
      BY <1>1, <1>2
    <3> QED BY <1>5, <2>1, <3>1 DEF NextWord
  <2> QED BY <1>5, <2>1, <2>2, <2>3 DEF NextWord
<1>6. ASSUME NEW p, NEW i \in 1..Len(socket'), LastWord(i, p)', m.pid = p,
             m.inst = helper.inst, m.drops = helper.drops,
             \A j \in 1..Len(socket') : j < i => socket'[j].pid # p
      PROVE  NextWord(1, i + 1)
  <2>1. /\ socket[i + 1].pid = p /\ socket[i + 1].inst = helper.inst
        /\ socket[i + 1].drops = helper.drops
    BY <1>1, <1>6 DEF LastWord
  <2>2. \A l \in 1..Len(socket) : 1 < l /\ l < i + 1 => socket[l].pid # p
    <3> SUFFICES ASSUME NEW l \in 1..Len(socket), 1 < l, l < i + 1
                 PROVE  socket[l].pid # p
      OBVIOUS
    <3>1. l - 1 \in 1..Len(socket') /\ socket'[l - 1] = socket[l] /\ l - 1 < i
      BY <1>1, <1>2
    <3> QED BY <1>6, <3>1
  <2>3. 1 < i + 1
    BY <1>1, <1>2
  <2> QED BY <1>1, <1>6, <2>1, <2>2, <2>3 DEF NextWord
<1>7. ASSUME NEW p, m.pid = p, ~ Underway(p)', m.inst = helper.inst, m.drops = helper.drops
      PROVE  LastWord(1, p)
  <2>1. \A l \in 1..Len(socket) : 1 < l => socket[l].pid # p
    <3> SUFFICES ASSUME NEW l \in 1..Len(socket), 1 < l PROVE socket[l].pid # p
      OBVIOUS
    <3>1. l - 1 \in 1..Len(socket') /\ socket'[l - 1] = socket[l]
      BY <1>1, <1>2
    <3> QED BY <1>7, <3>1 DEF Underway
  <2> QED BY <1>1, <1>7, <2>1 DEF LastWord
<1> QED
  BY <1>3, <1>4, <1>5, <1>6, <1>7 DEF m

\* A request taken for an entry of the process as it is will be served.
LEMMA TakenServes ==
    ASSUME UNCHANGED <<live, worker>>, NEW p \in Pids, Taken(p),
           NEW e, e = index'.by_pid[p], e # NoEntry,
           \/ [app |-> e.app, role |-> e.role] # target_for_identity(live[p])
           \/ \A q : Fits(live[p], [pid |-> q, app |-> e.app, role |-> e.role, start |-> e.start])
    PROVE  p \in lost' \/ Misjudged(p)' \/ Served(p)'
<1> DEFINE req == [pid |-> p, app |-> e.app, role |-> e.role, start |-> e.start]
<1>1. CASE [app |-> e.app, role |-> e.role] # target_for_identity(live[p])
  BY <1>1 DEF Misjudged
<1>2. CASE Fits(live[p], req)
  <2>1. RequestFor(index', p) = req /\ req.pid = p
    BY DEF RequestFor
  <2> HIDE DEF req
  <2>2. /\ live' = live /\ worker' = worker
        /\ \/ p \in lost'
           \/ \E i \in 1..Len(router'.queue) : router'.queue[i] = req
           \/ worker.req = req /\ worker.pc \in {"check", "observe"}
    BY <2>1 DEF Taken
  <2>3. CASE \E i \in 1..Len(router'.queue) : router'.queue[i] = req
    BY <1>2, <2>1, <2>2, <2>3 DEF Served
  <2>4. CASE worker.req = req /\ worker.pc \in {"check", "observe"}
    BY <1>2, <2>1, <2>2, <2>4 DEF Served
  <2> QED BY <2>2, <2>3, <2>4
<1> QED
  BY <1>1, <1>2

\* The entry a rebuild makes.
LEMMA RebuiltClaims ==
    ASSUME SourcesOK, UNCHANGED <<live, worker>>, NEW p \in Pids,
           index'.by_pid[p] = BootEntry(live[p]), index'.by_pid[p] # NoEntry => Taken(p)
    PROVE  EntryOK(p)' /\ PlaceOK(p)'
<1> DEFINE id == live[p]
           e == index'.by_pid[p]
<1>1. id \in Identities /\ e = BootEntry(id) /\ live'[p] = id
  BY DEF SourcesOK
<1> HIDE DEF id
<1>2. /\ e = NoEntry \/ e.start = id.start
      /\ id.prog \in Apps /\ ~ InFixtureScope(id.place) => e.app = id.prog
      /\ AppOf(id) # NoApp /\ ~ PlacedAs(id) =>
           /\ e # NoEntry
           /\ \/ [app |-> e.app, role |-> e.role] # target_for_identity(id)
              \/ \A q : Fits(id, [pid |-> q, app |-> e.app, role |-> e.role, start |-> e.start])
  BY <1>1, BootEntryOfIdentity
<1>3. EntryOK(p)'
  BY <1>1, <1>2 DEF EntryOK
<1>4. AppOf(id) # NoApp /\ ~ PlacedAs(id) => p \in lost' \/ Misjudged(p)' \/ Served(p)'
  <2> SUFFICES ASSUME AppOf(id) # NoApp, ~ PlacedAs(id)
               PROVE  p \in lost' \/ Misjudged(p)' \/ Served(p)'
    OBVIOUS
  <2> HIDE DEF e
  <2>1. Taken(p) /\ e = index'.by_pid[p]
    BY <1>2 DEF e
  <2> QED BY <1>2, <2>1, TakenServes DEF id
<1> QED
  BY <1>1, <1>3, <1>4 DEF PlaceOK

\* The entry an accurate event makes.
LEMMA AppliedClaims ==
    ASSUME SourcesOK, UNCHANGED <<live, worker, moved>>, NEW p \in Pids,
           NEW id \in Identities, NEW from \in Entries, Accurate(id, p),
           index'.by_pid[p] = EntryOf(id, classify(id, from)),
           index'.by_pid[p] # NoEntry => Taken(p)
    PROVE  EntryOK(p)' /\ PlaceOK(p)'
<1> DEFINE e == index'.by_pid[p]
           now == live[p]
<1>1. now \in Identities /\ live'[p] = now /\ moved' = moved
  BY DEF SourcesOK
<1>2. /\ id.start = now.start /\ id.prog = now.prog
      /\ \/ p \in moved
         \/ id.place = now.place
         \/ /\ inside_slice(now.place, AppOf(now))
            /\ now.prog \in Apps /\ ~ InFixtureScope(now.place) => ~ InFixtureScope(id.place)
  BY DEF Accurate
<1> HIDE DEF now
<1>3. /\ e = NoEntry \/ e.start = id.start
      /\ AppOf(id) # NoApp =>
           /\ e # NoEntry /\ e.app = AppOf(id)
           /\ \/ [app |-> e.app, role |-> e.role] # target_for_identity(id)
              \/ \A q : Fits(id, [pid |-> q, app |-> e.app, role |-> e.role, start |-> e.start])
  BY EntryOfIdentity
<1>4. now.prog \in Apps /\ ~ InFixtureScope(now.place) /\ p \notin moved => e.app = now.prog
  <2> SUFFICES ASSUME now.prog \in Apps, ~ InFixtureScope(now.place), p \notin moved
               PROVE  e.app = now.prog
    OBVIOUS
  <2>1. id.prog \in Apps /\ ~ InFixtureScope(id.place)
    BY <1>2
  <2>2. AppOf(id) = id.prog
    BY <2>1, AppOfCases
  <2>3. NoApp \notin Apps
    BY ProcessIndexAssumption
  <2> QED BY <1>2, <1>3, <2>1, <2>2, <2>3
<1>5. EntryOK(p)'
  <2>1. e # NoEntry => e.start = now.start
    BY <1>2, <1>3
  <2> QED BY <1>1, <1>4, <2>1 DEF EntryOK
<1>6. AppOf(now) # NoApp /\ ~ PlacedAs(now) /\ p \notin moved =>
        p \in lost' \/ Misjudged(p)' \/ Served(p)'
  <2> SUFFICES ASSUME AppOf(now) # NoApp, ~ PlacedAs(now), p \notin moved
               PROVE  p \in lost' \/ Misjudged(p)' \/ Served(p)'
    OBVIOUS
  <2>1. id.place = now.place
    BY <1>2 DEF PlacedAs
  <2>2. id = now
    BY <1>1, <1>2, <2>1 DEF Identities
  <2> HIDE DEF e
  <2>3. Taken(p) /\ e = index'.by_pid[p] /\ e # NoEntry
    BY <1>3, <2>2 DEF e
  <2> QED BY <1>3, <2>2, <2>3, TakenServes DEF now
<1> QED
  BY <1>1, <1>5, <1>6 DEF PlaceOK

\* The handling of a datagram, for the entry of one process.
LEMMA EntryHandled ==
    ASSUME IInv, StreamOK, HandleStatus \/ HandleEvent
    PROVE  LET m == Head(socket)
               before(p) == IF Forces(m) THEN BootEntry(live[p]) ELSE index.by_pid[p] IN
           /\ socket # <<>> /\ socket' = Tail(socket)
           /\ UNCHANGED <<live, netlink, helper, worker, jobs, moved>>
           /\ m = socket[1] /\ 1 \in 1..Len(socket)
           /\ lost \subseteq lost' /\ \A p : Served(p) => Served(p)'
           /\ m.kind = "STATUS" => m.pid \notin Pids
           /\ \A p \in Pids \ {m.pid} :
                /\ index'.by_pid[p] = before(p)
                /\ Forces(m) /\ index'.by_pid[p] # NoEntry => Taken(p)
           /\ m.pid \in Pids =>
                /\ m.id \in Identities
                /\ m.kind # "EXIT" =>
                     /\ \E from \in Entries :
                            index'.by_pid[m.pid] = EntryOf(m.id, classify(m.id, from))
                     /\ index'.by_pid[m.pid] # NoEntry => Taken(m.pid)
                /\ m.kind = "EXIT" /\ Agree(m.id.start, before(m.pid).start) =>
                     index'.by_pid[m.pid] = NoEntry
<1> DEFINE m == Head(socket)
           before(p) == IF Forces(m) THEN BootEntry(live[p]) ELSE index.by_pid[p]
<1>1. /\ socket # <<>> /\ socket' = Tail(socket)
      /\ UNCHANGED <<live, netlink, helper, worker, jobs, moved>>
  BY DEF HandleStatus, HandleEvent
<1>2. m = socket[1] /\ 1 \in 1..Len(socket)
  BY <1>1, SocketTake DEF IInv
<1>3. m.kind = "STATUS" => m.pid \notin Pids
  BY <1>2 DEF StreamOK, Emitted
<1>4. CASE HandleStatus
  <2>1. /\ m.kind = "STATUS"
        /\ lost \subseteq lost' /\ \A p : Served(p) => Served(p)'
        /\ \A p \in Pids :
             IF Forces(m)
             THEN /\ index'.by_pid[p] = BootEntry(live[p])
                  /\ index'.by_pid[p] # NoEntry => Taken(p)
             ELSE index'.by_pid[p] = index.by_pid[p]
    BY <1>4, StatusHandled
  <2> HIDE DEF m
  <2> QED BY <1>1, <1>2, <1>3, <2>1 DEF m
<1>5. CASE HandleEvent
  <2>1. m.seq > Watermarks(m).seq
    <3>1. LET n == Head(socket) IN
          /\ StreamOK'
          /\ Current' => n.inst = helper.inst /\ (Current \/ Forces(n))
          /\ Current' /\ Overdue /\ ~ Forces(n) => Overdue'
          /\ Current' /\ n.kind # "STATUS" /\ ~ Overdue' => n.drops = helper.drops
          /\ n.kind # "STATUS" => n.seq > Watermarks(n).seq
      BY <1>5, StreamHandled DEF IInv
    <3> QED BY <1>5, <3>1 DEF HandleEvent
  <2>2. /\ m.kind \in {"START", "EXEC", "EXIT"} /\ m.pid \in Pids /\ m.id \in Identities
        /\ lost \subseteq lost' /\ \A p : Served(p) => Served(p)'
        /\ \A p \in Pids \ {m.pid} :
             /\ index'.by_pid[p] = before(p)
             /\ Forces(m) /\ index'.by_pid[p] # NoEntry => Taken(p)
        /\ m.kind # "EXIT" =>
             /\ \E from \in Entries :
                    index'.by_pid[m.pid] = EntryOf(m.id, classify(m.id, from))
             /\ index'.by_pid[m.pid] # NoEntry => Taken(m.pid)
        /\ m.kind = "EXIT" /\ Agree(m.id.start, before(m.pid).start) =>
             index'.by_pid[m.pid] = NoEntry
    BY <1>5, <2>1, EventHandled
  <2> HIDE DEF m, before
  <2> QED BY <1>1, <1>2, <1>3, <2>2 DEF m, before
<1> QED
  BY <1>4, <1>5

\* A datagram handled.
LEMMA HandleTracks ==
    ASSUME IInv, StreamOK, TrackOK, HandleStatus \/ HandleEvent
    PROVE  StreamOK' /\ TrackOK'
<1> DEFINE m == Head(socket)
           before(p) == IF Forces(m) THEN BootEntry(live[p]) ELSE index.by_pid[p]
<1>0. /\ SourcesOK /\ KernelOK /\ CacheOK /\ WordOK /\ FrontOK /\ MainOK
      /\ live \in [Pids -> Identities] /\ Len(socket) \in Nat
  BY Counters DEF IInv, TrackOK, SourcesOK
<1>1. /\ socket # <<>> /\ socket' = Tail(socket)
      /\ UNCHANGED <<live, netlink, helper, worker, jobs, moved>>
      /\ m = socket[1] /\ 1 \in 1..Len(socket)
      /\ lost \subseteq lost' /\ \A p : Served(p) => Served(p)'
      /\ m.kind = "STATUS" => m.pid \notin Pids
      /\ \A p \in Pids \ {m.pid} :
           /\ index'.by_pid[p] = before(p)
           /\ Forces(m) /\ index'.by_pid[p] # NoEntry => Taken(p)
      /\ m.pid \in Pids =>
           /\ m.id \in Identities
           /\ m.kind # "EXIT" =>
                /\ \E from \in Entries :
                       index'.by_pid[m.pid] = EntryOf(m.id, classify(m.id, from))
                /\ index'.by_pid[m.pid] # NoEntry => Taken(m.pid)
           /\ m.kind = "EXIT" /\ Agree(m.id.start, before(m.pid).start) =>
                index'.by_pid[m.pid] = NoEntry
  BY EntryHandled
<1>2. /\ StreamOK'
      /\ Current' => m.inst = helper.inst /\ (Current \/ Forces(m))
      /\ Current' /\ Overdue /\ ~ Forces(m) => Overdue'
      /\ Current' /\ m.kind # "STATUS" /\ ~ Overdue' => m.drops = helper.drops
      /\ m.kind # "STATUS" => m.seq > Watermarks(m).seq
  BY <1>0, StreamHandled
<1>3. /\ \A p : Underway(p) <=> Underway(p)' \/ m.pid = p
      /\ \A p : \A i \in 1..Len(socket') : LastWord(i, p)' => LastWord(i + 1, p)
      /\ \A j, i \in 1..Len(socket') : NextWord(j, i)' => NextWord(j + 1, i + 1)
      /\ \A p : \A i \in 1..Len(socket') :
           /\ LastWord(i, p)' /\ m.pid = p /\ m.inst = helper.inst /\ m.drops = helper.drops
           /\ \A j \in 1..Len(socket') : j < i => socket'[j].pid # p
           => NextWord(1, i + 1)
      /\ \A p : m.pid = p /\ ~ Underway(p)' /\ m.inst = helper.inst /\ m.drops = helper.drops
                => LastWord(1, p)
  BY <1>0, <1>1, WordsTaken
<1>4. /\ \A i \in 1..Len(socket') : i + 1 \in 1..Len(socket) /\ socket'[i] = socket[i + 1]
      /\ \A i \in 1..Len(socket) : i = 1 \/ (i - 1 \in 1..Len(socket') /\ socket'[i - 1] = socket[i])
  BY <1>0, <1>1, SocketTake
<1> HIDE DEF m
<1>5. /\ \A p : (Waiting(p)' <=> Waiting(p)) /\ (NewBorn(p)' <=> NewBorn(p))
      /\ Watching' <=> Watching
  BY <1>1 DEF Waiting, NewBorn, Watching
<1>6. KernelOK'
  BY <1>0, <1>1, KernelSame
<1>7. CacheOK'
  <2>1. ASSUME NEW p \in Pids, NEW i \in 1..Len(socket'), LastWord(i, p)'
        PROVE  IF socket'[i].kind = "EXIT" THEN helper'.cache[p].start = 0
               ELSE Agree(helper'.cache[p].start, socket'[i].id.start)
    <3>1. i + 1 \in 1..Len(socket) /\ socket'[i] = socket[i + 1] /\ LastWord(i + 1, p)
      BY <1>3, <1>4, <2>1
    <3> QED BY <1>0, <1>1, <3>1 DEF CacheOK
  <2>2. ASSUME NEW j \in 1..Len(socket'), NEW i \in 1..Len(socket'), NextWord(j, i)',
               socket'[i].kind = "EXIT"
        PROVE  IF socket'[j].kind = "EXIT" THEN socket'[i].id.start = 0
               ELSE Agree(socket'[i].id.start, socket'[j].id.start)
    <3>1. /\ i + 1 \in 1..Len(socket) /\ socket'[i] = socket[i + 1]
          /\ j + 1 \in 1..Len(socket) /\ socket'[j] = socket[j + 1]
      BY <1>4
    <3>2. NextWord(j + 1, i + 1)
      BY <1>3, <2>2
    <3> QED BY <1>0, <2>2, <3>1, <3>2 DEF CacheOK
  <2> QED BY <2>1, <2>2 DEF CacheOK
<1>8. WordOK'
  <2> SUFFICES ASSUME Watching, NEW p \in Pids, NEW i \in 1..Len(socket'), LastWord(i, p)', ~ Waiting(p)
               PROVE  IF socket'[i].kind = "EXIT" THEN live[p] = Blank ELSE Accurate(socket'[i].id, p)
    BY <1>1, <1>5 DEF WordOK, Accurate
  <2>1. i + 1 \in 1..Len(socket) /\ socket'[i] = socket[i + 1] /\ LastWord(i + 1, p)
    BY <1>3, <1>4
  <2> QED BY <1>0, <2>1 DEF WordOK
<1>9. Current' => Watching
  BY <1>5 DEF Current
<1>10. Current' /\ ~ Overdue' /\ ~ Forces(m) => Current /\ ~ Overdue
  BY <1>2
<1>11. \A p \in Pids : Current' /\ ~ Overdue' /\ m.pid = p =>
                           m.inst = helper.inst /\ m.drops = helper.drops
  BY <1>1, <1>2
<1>12. \A p \in Pids : m.pid = p /\ m.kind # "EXIT" => index'.by_pid[p].start \in {0, m.id.start}
  <2> SUFFICES ASSUME m.pid \in Pids, m.kind # "EXIT"
               PROVE  index'.by_pid[m.pid].start \in {0, m.id.start}
    OBVIOUS
  <2>1. PICK from \in Entries : index'.by_pid[m.pid] = EntryOf(m.id, classify(m.id, from))
    BY <1>1
  <2> DEFINE e == EntryOf(m.id, classify(m.id, from))
  <2>2. e.start \in {0, m.id.start}
    <3>1. m.id \in Identities
      BY <1>1
    <3> QED BY <3>1, EntryOfIdentity
  <2> QED BY <2>1, <2>2
<1>13. \A p \in Pids : /\ BootEntry(live[p]).start \in {0, live[p].start}
                       /\ live[p] = Blank => BootEntry(live[p]) = NoEntry
                       /\ NoEntry.start = 0
  <2> TAKE p \in Pids
  <2>1. live[p] \in Identities
    BY <1>0
  <2> DEFINE e == BootEntry(live[p])
  <2>2. e.start \in {0, live[p].start} /\ (live[p] = Blank => e = NoEntry)
    BY <2>1, BootEntryOfIdentity
  <2> QED BY <2>2 DEF NoEntry
<1>14. FrontOK'
  <2> SUFFICES ASSUME Current', ~ Overdue', NEW p \in Pids
               PROVE  /\ ~ Underway(p)' /\ ~ NewBorn(p)' =>
                             Agree(helper'.cache[p].start, index'.by_pid[p].start)
                      /\ ~ Waiting(p)' =>
                             \A i \in 1..Len(socket') :
                                 /\ LastWord(i, p)' /\ socket'[i].kind = "EXIT"
                                 /\ \A j \in 1..Len(socket') : j < i => socket'[j].pid # p
                                 => Agree(socket'[i].id.start, index'.by_pid[p].start)
    BY DEF FrontOK
  <2>1. ASSUME ~ Underway(p)', ~ NewBorn(p)
        PROVE  Agree(helper.cache[p].start, index'.by_pid[p].start)
    <3>1. CASE m.pid = p
      <4>1. LastWord(1, p)
        BY <1>3, <1>11, <2>1, <3>1
      <4>2. IF m.kind = "EXIT" THEN helper.cache[p].start = 0
            ELSE Agree(helper.cache[p].start, m.id.start)
        BY <1>0, <1>1, <4>1 DEF CacheOK
      <4> QED BY <1>12, <3>1, <4>2 DEF Agree
    <3>2. CASE m.pid # p /\ Forces(m)
      <4>1. index'.by_pid[p] = BootEntry(live[p])
        BY <1>1, <3>2
      <4>2. live[p] # Blank => Agree(helper.cache[p].start, live[p].start)
        BY <1>0, <1>9, <2>1 DEF KernelOK
      <4> QED BY <1>13, <4>1, <4>2 DEF Agree
    <3>3. CASE m.pid # p /\ ~ Forces(m)
      <4>1. index'.by_pid[p] = index.by_pid[p] /\ ~ Underway(p)
        BY <1>1, <1>3, <2>1, <3>3
      <4> QED BY <1>0, <1>10, <2>1, <3>3, <4>1 DEF FrontOK
    <3> QED BY <3>1, <3>2, <3>3
  <2>2. ASSUME ~ Waiting(p), NEW i \in 1..Len(socket'), LastWord(i, p)', socket'[i].kind = "EXIT",
               \A j \in 1..Len(socket') : j < i => socket'[j].pid # p
        PROVE  Agree(socket'[i].id.start, index'.by_pid[p].start)
    <3>0. i + 1 \in 1..Len(socket) /\ socket'[i] = socket[i + 1] /\ LastWord(i + 1, p)
      BY <1>3, <1>4, <2>2
    <3>1. CASE m.pid = p
      <4>1. NextWord(1, i + 1)
        BY <1>3, <1>11, <2>2, <3>1
      <4>2. IF m.kind = "EXIT" THEN socket'[i].id.start = 0
            ELSE Agree(socket'[i].id.start, m.id.start)
        BY <1>0, <1>1, <2>2, <3>0, <4>1 DEF CacheOK
      <4> QED BY <1>12, <3>1, <4>2 DEF Agree
    <3>2. CASE m.pid # p /\ Forces(m)
      <4>1. index'.by_pid[p] = BootEntry(live[p])
        BY <1>1, <3>2
      <4>2. live[p] = Blank
        BY <1>0, <1>9, <2>2, <3>0 DEF WordOK
      <4> QED BY <1>13, <4>1, <4>2 DEF Agree
    <3>3. CASE m.pid # p /\ ~ Forces(m)
      <4>1. index'.by_pid[p] = index.by_pid[p]
        BY <1>1, <3>3
      <4>2. \A j \in 1..Len(socket) : j < i + 1 => socket[j].pid # p
        <5> SUFFICES ASSUME NEW j \in 1..Len(socket), j < i + 1, j # 1 PROVE socket[j].pid # p
          BY <1>1, <3>3
        <5>1. j - 1 \in 1..Len(socket') /\ socket'[j - 1] = socket[j] /\ j - 1 < i
          BY <1>0, <1>4
        <5> QED BY <2>2, <5>1
      <4>3. Agree(socket[i + 1].id.start, index.by_pid[p].start)
        BY <1>0, <1>10, <2>2, <3>0, <3>3, <4>2 DEF FrontOK
      <4> QED BY <3>0, <4>1, <4>3
    <3> QED BY <3>1, <3>2, <3>3
  <2> QED BY <1>1, <1>5, <2>1, <2>2
<1>15. MainOK'
  <2> SUFFICES ASSUME Current', ~ Overdue', NEW p \in Pids, ~ Waiting(p)', ~ Underway(p)'
               PROVE  EntryOK(p)' /\ PlaceOK(p)'
    BY DEF MainOK
  <2>0. ~ Waiting(p)
    BY <1>5
  <2>1. ASSUME m.pid = p, m.kind = "EXIT"
        PROVE  EntryOK(p)' /\ PlaceOK(p)'
    <3>1. LastWord(1, p)
      BY <1>3, <1>11, <2>1
    <3>2. live[p] = Blank
      BY <1>0, <1>1, <1>9, <2>0, <2>1, <3>1 DEF WordOK
    <3>3. Agree(m.id.start, before(p).start)
      <4>1. CASE Forces(m)
        BY <1>13, <3>2, <4>1 DEF Agree
      <4>2. CASE ~ Forces(m)
        <5>1. \A j \in 1..Len(socket) : ~ (j < 1)
          BY <1>0
        <5>2. Agree(m.id.start, index.by_pid[p].start)
          BY <1>0, <1>1, <1>10, <2>0, <2>1, <3>1, <4>2, <5>1 DEF FrontOK
        <5> QED BY <4>2, <5>2
      <4> QED BY <4>1, <4>2
    <3>4. index'.by_pid[p] = NoEntry /\ live'[p] = Blank
      BY <1>1, <2>1, <3>2, <3>3
    <3>5. AppOf(Blank) = NoApp /\ Blank.prog \notin Apps
      <4>1. Blank \in Identities /\ Blank.prog = NoApp
        BY <1>0, <3>2 DEF Blank
      <4>2. AppOf(Blank) = NoApp
        BY <4>1, AppOfCases
      <4> QED BY <4>1, <4>2, ProcessIndexAssumption
    <3> QED BY <3>4, <3>5 DEF EntryOK, PlaceOK
  <2>2. ASSUME m.pid = p, m.kind # "EXIT"
        PROVE  EntryOK(p)' /\ PlaceOK(p)'
    <3>1. LastWord(1, p)
      BY <1>3, <1>11, <2>2
    <3>2. Accurate(m.id, p)
      BY <1>0, <1>1, <1>9, <2>0, <2>2, <3>1 DEF WordOK
    <3>3. PICK from \in Entries : index'.by_pid[p] = EntryOf(m.id, classify(m.id, from))
      BY <1>1, <2>2
    <3>4. m.id \in Identities /\ (index'.by_pid[p] # NoEntry => Taken(p))
      BY <1>1, <2>2
    <3> QED BY <1>0, <1>1, <3>2, <3>3, <3>4, AppliedClaims
  <2>3. CASE m.pid # p /\ Forces(m)
    <3>1. index'.by_pid[p] = BootEntry(live[p]) /\ (index'.by_pid[p] # NoEntry => Taken(p))
      BY <1>1, <2>3
    <3> QED BY <1>0, <1>1, <3>1, RebuiltClaims
  <2>4. CASE m.pid # p /\ ~ Forces(m)
    <3>1. index'.by_pid[p] = index.by_pid[p] /\ ~ Underway(p)
      BY <1>1, <1>3, <2>4
    <3>2. EntryOK(p) /\ PlaceOK(p)
      BY <1>0, <1>10, <2>0, <2>4, <3>1 DEF MainOK
    <3> QED BY <1>1, <3>1, <3>2, ClaimsSame
  <2> QED BY <2>1, <2>2, <2>3, <2>4
<1> QED
  BY <1>2, <1>6, <1>7, <1>8, <1>14, <1>15 DEF TrackOK

-----------------------------------------------------------------------------
(* Every step keeps what is known of the processes.                        *)

\* At the start the first status waits, and it tells of every drop so far.
LEMMA InitiallyTracks == Init => StreamOK /\ TrackOK
<1> SUFFICES ASSUME Init PROVE StreamOK /\ TrackOK
  OBVIOUS
<1>0. IInv /\ SourcesOK
  BY Initially DEF IInv
<1> DEFINE m == StatusMessage(helper)
<1>1. /\ m.kind = "STATUS" /\ m.pid \notin Pids /\ m.inst = helper.inst /\ m.seq = helper.seq
      /\ m.drops = helper.drops
  BY StatusOfNone
<1>2. /\ live = [p \in Pids |-> Blank] /\ netlink = <<>> /\ socket = <<m>>
      /\ helper.inst = 1 /\ helper.seq = helper.drops /\ helper.seq \in Nat /\ helper.up
      /\ helper.cache = live
      /\ monitor = [inst |-> 0, seq |-> 0, drops |-> 0, overflows |-> 0,
                    initialized |-> FALSE, fresh |-> TRUE]
      /\ index = EmptyIndex
  <2>1. PICK h \in History :
          helper = [up |-> TRUE, inst |-> 1, seq |-> h, drops |-> h, overflows |-> 0,
                    flooded |-> FALSE, cache |-> live]
    BY DEF Init
  <2>2. /\ helper.inst = 1 /\ helper.seq = h /\ helper.drops = h /\ helper.up
        /\ helper.cache = live /\ h \in Nat
    BY <2>1, ProcessRoutingAssumption
  <2> QED BY <2>2 DEF Init
<1> HIDE DEF m
<1>3. Len(socket) = 1 /\ socket[1] = m /\ socket # <<>>
  BY <1>2
<1>4. \A i \in 1..Len(socket) : i = 1 /\ socket[i] = m
  BY <1>3
<1>5. MonitorOK
  BY <1>1, <1>2, <1>3 DEF MonitorOK
<1>6. Ahead(m) /\ Emitted(m)
  <2>1. Ahead(m)
    BY <1>1, <1>2 DEF Ahead
  <2>2. \A s \in m.seq + 1 .. helper.seq : FALSE
    BY <1>1, <1>2
  <2>3. Emitted(m)
    BY <1>1, <1>2, <2>2 DEF Emitted
  <2> QED BY <2>1, <2>3
<1>7. StreamOK
  <2>1. \A i, j \in 1..Len(socket) : ~ (i < j)
    BY <1>3
  <2> QED BY <1>4, <1>5, <1>6, <2>1 DEF StreamOK
<1>8. \A i \in 1..Len(socket) : socket[i].kind = "STATUS" /\ \A p \in Pids : ~ LastWord(i, p)
  BY <1>1, <1>4 DEF LastWord
<1>9. \A p \in Pids : live[p] = Blank /\ index.by_pid[p] = NoEntry
  BY <1>2 DEF EmptyIndex
<1>10. Len(netlink) = 0
  BY <1>2
<1>11. KernelOK
  BY <1>2, <1>9, <1>10 DEF KernelOK, Agree
<1>12. CacheOK
  BY <1>8 DEF CacheOK
<1>13. WordOK
  BY <1>8 DEF WordOK
<1>14. FrontOK
  BY <1>8, <1>9 DEF FrontOK, Agree, NoEntry
<1>15. MainOK
  <2>1. Blank \in Identities /\ Blank.prog = NoApp /\ Blank.prog \notin Apps
    BY Values, ProcessIndexAssumption DEF Blank
  <2>2. AppOf(Blank) = NoApp
    BY <2>1, AppOfCases
  <2> QED BY <1>9, <2>1, <2>2 DEF MainOK, EntryOK, PlaceOK
<1> QED
  BY <1>7, <1>11, <1>12, <1>13, <1>14, <1>15 DEF TrackOK

\* Every step keeps the claims.
LEMMA StepTracks == IInv /\ StreamOK /\ TrackOK /\ [Next]_vars => StreamOK' /\ TrackOK'
<1> SUFFICES ASSUME IInv, StreamOK, TrackOK, [Next]_vars PROVE StreamOK' /\ TrackOK'
  OBVIOUS
<1>1. CASE Kernel
  <2>1. UNCHANGED <<socket, monitor>> /\ helper'.inst = helper.inst /\ helper'.seq = helper.seq
        /\ helper'.drops = helper.drops
    <3>1. helper \in Helpers
      BY DEF IInv, SourcesOK
    <3>2. UNCHANGED <<socket, monitor>>
          /\ (UNCHANGED helper \/ helper' = [helper EXCEPT !.flooded = TRUE])
      BY <1>1 DEF Kernel, Fork, Exec, Exit, EnterScope, Emit
    <3> QED BY <3>1, <3>2 DEF Helpers
  <2> QED BY <1>1, <2>1, StreamSame, KernelTracks
<1>2. CASE Worker
  <2>1. UNCHANGED <<socket, monitor, helper>>
    BY <1>2 DEF Worker, TakeRequest, Checked, RouteFails, StartTransientUnit, Observed,
                NotObserved, FinishRequest
  <2> QED BY <1>2, <2>1, StreamSame, WorkerTracks
<1>3. CASE Systemd
  <2>1. UNCHANGED <<socket, monitor, helper>>
    BY <1>3 DEF Systemd, RunJob
  <2> QED BY <1>3, <2>1, StreamSame, SystemdTracks
<1>4. CASE Sample
  <2>1. UNCHANGED <<socket, monitor, helper>>
    BY <1>4 DEF Sample
  <2> QED BY <1>4, <2>1, StreamSame, SampleTracks
<1>5. CASE HandleStatus \/ HandleEvent
  BY <1>5, HandleTracks
<1>6. CASE Helper
  BY <1>6, ForwardTracks, HeartbeatTracks, HelperEnds, HelperStartsTracks DEF Helper
<1>7. CASE UNCHANGED vars
  <2>1. UNCHANGED <<live, netlink, helper, socket, monitor, index, router, worker, lost, moved>>
    BY <1>7 DEF vars
  <2>2. StreamOK'
    BY <2>1, StreamSame
  <2>3. KernelOK' /\ CacheOK'
    BY <2>1, KernelSame, CacheSame DEF TrackOK, IInv
  <2>4. \A p \in Pids :
          /\ Waiting(p) => Waiting(p)'
          /\ NewBorn(p) => NewBorn(p)'
          /\ Served(p) => Served(p)'
    BY <2>1 DEF Waiting, NewBorn, Served
  <2>5. ASSUME NEW p \in Pids
        PROVE  /\ live[p] = Blank => live'[p] = Blank
               /\ \A id : Accurate(id, p) => Accurate(id, p)'
               /\ EntryOK(p) /\ PlaceOK(p) => EntryOK(p)' /\ PlaceOK(p)'
    BY <2>1, <2>4, ClaimsSame
  <2>6. WordOK' /\ FrontOK' /\ MainOK'
    BY <2>1, <2>4, <2>5, QuietStep DEF TrackOK
  <2> QED BY <2>2, <2>3, <2>6 DEF TrackOK
<1> QED
  BY <1>1, <1>2, <1>3, <1>4, <1>5, <1>6, <1>7 DEF Next, Monitor

\* What the stream of events, the helper's cache and the index know of every
\* process holds in every reachable state.
THEOREM RoutingTracks == Spec => [](StreamOK /\ TrackOK)
<1>1. Init => IInv /\ StreamOK /\ TrackOK
  BY Initially, InitiallyTracks
<1>2. (IInv /\ StreamOK /\ TrackOK) /\ [Next]_vars => (IInv /\ StreamOK /\ TrackOK)'
  BY StepKeeps, StepTracks
<1> QED
  BY <1>1, <1>2, PTL DEF Spec

\* Once the monitor has caught up, the claims are about every process.
LEMMA Quiet ==
    ASSUME StreamOK, TrackOK, CaughtUp
    PROVE  \A p \in Pids : EntryOK(p) /\ PlaceOK(p)
<1>1. Current
  BY DEF CaughtUp, Current, Watching
<1>2. ~ Overdue
  <2>1. monitor.inst # 0 /\ monitor.seq \in Nat
    BY DEF StreamOK, MonitorOK, CaughtUp
  <2>2. monitor.seq = helper.seq => ~ \E s \in monitor.seq + 1 .. helper.seq : Missed(s)
    BY <2>1
  <2> QED BY <2>1, <2>2 DEF CaughtUp, Overdue
<1>3. \A p : ~ Waiting(p) /\ ~ Underway(p)
  <2>1. Len(netlink) = 0 /\ Len(socket) = 0
    BY DEF CaughtUp
  <2> QED BY <2>1 DEF Waiting, Underway
<1> QED
  BY <1>1, <1>2, <1>3 DEF TrackOK, MainOK

\* Once the monitor has caught up, every process that runs an application's
\* program is indexed for it and every entry is of a process that still lives,
\* whatever was lost on the way (_handle_global_process_event,
\* _rebuild_app_process_index).
THEOREM IndexIsComplete == Spec => []IndexComplete
<1>1. StreamOK /\ TrackOK => IndexComplete
  BY Quiet DEF IndexComplete, EntryOK
<1> QED
  BY RoutingTracks, <1>1, PTL

\* Once everything is quiet, a process that belongs to an application is in the
\* application's slice, or the model knows the reason (createProcess,
\* exeProcess, _route).
THEOREM PlacementIsExcused == Spec => []PlacementExcused
<1>1. StreamOK /\ TrackOK => PlacementExcused
  <2> SUFFICES ASSUME StreamOK, TrackOK, CaughtUp, router.queue = <<>>, worker.pc = "idle",
                      NEW p \in Pids
               PROVE  LET app == classify(live[p], NoEntry).app IN
                      app = NoApp \/ p \in lost \cup moved \/ Misjudged(p)
                          \/ inside_slice(live[p].place, app)
                          \/ live[p].place = [kind |-> "automation", app |-> app]
    BY DEF PlacementExcused
  <2>1. PlaceOK(p)
    BY Quiet
  <2>2. ~ Served(p)
    <3>1. Len(router.queue) = 0
      OBVIOUS
    <3> QED BY <3>1 DEF Served
  <2> QED BY <2>1, <2>2 DEF PlaceOK, PlacedAs, AppOf
<1> QED
  BY RoutingTracks, <1>1, PTL

=============================================================================
