---------------------------- MODULE ProcessIndex ----------------------------
(***************************************************************************)
(* The runtime monitor's index of application processes                    *)
(* (runtime_monitor/core/app_process_index.py) and the mapping from a      *)
(* process to an application it rests on (core/app_mapper.py): pure        *)
(* operators on an index, used by the event handlers of ProcessRouting.    *)
(*                                                                         *)
(* A process identity is what one reading of /proc shows: the start time   *)
(* of the incarnation (0: nothing could be read), the program it runs and  *)
(* the cgroup it is in.  A cgroup path is abstracted to the component the  *)
(* code looks for in it:                                                   *)
(*   outside     none of the components below                              *)
(*   alias       automation-fixture-<app>.scope (binding_scope_names)      *)
(*   automation  automation-<app>.scope, an experiment's own scope         *)
(*   slice       parp-<app>.slice/parp-route-<app>-p<pid>-s<start>.scope   *)
(*   fixture     the same with parp-route-<app>-fixture-...                *)
(***************************************************************************)
EXTENDS Naturals, Sequences, FiniteSets

CONSTANTS
    Pids,          \* the process numbers the kernel hands out
    TargetOrder,   \* the applications of the runtime scope, in its order
    NoApp,         \* the empty application name
    Generic        \* a program that belongs to no application

Apps == {TargetOrder[i] : i \in DOMAIN TargetOrder}

ASSUME ProcessIndexAssumption ==
    /\ TargetOrder \in Seq(Apps)
    /\ NoApp \notin Apps \cup {Generic}
    /\ Generic \notin Apps

Programs == Apps \cup {Generic}
Kinds == {"alias", "automation", "slice", "fixture"}
Outside == [kind |-> "outside", app |-> NoApp]
Places == {Outside} \cup [kind : Kinds, app : Apps]

\* The identity of a process that is gone, and of an event without metadata.
Blank == [start |-> 0, prog |-> NoApp, place |-> Outside]

inside_slice(place, app) == place.kind \in {"slice", "fixture"} /\ place.app = app

InFixtureScope(place) == place.kind \in {"alias", "fixture"}

\* The first application of the scope whose alias scope holds the process or
\* whose program it runs.  A migrated fixture has left its alias scope.
map_process(id) ==
    LET hits == {i \in DOMAIN TargetOrder :
                    \/ id.place = [kind |-> "alias", app |-> TargetOrder[i]]
                    \/ id.prog = TargetOrder[i]}
    IN  IF hits = {} THEN NoApp ELSE TargetOrder[CHOOSE i \in hits : \A j \in hits : i <= j]

-----------------------------------------------------------------------------
(* An entry of the index is [app, role, start]; the index keeps, besides   *)
(* the entries, the PIDs and the GUI PIDs of every application, and how    *)
(* far the closing of an application has come: its last GUI process is     *)
(* gone ("empty", in _empty_since_ns) and that was reported ("reported").  *)

NoEntry == [app |-> NoApp, role |-> "none", start |-> 0]

EmptyIndex == [by_pid |-> [p \in Pids |-> NoEntry],
               by_app |-> [a \in Apps |-> {}],
               gui_by_app |-> [a \in Apps |-> {}],
               closing |-> [a \in Apps |-> "no"]]

classify(id, inherited) ==
    LET mapped == map_process(id) IN
    CASE InFixtureScope(id.place) -> [app |-> id.place.app, role |-> "fixture"]
      [] ~ InFixtureScope(id.place) /\ mapped # NoApp ->
            [app |-> mapped, role |-> IF inherited.app = mapped THEN inherited.role ELSE "gui"]
      [] ~ InFixtureScope(id.place) /\ mapped = NoApp ->
            IF inherited.app # NoApp /\ inside_slice(id.place, inherited.app)
            THEN [app |-> inherited.app, role |-> inherited.role]
            ELSE [app |-> NoApp, role |-> "none"]

\* expected = 0 is the empty start time: the entry goes whatever it names.
remove_pid(ix, p, expected) ==
    LET item == ix.by_pid[p]
        left == ix.gui_by_app[item.app] \ {p}
    IN  IF item = NoEntry \/ (expected # 0 /\ item.start # 0 /\ expected # item.start)
        THEN ix
        ELSE [ix EXCEPT !.by_pid[p] = NoEntry,
                        !.by_app[item.app] = @ \ {p},
                        !.gui_by_app[item.app] = left,
                        !.closing[item.app] =
                            IF item.role = "gui" /\ left = {} THEN "empty" ELSE @]

\* A defect for IndexConsistent: a new GUI process does not stop the closing.
insert_KeepsClosing(ix, p, id, class) ==
    LET previous == ix.by_pid[p]
        base == IF previous # NoEntry /\ previous.app # class.app
                THEN remove_pid(ix, p, 0) ELSE ix
    IN  [base EXCEPT !.by_pid[p] = [app |-> class.app, role |-> class.role, start |-> id.start],
                     !.by_app[class.app] = @ \cup {p},
                     !.gui_by_app[class.app] = IF class.role = "gui" THEN @ \cup {p} ELSE @]

insert(ix, p, id, class) ==
    LET previous == ix.by_pid[p]
        base == IF previous # NoEntry /\ previous.app # class.app
                THEN remove_pid(ix, p, 0) ELSE ix
        entered == [base EXCEPT !.by_pid[p] = [app |-> class.app, role |-> class.role,
                                               start |-> id.start],
                                !.by_app[class.app] = @ \cup {p}]
    IN  IF class.role # "gui" THEN entered
        ELSE [entered EXCEPT !.gui_by_app[class.app] = @ \cup {p},
                             !.closing[class.app] = "no"]

\* FORK: whatever the PID was before is gone; the parent's entry is inherited.
process_start(ix, p, id, parent) ==
    LET cleared == remove_pid(ix, p, 0)
        class == classify(id, IF parent \in Pids THEN cleared.by_pid[parent] ELSE NoEntry)
    IN  IF class.app = NoApp THEN cleared ELSE insert(cleared, p, id, class)

\* EXEC: the PID is added, refreshed, moved or removed by its final program.
process_exec(ix, p, id) ==
    LET previous == ix.by_pid[p]
        class == classify(id, previous)
        base == IF previous # NoEntry /\ (previous.app # class.app \/ previous.role # class.role)
                THEN remove_pid(ix, p, previous.start) ELSE ix
    IN  IF class.app = NoApp THEN base ELSE insert(base, p, id, class)

\* EXIT: only the incarnation the event names is removed.
process_exit(ix, p, id) ==
    LET previous == ix.by_pid[p] IN
    IF previous = NoEntry \/ (id.start # 0 /\ previous.start # 0 /\ id.start # previous.start)
    THEN ix ELSE remove_pid(ix, p, previous.start)

\* The baseline: discover_identities keeps only what the mapper recognises.
bootstrap(live) ==
    LET found == {p \in Pids : live[p] # Blank /\ map_process(live[p]) # NoApp}
        class == [p \in found |-> classify(live[p], NoEntry)]
    IN  [by_pid |-> [p \in Pids |-> IF p \in found
                                    THEN [app |-> class[p].app, role |-> class[p].role,
                                          start |-> live[p].start]
                                    ELSE NoEntry],
         by_app |-> [a \in Apps |-> {p \in found : class[p].app = a}],
         gui_by_app |-> [a \in Apps |-> {p \in found : class[p].app = a /\ class[p].role = "gui"}],
         closing |-> [a \in Apps |-> "no"]]

\* The one-second sample: entries whose process cannot be read any more go.
\* Removals of different PIDs commute, so the closing state follows from what
\* is left.
prune_unreadable(ix, live) ==
    LET gone == {p \in Pids : ix.by_pid[p] # NoEntry /\ live[p] = Blank}
        guiGone(a) == {p \in gone : ix.by_pid[p].app = a /\ ix.by_pid[p].role = "gui"}
    IN  [by_pid |-> [p \in Pids |-> IF p \in gone THEN NoEntry ELSE ix.by_pid[p]],
         by_app |-> [a \in Apps |-> ix.by_app[a] \ gone],
         gui_by_app |-> [a \in Apps |-> ix.gui_by_app[a] \ gone],
         closing |-> [a \in Apps |-> IF guiGone(a) # {} /\ ix.gui_by_app[a] \subseteq gone
                                     THEN "empty" ELSE ix.closing[a]]]

\* The applications due for a close report once their grace is over.
Closable(ix) == {a \in Apps : ix.closing[a] = "empty" /\ ix.gui_by_app[a] = {}}

pop_empty_apps(ix, ready) ==
    [ix EXCEPT !.closing = [a \in Apps |-> IF a \in ready THEN "reported" ELSE @[a]]]
=============================================================================
