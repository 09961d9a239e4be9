--------------------------- MODULE ProcessRouting ---------------------------
(***************************************************************************)
(* How a process of an application is noticed and put into the             *)
(* application's cgroup slice:                                             *)
(*                                                                         *)
(*   kernel --netlink--> root helper --datagrams--> monitor --> index      *)
(*                                                     |                   *)
(*                                       router queue --> worker --> systemd*)
(*                                                                         *)
(* (helpers/proc_connector_helper.py, collectors/process_events.py,        *)
(* monitor.py, core/app_process_index.py, core/process_cgroup_router.py).  *)
(*                                                                         *)
(* Events are lost at two places: the netlink buffer overflows (the helper *)
(* exits and systemd starts a new instance) and a datagram does not fit    *)
(* the monitor's socket (the helper counts a drop).  The monitor finds out *)
(* from sequence numbers, from the counters in the helper's status         *)
(* messages and from the instance name, and rebuilds its index from /proc. *)
(*                                                                         *)
(* A reading of /proc for one PID, and the scan of a rebuild, is one step; *)
(* the socket and the queue its reader thread fills are one FIFO.          *)
(***************************************************************************)
EXTENDS ProcessIndex

CONSTANTS
    Scopes,        \* the alias and automation scopes a launcher may enter
    History,       \* events (and drops) the helper may have seen before the monitor started
    NetlinkCap,    \* events the netlink buffer holds
    SocketCap,     \* datagrams between helper and monitor
    QueueCap,      \* capacity of the router's queue
    MaxOps         \* bound on what happens to the system: forks, execs, exits, scopes entered,
                   \* lost datagrams, deaths of the helper, refusals by systemd

ASSUME ProcessRoutingAssumption ==
    /\ IsFiniteSet(Pids) /\ Pids = 1..Cardinality(Pids)
    /\ Scopes \subseteq Places
    /\ History \subseteq Nat
    /\ NetlinkCap \in Nat \ {0} /\ SocketCap \in Nat \ {0} /\ QueueCap \in Nat \ {0}
    /\ MaxOps \in Nat

VARIABLES
    live,      \* [Pids -> identity]: the running processes
    netlink,   \* kernel events not yet read by the helper
    helper,    \* the root helper: up, instance, counters, cached metadata
    socket,    \* datagrams not yet handled by the monitor
    monitor,   \* the monitor's watermarks of the event stream (fresh is history:
               \* no drop can be hidden behind the first status of the instance)
    index,     \* the application process index
    router,    \* the router's queue and its set of pending PIDs
    worker,    \* the router's worker thread
    jobs,      \* systemd jobs accepted and not yet run
    lost,      \* history: PIDs whose placement was given up since their last fork or exec
    moved,     \* history: PIDs moved by others, or for an earlier identity, since then
    ops        \* how much of MaxOps is used

vars == <<live, netlink, helper, socket, monitor, index, router, worker, jobs, lost, moved, ops>>

NoPid == 0
Idle == [pc |-> "idle", req |-> [pid |-> NoPid, app |-> NoApp, role |-> "none", start |-> 0]]

Message(kind, h, event, id) ==
    [kind |-> kind, inst |-> h.inst, seq |-> h.seq, drops |-> h.drops,
     overflows |-> h.overflows, pid |-> event.pid, parent |-> event.parent, id |-> id]

StatusMessage(h) == Message("STATUS", h, [pid |-> NoPid, parent |-> NoPid], Blank)

\* The monitor starts when the helper is READY (wait_ready): its status is the
\* first datagram, and the index holds what ran when the scan was made.
Init ==
    /\ live = [p \in Pids |-> Blank]
    /\ netlink = <<>>
    /\ \E h \in History :
           helper = [up |-> TRUE, inst |-> 1, seq |-> h, drops |-> h, overflows |-> 0,
                     flooded |-> FALSE, cache |-> live]
    /\ socket = <<StatusMessage(helper)>>
    /\ monitor = [inst |-> 0, seq |-> 0, drops |-> 0, overflows |-> 0,
                  initialized |-> FALSE, fresh |-> TRUE]
    /\ index = EmptyIndex
    /\ router = [queue |-> <<>>, pending |-> {}]
    /\ worker = Idle
    /\ jobs = {}
    /\ lost = {}
    /\ moved = {}
    /\ ops = 0

-----------------------------------------------------------------------------
(* The kernel.  An event is queued if a helper is subscribed; when the     *)
(* buffer is full it is lost and the helper's next read fails.             *)

Counted == ops < MaxOps /\ ops' = ops + 1

Emit(event) ==
    /\ Counted
    /\ IF helper.up /\ ~ helper.flooded
       THEN IF Len(netlink) < NetlinkCap
            THEN netlink' = Append(netlink, event) /\ UNCHANGED helper
            ELSE helper' = [helper EXCEPT !.flooded = TRUE] /\ UNCHANGED netlink
       ELSE UNCHANGED <<netlink, helper>>
    /\ UNCHANGED <<socket, monitor, index, router, worker, jobs>>

\* A child starts as a copy of its parent (program and cgroup); a parent the
\* model leaves out is a launcher.
Fork(p, parent) ==
    /\ live[p] = Blank
    /\ parent \in Pids => live[parent] # Blank
    /\ live' = [live EXCEPT ![p] =
           IF parent \in Pids THEN [live[parent] EXCEPT !.start = ops + 1]
           ELSE [start |-> ops + 1, prog |-> Generic, place |-> Outside]]
    /\ lost' = lost \ {p}
    /\ moved' = moved \ {p}
    /\ Emit([type |-> "START", pid |-> p, parent |-> parent])

Exec(p, prog) ==
    /\ live[p] # Blank
    /\ live' = [live EXCEPT ![p].prog = prog]
    /\ lost' = lost \ {p}
    /\ moved' = moved \ {p}
    /\ Emit([type |-> "EXEC", pid |-> p, parent |-> NoPid])

Exit(p) ==
    /\ live[p] # Blank
    /\ live' = [live EXCEPT ![p] = Blank]
    /\ UNCHANGED <<lost, moved>>
    /\ Emit([type |-> "EXIT", pid |-> p, parent |-> NoPid])

\* A launcher enters a scope before it runs the program meant for it
\* (systemd-run --scope); no event tells of it.  An application that turns
\* launcher while it is being migrated is left out.
EnterScope(p, place) ==
    /\ live[p].prog = Generic /\ live[p].place = Outside
    /\ p \notin router.pending /\ \A job \in jobs : job.pid # p
    /\ Counted
    /\ live' = [live EXCEPT ![p].place = place]
    /\ moved' = moved \cup {p}
    /\ UNCHANGED <<netlink, helper, socket, monitor, index, router, worker, jobs, lost>>

-----------------------------------------------------------------------------
(* The helper.                                                             *)

\* sendto fails with EAGAIN only while unread datagrams are waiting.
Sent(m) == Len(socket) < SocketCap /\ socket' = Append(socket, m) /\ UNCHANGED ops
Dropped == socket # <<>> /\ UNCHANGED socket /\ Counted

\* A status is not counted when it does not fit.
send_status(h) == Sent(StatusMessage(h)) \/ Dropped

\* The metadata an event is sent with: /proc as it is now for FORK and EXEC,
\* what was cached for EXIT.
Metadata(event) == IF event.type = "EXIT" THEN helper.cache[event.pid] ELSE live[event.pid]

forward_event ==
    /\ helper.up /\ netlink # <<>>
    /\ LET event == Head(netlink)
           id == Metadata(event)
           h == [helper EXCEPT !.seq = @ + 1,
                               !.cache[event.pid] = IF event.type = "EXIT" THEN Blank
                                                    ELSE IF id # Blank THEN id ELSE @]
       IN  \/ Sent(Message(event.type, h, event, id)) /\ helper' = h
           \/ Dropped /\ helper' = [h EXCEPT !.drops = @ + 1]
    /\ netlink' = Tail(netlink)
    /\ UNCHANGED <<live, monitor, index, router, worker, jobs, lost, moved>>

\* The heartbeat of a quiet stream (one that repeats an unread status adds nothing).
Heartbeat ==
    /\ helper.up /\ netlink = <<>> /\ ~ helper.flooded
    /\ socket # <<>> => socket[Len(socket)] # StatusMessage(helper)
    /\ Sent(StatusMessage(helper))
    /\ UNCHANGED <<live, netlink, helper, monitor, index, router, worker, jobs, lost, moved>>

\* recv fails with ENOBUFS: the overflow is reported and the helper exits;
\* what the buffer still holds goes with the subscription.
KernelOverflow ==
    /\ helper.up /\ helper.flooded
    /\ LET h == [helper EXCEPT !.overflows = @ + 1, !.up = FALSE]
       IN  helper' = h /\ send_status(h)
    /\ netlink' = <<>>
    /\ UNCHANGED <<live, monitor, index, router, worker, jobs, lost, moved>>

\* The helper is killed.
HelperDies ==
    /\ helper.up /\ ~ helper.flooded
    /\ Counted
    /\ helper' = [helper EXCEPT !.up = FALSE]
    /\ netlink' = <<>>
    /\ UNCHANGED <<live, socket, monitor, index, router, worker, jobs, lost, moved>>

\* systemd starts a new instance: subscribe, preload the cache, say STARTING.
HelperStarts ==
    /\ ~ helper.up
    /\ LET h == [up |-> TRUE, inst |-> helper.inst + 1, seq |-> 0, drops |-> 0,
                 overflows |-> 0, flooded |-> FALSE, cache |-> live]
       IN  helper' = h /\ send_status(h)
    /\ UNCHANGED <<live, netlink, monitor, index, router, worker, jobs, lost, moved>>

-----------------------------------------------------------------------------
(* The router, as the monitor's thread sees it.                            *)

\* A request that is refused although no worker will look at the process again
\* in its stead.
Unserved(r, req) ==
    /\ \A i \in 1..Len(r.queue) : r.queue[i] # req
    /\ ~ (worker.req = req /\ worker.pc \in {"check", "observe"})

enqueue(r, req) ==
    IF req.pid \in r.pending
    THEN [r EXCEPT !.refused = IF Unserved(r, req) THEN @ \cup {req.pid} ELSE @]
    ELSE IF Len(r.queue) < QueueCap
         THEN [r EXCEPT !.queue = Append(@, req), !.pending = @ \cup {req.pid}]
         ELSE [r EXCEPT !.refused = @ \cup {req.pid}]

\* submit_created_process and submit_exec_process: only for a known application.
Submit(r, ix, p) ==
    LET item == ix.by_pid[p] IN
    IF item = NoEntry THEN r
    ELSE enqueue(r, [pid |-> p, app |-> item.app, role |-> item.role, start |-> item.start])

\* The requests of a rebuild, in PID order.
SubmitAll(r, ix) ==
    LET f[p \in 0..Cardinality(Pids)] == IF p = 0 THEN r ELSE Submit(f[p - 1], ix, p)
    IN  f[Cardinality(Pids)]

-----------------------------------------------------------------------------
(* The monitor: _handle_global_process_event.                              *)

Watermarks(m) ==
    IF m.inst = monitor.inst THEN monitor
    ELSE [inst |-> m.inst, seq |-> 0, drops |-> 0, overflows |-> 0,
          initialized |-> FALSE, fresh |-> TRUE]

SourceRestarted(m) == m.inst # monitor.inst /\ monitor.inst # 0

\* A defect for IndexComplete: only netlink overflows count.
CountersChanged_OverflowsOnly(m) ==
    LET w == Watermarks(m) IN w.initialized /\ m.overflows # w.overflows

\* The first status of an instance only sets the watermarks.
CountersChanged(m) ==
    LET w == Watermarks(m)
    IN  w.initialized /\ (m.drops # w.drops \/ m.overflows # w.overflows)

DeliveryGap(m) == Watermarks(m).seq > 0 /\ m.seq > Watermarks(m).seq + 1

\* The index after the rebuild, and what the rebuild submits.
Rebuild(needed, ix) == IF needed THEN bootstrap(live) ELSE ix
Resubmit(needed, r, ix) == IF needed THEN SubmitAll(r, ix) ELSE r

Requests == [queue |-> router.queue, pending |-> router.pending, refused |-> {}]

Submitted(r) ==
    /\ router' = [queue |-> r.queue, pending |-> r.pending]
    /\ lost' = lost \cup r.refused

HandleStatus ==
    /\ socket # <<>> /\ Head(socket).kind = "STATUS"
    /\ LET m == Head(socket)
           w == Watermarks(m)
           rebuild == SourceRestarted(m) \/ CountersChanged(m)
           ix == Rebuild(rebuild, index)
       IN  /\ index' = ix
           /\ Submitted(Resubmit(rebuild, Requests, ix))
           /\ monitor' = [w EXCEPT !.drops = m.drops, !.overflows = m.overflows,
                                   !.initialized = TRUE,
                                   !.seq = IF @ = 0 THEN m.seq ELSE @,
                                   !.fresh = \/ rebuild
                                             \/ IF w.initialized THEN @ ELSE m.drops = 0]
    /\ socket' = Tail(socket)
    /\ UNCHANGED <<live, netlink, helper, worker, jobs, moved, ops>>

\* createProcess, exeProcess and destroyProcess: the index, then the router.
createProcess(ix, r, m) ==
    LET ix1 == process_start(ix, m.pid, m.id, m.parent)
    IN  [index |-> ix1, requests |-> Submit(r, ix1, m.pid)]

\* A defect for PlacementExcused: EXEC updates the index only.
exeProcess_IndexOnly(ix, r, m) ==
    [index |-> process_exec(ix, m.pid, m.id), requests |-> r]

exeProcess(ix, r, m) ==
    LET ix1 == process_exec(ix, m.pid, m.id)
    IN  [index |-> ix1, requests |-> Submit(r, ix1, m.pid)]

destroyProcess(ix, r, m) == [index |-> process_exit(ix, m.pid, m.id), requests |-> r]

Handlers(ix, r, m) ==
    CASE m.kind = "START" -> createProcess(ix, r, m)
      [] m.kind = "EXEC" -> exeProcess(ix, r, m)
      [] m.kind = "EXIT" -> destroyProcess(ix, r, m)

HandleEvent ==
    /\ socket # <<>> /\ Head(socket).kind # "STATUS"
    /\ LET m == Head(socket)
           w == Watermarks(m)
           rebuild == SourceRestarted(m) \/ DeliveryGap(m)
           ix == Rebuild(rebuild, index)
           r == Resubmit(rebuild, Requests, ix)
           done == IF m.seq > w.seq THEN Handlers(ix, r, m) ELSE [index |-> ix, requests |-> r]
       IN  /\ index' = done.index
           /\ Submitted(done.requests)
           /\ monitor' = [w EXCEPT !.seq = IF m.seq > @ THEN m.seq ELSE @,
                                   !.fresh = @ \/ rebuild]
    /\ socket' = Tail(socket)
    /\ UNCHANGED <<live, netlink, helper, worker, jobs, moved, ops>>

\* sample_once: prune the index, then report the applications closed whose
\* grace is over.
Sample ==
    LET pruned == prune_unreadable(index, live) IN
    /\ \E ready \in SUBSET Closable(pruned) : index' = pop_empty_apps(pruned, ready)
    /\ UNCHANGED <<live, netlink, helper, socket, monitor, router, worker, jobs, lost, moved, ops>>

-----------------------------------------------------------------------------
(* The worker: _run and _route.                                            *)

target_for_identity(id) ==
    LET app == map_process(id)
    IN  [app |-> app,
         role |-> IF InFixtureScope(id.place) /\ id.place.app = app THEN "fixture" ELSE "gui"]

\* The target the fresh reading gives; a process already in the requested
\* slice keeps the requested one though its program is unknown.
RouteTarget(id, req) ==
    LET target == target_for_identity(id)
    IN  IF target.app = NoApp /\ inside_slice(id.place, req.app)
        THEN [app |-> req.app, role |-> req.role] ELSE target

\* GONE, PID_REUSED, IDENTITY_CHANGED, ALREADY_APP_SCOPED, ALREADY_ROUTED.
NothingToMove(id, req) ==
    \/ id = Blank
    \/ id.start # req.start
    \/ RouteTarget(id, req) # [app |-> req.app, role |-> req.role]
    \/ id.place = [kind |-> "automation", app |-> req.app]
    \/ inside_slice(id.place, req.app)

TakeRequest ==
    /\ worker.pc = "idle" /\ router.queue # <<>>
    /\ worker' = [pc |-> "check", req |-> Head(router.queue)]
    /\ router' = [router EXCEPT !.queue = Tail(@)]
    /\ UNCHANGED <<live, netlink, helper, socket, monitor, index, jobs, lost, moved, ops>>

Step(pc) == worker' = [worker EXCEPT !.pc = pc]

\* The request is given up although its process is still the one it names.
GiveUp == lost' = IF live[worker.req.pid].start = worker.req.start
                  THEN lost \cup {worker.req.pid} ELSE lost

Job(req) == [pid |-> req.pid, start |-> req.start,
             place |-> [kind |-> IF req.role = "fixture" THEN "fixture" ELSE "slice",
                        app |-> req.app]]

\* A defect for PendingServed: a request with nothing to move ends the loop's
\* round without the finally clause.
Checked_KeepsPending ==
    /\ worker.pc = "check"
    /\ NothingToMove(live[worker.req.pid], worker.req)
    /\ worker' = Idle
    /\ UNCHANGED <<live, netlink, helper, socket, monitor, index, router, jobs, lost, moved, ops>>

Checked ==
    /\ worker.pc = "check"
    /\ NothingToMove(live[worker.req.pid], worker.req)
    /\ Step("done")
    /\ UNCHANGED <<live, netlink, helper, socket, monitor, index, router, jobs, lost, moved, ops>>

\* FOREIGN_UID, or StartTransientUnit refused or timed out (SYSTEMD_ERROR);
\* after a timeout systemd may still run the job.
RouteFails ==
    /\ worker.pc = "check"
    /\ ~ NothingToMove(live[worker.req.pid], worker.req)
    /\ Counted
    /\ jobs' \in {jobs, jobs \cup {Job(worker.req)}}
    /\ GiveUp
    /\ Step("done")
    /\ UNCHANGED <<live, netlink, helper, socket, monitor, index, router, moved>>

StartTransientUnit ==
    /\ worker.pc = "check"
    /\ ~ NothingToMove(live[worker.req.pid], worker.req)
    /\ jobs' = jobs \cup {Job(worker.req)}
    /\ Step("observe")
    /\ UNCHANGED <<live, netlink, helper, socket, monitor, index, router, lost, moved, ops>>

\* systemd moves whatever process has the PID by now.
RunJob(job) ==
    /\ job \in jobs
    /\ jobs' = jobs \ {job}
    /\ live' = IF live[job.pid] = Blank THEN live ELSE [live EXCEPT ![job.pid].place = job.place]
    /\ moved' = IF \/ live[job.pid].start # job.start
                   \/ worker.pc # "observe" \/ job # Job(worker.req)
                   \/ classify(live[job.pid], NoEntry) # [app |-> worker.req.app,
                                                         role |-> worker.req.role]
                THEN moved \cup {job.pid} ELSE moved
    /\ UNCHANGED <<netlink, helper, socket, monitor, index, router, worker, lost, ops>>

\* GONE_AFTER_REQUEST, PID_REUSED or MIGRATED.
Observed ==
    /\ worker.pc = "observe"
    /\ \/ live[worker.req.pid] = Blank
       \/ inside_slice(live[worker.req.pid].place, worker.req.app)
    /\ Step("done")
    /\ UNCHANGED <<live, netlink, helper, socket, monitor, index, router, jobs, lost, moved, ops>>

\* The deadline: MIGRATION_NOT_OBSERVED or PID_REUSED.
NotObserved ==
    /\ worker.pc = "observe"
    /\ live[worker.req.pid] # Blank
    /\ ~ inside_slice(live[worker.req.pid].place, worker.req.app)
    /\ GiveUp
    /\ Step("done")
    /\ UNCHANGED <<live, netlink, helper, socket, monitor, index, router, jobs, moved, ops>>

FinishRequest ==
    /\ worker.pc = "done"
    /\ router' = [router EXCEPT !.pending = @ \ {worker.req.pid}]
    /\ worker' = Idle
    /\ UNCHANGED <<live, netlink, helper, socket, monitor, index, jobs, lost, moved, ops>>

-----------------------------------------------------------------------------
Kernel ==
    \/ \E p \in Pids, parent \in Pids \cup {NoPid} : Fork(p, parent)
    \/ \E p \in Pids, prog \in Programs : Exec(p, prog)
    \/ \E p \in Pids : Exit(p)
    \/ \E p \in Pids, place \in Scopes : EnterScope(p, place)

Helper == forward_event \/ Heartbeat \/ KernelOverflow \/ HelperDies \/ HelperStarts
Monitor == HandleStatus \/ HandleEvent \/ Sample
Worker == TakeRequest \/ Checked \/ RouteFails \/ StartTransientUnit
             \/ Observed \/ NotObserved \/ FinishRequest
Systemd == \E job \in jobs : RunJob(job)

Next == Kernel \/ Helper \/ Monitor \/ Worker \/ Systemd

Spec == Init /\ [][Next]_vars

-----------------------------------------------------------------------------
(* Properties.                                                             *)

\* The three views of the index agree: _by_app and _gui_by_app hold exactly
\* the PIDs whose entries say so, and an application is closing only while it
\* has no GUI process (process_start, process_exec, process_exit, bootstrap,
\* prune_unreadable).
IndexConsistent ==
    \A a \in Apps :
        /\ index.by_app[a] = {p \in Pids : index.by_pid[p].app = a}
        /\ index.gui_by_app[a] = {p \in index.by_app[a] : index.by_pid[p].role = "gui"}
        /\ index.closing[a] # "no" => index.gui_by_app[a] = {}

\* Nothing is on its way to the monitor, and no drop is unknown to it: its
\* counter is the helper's, and if the first status of the instance may have
\* hidden a drop, so is its sequence number.
CaughtUp ==
    /\ helper.up /\ ~ helper.flooded /\ netlink = <<>> /\ socket = <<>>
    /\ monitor.inst = helper.inst
    /\ monitor.initialized /\ monitor.drops = helper.drops
    /\ monitor.fresh \/ monitor.seq = helper.seq

\* Whatever was lost on the way (a full socket, a netlink overflow, a helper
\* restart) and whatever stale event was applied after a rebuild: once the
\* monitor has caught up, every process that runs an application's program is
\* indexed for it, and every entry is of a process that still lives
\* (_handle_global_process_event, _rebuild_app_process_index).
IndexComplete ==
    CaughtUp =>
        \A p \in Pids :
            /\ index.by_pid[p] # NoEntry => index.by_pid[p].start = live[p].start
            /\ live[p].prog \in Apps /\ ~ InFixtureScope(live[p].place) /\ p \notin moved =>
                   index.by_pid[p].app = live[p].prog

\* The index has the process down for an application or a role that the
\* router's fresh reading does not confirm: every request made from such an
\* entry ends with IDENTITY_CHANGED.  So it is with the child of a launcher
\* that enters a fixture scope after the fork, when the child runs the same
\* application, and with a process in the fixture scope of another application
\* than the mapper finds (_classify, target_for_identity).
Misjudged(p) ==
    LET item == index.by_pid[p]
    IN  item # NoEntry /\ [app |-> item.app, role |-> item.role] # target_for_identity(live[p])

\* Once everything is quiet, a process that belongs to an application is in
\* the application's slice, unless its placement was given up (systemd failed,
\* the queue was full, a request for something else was pending), undone by
\* others, or asked for with the wrong role: no order of fork, exec, migration
\* and rebuild forgets one (createProcess, exeProcess, _route).
PlacementExcused ==
    CaughtUp /\ router.queue = <<>> /\ worker.pc = "idle" /\ jobs = {} =>
        \A p \in Pids :
            LET app == classify(live[p], NoEntry).app IN
            app = NoApp \/ p \in lost \cup moved \/ Misjudged(p)
                \/ inside_slice(live[p].place, app)
                \/ live[p].place = [kind |-> "automation", app |-> app]

\* A PID is pending exactly while one request for it is queued or worked on:
\* no two migrations of a process overlap, and whichever way a request ends
\* the PID can be submitted again (_enqueue, _run).
PendingServed ==
    LET queued == DOMAIN router.queue
        busy == IF worker.pc = "idle" THEN {} ELSE {worker.req.pid}
    IN  /\ router.pending = {router.queue[i].pid : i \in queued} \cup busy
        /\ Cardinality(router.pending) = Len(router.queue) + Cardinality(busy)
=============================================================================
