--------------------------- MODULE SubagentRelay ---------------------------
(***************************************************************************)
(* A detached child agent and how what it does reaches its parent: the     *)
(* launch (subagent_async_worker.rs), the worker process and its activity  *)
(* emitter (child_agent_types.rs), the lease-fenced relay file it appends  *)
(* to (subagent_event_relay.rs), the task record that grants the lease     *)
(* (tasks.rs), and the thread actor that drains the relay into the surface *)
(* and settles a child that lost its relay (thread_actor_generation.rs,    *)
(* runtime_host.rs).                                                       *)
(*                                                                         *)
(* One task with one attempt: a resume runs under a task and an attempt of *)
(* its own.  The worker process, the launching thread, the reaper thread   *)
(* and the actor run concurrently; a registry mutation is atomic (session  *)
(* lock), and so is an append (session lock and relay lock).  The relay    *)
(* file is a sequence of complete frames, a flag for an incomplete frame   *)
(* at its end, and a flag for a complete frame the disk damaged.  A record *)
(* carries its sequence, lease and payload kind; writer and sequence stand *)
(* for its surface_commit_id.  Approvals a child waits for are left out.   *)
(***************************************************************************)
EXTENDS Integers, FiniteSets, Sequences, FiniteSetsExt, SequencesExt

CONSTANTS
    Worker,      \* the worker process the launch spawns
    Recoverers,  \* other processes that may take the expired lease over
    Host,        \* writer of the events the launch commits by itself
    NoOwner,     \* no process
    PageSize,    \* MAX_RELAY_PAGE_RECORDS
    MaxLog,      \* MAX_RELAY_ATTEMPT_BYTES, in records
    MaxEpoch,    \* bound on the lease epochs a stop request may raise
    MaxEvents,   \* bound on the progress events of a worker
    MaxFaults,   \* bound on failed writes, commits and spawns
    MaxCrashes   \* bound on exits of a worker or of the host, and expiries

ASSUME RelayNames   == /\ Worker \notin Recoverers
                       /\ {Host, NoOwner} \cap ({Worker} \cup Recoverers) = {}
                       /\ Host # NoOwner
                       /\ IsFiniteSet(Recoverers)
ASSUME RelayBounds  == /\ PageSize \in Nat \ {0}
                       /\ {MaxLog, MaxEpoch, MaxEvents, MaxFaults, MaxCrashes} \subseteq Nat

VARIABLES
    task,        \* the task record of the registry
    log,         \* the complete frames of the relay file
    torn,        \* an incomplete frame ends the file
    corrupt,     \* the disk damaged a frame
    quarantined, \* the quarantine marker of the attempt
    dir,         \* the relay directory exists
    attemptMarker, currentMarker,  \* the two lease markers
    wk,          \* wk[w]: a worker process and its emitter
    launch,      \* where launch_async_subagent is
    reaper,      \* the host's reaper thread watches the worker
    binding,     \* the detached binding is the continuation's latest
    surface,     \* the child as the surface ledger has it
    actor,       \* where the thread actor's loop is
    page, more,  \* the page being drained, and its has_more
    oneShot,     \* the thread is ephemeral and closes by itself
    closed,      \* it did
    faults, crashes

relayVars == <<log, torn, corrupt, quarantined, dir, attemptMarker, currentMarker>>
hostVars  == <<launch, reaper, binding, surface, actor, page, more, oneShot, closed>>
vars == <<task, relayVars, wk, hostVars, faults, crashes>>

Workers == {Worker} \cup Recoverers

Settled == {"Completed", "Failed", "Stopped"}   \* is_terminal, for a detached child

NoLease == [owner |-> NoOwner, epoch |-> 0]

Init ==
    /\ task = [status |-> "Running", stop |-> FALSE, epoch |-> 0,
               owner |-> NoOwner, live |-> FALSE, pid |-> FALSE, touched |-> FALSE]
    /\ log = <<>> /\ torn = FALSE /\ corrupt = FALSE
    /\ quarantined = FALSE /\ dir = FALSE
    /\ attemptMarker = NoLease /\ currentMarker = NoLease
    /\ wk = [w \in Workers |-> [pc |-> "none", epoch |-> 0, next |-> 1,
                                pending |-> "none", outcome |-> "Failed"]]
    /\ launch = "new" /\ reaper = FALSE /\ binding = TRUE
    /\ surface = [status |-> "absent", revision |-> 0, source |-> 0, applied |-> <<>>]
    /\ actor = "idle" /\ page = <<>> /\ more = FALSE /\ closed = FALSE
    /\ oneShot \in BOOLEAN /\ faults = 0 /\ crashes = 0

Fault == faults < MaxFaults /\ faults' = faults + 1
Crash == crashes < MaxCrashes /\ crashes' = crashes + 1

-----------------------------------------------------------------------------
(* The task record: leases, stop, settlement. *)

TaskSettled == task.status \in Settled

\* validate_task_lease
HoldsLease(w) == task.owner = w /\ task.epoch = wk[w].epoch /\ task.live

\* acquire_task_lease: any process, unless another holds an unexpired lease.
AcquireLease(w) ==
    /\ wk[w].pc = IF w = Worker THEN "spawned" ELSE "none"
    /\ w = Worker \/ (task.epoch > 0 /\ ~task.live /\ ~TaskSettled)
    /\ IF TaskSettled \/ (task.owner \notin {w, NoOwner} /\ task.live)
       THEN /\ wk' = [wk EXCEPT ![w].pc = "exited"]
            /\ UNCHANGED task
       ELSE /\ task' = [task EXCEPT !.epoch = @ + 1, !.owner = w, !.live = TRUE,
                                    !.touched = TRUE]
            /\ wk' = [wk EXCEPT ![w].pc = "leased", ![w].epoch = task.epoch + 1]
    /\ UNCHANGED <<relayVars, hostVars, faults, crashes>>

\* mark_running_with_lease; a recoverer goes on after the last frame it reads.
MarkRunning(w) ==
    /\ wk[w].pc = "leased"
    /\ IF HoldsLease(w) /\ ~task.stop
       THEN /\ task' = [task EXCEPT !.status = "Running"]
            /\ wk' = [wk EXCEPT ![w].pc = IF w = Worker THEN "start" ELSE "run",
                                ![w].next = IF w = Worker THEN 1 ELSE Len(log) + 1]
       ELSE /\ wk' = [wk EXCEPT ![w].pc = "exited"]
            /\ UNCHANGED task
    /\ UNCHANGED <<relayVars, hostVars, faults, crashes>>

\* The heartbeat that renews the lease was held up past its duration.
LeaseExpires ==
    /\ task.live /\ ~TaskSettled
    /\ Crash
    /\ task' = [task EXCEPT !.live = FALSE]
    /\ UNCHANGED <<relayVars, wk, hostVars, faults>>

\* complete/fail/block_with_usage_and_lease (update_task_with_lease), the
\* last thing a worker does.
SettleTask(w) ==
    /\ wk[w].pc = "settle"
    /\ wk' = [wk EXCEPT ![w].pc = "exited"]
    /\ task' = IF HoldsLease(w) /\ ~TaskSettled /\ ~task.stop
               THEN [task EXCEPT !.status = wk[w].outcome, !.pid = FALSE]
               ELSE task
    /\ UNCHANGED <<relayVars, hostVars, faults, crashes>>

\* spawn_worker_reaper, worker_exit_fence and fail_worker_exit_if_current
Reap ==
    /\ reaper /\ wk[Worker].pc = "exited"
    /\ reaper' = FALSE
    /\ task' = IF /\ ~TaskSettled /\ task.pid
                  /\ \/ task.owner = Worker /\ task.live
                     \/ task.owner = NoOwner /\ ~task.touched
               THEN [task EXCEPT !.status = "Failed", !.pid = FALSE]
               ELSE task
    /\ UNCHANGED <<relayVars, wk, launch, binding, surface, actor, page, more,
                   oneShot, closed, faults, crashes>>

\* A worker process is killed or exits by itself at any point.
WorkerCrash(w) ==
    /\ wk[w].pc \notin {"none", "exited"}
    /\ Crash
    /\ wk' = [wk EXCEPT ![w].pc = "exited"]
    /\ UNCHANGED <<task, relayVars, hostVars, faults>>

-----------------------------------------------------------------------------
(* SubagentEventRelay::open and append, called for every publish by         *)
(* append_subagent_event_with_lease.                                        *)

Lease(w) == [owner |-> w, epoch |-> wk[w].epoch]

\* Whose leases the markers and the frames show, as highest_observed_lease.
Observed == ({attemptMarker, currentMarker} \ {NoLease})
            \cup {[owner |-> log[i].by, epoch |-> log[i].epoch] : i \in DOMAIN log}

PriorEpoch == Max({0} \cup {l.epoch : l \in Observed})

PriorOwners == {l.owner : l \in {o \in Observed : o.epoch = PriorEpoch}}

Readable == ~quarantined /\ ~corrupt

OpenAdmits(w) == /\ Readable
                 /\ Cardinality(PriorOwners) <= 1
                 /\ \/ wk[w].epoch > PriorEpoch
                    \/ wk[w].epoch = PriorEpoch /\ PriorOwners \subseteq {w}

\* Only a takeover truncates an incomplete frame.
TornAfterOpen(w) == torn /\ wk[w].epoch <= PriorEpoch

Record(w, kind) == [seq |-> wk[w].next, epoch |-> wk[w].epoch, by |-> w, kind |-> kind]

AlreadyApplied(r) == r.seq \in DOMAIN log /\ log[r.seq] = r

\* Variants with a slip each, for checking that the properties notice.
AppendAgain(r) == r.seq \in {Len(log), Len(log) + 1} /\ r.seq > 0 /\ Len(log) < MaxLog

AppendAdmits(r) == r.seq = Len(log) + 1 /\ Len(log) < MaxLog

\* What the scan of open and append refuses is quarantined on the way out.
OpenRefused ==
    /\ quarantined' = (quarantined \/ corrupt)
    /\ dir' = TRUE
    /\ UNCHANGED <<log, torn, corrupt, attemptMarker, currentMarker>>

Opened(w) ==
    /\ dir' = TRUE
    /\ attemptMarker' = Lease(w) /\ currentMarker' = Lease(w)
    /\ UNCHANGED <<corrupt, quarantined>>

\* The publish of a record succeeds.
Appended(w, r) ==
    /\ HoldsLease(w) /\ OpenAdmits(w) /\ ~TornAfterOpen(w)
    /\ Opened(w) /\ torn' = FALSE
    /\ \/ AlreadyApplied(r) /\ log' = log
       \/ AppendAdmits(r) /\ log' = Append(log, r)
    /\ UNCHANGED faults

\* It fails without writing a frame.
Refused(w, r) ==
    /\ \/ ~HoldsLease(w) /\ UNCHANGED relayVars
       \/ HoldsLease(w) /\ ~OpenAdmits(w) /\ OpenRefused
       \/ /\ HoldsLease(w) /\ OpenAdmits(w)
          /\ TornAfterOpen(w) \/ ~(AlreadyApplied(r) \/ AppendAdmits(r))
          /\ Opened(w) /\ torn' = TornAfterOpen(w)
          /\ UNCHANGED log
    /\ UNCHANGED faults

\* A write fails: the second marker, the frame part-way, or what follows the
\* frame (sync_data, the task record), after which the frame is in the file.
Broken(w, r) ==
    /\ HoldsLease(w) /\ OpenAdmits(w) /\ ~TornAfterOpen(w) /\ AppendAdmits(r)
    /\ Fault
    /\ \/ /\ attemptMarker' = Lease(w) /\ dir' = TRUE /\ torn' = FALSE
          /\ UNCHANGED <<log, corrupt, quarantined, currentMarker>>
       \/ Opened(w) /\ torn' = TRUE /\ UNCHANGED log
       \/ Opened(w) /\ torn' = FALSE /\ log' = Append(log, r)

\* The disk damages a complete frame.
DiskFault ==
    /\ log # <<>> /\ ~corrupt
    /\ Fault
    /\ corrupt' = TRUE
    /\ UNCHANGED <<task, log, torn, quarantined, dir, attemptMarker, currentMarker,
                   wk, hostVars, crashes>>

-----------------------------------------------------------------------------
(* The worker process: ChildAgentActivityEmitter::publish_payload over the *)
(* relay sink.  An event that failed stays pending and is flushed before   *)
(* the next one; while it fails, so does every later publish.              *)

Flushing(w, kind) == IF wk[w].pending = "none" THEN kind ELSE wk[w].pending

\* ok: where a publish that is through leads; errs: where a failed one may.
Publish(w, kind, ok, errs) ==
    LET r == Record(w, Flushing(w, kind)) IN
    /\ \/ /\ Appended(w, r)
          /\ wk' = [wk EXCEPT ![w].next = @ + 1, ![w].pending = "none",
                              ![w].pc = IF wk[w].pending = "none" THEN ok ELSE @]
       \/ /\ Refused(w, r) \/ Broken(w, r)
          /\ \E pc \in errs :
                wk' = [wk EXCEPT ![w].pending = Flushing(w, kind), ![w].pc = pc,
                                 ![w].outcome = IF pc = wk[w].pc THEN @ ELSE "Failed"]
    /\ UNCHANGED <<task, hostVars, crashes>>

\* The relay begins at sequence one although the launch committed Started.
PublishStarted(w) == wk[w].pc = "start" /\ Publish(w, "Started", "run", {"settle"})

PublishProgress(w) ==
    /\ wk[w].pc = "run"
    /\ wk[w].pending # "none" \/ wk[w].next <= MaxEvents + 1
    /\ Publish(w, "Progress", "run", {"run", "end"})

\* The run ends, cancelled by the heartbeat when the lease is lost; then
\* commit_async_terminal, and nothing is published when that fails.
EndRun(w) ==
    /\ wk[w].pc \in {"run", "end"}
    /\ \E outcome \in {"Completed", "Failed"}, committed \in BOOLEAN :
          /\ wk[w].pc = "end" => outcome = "Failed"
          /\ wk' = [wk EXCEPT ![w].pc = IF committed THEN "publish" ELSE "settle",
                              ![w].outcome = IF committed THEN outcome ELSE "Failed"]
    /\ UNCHANGED <<task, relayVars, hostVars, faults, crashes>>

\* Slip: the task is settled although its last frame was not published.
CompletedUnpublished(w) ==
    /\ wk[w].pc = "publish"
    /\ wk' = [wk EXCEPT ![w].pc = "settle"]
    /\ UNCHANGED <<task, relayVars, hostVars, faults, crashes>>

PublishCompleted(w) ==
    wk[w].pc = "publish" /\ Publish(w, wk[w].outcome, "settle", {"settle"})

-----------------------------------------------------------------------------
(* The surface: commit_subagent_activity_inner and the reducer's patches.  *)

Running == surface.status = "Running"

Id(r) == [by |-> r.by, seq |-> r.seq]

\* A commit id of the ledger is acknowledged again without a second patch.
IsDuplicate(r) == /\ \E i \in DOMAIN surface.applied : surface.applied[i] = Id(r)
                  /\ r.seq <= surface.revision

CommitAdmits(r) ==
    /\ binding
    /\ \/ IsDuplicate(r)
       \/ surface.status = "absent" /\ r.seq = 1 /\ r.kind = "Started"
       \/ Running /\ r.seq = surface.revision + 1 /\ r.seq = surface.source + 1

\* Slip: the patch forgets the source cursor.
CommitKeepingSource(r) ==
    IF IsDuplicate(r) THEN surface
    ELSE [status   |-> IF r.kind \in Settled THEN r.kind ELSE "Running",
          revision |-> r.seq, source |-> surface.source,
          applied  |-> Append(surface.applied, Id(r))]

AfterCommit(r) ==
    IF IsDuplicate(r) THEN surface
    ELSE [status   |-> IF r.kind \in Settled THEN r.kind ELSE "Running",
          revision |-> r.seq, source |-> r.seq,
          applied  |-> Append(surface.applied, Id(r))]

-----------------------------------------------------------------------------
(* launch_async_subagent, once the binding is registered.                  *)

LaunchEvent(n, kind) == [seq |-> n, epoch |-> 0, by |-> Host, kind |-> kind]

\* Started is committed before the worker exists; a failed commit, and one
\* whose reply is lost, fail the launch.
LaunchStarted ==
    /\ launch = "new" /\ actor = "idle"
    /\ \/ /\ surface' = AfterCommit(LaunchEvent(1, "Started"))
          /\ launch' = "spawn"
          /\ UNCHANGED faults
       \/ /\ Fault
          /\ surface' \in {surface, AfterCommit(LaunchEvent(1, "Started"))}
          /\ launch' = "fail"
    /\ UNCHANGED <<task, relayVars, wk, reaper, binding, actor, page, more,
                   oneShot, closed, crashes>>

\* spawn_async_subagent_worker and adopt_subagent_worker_with_job: the
\* adoption sets the task running, even after a stop request.
LaunchSpawn ==
    /\ launch = "spawn"
    /\ \/ /\ ~TaskSettled
          /\ task' = [task EXCEPT !.status = "Running", !.pid = TRUE, !.touched = FALSE]
          /\ wk' = [wk EXCEPT ![Worker].pc = "spawned"]
          /\ reaper' = TRUE /\ launch' = "done"
          /\ UNCHANGED faults
       \/ /\ (TaskSettled /\ UNCHANGED faults) \/ Fault
          /\ launch' = "report"
          /\ UNCHANGED <<task, wk, reaper>>
    /\ UNCHANGED <<relayVars, binding, surface, actor, page, more, oneShot, closed, crashes>>

\* finish_async_launch_failure: the parent's emitter ends the child itself.
LaunchReport ==
    /\ launch = "report" /\ actor = "idle"
    /\ launch' = "fail"
    /\ LET r == LaunchEvent(2, "Failed") IN
       \/ /\ surface' = IF CommitAdmits(r) THEN AfterCommit(r) ELSE surface
          /\ UNCHANGED faults
       \/ Fault /\ UNCHANGED surface
    /\ UNCHANGED <<task, relayVars, wk, reaper, binding, actor, page, more,
                   oneShot, closed, crashes>>

LaunchFail ==
    /\ launch = "fail"
    /\ launch' = "done"
    /\ task' = [task EXCEPT !.status = "Failed", !.pid = FALSE]
    /\ UNCHANGED <<relayVars, wk, reaper, binding, surface, actor, page, more,
                   oneShot, closed, faults, crashes>>

-----------------------------------------------------------------------------
(* The actor's poll: drain_detached_subagent_relay, then                   *)
(* settle_stranded_detached_subagents.                                     *)

ReplayAllowed == ~task.stop /\ task.status \notin {"Stopping", "Stopped"}

\* Slip: the page begins one record late.
PageSkipping(n) == SubSeq(log, n + 2, Min({Len(log), n + 1 + PageSize}))

\* page_from_scan after the cursor
PageAfter(n) == SubSeq(log, n + 1, Min({Len(log), n + PageSize}))

ReadPage ==
    \/ /\ Readable
       /\ page' = PageAfter(surface.source)
       /\ more' = (Len(log) > surface.source + PageSize)
       /\ actor' = "drain"
       /\ UNCHANGED quarantined
    \/ /\ ~Readable
       /\ quarantined' = TRUE
       /\ page' = <<>> /\ more' = FALSE
       /\ actor' = "settle"

\* Slip: a relay that cannot be drained ends the poll.
PollDrainsOnly ==
    /\ actor = "idle" /\ Running
    /\ binding /\ ReplayAllowed /\ dir /\ ReadPage
    /\ UNCHANGED <<task, log, torn, corrupt, dir, attemptMarker, currentMarker, wk,
                   launch, reaper, binding, surface, oneShot, closed, faults, crashes>>

Poll ==
    /\ actor = "idle" /\ Running
    /\ \/ binding /\ ReplayAllowed /\ dir /\ ReadPage
       \/ /\ ~(binding /\ ReplayAllowed /\ dir)
          /\ actor' = "settle"
          /\ UNCHANGED <<page, more, quarantined>>
    /\ UNCHANGED <<task, log, torn, corrupt, dir, attemptMarker, currentMarker, wk,
                   launch, reaper, binding, surface, oneShot, closed, faults, crashes>>

\* One record of the page; the first that fails ends the drain.
DrainRecord ==
    /\ actor = "drain" /\ page # <<>>
    /\ \/ /\ CommitAdmits(Head(page))
          /\ surface' = AfterCommit(Head(page))
          /\ page' = Tail(page)
          /\ UNCHANGED <<actor, more, faults>>
       \/ /\ (~CommitAdmits(Head(page)) /\ UNCHANGED faults) \/ Fault
          /\ actor' = "settle" /\ page' = <<>> /\ more' = FALSE
          /\ UNCHANGED surface
    /\ UNCHANGED <<task, relayVars, wk, launch, reaper, binding, oneShot, closed, crashes>>

\* The page is through: the next one is read without a second look at the
\* stop request, or the drain is over.
DrainMore ==
    /\ actor = "drain" /\ page = <<>>
    /\ \/ more /\ ReadPage
       \/ ~more /\ actor' = "settle" /\ UNCHANGED <<page, more, quarantined>>
    /\ UNCHANGED <<task, log, torn, corrupt, dir, attemptMarker, currentMarker, wk,
                   launch, reaper, binding, surface, oneShot, closed, faults, crashes>>

\* A settled task ends its child once SUBAGENT_SETTLE_GRACE is over.
Strand ==
    /\ actor = "settle" /\ Running /\ TaskSettled
    /\ actor' = "idle"
    /\ surface' = [surface EXCEPT !.status = task.status, !.revision = @ + 1]
    /\ UNCHANGED <<task, relayVars, wk, launch, reaper, binding, page, more, oneShot, closed,
                   faults, crashes>>

\* Nothing to settle, or the grace is not over.
PollEnds ==
    /\ actor = "settle"
    /\ actor' = "idle"
    /\ UNCHANGED <<task, relayVars, wk, launch, reaper, binding, surface, page, more,
                   oneShot, closed, faults, crashes>>

-----------------------------------------------------------------------------
(* The user stops the child (request_stop_detached, called by the actor),   *)
(* the session ends and is opened again, the thread closes.                 *)

\* Slip: the stop leaves the lease alone.
StopKeepingLease ==
    /\ actor = "idle" /\ Running /\ ~TaskSettled
    /\ actor' = "stopping"
    /\ task' = [task EXCEPT !.status = "Stopping", !.stop = TRUE, !.touched = TRUE]
    /\ UNCHANGED <<relayVars, wk, launch, reaper, binding, surface, page, more,
                   oneShot, closed, faults, crashes>>

\* mark_stop_requested_record
StopMark ==
    /\ actor = "idle" /\ Running /\ ~TaskSettled /\ task.epoch < MaxEpoch
    /\ actor' = "stopping"
    /\ task' = [task EXCEPT !.status = "Stopping", !.stop = TRUE, !.epoch = @ + 1,
                            !.owner = NoOwner, !.live = FALSE, !.touched = TRUE]
    /\ UNCHANGED <<relayVars, wk, launch, reaper, binding, surface, page, more,
                   oneShot, closed, faults, crashes>>

\* The worker is killed and waited for, then the task stopped.
StopKill ==
    /\ actor = "stopping" /\ task.pid
    /\ actor' = "stopped"
    /\ wk' = [wk EXCEPT ![Worker].pc = "exited"]
    /\ reaper' = FALSE
    /\ task' = [task EXCEPT !.status = "Stopped", !.pid = FALSE]
    /\ UNCHANGED <<relayVars, launch, binding, surface, page, more, oneShot, closed,
                   faults, crashes>>

\* No worker came within WORKER_HANDOFF_WAIT, or the launch failed meanwhile.
StopGiveUp ==
    /\ actor = "stopping" /\ ~task.pid
    /\ actor' = "idle"
    /\ UNCHANGED <<task, relayVars, wk, launch, reaper, binding, surface, page, more,
                   oneShot, closed, faults, crashes>>

StopSurface ==
    /\ actor = "stopped"
    /\ actor' = "idle"
    /\ \/ /\ surface' = [surface EXCEPT !.status = "Stopped", !.revision = @ + 1]
          /\ UNCHANGED faults
       \/ Fault /\ UNCHANGED surface
    /\ UNCHANGED <<task, relayVars, wk, launch, reaper, binding, page, more, oneShot,
                   closed, crashes>>

\* The host exits; its worker processes go on.
HostCrash ==
    /\ ~oneShot /\ launch = "done" /\ actor # "down"
    /\ Crash
    /\ actor' = "down" /\ page' = <<>> /\ more' = FALSE /\ reaper' = FALSE
    /\ UNCHANGED <<task, relayVars, wk, launch, binding, surface, oneShot, closed, faults>>

\* open_persistent fails the task when it finds its continuation without a
\* live owner; a task with a worker is otherwise left alone.
Restart ==
    /\ actor = "down"
    /\ actor' = "idle"
    /\ \/ UNCHANGED task
       \/ /\ ~TaskSettled /\ wk[Worker].epoch > 0
          /\ wk[Worker].pc = "exited" \/ ~task.live
          /\ task' = [task EXCEPT !.status = "Failed", !.pid = FALSE,
                                  !.owner = NoOwner, !.live = FALSE]
    /\ UNCHANGED <<relayVars, wk, launch, reaper, binding, surface, page, more,
                   oneShot, closed, faults, crashes>>

\* Another agent resumes the continuation of the settled child.
Resumed ==
    /\ TaskSettled /\ binding
    /\ binding' = FALSE
    /\ UNCHANGED <<task, relayVars, wk, launch, reaper, surface, actor, page, more,
                   oneShot, closed, faults, crashes>>

\* Slip: a settled task is taken for a delivered one.
ClosePendingByTask == binding /\ ReplayAllowed /\ ~TaskSettled

\* detached_relay_pending_for_close
ClosePending ==
    /\ binding /\ ReplayAllowed
    /\ \/ ~TaskSettled
       \/ ~dir \/ ~Readable
       \/ Len(log) > surface.source

\* one_shot_close_ready, after the operation that launched the child ended
CloseOneShot ==
    /\ oneShot /\ launch = "done" /\ actor = "idle"
    /\ ~ClosePending
    /\ actor' = "closed" /\ closed' = TRUE
    /\ UNCHANGED <<task, relayVars, wk, launch, reaper, binding, surface, page, more,
                   oneShot, faults, crashes>>

-----------------------------------------------------------------------------
WorkerStep(w) == \/ AcquireLease(w) \/ MarkRunning(w) \/ PublishStarted(w)
                 \/ PublishProgress(w) \/ PublishCompleted(w) \/ SettleTask(w)

LaunchStep == LaunchStarted \/ LaunchSpawn \/ LaunchReport \/ LaunchFail

ActorStep == \/ Poll \/ DrainRecord \/ DrainMore \/ PollEnds
             \/ StopKill \/ StopGiveUp \/ StopSurface

Next ==
    \/ \E w \in Workers : WorkerStep(w) \/ EndRun(w) \/ WorkerCrash(w)
    \/ LeaseExpires \/ Reap \/ DiskFault
    \/ LaunchStep
    \/ ActorStep \/ Strand \/ StopMark
    \/ HostCrash \/ Restart \/ Resumed \/ CloseOneShot

Spec == Init /\ [][Next]_vars

FairSpec ==
    /\ Spec
    /\ WF_vars(WorkerStep(Worker)) /\ WF_vars(Reap) /\ WF_vars(LaunchStep)
    /\ WF_vars(ActorStep) /\ WF_vars(Restart) /\ SF_vars(Strand)

-----------------------------------------------------------------------------
Kinds == {"none", "Started", "Progress", "Completed", "Failed"}
Points == {"none", "spawned", "leased", "start", "run", "end", "publish", "settle", "exited"}
Leases  == [owner : Workers \cup {NoOwner}, epoch : Nat]
Records == [seq : Nat, epoch : Nat, by : Workers, kind : Kinds]

TaskOK ==
    task \in [status : {"Running", "Stopping"} \cup Settled, stop : BOOLEAN, epoch : Nat,
              owner : Workers \cup {NoOwner}, live : BOOLEAN, pid : BOOLEAN,
              touched : BOOLEAN]

WorkersOK ==
    wk \in [Workers -> [pc : Points, epoch : Nat, next : Nat, pending : Kinds,
                        outcome : {"Completed", "Failed"}]]

RelayOK ==
    /\ log \in Seq(Records)
    /\ attemptMarker \in Leases /\ currentMarker \in Leases
    /\ torn \in BOOLEAN /\ corrupt \in BOOLEAN /\ quarantined \in BOOLEAN /\ dir \in BOOLEAN

SurfaceOK ==
    /\ surface \in [status : {"absent", "Running"} \cup Settled, revision : Nat, source : Nat,
                    applied : Seq([by : Workers \cup {Host}, seq : Nat])]
    /\ page \in Seq(Records)

\* The records, the relay file, the markers and the ledger hold values of
\* their kind.
TypeOK == TaskOK /\ WorkersOK /\ RelayOK /\ SurfaceOK

\* What the writers leave in the relay file, whatever fails and whoever takes
\* the lease over, passes the scan: sequences without gap or repetition,
\* epochs that never fall, one owner per epoch, no more than the size limit.
\* Only damage by the disk is ever quarantined.
LogScans ==
    /\ quarantined => corrupt
    /\ Len(log) <= MaxLog
    /\ \A i \in DOMAIN log :
          /\ log[i].seq = i
          /\ i > 1 => \/ log[i - 1].epoch < log[i].epoch
                      \/ log[i - 1].epoch = log[i].epoch /\ log[i - 1].by = log[i].by

\* The surface applies Started and then the frames of the relay one by one,
\* in their order and once each, over failed commits, restarts and takeovers;
\* a running child's revision and source cursor agree, which the next commit
\* relies on.  Only a launch that failed puts an event of its own second.
DeliveredInOrder ==
    /\ Running => surface.revision = surface.source
    /\ surface.source = Len(surface.applied)
    /\ \A i \in 2..surface.source :
          \/ i \in DOMAIN log /\ surface.applied[i] = Id(log[i])
          \/ i = 2 /\ surface.applied[2].by = Host /\ log = <<>>

HasFrame(kind) == \E i \in DOMAIN log : log[i].kind = kind

\* A child is Completed, in the registry or on the surface, only when the
\* frame that says so is in the relay; a task its worker completed is never
\* shown as failed or stopped.
OutcomesAgree ==
    /\ "Completed" \in {task.status, surface.status} => HasFrame("Completed")
    /\ task.status = "Completed" /\ task.owner = Worker => surface.status \in {"Running", "Completed"}

\* A one-shot thread closes only when every frame of its child has reached
\* the surface cursor, unless the child was stopped or resumed elsewhere.
ClosedDelivered ==
    closed => task.stop \/ ~binding \/ (TaskSettled /\ Len(log) <= surface.source)

\* Once a stop is requested or the task is settled, by whomever, no frame is
\* added to the relay.
NothingAfterEnd == [][TaskSettled \/ task.stop => log' = log]_vars

\* A child whose task is settled does not show as running for ever: its
\* frames end it, or the poll settles it, also when the relay is missing,
\* quarantined or bound to a later attempt, and also after a restart.
ChildSettles == (TaskSettled /\ Running) ~> (~Running \/ closed)

\* A frame of a running child reaches the surface, unless the child is
\* stopped, or the file is damaged.
FramesDelivered ==
    \A i \in 2..MaxLog :
       (Len(log) >= i /\ Running) ~>
          (surface.source >= i \/ ~Running \/ ~Readable \/ task.stop \/ closed)

-----------------------------------------------------------------------------
(* What makes NothingAfterEnd, LogScans and DeliveredInOrder inductive.    *)

Publishing == {"start", "run", "end", "publish"}

\* A worker that can still append has the lease of a task that has not ended.
PublisherFenced ==
    \A w \in Workers :
       wk[w].pc \in Publishing /\ HoldsLease(w) => ~task.stop /\ ~TaskSettled

\* Until the launch is over no worker runs: none has a lease, or a stop
\* request came first and its new epoch only lets others find that out.
LaunchFirst ==
    launch # "done" =>
       \/ task.epoch = 0 /\ \A w \in Workers : wk[w].pc = "none"
       \/ task.stop /\ \A w \in Workers : wk[w].pc \in {"none", "leased", "exited"}

StopMarked == actor \in {"stopping", "stopped"} => task.stop

EndInv == TaskOK /\ WorkersOK /\ PublisherFenced /\ LaunchFirst /\ StopMarked

\* LogScans for any two frames, not only neighbours.
LogOrdered ==
    \A i, j \in DOMAIN log : i < j =>
       \/ log[i].epoch < log[j].epoch
       \/ log[i].epoch = log[j].epoch /\ log[i].by = log[j].by

ScanInv == RelayOK /\ LogScans /\ LogOrdered

\* A frame read into a page is still the frame of its sequence.
PageInLog == \A i \in DOMAIN page : page[i].seq \in DOMAIN log /\ log[page[i].seq] = page[i]

\* The launch failed: no worker runs, and none will.
Unlaunched ==
    /\ launch \in {"fail", "done"}
    /\ launch = "done" => TaskSettled
    /\ \/ \A w \in Workers : wk[w].pc = "none"
       \/ task.stop /\ \A w \in Workers : wk[w].pc \in {"none", "leased", "exited"}

HostReported == 2 \in DOMAIN surface.applied /\ surface.applied[2].by = Host

HostEnded == HostReported => Unlaunched

\* The surface hears of the child first from the launch, then from frames.
LaunchHeard ==
    /\ launch = "new" => surface.status = "absent" /\ actor = "idle"
    /\ surface.status = "absent" => surface.applied = <<>> /\ surface.source = 0
    /\ launch # "done" => log = <<>>

DeliveryInv == SurfaceOK /\ DeliveredInOrder /\ PageInLog /\ HostEnded /\ LaunchHeard
=============================================================================
