# Verification of the orca-agent runtime

TLA+ models of the control plane of orca-agent (`crates/orca-runtime`), the TLC
runs that check them on small instances, and TLAPS proofs for every instance.
Line numbers below are lines of files under `src/`; `PROJECT.json` maps every
definition to the code it stands for.

## 1. The system and its parts

orca-agent is an agent runtime: a host runs threads (conversations with a model),
a thread runs operations, an operation runs turns, a turn calls a provider and
dispatches tools, and a tool may be a child agent or a whole workflow of them.
State that outlives a process is kept in per-session directories of JSON records.

| Part | State it keeps | Operations | Hard behaviour | What makes it correct |
|---|---|---|---|---|
| Agent continuation (`agent_continuation.rs`) | one durable record per child-agent lineage: status, revision, current attempt with owner, lease epoch and expiry, last safe checkpoint, active tool boundary, terminal | create, prepared, prepare_resume, acquire, renew, commit_checkpoint, commit_tool_boundary, commit_terminal, commit_prepared_terminal, reconcile | many processes, no lock held between reading and writing, clocks read before the lock, crashes, failed projection writes | one executor per attempt, no lost checkpoint, no resume over unknown effects, no corrupt record |
| Continuation workers (`runtime_subagent_call.rs`, `subagent_async_worker.rs`, `workflow/runner.rs`) | lease, shared revision, checkpoint sequence, cancel token | launch, retry, heartbeat, settle | heartbeat and worker race on one revision; a lost lease must stop the run | a run is cancelled when its task lease or its continuation lease is lost, and only then |
| Operation context and budgets (`operation_context.rs`, `budget_controller.rs`, `child_budget_ledger.rs`) | journal of the operation, in-memory usage and latched stop, durable ledger of child reservations | admit, refresh, lease, reserve, bind, settle, refund, stop, commit | parent, dispatcher and children share the ledger; crashes between journal and ledger; a stop races with starts | never overspent, every receipt billed once, started children billed what they spent |
| Execution scope (`execution_scope.rs`) | queued launches, capacity leases, dispatcher threads | submit, acquire, enqueue, recover | launches stopped before dispatch, panics, restarts | a launch runs once or is settled |
| Turn loop, tool dispatch (`runtime_turn_loop.rs`, `tool_turn.rs`, `tool_execution.rs`) | conversation, open tool calls | iterate, dispatch, checkpoint | tools with unknown effects, partial batches | boundary persisted before the tool, checkpoint only when all results are observed |
| Runtime host and thread actors (`runtime_host.rs`, `runtime_actor/`) | threads, active operation and generation, pending controls | start, interrupt, steer, resume, shutdown | control messages race with operation ends | a control reaches the generation it was aimed at or none |
| Operation cancellation (`orca-core/src/cancel.rs`) | current scope, accepting flag | start, finish, cancel, shutdown | start races with shutdown | no operation survives shutdown uncancelled |
| Task registry (`tasks.rs`) | tasks, leases, output, notifications | register, claim, settle, recover | several processes, recovery at open | a task settles once |
| Prompt queue and steering (`prompt_queue.rs`, the thread actor in `runtime_host.rs`, `runtime_steer.rs`) | revisioned snapshot with items, pause and dispatch fence, in memory and in the session file; pending steer inputs | add, update, delete, reorder, pause, start; prepare, accept, settle, roll back, recover; steer, requeue | actor, generation and clients run concurrently, exits between saves, failed saves, stale commands | a prompt runs at most once and is not lost, the running head is left alone, accepted steer inputs are answered or requeued |
| Goals (`goal_store.rs`, `goal_actor.rs`) | goal record | set, advance, settle | stale claims | one goal is active and settles once |
| Runtime surface (`runtime_surface/`) | per thread a ledger of prepared and committed batches in the session file, the state they reduce to, the incomplete batch, a retained suffix, one queue per attached client | commit, retry, recover, take over, attach, replay, receive, seal | two writes per commit, either of which may fail or be followed by a crash; clients on threads of their own; slow or returning clients | clients see one growing history without holes, what a caller was told committed survives, one caller's failure does not stop the others |
| Subagent event relay (`subagent_event_relay.rs`, `subagent_async_worker.rs`, `child_agent_types.rs`) | per attempt of a detached child a file of frames, two lease markers, a quarantine marker; the source cursor of the child on the surface | launch, publish, append, page, drain, settle, stop, close | worker, host, reaper and takeover are processes and threads; torn frames; stops and restarts in between | frames reach the surface in order and once, nothing is added after the end, no child shows as running for ever |
| Terminals (`terminal_service.rs`, `shell_session.rs`) | managed processes | spawn, attach, kill | exit races with kill | every process is reaped |
| Session and thread stores (`thread_store/`, `history.rs`, `session.rs`) | append-only logs | append, load | torn writes | load returns a prefix |
| Server, ACP, controller (`server.rs`, `acp/`, `controller.rs`) | connections, turn generations | protocol handlers | requests race with turns | one active turn per thread |
| Providers, MCP, tools, approval, TUI, platform, CLI | mostly pure or I/O | | | |

Components interact by calls and shared stores. The continuation coordinator is
called by the launcher of a child agent (in the parent's turn), by the worker that
executes it (a thread of the same process or a process of its own) and by the
session's recovery when the session is opened again; all three meet only in the
durable record, under a session lock held for one mutation at a time. An operation
and its background children meet in two places: the ledger file next to the
operation's journal, and the task registry, through which the dispatcher thread
starts children and the parent stops them.

## 2. Plan

Ordered by how much depends on the part and how hard it is to test.

1. `ContinuationRecord`, `AgentContinuation`, `ContinuationLineage`: agent
   continuations (done, checked, all safety properties and the refinement proved).
2. `OperationBudget`: the budget of an operation and its children (done for the
   tool-call dimension, checked, its safety proved).
3. `PromptQueue`: the durable prompt queue, its drain and steer inputs (done, checked,
   its safety proved).
4. `SubagentRelay`: a detached child, its task lease, its relay file and its drain into
   the surface (done, checked, its safety proved).
5. `RuntimeSurface` and `PublishedLog`: commit, recovery, replay and subscription (done,
   checked, its safety and the refinement proved).
6. `OperationCancellation` and `ThreadActor`: start, finish, cancel and shutdown of
   operations; generations of a thread, interrupts and resume (ADR 0004, 0005), on top
   of the commits of 5.
7. Goals, whose failed runs reconcile an incomplete batch of 5.
8. `TerminalService`: managed command lifetime (ADR 0006, 0009).

Abstract specifications worth stating: the atomic lineage (done), an atomic budget
ledger that `OperationBudget` implements, the published log (done). Theorems still worth
proving: the safety of 6 to 8 once they are modelled.

## 3. Modules

### ContinuationRecord
The record algebra: the status automaton (`transition_to`), `validate_record` and
`validate_status_structure` as `ValidRecord` (one named conjunct per family of
rejections), the predicates on a record at a time (`Resumable`, `LiveOwner`,
`ExpiredOwner`) and one operator per mutation (`AcquiredBy`, `Renewed`,
`WithCheckpoint`, `WithBoundary`, `Settled`, `ResumedAs`, `Reconciled`).
Attempts are numbers, checkpoints are named by attempt and sequence number, and a
checkpoint also remembers whose conversation it extends, so that a lost update is
visible. Owner, task, model and workspace bindings other than the owner are left
out: they never change along a lineage.

### AgentContinuation
One lineage, any number of launches (`Owners`: every launch makes a fresh owner
identity), the reconciler, and a clock. A coordinator call is two steps, as in the
code: `Begin...` reads the record and the clock without the lock and takes the early
returns; a `Finish...` or `...Write` step commits under the lock against the record
it then finds. `CommitWrite`, `RefuseWrite` and `ConflictWrite` are the three
results of a fenced write; `FailWrite`, and the fault branches of `CommitWrite` and
`FinishAcquire`, are storage failures, the latter after the record was written
(`install_projection` fails). `WriteOk` and `WriteErr` are what the worker and its
heartbeat do with the result. An async worker first takes the lease of its task
(`AcquireTask`). A beat of its heartbeat has two halves, as in
`AsyncLeaseHeartbeat::start`: `RenewTask`, `RefuseTask` and `FailTask` are the results of
renewing the task lease, of which only the first goes on (`due`) to `BeginRenew`, the
renewal of the continuation lease; each half has its own time of the last success
(`taskBeat`, `beat`) and asks `RenewalFailureEndsRun` whether its failure cancels the run.
`FenceTask` is the stop or the settlement of the task by someone else; a task that lapsed
may be taken over by another launch of the attempt. `Crash` ends a launch anywhere. `BeginReconcile` and
`FinishReconcile` are `reconcile_expired_owners_locked`. The history variables
`rejected` (the store refused a record), `exposed` (a tool with unknown effects ran
that no checkpoint covers) and `masked` (launches told that a renewal failed which had been
committed) are read by no action.

### ContinuationLineage
What the coordinator promises, without revisions, leases, clocks or failures: attempts
opened one after the other, each granted to one owner under a fresh epoch, checkpoints
only from an executing owner, a lost lineage never reopened. `AgentContinuation`
instantiates it with a refinement mapping (`Lineage`, `PhaseOf`).

### MCAgentContinuation
Model values and symmetry for the runs.

### OperationBudget
One operation (the parent), its background children, the dispatcher, and the crash
and reopening of the parent's process. The parent is sequential: `pc` is where it is,
`job` what it is doing, and every place where another actor or a crash can come
between two of its effects is a step of its own. `refresh_child_budgets` is
`ReadLedger`, then `BillReceipt` and `Acknowledge` for each receipt it read, then
`RefreshDone`; it runs before every admission, before and after a lease, after a
lease returns, and before a terminal. `AdmitToolCall`, `GrantLease`, `Submit`,
`BindTask` and `ReturnLease` are a tool or subagent call, with its refusals;
`StopSnapshot`, `StopChild`, `StopWaited` are `settle_children_for_stop`. `task` is
the registry's record of a child, `launch` its closure, thread or process. A child in
`Detached` runs in a worker process that survives the parent's crash. `own` and
`spent` are history: calls really made, compared with what was billed. One dimension
is kept, tool calls; turns and cost are treated alike by the code. The bounds are
`MaxSiblings`, `MaxCrashes` and `CrashInStop` (see section 5).

### MCOperationBudget
Two children, the second detached.

### PromptQueue
The queue of one thread, the actor that owns it, the generation of its active turn and
the clients. `q` is the actor's `PromptQueueState`, `disk` the last snapshot in the
session file, `published` what subscribers see. The actor is sequential: `pc` is
`"select"` when it waits for commands, `"top"` at the top of its idle loop, and
otherwise between two saves of one call, where the process may exit. `Handle` is
`apply_prompt_queue_action` on the command of a client (`Admits` its refusals, `Applied`
its effect), with the snapshot the client had seen. `PrepareDispatch`, `StartTurn`,
`AcceptDispatch`, `RollBackDispatch` and `PauseForBoundary` are
`try_drain_prompt_queue`; `FinishOperation`, `RequeueAdd` and `RequeueReorder` the end
of an operation; `Restart` and `RestartUnread` the opening of the thread. The generation
runs beside it: `RecordPrompt`, `ApplySteer`, `EndTurn`. Two kinds of save are told
apart as in the code: a command that cannot be saved is undone (`ChangeFails`), a
dispatch step is kept (`Settle`); in both the file may have been written. An input
stands for its submission id, its turn id and its operation id, and its text for the
number of its edits. `reconcile_prompt_queue_dispatch` has no action: `RunningHead`
shows that it never finds a fence. Turns that the queue did not start are
`DirectTurn`s; goals and surface interactions are only what holds the thread (`held`).
A steer input that is accepted after its turn has failed with an I/O error and before
its thread has ended counts as accepted just before the failure. Bounds:
`MaxCommands`, `MaxFaults`, `MaxCrashes`.

### MCPromptQueue
Symmetry of the inputs, for the runs without liveness.

### SubagentRelay
One task with one attempt. `task` is the registry's record (status, stop request, lease
owner and epoch, whether the lease is unexpired, whether a worker's pid is recorded),
`log`, `torn`, `corrupt` and the markers are the files of the relay, `wk` the worker
processes with their emitter, `launch`, `reaper` and `actor` the three threads of the
host that matter, `surface` the child as the ledger shows it. Every publish opens the
relay anew and appends under the session lock, so `Appended`, `Refused` and `Broken` are
one step each; `Broken` is a write that fails at the second marker, within the frame or
after it. An event that failed stays pending in the emitter (`Flushing`). `Poll`,
`DrainRecord`, `DrainMore`, `Strand` and `PollEnds` are one pass of the actor;
`LaunchStarted` to `LaunchFail` the launch; `StopMark` to `StopSurface` the user's stop.
`Recoverers` are what the lease interface admits (and a test in `tasks.rs` exercises)
though no caller starts a second worker for a task; the second half of `OutcomesAgree`
speaks of the spawned worker only. The grace before a stranded child is settled is any
delay. Bounds: `MaxLog` (the size limit, in records), `MaxEpoch`, `MaxEvents`,
`MaxFaults`, `MaxCrashes`.

### RuntimeSurface
The surface of one recorded thread. `disk` is what the session file holds of the ledger;
`index`, `applied`, `nextSeq`, `incomplete` and `publications` are the fields of ledger
and coordinator, `hub`, `lane` those of the hub; `view` and `at` what a client has made
of what it received. `job` is the commit the actor is in: `CommitAppend` and
`CommitCheckpoint` are the two writes of `commit_batch_with_authority`, inside the
caller's bounded retry loop (`Retry`, `GiveUp`), with the caller's kind deciding what
success and failure mean. `Start`, `Takeover`, `Reconcile`, `Refresh` and `Bind` open the
thread: `Start` replays the log and commits the batch it finds prepared, `Takeover` is the
batch of the new owner epoch, `Reconcile` any of the commits between it and the bind
(recovered owners, outcomes, interrupted operations and tasks, the Goal outbox). A prepared
batch is not always recovered: recovery refuses one that starts a detached child and one
whose epoch is not the state's, which is the takeover's own (`Recoverable`); the start then
fails (`Opens`) and so does every later one. A batch carries for this which fact about a
detached child it states (`Facts`). `Seal` and `Close` close the thread; `Crash` ends it
anywhere. Callers: `Semantic` (most
commits), `Control` with `RetryControl` (a cancel whose batch is kept and retried by a
timer), `Poll` (the stranded child of `SubagentRelay`), `RetryIncomplete` (a failed Goal
run). `WriteFails` leaves the file as it was or with the whole record. A commit id that
the coordinator refuses is used again, so that refused polls repeat the same state.
Bounds: `MaxBatches`, `MaxEpoch`, `MaxFaults`, `MaxCrashes`.

### PublishedLog
What the surface promises its clients: one history that only grows, of which each client
has seen a beginning that never shrinks. `RuntimeSurface` instantiates it with the
committed batches of the file and the clients' views.

### MCSubagentRelay, MCRuntimeSurface
Instances for the runs.

### Collections
Two operators that `OperationBudget` and `RuntimeSurface` share and that are proved about:
the sum of a function over a finite set (`SumOver`, the fold of the community modules) and
the elements of a sequence at a set of positions (`Selected`, a recursive function, in the
place of `SelectSeq`, of which the provers know nothing).

### Proof modules
`AgentContinuation_proofs` and, on top of it, `ContinuationOwners_proofs`;
`PromptQueue_proofs` and, on top of it, `PromptQueueLedger_proofs`; `SubagentRelay_proofs`;
`Collections_proofs` and, on top of it, `OperationBudget_proofs` and
`RuntimeSurface_proofs`. See section 6.

## 4. Runs

| Run | Shows |
|---|---|
| `continuation_fencing` | two launches, one with a heartbeat, a reconciler, one storage failure: the store never refuses a record (`NeverRejected`), a live lease is taken by nobody else (`LiveLeaseKept`), checkpoints chain (`CheckpointsChain`); with one tool per model response, a tool with unknown effects blocks resumption after a crash until a checkpoint covers it (`UnknownEffectsSurviveCrash`) |
| `continuation_resume` | three launches over three attempts: one executor per attempt and per epoch, settled attempts kept, a prompt opens one attempt, the abstract lineage is implemented |
| `continuation_heartbeat` | a launch whose task may be stopped or settled by others, a reconciler, one storage failure in either half of a beat: a run is cancelled only when one of its leases is lost or when it was told that a committed renewal failed (`CancelOnlyWhenLostOrMasked`); under fairness, a run that lost its task lease or its continuation lease stops (`LostRunStops`) and a lineage whose owner is gone is reconciled (`LostOwnerReconciled`) |
| `continuation_tool_batch` (violation) | two tools per response: the second boundary overwrites the first |
| `budget_crash` | two children, one slot, two crashes: the operation and its children never make more calls than allowed, the journal bills every receipt once and before the ledger releases it, a written receipt is final, a lease the controller grants always fits the ledger, and, under fairness, a stop of the children ends |
| `budget_stop_race` (violation) | with one slot, a queued child started during a stop is settled with a zero receipt |
| `queue_crash` | two prompts, a stale client, two exits and one failed write anywhere: a prompt becomes at most one turn (`RunsOnce`), the fence in memory and in the file names the head (`FenceIsHead`), the running head and its text stay (`RunningHead`), an acknowledged prompt is durable until its turn started (`AckedDurable`), a revision names one visible queue (`RevisionIdentifies`), and steer inputs a turn leaves over are requeued first and in order (`SteerOrder`) |
| `queue_drain` | one input, three pauses, starts and interrupts, with resumes: a start sent before an interrupt never undoes its pause (`StaleStartRefused`), no accepted steer input is lost (`SteerKept`) and, under fairness, a queue that stays started empties if turns end and nothing holds the thread (`QueueDrains`) |
| `subagent_relay` | a worker, a process that may take its lease over, one failed write or commit and one exit or expiry anywhere: the file always passes its scan and only the disk's damage is quarantined (`LogScans`), frames reach the surface in order and once (`DeliveredInOrder`), registry and surface agree on a completed child (`OutcomesAgree`), a one-shot thread leaves no frame behind (`ClosedDelivered`), nothing is appended after a stop or a settlement (`NothingAfterEnd`), a settled child is settled on the surface (`ChildSettles`) and frames of a running child arrive (`FramesDelivered`) |
| `surface` | two clients, two failed writes, one crash or close: the published log is implemented (`PublishedSpec`), a lane owes its client exactly what it has not seen, or ends with a gap (`NothingMissed`), the state is the committed log up to the incomplete batch (`StateIsLog`), an acknowledged commit is never lost (`AckedSurvives`); under fairness, a kept control commits in the end (`ControlCommits`), and an attached client that reads catches up or is told of a gap (`CaughtUp`) |
| `surface_wedge` (violation) | a batch left incomplete by a caller that does not keep it refuses every later poll |
| `surface_log_conflict` (violation) | a failed append whose record reached the file, followed by another batch, makes a log that does not replay |

Bounds. Two or three launches are enough for a holder, a stale holder and a
contender; leases of one or two ticks and a clock that reaches their end let a
lease be live, expire, be renewed after a stale read, and be reconciled; two
checkpoints per attempt (one in the runs that are not about checkpoints) make one
replace another; `MaxAttempts` lets a stale worker meet the attempt
after its own. In the heartbeat run both leases last two ticks of a clock of
four: a beat may come in time, late, or after the end of either. One launch is enough
there: its properties speak of one launch at a time, `FenceTask` and the reconciler do what
others do to it, and `CancelOnlyWhenLostOrMasked` is proved for any number.
`MaxFaults` is one because a second failure only repeats the first.
For budgets, two children are a running and a queued sibling, one in process and one
detached; with a limit of 7 both get a lease after the parent's tenth and calls are
left over for the parent; two crashes reach a crash during the recovery of a crash.
For the queue, two inputs are a running head and a pending one, two steer inputs, or
one of each; a second exit falls into the recovery of the first; three commands are a
pause, an interrupt and the start that races it. `Unreadable` (the queue cannot be read
at a restart) is allowed in `queue_drain` only, and `SteerKept` speaks of behaviours
without failed writes: in those cases the code gives up inputs without promising
otherwise (see `hazards`).
For the relay, three frames in pages of one are a start, progress and an end over three
pages, and a full file; the worker and one taker-over are all that an epoch comparison
tells apart. For the surface, retries are two and failed writes two, so that a retry
loop can be exhausted; a lane of one event and a suffix of two overflow and are trimmed
by three batches; one of the two clients is refused while the other is attached, and
takes its place later. The fencing run's clock has one tick: a lease ends once in it,
twice in `continuation_resume`, and `NeverRejected` and `LiveLeaseKept` are proved for
every clock.
Deadlock checking stays on for the queue, whose actor always has a poll to take, except
while the process is down, when it can restart. It is off elsewhere: the clock and the
launches of a continuation model are finite and an operation ends with its terminal, so
every behaviour may stop.

Fairness (`FairSpec`): a coordinator call ends; the heartbeat thread keeps beating (both halves of a beat: `BeatTask`, a renewal of the task lease that succeeds or is refused, and `BeginRenew`);
a run whose cancel token is set winds down and commits its outcome (the turn loop
polls the token); time passes; the session is opened again at some point (without
this nothing reconciles a lost owner, and the code promises nothing). Nothing else is
fair: launches may stay idle and uncancelled runs may run for ever.
In `OperationBudget`: the parent's thread goes on once it is in a refresh, a stop or a
commit (it never blocks except in the wait of a stop); the dispatcher thread handles
every stopped launch; an executing child that was asked to stop reaches its settlement
(it polls its cancel token) and then ends its task. Crashes, new calls, starts,
spending and the end of a child nobody stops are not fair.
In `SubagentRelay`: the worker process, the launching thread, the reaper and the actor's
poll go on, and a session whose host exited is opened again (the code's comment on the
settlement says "restarts included"). A run need not end by itself. `Strand` is strongly
fair: the poll comes back to it until the grace is over.
In `RuntimeSurface`: the actor finishes the commit it is in, opens what it began to open
and serves its two timers between commits (strong fairness of `Poll` and
`RetryControl`); clients read their lanes; the thread is opened again. No client has to
attach and no Goal has to run.
In `PromptQueue`: the actor goes on with what it has begun, a spawned generation
records its prompt, and the idle loop's poll fires. No turn has to end, no client has
to send and a process that exits need not come back; `QueueDrains` assumes of them, in
the formula, that turns end and that the queue stays started.

## 5. Findings

The four violation runs are disagreements between the code and what its
documentation or comments say; `findings` in `PROJECT.json` quotes the lines. TLC also
refutes the following, with the settings given; they have no run of their own.

- `UnknownEffectsBlockResume`, with the settings of `MCFencing.cfg`: a run that fails after
  a tool with unknown effects is settled as Failed, which clears the boundary, and stays
  resumable from the checkpoint before the tool. ADR 0007, line 33: "Unknown external
  side effects become `Indeterminate` until a later safe checkpoint contains an observed
  terminal result."
- `SafeCheckpointSuspends`, with `MCFencing.cfg` and `ToolsPerTurn = 0`: a resumed attempt
  lost before its own first checkpoint becomes Indeterminate although its lineage has a
  safe checkpoint and no open tool. ADR 0007, line 34: "A crash with a safe checkpoint
  and no unsafe active boundary reconciles to `Suspended`".
- `BudgetStopIsStopped`, with the settings of `MCBudgetStopRace.cfg`: a refused child
  lease commits a Completed terminal for a budget stop, because the stop it builds did
  not latch the controller (`operation_context.rs:429` says that it did).
- `CancelOnlyWhenLost`, with `MCHeartbeat.cfg`, leases of three ticks and `MaxClock = 2`:
  `renew` commits the record and then writes the task projection; when only the latter fails, the heartbeat
  gets a storage error and keeps the old revision, so that its next beat is a revision
  conflict, no storage error, and cancels a run that holds both leases
  (`subagent_async_worker.rs:286`; the comment at line 322 says "A storage error while the
  lease may still stand is retried at the next beat"). `FailTask` has a second way: a task
  lease whose renewal was written and reported failed is not told apart from one that was
  not, and repeated failures of this kind end the run at the lease's length.
- `Reopens`, with `Lanes = {l1}`, `MaxEpoch = 3`, `MaxFaults = 1` and the rest of
  `MCSurface.cfg`: a crash between the two writes of an owner takeover, a failed checkpoint,
  or an append that failed after its record was written leaves a prepared batch that names
  the new epoch while the state has the old one; `recovered_prepared_authorizes_owner_transition` (`runtime_surface/commit.rs:5620`)
  admits only a batch of the state's epoch, and this and every later start fails with
  StaleOwnerEpoch. `2026-07-21-runtime-owned-typed-surface-contract-design.md:313` says: "if
  it is not live but has a durable record, load materializes one actor and applies the
  restart matrix before returning a surface". The other batch recovery refuses, a prepared
  start of a detached child, is refused on purpose (comment at `commit.rs:3524`) and left
  out of `Reopens`, but its effect is the same.
- `PromptKept`, with two exits and no failed write: `accept_dispatch` is saved before the
  generation records the turn, and `recover_dispatch` consumes an Accepted head without
  asking whether it was recorded (`prompt_queue.rs:441`), so the prompt is lost.
- `SteerKept`, with backgrounding: a turn that is moved to the background drops its
  accepted steer input (`runtime_host.rs:22636`; `runtime_turn_loop.rs:505` says "never
  accepted and left over").
- `SteerKept`, with two inputs, `Capacity = 1`, no failures and no backgrounding: a turn
  that fails while the queue is full drops its steer input, because
  `requeue_unapplied_steer_inputs` passes over a refused addition
  (`runtime_host.rs:17088`; its comment says "so the next turn answers it instead of the
  operation dropping it").

With a slot for every child (`Capacity = 2`) `SettledByOwnReceipt` holds.

A crash inside `settle_children_for_stop` is excluded from `budget_crash` by
`CrashInStop = FALSE`. With `TRUE`, TLC finds `NeverOverspent` violated: the zero
receipt of `budget_stop_race` is journaled, the process exits before the terminal, and
the reopened operation grants the released calls again; likewise a queued child that
was stopped is requeued when the session is loaded (`mark_interrupted_if_active` looks
at the launch intent, not at the stop request) and runs on its released reservation.

Seen while modelling the relay and the surface, and visible in the models, without a line
of the repository that says otherwise: a task that fails without a frame lets a one-shot
thread close while its child still shows as running; a quarantined relay keeps a one-shot
thread from closing; the reaper does nothing for a worker whose lease had expired, and its
task stays running until the session is opened again; a worker that dies between its
Completed frame and its settlement leaves a child Completed on the surface and Failed in
the registry; a full relay turns a successful run into a failed one; a record left by a
failed append is committed by the next start although its caller was told it failed. The
comments that a worker's relay begins at sequence two (`child_agent_types.rs:589`,
`subagent_async_worker.rs:123`) describe an earlier design: it begins at one, and the
drain, whose cursor is past the launch's Started, skips that frame.

## 6. Proofs

Of the continuations, for arbitrary `Owners`, `Prompts`, `LeaseDuration` (positive) and
bounds, from the named assumptions `OwnersAssumption`, `PromptsAssumption`,
`DurationAssumption`:

- The record lemmas (the first part of `AgentContinuation_proofs`): every mutation builds a
  record of the right type, and under its operation's preconditions one that validation
  accepts.
- `TypeCorrect`: `Spec => []TypeOK`.
- `StoreCorrect`: the store invariant `StoreInv`. `NeverRejected` is not inductive: that a
  stale call cannot push the update time backwards needs (a) a call whose revision
  is still current read a clock not older than the record (`CallOK`), and (b) an owned
  record was updated before its lease ends, so a reconciler that finds it expired has a
  newer clock (`GoodRecord`, `SweepInv`). The record part says that the record is valid
  and its checkpoint stems from an attempt not later than the current one.
- `RecordsAlwaysAccepted`, `LiveLeasesKept`, `SettledAttemptsKept`,
  `PromptsOpenOneAttempt`: the corresponding properties, from `StoreInv` and the lemma
  `RecordSteps` (a step that changes the record is one of six).

`ContinuationOwners_proofs` relates the record to what the launches hold:

- `LineageImplemented`: `Spec => ImplementsLineage`. Each of the six changes of the record
  is a step of `ContinuationLineage` under `PhaseOf`; a renewal or a boundary stutters.
- `OwnersCorrect`: the invariant `OwnerInv`, shown for nine kinds of step of a launch
  (`OwnerActs` sorts the actions into them). `AttemptExecutedOnce` and `CheckpointsChain`
  are not inductive: (a) a handle is never newer than the record (`HandlesPast`), so that
  an acquire, which takes a new epoch, cannot meet a stale holder of the same one; (b) as
  long as an attempt is Prepared nobody executes it, and once it is owned nobody else
  shares its attempt or epoch (`GrantInv`); (c) a launch that may still write the current
  attempt has the conversation of the stored checkpoint (`ConversationInv`).
- `AttemptsExecuteOnce` and `CheckpointsExtend` follow.
- `CancelsOnlyLostRuns`: `CancelOnlyWhenLostOrMasked`, for any number of storage failures and
  any two lease durations, from `BeatInv`. An owner that was not told of a failure of a
  committed renewal knows the revision of its record (`RevisionKnown`), so a renewal of a
  lease that stands is admitted or fails in storage; a storage failure ends the run only
  when the time since the last success is the lease's length, by when that lease has lapsed
  (`LeaseTimed`, `TaskTimed`); and no beat is in flight after a cancel
  (`NoBeatAfterCancel`), so a lost lease does not come back. The last disjunct cannot be
  dropped (section 5).
- `UnknownEffectsBlock`, for `ToolsPerTurn` 0 or 1: the record keeps the boundary of a tool
  that is admitted and not yet run, or is Indeterminate (`BoundaryKept`), although its
  launch may have lost the lease in between; and no second boundary is written over it
  before a checkpoint (`BoundaryNew`). For two tools the run `continuation_tool_batch`
  refutes it.

Of the operation budget:

- `BillsJournaledFirst` and `ReceiptsAreFinal` (`OperationBudget_proofs`):
  `AccountedIsJournaled` and `ReceiptFinal` for any set of children, limit, capacity
  and number of crashes, crashes inside a stop included, from `LimitAssumption`.
  `LedgerInv` is the inductive invariant: what a refresh still has to bill has a
  receipt (`TodoSettled`), what it is about to acknowledge is journaled
  (`CurrentJournaled`), and a lease is asked only for a child without a reservation
  (`LeaseIsNew`), without which a grant could reopen a settled entry. Steps of the
  dispatcher and the children advance ledger entries only (`QuietStep`); the parent's
  actions are taken one by one.
- `BudgetTypes`, `BillsOnce` and `GrantsFit`: `TypeOK`, `BilledOnce` and `GrantFits`, under
  the same generality and `ChildAssumption` (finitely many children), from `BillingInv`.
  `BilledOnce` needs that a journaled receipt is written and final (`LedgerInv`) and that
  the usage in memory is the journaled one (`UsageTracked`), or a refresh after a crash
  would bill on top of something else. `GrantFits` needs that what the refresh computed for
  the children not yet billed still covers the ledger when the lease is granted, although
  children settle meanwhile (`RefreshCovers`): they can only lower their charge, because a
  receipt is at most its reservation (`WithinSpec`).
- `NeverOverspends`: `NeverOverspent`, if the process does not exit inside
  `settle_children_for_stop` (`CrashInStop = FALSE`; section 5 says what happens
  otherwise), from `SpendInv`. A bound on the calls made so far is not inductive: what has
  to stay within the limit is what may still be made (`Exposure`), a child's whole
  reservation until it has settled and its launch cannot run any more. That a settlement
  lowers it to what the receipt says needs that, as long as the operation is not being
  stopped, a receipt is what the child spent and a task that can be launched again holds
  an open reservation (`Honest`); a stop ends the operation and grants nothing any more
  (`StopIsLast`).
  The sums are over an arbitrary finite set of children. The laws they need (`SumRemove`,
  `SumSplit`, `SumMono`...) are in `Collections_proofs`, proved from the definition of the
  community modules' fold: a law that failed for some subset would fail for one none of
  whose strict parts it fails for (`MinimalSubset`), which is impossible.

Of the relay:

- `RelayEndsWithTask`, `RelayScans`, `RelayDelivers` and `RelayTypes`
  (`SubagentRelay_proofs`): `NothingAfterEnd`, `LogScans`, `DeliveredInOrder` and
  `TypeOK` for any set of processes that may take the lease over, any page and file size
  and any number of faults, exits and expiries, from `RelayNames` and `RelayBounds`.
  Three invariants, each inductive relative to the ones before:
  - `EndInv` (`PublishersFenced`): a worker that can still publish and holds the lease
    works for a task that neither ended nor is to stop. It needs that no worker runs
    before the launch is over (`LaunchFirst`), since a failed launch fails the task
    without a look at the lease, and that the kill of a stop comes after its mark
    (`StopMarked`).
  - `ScanInv`: any two frames are ordered by epoch and an epoch has one writer
    (`LogOrdered`), so that the epoch the open compares with is that of the last frame or
    of a marker (`PriorIsMax`) and whom it admits comes after every frame
    (`AdmittedIsLater`).
  - `DeliveryInv`: a frame in a page is the frame of its sequence in the file
    (`PageInLog`), the surface hears of the child from the launch first (`LaunchHeard`),
    and a launch that reported its own failure never gets a worker (`HostEnded`), whose
    second frame would take the sequence the failure has.

- `ClosesAfterDelivery`: `ClosedDelivered`, from `CloseInv`: a process that holds the lease
  and has not marked the task running yet works for a task that has not ended, unless it is
  to stop (`LeasedFenced`), so that a settled task stays settled.
- `OutcomeIsOne`: `OutcomesAgree`, from `FateInv`, which follows the leases
  (`LeaseHistory`): a process that had one after the worker keeps the worker from ever
  ending the task, so that a frame which says Failed and a task its worker completed
  exclude each other (`TaskHistory`, `Launched`, `FrameHistory`, `SurfaceHistory`).

Of the prompt queue, for any inputs, clients, capacity, faults and exits:

- `PromptRunsOnce`, `FenceNamesHead`, `RunningIsHead` (`PromptQueue_proofs`), from `QueueInv`.
  `RunsOnce` is not inductive: a prompt that has had its turn may be in a queue, in memory
  or in the file, only behind its own fence, where settlement and recovery take it out
  (`Unrun`); what fence, file and loop say of each other is `Actor`; and an input is in one
  place, on its way from a client, pending in a turn, on its way back, or in the queue
  (`Flight`), without which an addition could bring back what has run.
- `PromptQueueTypes`: `TypeOK`.
- `RevisionsIdentify`, `StartsAreFresh` (`PromptQueueLedger_proofs`), from `RevInv`: the
  revisions clients have seen are at most the queue's, and equal only for the same queue.
- `AcknowledgedIsDurable`, if the queue can be read at a restart (`~Unreadable`: a queue
  that cannot be read is taken to be empty, and the next save replaces it), from `AckInv`.
- `SteersAreKept`, if the queue has room for every input and no turn is moved to the
  background, the two ways in which the code does drop one (section 5), from `SteerInv`.
- `SteersInOrder`, from `OrderInv`: the inputs are given back last to first, each one added
  at the end and then moved to the front, so those after the ones still to do are the first
  of the queue in the order they were sent; or one was refused, and then the queue stays
  full until the last of them is tried.

Of the surface, for any clients, sizes of batches, limits of lanes and of the retained
suffix, retry attempts, failed writes and crashes, from `SurfaceBounds` and
`NoneIsNoBatch` (`RuntimeSurface_proofs`):

- `SurfaceHolds` and `SurfaceTypes`: the inductive invariant `SurfaceInv`, with `TypeOK`.
  None of the three properties below is inductive by itself. The parts:
  - `LogInv`, of the file alone, also while the thread is closed: a commit id names one
    prepared batch, only prepared batches are committed, and the committed ones follow each
    other, whatever a failed append left between them. That is what a restart replays, and
    it holds although `Replays` does not (run `surface_log_conflict`).
  - `IncompleteInv`: the incomplete batch is the last of the log and continues the state,
    and the history is the state, or the state with it when a checkpoint that was reported
    failed reached the file. `IndexInv` and `JobInv` say of what the actor is writing that
    it is that batch, one committed before, one the coordinator will refuse, or a new one
    whose id the file has at most at its end (`Fresh`): without the last, the retry of a
    failed append could prepare a batch twice, or a new batch could reuse an id.
  - `SuffixInv`: the retained suffix, or before the hub is bound the recovered
    publications, are the end of the state. `ViewInv` and `LaneInv` count places instead of
    comparing contents: a client has seen the first `Len(view[l])` batches of the history,
    its cursor is the boundary there, and its lane holds the places after it. So a replay,
    which selects by cursor sequence, starts at the right place because boundaries of a
    history increase (`ReplayIs`).
- `AcknowledgedSurvives`, `StateMatchesLog`, `ClientsMissNothing`: `AckedSurvives`,
  `StateIsLog` and `NothingMissed` follow.
- `PublishedLogImplemented`: `Spec => PublishedSpec`. A step of the host changes the file in
  one of three ways (`LogStep`) and the history by nothing or by the incomplete batch
  (`HistoryStep`), which is a `Publish`; a client's step leaves the file alone and leads,
  by `ViewInv` before and after it, from a beginning of the history to a longer one, a
  `Learn`, or to the same.

The laws of `Selected` (what appending, an empty or a full selection, and the first and the
last position selected give) are in `Collections_proofs`, by a smallest counterexample on
the length.

Only model-checked: the liveness properties (out of the prover's reach).

## 7. Not modelled

See `components` in `PROJECT.json`. Of the continuation itself: identifiers and their
parsing, the file layout and codec, the conversation payload and its digest, budgets,
worktrees, the parent fence, the workflow heartbeat (which has no task lease and ends at the
first error without cancelling), revision exhaustion at 2^64. The task is only its lease:
who stops or settles it, and why, is in `SubagentRelay`.
Of the operation budget: the turn, cost and wall-time dimensions and deadlines,
foreground leases and the in-memory reservation pool, the replay of an existing
reservation, parking of parents, fair rotation among several parents (one parent's
children are served in order), storage errors other than a failed binding. The ledger's
binding of a child and the registry's (`runtime_subagent_call.rs:500`) are one step,
`BindTask`: a crash between them, which leaves a bound reservation of a task that does not
know it, is not modelled. Nor is the error with which a stop meets a worker whose launch has
not finished (`tasks.rs:5501`). A lease is exactly the share: the request is the operation's
own limit, so `requested.min(share)` (`budget_controller.rs:226`) is the share.
Of the relay: byte sizes, digests and the codec, approvals a child waits for, the
generation-owned (not detached) children, which use no relay, and tasks other than
detached subagents; the outcomes Blocked and Cancelled, which no property tells apart from
Failed; an exit of the host in the middle of a launch (`HostCrash` comes after it). `Strand`
commits in one step: that a surface whose ledger holds an incomplete batch refuses it is the
run `surface_wedge`, and `ChildSettles` of the relay assumes that it does not. It also
leaves out that a Completed outcome is not given to a child whose surface task waits for an
approval, is paused or is stopping (`thread_actor_generation.rs:66`).
Of the surface: what the reducer does with each kind of event, the permits and fences of new
batches (those of recovered ones are `Recoverable`), the size preflight and byte limits (they bound the same queues as the event limits), the
projection retry (its failure exists only in tests), threads without a session file, and
the ACP side channels of an attachment.
Of the prompt queue: blank inputs, images and mention bindings (an expansion that fails
is a refused start), a cancel between the spawn of a turn and the record of its prompt, the
revision at 2^64, sessions without a file, and operations
started by surfaces, which end along a path of their own.
