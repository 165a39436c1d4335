------------------------- MODULE AgentContinuation -------------------------
(***************************************************************************)
(* The coordinator of child-agent continuations, its store, the worker     *)
(* that executes an attempt, the worker's lease heartbeat, and the         *)
(* reconciler that runs when a session is opened again                     *)
(* (agent_continuation.rs, runtime_subagent_call.rs,                       *)
(* subagent_async_worker.rs, runtime_turn_loop.rs, tool_turn.rs of         *)
(* crates/orca-runtime/src).                                               *)
(*                                                                         *)
(* One lineage.  Every launch builds a coordinator with a fresh owner      *)
(* identity, so an element of Owners is one launch: a launcher that        *)
(* prepares an attempt, a worker that executes one, or both in one.  A     *)
(* coordinator call reads the record (early returns) and the clock without *)
(* the session lock and then commits under it, so it is two actions:       *)
(* Begin... and a step of FinishCall that finds the record as it then is.  *)
(***************************************************************************)
EXTENDS ContinuationRecord

CONSTANTS Heartbeating,  \* owners whose worker runs AsyncLeaseHeartbeat (the
                         \* async workers; a sync subagent has none)
          TaskLeaseDuration,  \* TASK_LEASE_DURATION_MS, in clock ticks
          ToolsPerTurn,  \* tool calls in one model response
          MaxClock, MaxAttempts, MaxSeq, MaxFaults  \* model bounds

ASSUME HeartbeatingAssumption == Heartbeating \subseteq Owners
ASSUME TaskDurationAssumption == TaskLeaseDuration \in Nat \ {0}

VARIABLES
    rec,          \* the durable record
    clock,        \* wall clock, read by every process
    mode,         \* mode[o]: what process o does with the lineage
    held,         \* held[o]: its PreparedContinuation, then its lease
    call,         \* call[o]: its coordinator call in flight (one at a time:
                  \* worker and heartbeat share the revision mutex)
    tool,         \* tool[o]: boundary persisted for a tool not yet run
    ran,          \* ran[o]: tools run since the worker's last checkpoint
    unsettled,    \* unsettled[o]: one of them ended without observed result
    final,        \* final[o]: outcome the ended run has to commit
    cancelled,    \* cancelled[o]: the run's cancel token
    beat,         \* beat[o]: continuation_renewed_at of its heartbeat
    taskBeat,     \* taskBeat[o]: its task_renewed_at
    due,          \* due[o]: this beat has renewed the task lease and is to
                  \* renew the continuation's
    task,         \* task[o]: the lease o took on the task of an attempt: the
                  \* attempt, and when it lapses (0: fenced)
    sweep,        \* clock read by a reconciliation in progress, or NoTime
    faults,       \* storage failures so far
    rejected,     \* history: the store refused a record as corrupt
    exposed,      \* history: a tool with unknown effects has run that the
                  \* stored checkpoint does not cover
    masked        \* history: owners told that a lease renewal failed which
                  \* had been committed

heart  == <<beat, taskBeat, due>>
worker == <<tool, ran, unsettled, final, cancelled, heart>>
leases == <<task, masked>>
vars == <<rec, clock, mode, held, call, worker, sweep, faults, rejected,
          exposed, leases>>

Ops == {"none", "resume", "acquire", "abandon",
        "renew", "checkpoint", "boundary", "terminal"}
NoCall == [op |-> "none", at |-> 0, rev |-> 0, prompt |-> NoPrompt,
           retried |-> FALSE]

NoHold == [attempt |-> 0, prompt |-> NoPrompt, epoch |-> 0, rev |-> 0,
           seq |-> 0, prev |-> 0]
NoTask == [of |-> 0, until |-> 0]

(* Faulty variants: the sequence is not advanced; the resumed worker starts
   from an empty conversation.                                             *)
HoldSequenceOff(r) == [attempt |-> r.attempt, prompt |-> r.prompt,
                       epoch |-> r.epoch, rev |-> r.revision,
                       seq |-> r.ckpt.seq, prev |-> r.ckpt.attempt]
HoldWithoutConversation(r) ==
    [attempt |-> r.attempt, prompt |-> r.prompt, epoch |-> r.epoch,
     rev |-> r.revision, seq |-> r.ckpt.seq + 1, prev |-> 0]

(* PreparedContinuation::from, and the sequence build_checkpoint_observer
   derives from it; lease_from_record adds the epoch and the revision.     *)
HoldOf(r) == [attempt |-> r.attempt, prompt |-> r.prompt,
              epoch |-> r.epoch, rev |-> r.revision,
              seq |-> r.ckpt.seq + 1, prev |-> r.ckpt.attempt]

Init ==
    /\ rec = NoRecord
    /\ clock = 0
    /\ mode = [o \in Owners |-> "idle"]
    /\ held = [o \in Owners |-> NoHold]
    /\ call = [o \in Owners |-> NoCall]
    /\ tool = [o \in Owners |-> "None"]
    /\ ran = [o \in Owners |-> 0]
    /\ unsettled = [o \in Owners |-> FALSE]
    /\ final = [o \in Owners |-> "None"]
    /\ cancelled = [o \in Owners |-> FALSE]
    /\ beat = [o \in Owners |-> 0]
    /\ taskBeat = [o \in Owners |-> 0]
    /\ due = [o \in Owners |-> FALSE]
    /\ task = [o \in Owners |-> NoTask]
    /\ sweep = NoTime
    /\ faults = 0
    /\ rejected = FALSE
    /\ exposed = FALSE
    /\ masked = {}

Called(o, op, rev, p, retried) ==
    call' = [call EXCEPT ![o] = [op |-> op, at |-> clock, rev |-> rev,
                                 prompt |-> p, retried |-> retried]]
Returned(o) == call' = [call EXCEPT ![o] = NoCall]
Moved(o, m) == mode' = [mode EXCEPT ![o] = m]
Holds(o, r) == held' = [held EXCEPT ![o] = HoldOf(r)]

(* The launch is over and its process-local state with it.                 *)
Gone(o) ==
    /\ mode' = [mode EXCEPT ![o] = "gone"]
    /\ held' = [held EXCEPT ![o] = NoHold]
    /\ call' = [call EXCEPT ![o] = NoCall]
    /\ tool' = [tool EXCEPT ![o] = "None"]
    /\ ran' = [ran EXCEPT ![o] = 0]
    /\ unsettled' = [unsettled EXCEPT ![o] = FALSE]
    /\ final' = [final EXCEPT ![o] = "None"]
    /\ cancelled' = [cancelled EXCEPT ![o] = FALSE]
    /\ beat' = [beat EXCEPT ![o] = 0]
    /\ taskBeat' = [taskBeat EXCEPT ![o] = 0]
    /\ due' = [due EXCEPT ![o] = FALSE]

(***************************************************************************)
(* Preparing an attempt                                                    *)
(***************************************************************************)
Create(o, p) ==
    /\ mode[o] = "idle"
    /\ rec.status = "Absent"
    /\ rec' = CreatedRecord(p, clock)
    /\ Moved(o, "prepared")
    /\ Holds(o, CreatedRecord(p, clock))
    /\ UNCHANGED <<clock, call, worker, sweep, faults, rejected, exposed,
                   leases>>

(* coordinator.prepared: a worker process loads what its launcher prepared. *)
LoadPrepared(o) ==
    /\ mode[o] = "idle"
    /\ rec.status # "Absent"
    /\ Moved(o, "prepared")
    /\ Holds(o, rec)
    /\ UNCHANGED <<rec, clock, call, worker, sweep, faults,
                   rejected, exposed, leases>>

(* Faulty variant: a prompt whose attempt has settled counts as new.       *)
PromptStillRunning(p) == rec.prompt = p /\ rec.state # "Terminal"
PromptInProgress(p) == rec.prompt = p

(* prepare_resume up to its store call; a repeated prompt returns the
   attempt already prepared for it.                                        *)
BeginResume(o, p) ==
    /\ mode[o] = "idle"
    /\ rec.status # "Absent"
    /\ IF PromptInProgress(p)
       THEN /\ Moved(o, "prepared")
            /\ Holds(o, rec)
            /\ UNCHANGED call
       ELSE /\ ~LiveOwner(rec, clock)
            /\ Resumable(rec)
            /\ rec.attempt < MaxAttempts
            /\ Moved(o, "resuming")
            /\ Called(o, "resume", rec.revision, p, FALSE)
            /\ UNCHANGED held
    /\ UNCHANGED <<rec, clock, worker, sweep, faults, rejected,
                   exposed, leases>>

ResumeAdmitted(o) ==
    /\ rec.revision = call[o].rev
    /\ ~LiveOwner(rec, call[o].at)
    /\ Resumable(rec)

FinishResume(o) ==
    LET c   == call[o]
        new == ResumedAs(rec, rec.attempt + 1, c.prompt, c.at)
        ok  == ResumeAdmitted(o)
    IN /\ c.op = "resume"
       /\ IF ok /\ Accepts(rec, new)
          THEN /\ rec' = Stamped(new)
               /\ Moved(o, "prepared")
               /\ Holds(o, Stamped(new))
               /\ Returned(o)
               /\ UNCHANGED <<worker, rejected>>
          ELSE /\ Gone(o)
               /\ rejected' = (rejected \/ ok)
               /\ UNCHANGED rec
       /\ UNCHANGED <<clock, sweep, faults, exposed, leases>>

(***************************************************************************)
(* Acquiring the lease of a prepared attempt, or settling it unstarted     *)
(***************************************************************************)
PreparedIdentity(o) ==
    rec.attempt = held[o].attempt /\ rec.prompt = held[o].prompt

(* lease_from_record; the worker and its heartbeat start.                  *)
StartWorker(o, r) ==
    /\ Moved(o, "running")
    /\ Returned(o)
    /\ held' = [held EXCEPT ![o].epoch = r.epoch, ![o].rev = r.revision]
    /\ beat' = [beat EXCEPT ![o] = clock]
    /\ taskBeat' = [taskBeat EXCEPT ![o] = clock]
    /\ UNCHANGED <<tool, ran, unsettled, final, cancelled, due>>

(* The launchers call acquire once more when it fails.                     *)
AcquireErr(o) ==
    \/ call[o].retried /\ Gone(o)
    \/ /\ ~call[o].retried
       /\ call' = [call EXCEPT ![o] = [NoCall EXCEPT !.retried = TRUE]]
       /\ UNCHANGED <<mode, held, worker>>

(* acquire_task_lease and mark_running_with_lease: the worker process of an
   async launch takes the lease of the attempt's task once, before it works
   on the lineage.  A lease that has lapsed is taken over, one that another
   launch holds makes the worker exit (Crash).                             *)
AcquireTask(o) ==
    /\ o \in Heartbeating
    /\ mode[o] = "prepared" /\ call[o] = NoCall
    /\ task[o] = NoTask
    /\ \A w \in Owners \ {o} :
          task[w].of = held[o].attempt => task[w].until <= clock
    /\ task' = [task EXCEPT ![o] = [of    |-> held[o].attempt,
                                   until |-> clock + TaskLeaseDuration]]
    /\ UNCHANGED <<rec, clock, mode, held, call, worker, sweep, faults,
                   rejected, exposed, masked>>

(* Faulty variant: the owner is not compared.                              *)
AnyLiveLease(o) == LiveOwner(rec, clock)
ExistingOwnerLease(o) == rec.owner = o /\ LiveOwner(rec, clock)

(* acquire up to its store call: a retry by the same owner returns the lease
   it already has, any other claim on a running attempt is an error.       *)
BeginAcquire(o) ==
    LET mine == ExistingOwnerLease(o)
    IN /\ mode[o] = "prepared" /\ call[o].op = "none"
       /\ o \in Heartbeating => task[o] # NoTask
       /\ \/ /\ PreparedIdentity(o) /\ rec.state # "Running"
             /\ Called(o, "acquire", held[o].rev, NoPrompt, call[o].retried)
             /\ UNCHANGED <<mode, held, worker>>
          \/ /\ PreparedIdentity(o) /\ rec.state = "Running" /\ mine
             /\ StartWorker(o, rec)
          \/ /\ ~PreparedIdentity(o) \/ (rec.state = "Running" /\ ~mine)
             /\ AcquireErr(o)
       /\ UNCHANGED <<rec, clock, sweep, faults, rejected, exposed, leases>>

(* A failed projection write reports an error although the lease is
   committed.                                                              *)
FinishAcquire(o) ==
    LET c   == call[o]
        new == AcquiredBy(rec, o, c.at)
        ok  == /\ rec.revision = c.rev
               /\ PreparedIdentity(o)
               /\ rec.state = "Prepared"
               /\ <<rec.status, "Running">> \in StatusSteps
    IN /\ c.op = "acquire"
       /\ \/ /\ ok /\ Accepts(rec, new)
             /\ rec' = Stamped(new)
             /\ \/ StartWorker(o, Stamped(new)) /\ UNCHANGED faults
                \/ /\ faults < MaxFaults /\ faults' = faults + 1
                   /\ AcquireErr(o)
             /\ UNCHANGED rejected
          \/ /\ ~(ok /\ Accepts(rec, new))
             /\ AcquireErr(o)
             /\ rejected' = (rejected \/ ok)
             /\ UNCHANGED <<rec, faults>>
       /\ UNCHANGED <<clock, sweep, exposed, leases>>

(* commit_prepared_terminal: the launcher could not start the worker.      *)
BeginAbandon(o) ==
    /\ mode[o] = "prepared" /\ call[o] = NoCall
    /\ Called(o, "abandon", held[o].rev, NoPrompt, FALSE)
    /\ UNCHANGED <<rec, clock, mode, held, worker, sweep, faults,
                   rejected, exposed, leases>>

FinishAbandon(o) ==
    LET c   == call[o]
        new == Settled(rec, "Failed", c.at)
        ok  == /\ rec.revision = c.rev
               /\ PreparedIdentity(o)
               /\ rec.state = "Prepared"
               /\ <<rec.status, "Failed">> \in StatusSteps
    IN /\ c.op = "abandon"
       /\ Gone(o)
       /\ IF ok /\ Accepts(rec, new)
          THEN rec' = Stamped(new) /\ UNCHANGED rejected
          ELSE rejected' = (rejected \/ ok) /\ UNCHANGED rec
       /\ UNCHANGED <<clock, sweep, faults, exposed, leases>>

(***************************************************************************)
(* The worker: one model response after another                            *)
(***************************************************************************)
PendingCheckpoint(o) ==
    [attempt |-> held[o].attempt, seq |-> held[o].seq, prev |-> held[o].prev]

(* tool_start_boundary is persisted before the tool is dispatched.  A model
   bound on the checkpoints of a lineage also ends its tool use.           *)
BeginBoundary(o, b) ==
    /\ mode[o] = "running" /\ call[o].op = "none"
    /\ tool[o] = "None"
    /\ ran[o] < ToolsPerTurn
    /\ held[o].seq <= MaxSeq
    /\ tool' = [tool EXCEPT ![o] = b]
    /\ Called(o, "boundary", held[o].rev, NoPrompt, FALSE)
    /\ UNCHANGED <<rec, clock, mode, held, ran, unsettled, final,
                   cancelled, heart, sweep, faults, rejected, exposed, leases>>

(* Faulty variant: the tool does not wait for its boundary to be durable.  *)
ToolRequested(o) == tool[o] # "None"
ToolAdmitted(o) == tool[o] # "None" /\ call[o].op # "boundary"

(* The admitted tool runs; its result is observed, or it ends
   indeterminate (killed, timed out, disconnected).                        *)
RunTool(o, observed) ==
    /\ mode[o] = "running"
    /\ ToolAdmitted(o)
    /\ tool' = [tool EXCEPT ![o] = "None"]
    /\ ran' = [ran EXCEPT ![o] = @ + 1]
    /\ unsettled' = [unsettled EXCEPT ![o] = @ \/ ~observed]
    /\ exposed' = (exposed \/ tool[o] = "Indeterminate")
    /\ UNCHANGED <<rec, clock, mode, held, call, final, cancelled,
                   heart, sweep, faults, rejected, leases>>

(* emit_safe_child_checkpoint: refused while a tool result is missing.     *)
BeginCheckpoint(o) ==
    /\ mode[o] = "running" /\ call[o].op = "none"
    /\ tool[o] = "None" /\ ~unsettled[o]
    /\ held[o].seq <= MaxSeq
    /\ Called(o, "checkpoint", held[o].rev, NoPrompt, FALSE)
    /\ UNCHANGED <<rec, clock, mode, held, worker, sweep, faults,
                   rejected, exposed, leases>>

(* The child loop returns or unwinds, and the heartbeat is joined.  A run
   that ends with every tool result observed has emitted its checkpoint.   *)
EndRun(o, t) ==
    /\ mode[o] = "running" /\ call[o].op = "none"
    /\ \/ t = "Completed" /\ ran[o] = 0 /\ tool[o] = "None"
       \/ /\ t \in {"Failed", "Cancelled"}
          /\ ran[o] = 0 \/ unsettled[o] \/ tool[o] # "None"
       \/ t = "Panicked"
    /\ Moved(o, "stopping")
    /\ final' = [final EXCEPT ![o] = t]
    /\ tool' = [tool EXCEPT ![o] = "None"]
    /\ UNCHANGED <<rec, clock, held, call, ran, unsettled,
                   cancelled, heart, sweep, faults, rejected, exposed, leases>>

(* commit_terminal up to its store call: an attempt already settled accepts
   only a retry of the same outcome; either way the worker is done.        *)
AlreadySettled(o) == rec.attempt = held[o].attempt /\ rec.state = "Terminal"

BeginTerminal(o) ==
    /\ mode[o] = "stopping" /\ call[o].op = "none" /\ ~due[o]
    /\ IF AlreadySettled(o)
       THEN Gone(o)
       ELSE /\ Called(o, "terminal", held[o].rev, NoPrompt, FALSE)
            /\ UNCHANGED <<mode, held, worker>>
    /\ UNCHANGED <<rec, clock, sweep, faults, rejected, exposed, leases>>

(***************************************************************************)
(* AsyncLeaseHeartbeat: a beat renews the task lease, then the             *)
(* continuation lease under the revision mutex; at most one beat per tick, *)
(* none after the one that ended the run.                                  *)
(***************************************************************************)
(* Faulty variant: a lost lease does not end the run.                      *)
StorageFailureEndsRun(storage, since, lease) == storage /\ since >= lease
RenewalFailureEndsRun(storage, since, lease) == ~storage \/ since >= lease

(* validate_task_lease, of the launch that took the lease.                 *)
TaskStands(o) == task[o].until > clock

BeatDue(o) ==
    /\ o \in Heartbeating
    /\ mode[o] = "running" /\ ~cancelled[o]
    /\ ~due[o] /\ call[o].op # "renew"
    /\ clock > taskBeat[o]

TaskRenewed(o) == [task EXCEPT ![o].until = clock + TaskLeaseDuration]

(* renew_task_lease reads the clock under the lock it writes under.        *)
RenewTask(o) ==
    /\ BeatDue(o)
    /\ TaskStands(o)
    /\ task' = TaskRenewed(o)
    /\ taskBeat' = [taskBeat EXCEPT ![o] = clock]
    /\ due' = [due EXCEPT ![o] = TRUE]
    /\ UNCHANGED <<rec, clock, mode, held, call, tool, ran, unsettled, final,
                   cancelled, beat, sweep, faults, rejected, exposed, masked>>

(* What a failed renewal of the task lease does: the run is cancelled, or
   the continuation lease is left alone until the next beat.               *)
TaskBeatFails(o, storage) ==
    /\ LET ends == RenewalFailureEndsRun(storage, clock - taskBeat[o],
                                         TaskLeaseDuration)
       IN cancelled' = [cancelled EXCEPT ![o] = @ \/ ends]
    /\ UNCHANGED <<rec, clock, mode, held, call, tool, ran, unsettled, final,
                   heart, sweep, rejected, exposed>>

RefuseTask(o) ==
    /\ BeatDue(o)
    /\ ~TaskStands(o)
    /\ TaskBeatFails(o, FALSE)
    /\ UNCHANGED <<faults, leases>>

(* A storage error, before the new expiry was written or after it.         *)
FailTask(o) ==
    /\ BeatDue(o)
    /\ faults < MaxFaults /\ faults' = faults + 1
    /\ TaskBeatFails(o, TRUE)
    /\ \/ UNCHANGED leases
       \/ TaskStands(o) /\ task' = TaskRenewed(o) /\ masked' = masked \cup {o}

(* The second half of a beat; a run that has ended meanwhile waits for it
   (AsyncLeaseHeartbeat::stop).                                            *)
BeginRenew(o) ==
    /\ mode[o] \in {"running", "stopping"} /\ call[o].op = "none"
    /\ due[o] /\ ~cancelled[o]
    /\ due' = [due EXCEPT ![o] = FALSE]
    /\ Called(o, "renew", held[o].rev, NoPrompt, FALSE)
    /\ UNCHANGED <<rec, clock, mode, held, tool, ran, unsettled, final,
                   cancelled, beat, taskBeat, sweep, faults, rejected,
                   exposed, leases>>

(* The task is stopped, settled, or gone with its session: its lease epoch is
   fenced, whoever holds it.                                               *)
FenceTask(o) ==
    /\ TaskStands(o)
    /\ task' = [task EXCEPT ![o].until = 0]
    /\ UNCHANGED <<rec, clock, mode, held, call, worker, sweep, faults,
                   rejected, exposed, masked>>

(***************************************************************************)
(* The fenced writes of a lease holder                                     *)
(***************************************************************************)
Writes == {"renew", "checkpoint", "boundary", "terminal"}

(* ContinuationFence::validate; mutate_validated_record compares the
   revision first.                                                         *)
Fence(o) == /\ rec.revision = call[o].rev
            /\ rec.attempt = held[o].attempt
            /\ rec.epoch = held[o].epoch

LiveLease(o, at) == rec.owner = o /\ rec.expires > at

WriteAdmitted(o) ==
    /\ Fence(o)
    /\ LiveLease(o, call[o].at)
    /\ rec.state = "Running"
    /\ call[o].op = "checkpoint" => PendingCheckpoint(o).seq = rec.ckpt.seq + 1
    /\ call[o].op = "terminal"
           => <<rec.status, TerminalStatus(final[o])>> \in StatusSteps

Written(o) ==
    LET at == call[o].at
    IN CASE call[o].op = "renew"      -> Renewed(rec, at)
         [] call[o].op = "checkpoint" -> WithCheckpoint(rec, PendingCheckpoint(o), at)
         [] call[o].op = "boundary"   -> WithBoundary(rec, tool[o], at)
         [] OTHER                     -> Settled(rec, final[o], at)

(* Faulty variant: the shared revision is not advanced.                    *)
RevisionKept(o, r) == held[o].rev
RevisionAfter(o, r) == r.revision

(* What the worker or its heartbeat does with a successful write ...       *)
WriteOk(o, r) ==
    CASE call[o].op = "renew" ->
           /\ Returned(o)
           /\ held' = [held EXCEPT ![o].rev = RevisionAfter(o, r)]
           /\ beat' = [beat EXCEPT ![o] = clock]
           /\ UNCHANGED <<mode, tool, ran, unsettled, final, cancelled,
                          taskBeat, due>>
      [] call[o].op = "checkpoint" ->
           /\ Returned(o)
           /\ held' = [held EXCEPT ![o].rev = RevisionAfter(o, r),
                                   ![o].seq = r.ckpt.seq + 1,
                                   ![o].prev = r.ckpt.attempt]
           /\ ran' = [ran EXCEPT ![o] = 0]
           /\ UNCHANGED <<mode, tool, unsettled, final, cancelled, heart>>
      [] call[o].op = "boundary" ->
           /\ Returned(o)
           /\ held' = [held EXCEPT ![o].rev = RevisionAfter(o, r)]
           /\ UNCHANGED <<mode, worker>>
      [] OTHER -> Gone(o)

(* ... and with a failed one: a failed checkpoint or boundary is an I/O
   error that ends the run as Failed; renewal_failure_ends_run decides
   whether a failed renewal cancels it; a failed terminal is only reported. *)
WriteErr(o, storage) ==
    CASE call[o].op = "renew" ->
           /\ Returned(o)
           /\ LET ends == RenewalFailureEndsRun(storage, clock - beat[o],
                                                LeaseDuration)
              IN cancelled' = [cancelled EXCEPT ![o] = @ \/ ends]
           /\ UNCHANGED <<mode, held, tool, ran, unsettled, final, heart>>
      [] call[o].op \in {"checkpoint", "boundary"} ->
           /\ Returned(o)
           /\ Moved(o, "stopping")
           /\ final' = [final EXCEPT ![o] = "Failed"]
           /\ tool' = [tool EXCEPT ![o] = "None"]
           /\ UNCHANGED <<held, ran, unsettled, cancelled, heart>>
      [] OTHER -> Gone(o)

(* The record is written; the task projection written after it may fail,
   which reports a storage error for a committed mutation.                 *)
CommitWrite(o) ==
    /\ call[o].op \in Writes
    /\ WriteAdmitted(o) /\ Accepts(rec, Written(o))
    /\ rec' = Stamped(Written(o))
    /\ exposed' = (exposed /\ call[o].op # "checkpoint")
    /\ \/ WriteOk(o, Stamped(Written(o))) /\ UNCHANGED <<faults, masked>>
       \/ /\ faults < MaxFaults /\ faults' = faults + 1
          /\ WriteErr(o, TRUE)
          /\ masked' = IF call[o].op = "renew" THEN masked \cup {o} ELSE masked
    /\ UNCHANGED <<clock, sweep, rejected, task>>

RefuseWrite(o) ==
    /\ call[o].op \in Writes
    /\ rec.revision = call[o].rev
    /\ ~(WriteAdmitted(o) /\ Accepts(rec, Written(o)))
    /\ WriteErr(o, FALSE)
    /\ rejected' = (rejected \/ WriteAdmitted(o))
    /\ UNCHANGED <<rec, clock, sweep, faults, exposed, leases>>

(* commit_continuation_write_with_retry: on a revision conflict the worker
   repeats the call once with the revision it then reads; the heartbeat
   does not.                                                               *)
ConflictWrite(o) ==
    /\ call[o].op \in Writes
    /\ rec.revision # call[o].rev
    /\ IF \/ call[o].op = "renew" \/ call[o].retried
          \/ call[o].op = "terminal" /\ AlreadySettled(o)
       THEN WriteErr(o, FALSE)
       ELSE /\ Called(o, call[o].op, rec.revision, NoPrompt, TRUE)
            /\ UNCHANGED <<mode, held, worker>>
    /\ UNCHANGED <<rec, clock, sweep, faults, rejected, exposed, leases>>

FailWrite(o) ==
    /\ call[o].op \in Writes
    /\ faults < MaxFaults /\ faults' = faults + 1
    /\ WriteErr(o, TRUE)
    /\ UNCHANGED <<rec, clock, sweep, rejected, exposed, leases>>

FinishCall(o) ==
    \/ FinishResume(o)  \/ FinishAcquire(o) \/ FinishAbandon(o)
    \/ CommitWrite(o)   \/ RefuseWrite(o)   \/ ConflictWrite(o)

(***************************************************************************)
(* Crashes, time, and the reconciler                                       *)
(***************************************************************************)
Crash(o) ==
    /\ mode[o] # "gone"
    /\ Gone(o)
    /\ UNCHANGED <<rec, clock, sweep, faults, rejected, exposed, leases>>

Tick ==
    /\ clock < MaxClock
    /\ clock' = clock + 1
    /\ UNCHANGED <<rec, mode, held, call, worker, sweep, faults,
                   rejected, exposed, leases>>

(* reconcile_expired_owners_locked reads the clock, then takes the lock.    *)
BeginReconcile ==
    /\ sweep = NoTime
    /\ rec.status # "Absent"
    /\ sweep' = clock
    /\ UNCHANGED <<rec, clock, mode, held, call, worker, faults,
                   rejected, exposed, leases>>

FinishReconcile ==
    LET new     == Reconciled(rec, sweep)
        expired == ExpiredOwner(rec, sweep)
    IN /\ sweep # NoTime
       /\ sweep' = NoTime
       /\ IF expired /\ Accepts(rec, new)
          THEN rec' = Stamped(new) /\ UNCHANGED rejected
          ELSE rejected' = (rejected \/ expired) /\ UNCHANGED rec
       /\ UNCHANGED <<clock, mode, held, call, worker, faults,
                      exposed, leases>>

-----------------------------------------------------------------------------
Prepare(o) ==
    \/ \E p \in Prompts : Create(o, p) \/ BeginResume(o, p)
    \/ LoadPrepared(o) \/ AcquireTask(o) \/ BeginAcquire(o) \/ BeginAbandon(o)

Run(o) ==
    \/ \E b \in Boundary \ {"None"} : BeginBoundary(o, b)
    \/ \E observed \in BOOLEAN : RunTool(o, observed)
    \/ BeginCheckpoint(o)
    \/ \E t \in {"Completed", "Failed", "Cancelled", "Panicked"} : EndRun(o, t)

BeatTask(o) == RenewTask(o) \/ RefuseTask(o)

Next ==
    \/ \E o \in Owners : \/ Prepare(o) \/ Run(o) \/ BeginTerminal(o)
                         \/ BeatTask(o) \/ FailTask(o) \/ BeginRenew(o)
                         \/ FinishCall(o) \/ FailWrite(o)
                         \/ FenceTask(o) \/ Crash(o)
    \/ BeginReconcile \/ FinishReconcile \/ Tick

Spec == Init /\ [][Next]_vars

(* A coordinator call ends; the heartbeat keeps beating; a run whose cancel
   token is set winds down and settles; time passes.                       *)
Fairness ==
    /\ \A o \in Owners : /\ WF_vars(FinishCall(o))
                         /\ WF_vars(BeatTask(o)) /\ WF_vars(BeginRenew(o))
                         /\ WF_vars(cancelled[o] /\ Run(o))
                         /\ WF_vars(BeginTerminal(o))
    /\ WF_vars(Tick)
    /\ WF_vars(BeginReconcile) /\ WF_vars(FinishReconcile)

FairSpec == Spec /\ Fairness

-----------------------------------------------------------------------------
(***************************************************************************)
(* Properties                                                              *)
(***************************************************************************)
Modes == {"idle", "resuming", "prepared", "running", "stopping", "gone"}
Handles == [attempt : Nat, prompt : Prompts \cup {NoPrompt}, epoch : Nat,
            rev : Nat, seq : Nat, prev : Nat]
Calls   == [op : Ops, at : Nat, rev : Nat, prompt : Prompts \cup {NoPrompt},
            retried : BOOLEAN]
Tasks   == [of : Nat, until : Nat]

(* Every variable keeps the shape of the Rust type it stands for: the record
   of AgentContinuationRecord, the handles of PreparedContinuation and
   ContinuationLease, the pending coordinator call, the task lease.        *)
TypeOK ==
    /\ rec \in Records
    /\ clock \in Nat /\ faults \in Nat
    /\ mode \in [Owners -> Modes]
    /\ held \in [Owners -> Handles]
    /\ call \in [Owners -> Calls]
    /\ tool \in [Owners -> Boundary]
    /\ ran \in [Owners -> Nat]
    /\ unsettled \in [Owners -> BOOLEAN]
    /\ final \in [Owners -> Terminal]
    /\ cancelled \in [Owners -> BOOLEAN]
    /\ beat \in [Owners -> Nat]
    /\ taskBeat \in [Owners -> Nat]
    /\ due \in [Owners -> BOOLEAN]
    /\ sweep \in Nat \cup {NoTime}
    /\ rejected \in BOOLEAN /\ exposed \in BOOLEAN
    /\ task \in [Owners -> Tasks]
    /\ masked \subseteq Owners

(* No operation ever builds a record that mutate_validated_record refuses:
   neither validate_record nor the "update time backwards" check can fire,
   although every caller reads the clock before it holds the session lock. *)
NeverRejected == ~rejected

(* A live lease is taken from its owner by nobody else: neither a resume nor
   a reconciliation that read the clock earlier and committed later ends or
   replaces an attempt whose lease has not expired.                        *)
LiveLeaseKept ==
    [][(rec.owner # NoOwner /\ rec.expires > clock /\ rec'.owner # rec.owner)
         => call[rec.owner].op = "terminal"]_vars

(* No update of the conversation is lost: a checkpoint that replaces another
   was built by a worker whose conversation started from or wrote exactly
   the one it replaces, and carries the next sequence number.              *)
CheckpointsChain ==
    [][rec'.ckpt # rec.ckpt => /\ rec'.ckpt.seq = rec.ckpt.seq + 1
                               /\ rec'.ckpt.prev = rec.ckpt.attempt]_vars

(* An attempt is executed by at most one worker, and each lease epoch is
   granted to one worker: a stale worker never shares its fence with the
   worker of a later attempt.                                              *)
AttemptExecutedOnce ==
    \A o1, o2 \in Owners :
        /\ mode[o1] \in {"running", "stopping"}
        /\ mode[o2] \in {"running", "stopping"}
        /\ held[o1].attempt = held[o2].attempt \/ held[o1].epoch = held[o2].epoch
        => o1 = o2

(* A settled attempt stays exactly as it was committed until a resume opens
   a new attempt, and an Indeterminate lineage is never resumed.           *)
SettledAttemptKept ==
    [][(rec.state = "Terminal" /\ rec' # rec)
         => /\ rec.status # "Indeterminate"
            /\ rec'.status = "Resuming"
            /\ rec'.attempt # rec.attempt]_vars

(* A prompt submitted twice, even by two processes at once, opens one
   attempt: no attempt follows one with the same prompt.                   *)
PromptOpensOneAttempt ==
    [][rec'.attempt # rec.attempt => rec'.prompt # rec.prompt]_vars

(* A tool with unknown external effects that no stored checkpoint covers
   blocks resumption.                                                      *)
UnknownEffectsBlockResume == exposed => ~Resumable(rec)

(* The same, for the lineages no worker has settled: what a crash leaves.  *)
UnknownEffectsSurviveCrash ==
    exposed /\ rec.status \in {"Checkpointed", "Suspended"} => ~Resumable(rec)

(* The worker can still write: the lease it holds is the current one.      *)
LeaseStands(o) ==
    /\ rec.attempt = held[o].attempt
    /\ rec.epoch = held[o].epoch
    /\ LiveLease(o, clock)

(* The lineage promises what ContinuationLineage specifies: see there.     *)
PhaseOf(r) ==
    CASE r.status = "Absent"                       -> "none"
      [] r.status \in {"Created", "Resuming"}      -> "ready"
      [] r.status \in {"Running", "Checkpointed"}  -> "owned"
      [] r.status = "Suspended"                    -> "parked"
      [] r.status = "Indeterminate"                -> "lost"
      [] OTHER                                     -> "settled"

Lineage == INSTANCE ContinuationLineage
             WITH phase <- PhaseOf(rec), attempt <- rec.attempt,
                  holder <- rec.owner, epoch <- rec.epoch,
                  saved <- rec.ckpt.seq

(* The compare-and-swap store with its leases, stale clock reads, retries
   and failed writes implements the atomic lineage: one owner per attempt,
   a fresh epoch per grant, checkpoints only from an executing owner, and a
   lost lineage stays lost.                                                *)
ImplementsLineage == Lineage!Spec

(* What renewal_failure_ends_run says of a run its heartbeat ends: one of its
   two leases is lost (the task stopped, settled or taken over; the
   continuation expired or reconciled).                                    *)
CancelOnlyWhenLost ==
    \A o \in Owners : mode[o] = "running" /\ cancelled[o]
                         => ~LeaseStands(o) \/ ~TaskStands(o)

(* What it does: under any storage failures the heartbeat ends only runs that
   have lost a lease, and those that were told that a renewal failed which
   had been committed.                                                     *)
CancelOnlyWhenLostOrMasked ==
    \A o \in Owners : mode[o] = "running" /\ cancelled[o]
                         => ~LeaseStands(o) \/ ~TaskStands(o) \/ o \in masked

(* A crash of an owner whose lineage has a safe checkpoint and no unsafe
   active boundary reconciles to Suspended.                                *)
SafeCheckpointSuspends ==
    [][(/\ rec.state = "Running" /\ rec'.owner = NoOwner /\ sweep' # sweep
        /\ rec.ckpt # NoCheckpoint /\ rec.boundary # "Indeterminate")
         => rec'.status = "Suspended"]_vars

(* A worker with a heartbeat that has lost its task lease or its continuation
   lease stops running, or a renewal already in flight when the latter
   expired revives it; unless no further beat is due before the model's last
   tick.                                                                   *)
LostRunStops ==
    \A o \in Heartbeating :
        (mode[o] = "running" /\ ~(LeaseStands(o) /\ TaskStands(o)))
            ~> \/ mode[o] # "running"
               \/ LeaseStands(o) /\ TaskStands(o)
               \/ taskBeat[o] = MaxClock

(* The lineage whose owner is gone without settling it (a crash, or a
   terminal commit that failed) is reconciled once its lease is over.      *)
LostOwnerReconciled ==
    \A o \in Owners :
        (mode[o] = "gone" /\ rec.owner = o /\ rec.expires <= MaxClock)
            ~> (rec.owner # o)
=============================================================================
