--------------------------- MODULE OperationBudget ---------------------------
(***************************************************************************)
(* The tool-call budget of one operation and of the background children it *)
(* launches: OperationContext (operation_context.rs), its in-memory        *)
(* BudgetController (budget_controller.rs), the durable reservations of    *)
(* child_budget_ledger.rs, and the part of the execution scope             *)
(* (execution_scope.rs, runtime_subagent_call.rs, subagent_async_worker.rs)*)
(* that decides when a reserved child starts, stops and reports its bill.  *)
(*                                                                         *)
(* The parent is sequential; it runs concurrently with the dispatcher      *)
(* thread and the children, and shares with them the ledger file and the   *)
(* task registry.  One budget dimension is kept: tool calls, whose         *)
(* admission test is `usage >= max`.                                       *)
(***************************************************************************)
EXTENDS Collections

CONSTANTS
    Child,          \* children, numbered in submission order
    Detached,       \* the children run by a worker process of their own
    Limit,          \* BudgetSpec.max_tool_calls of the operation
    Capacity,       \* SubagentLimits.max_running
    MaxSiblings,    \* bound on the siblings of one model response
    MaxCrashes,     \* bound on the exits of the parent's process
    CrashInStop     \* whether a crash may fall inside the stop of children

ASSUME ChildAssumption    == IsFiniteSet(Child)
                             /\ Child = 1 .. Cardinality(Child)
ASSUME DetachedAssumption == Detached \subseteq Child
ASSUME LimitAssumption    == Limit \in Nat \ {0}
ASSUME BoundsAssumption   == /\ Capacity \in Nat \ {0}
                             /\ MaxSiblings \in Nat \ {0}
                             /\ MaxCrashes \in Nat
                             /\ CrashInStop \in BOOLEAN

VARIABLES
    journal,    \* durable: cumulative usage, accounting ids, terminal
    ledger,     \* durable: one reservation per child
    task,       \* durable: the child's task record
    pc,         \* where the parent is
    job,        \* what the parent is doing
    snap,       \* what the parent has read of the ledger or the registry
    ctl,        \* the parent's BudgetController: usage and latched stop
    external,   \* its external_reserved
    reserved,   \* the reservations a refresh is adding up
    launch,     \* the child's launch closure, thread or process
    spent,      \* tool calls the child has really made
    own,        \* tool calls the parent has really made
    crashes

controlVars == <<ctl, external, reserved>>
parentVars == <<pc, job, snap, controlVars>>
childVars  == <<launch, spent>>
vars == <<journal, ledger, task, parentVars, childVars, own, crashes>>

-----------------------------------------------------------------------------
NoEntry  == [state |-> "absent", spec |-> 0, receipt |-> 0,
             accounted |-> FALSE, bound |-> FALSE]
NoTask   == [status |-> "none", started |-> FALSE]
NoSnap   == [todo |-> {}, current |-> {}, victims |-> {}, fresh |-> {}]
Idle     == [kind |-> "none", child |-> 0]

Active   == {"queued", "running", "stopping"}

Entries    == {c \in Child : ledger[c].state # "absent"}
Unaccounted == {c \in Entries : ~ledger[c].accounted}

Reserved(S) == SumOver([c \in Child |-> ledger[c].spec], S)

(* What the ledger charges the parent for children it has not billed yet.  *)
Charge == [c \in Child |-> IF ledger[c].state = "settled"
                           THEN ledger[c].receipt ELSE ledger[c].spec]
Charged == SumOver(Charge, Unaccounted)

Minus(a, b) == IF a > b THEN a - b ELSE 0      \* saturating_sub

(* settle: an identical retry is harmless, a different bill is an error.   *)
Settles(c, n)  == ledger[c].state = "open"
                  \/ (ledger[c].state = "settled" /\ ledger[c].receipt = n)
(* Faulty variant: the last receipt wins.                                  *)
ReceiptLatest(e, n) == IF e.state # "absent"
                       THEN [e EXCEPT !.state = "settled", !.receipt = n]
                       ELSE e
Receipt(e, n)  == IF e.state = "open"
                  THEN [e EXCEPT !.state = "settled", !.receipt = n] ELSE e
Settled(c, n)  == [ledger EXCEPT ![c] = Receipt(@, n)]

(* stop_if_exhausted: a latched stop short-circuits.                       *)
(* Faulty variant: the reservations of the children do not count.          *)
ExhaustedByUsage == ctl.stopped \/ ctl.usage >= Limit
Exhausted == ctl.stopped \/ ctl.usage + external >= Limit

-----------------------------------------------------------------------------
Init ==
    /\ journal = [usage |-> 0, ids |-> {}, terminal |-> "none"]
    /\ ledger = [c \in Child |-> NoEntry]
    /\ task = [c \in Child |-> NoTask]
    /\ pc = "idle" /\ job = Idle /\ snap = NoSnap
    /\ ctl = [usage |-> 0, stopped |-> FALSE]
    /\ external = 0 /\ reserved = 0
    /\ launch = [c \in Child |-> "none"]
    /\ spent = [c \in Child |-> 0]
    /\ own = 0
    /\ crashes = 0

(***************************************************************************)
(* What the loop asks for: a tool call, a subagent call, the end of the    *)
(* operation, or its cancellation.  The first three begin with             *)
(* refresh_child_budgets; a cancellation first stops the children.         *)
(***************************************************************************)
Begin(kind, c) ==
    /\ pc = "idle"
    /\ journal.terminal = "none"
    /\ job' = [kind |-> kind, child |-> c]
    /\ pc' = IF kind = "cancel" THEN "snapshot" ELSE "read"
    /\ UNCHANGED <<journal, ledger, task, snap, controlVars, childVars,
                   own, crashes>>

BeginTool     == Begin("tool", 0)
BeginSubagent == \E c \in Child :
                    /\ c \notin Entries
                    /\ \A d \in Child : d < c => d \in Entries
                    /\ Begin("subagent", c)
BeginComplete == Begin("complete", 0)
BeginCancel   == Begin("cancel", 0)

-----------------------------------------------------------------------------
(***************************************************************************)
(* refresh_child_budgets.  The entries are read once under the ledger      *)
(* lock; every receipt is journaled under its own accounting id before the *)
(* ledger is told, and a crash may come between the two.                   *)
(***************************************************************************)
ReadLedger ==
    /\ pc = "read"
    /\ external' = 0
    /\ reserved' = Reserved({c \in Unaccounted : ledger[c].state = "open"})
    /\ snap' = [snap EXCEPT
         !.todo = {c \in Unaccounted : ledger[c].state = "settled"}]
    /\ pc' = "bill"
    /\ UNCHANGED <<journal, ledger, task, job, ctl, childVars, own, crashes>>

(* has_budget_accounting_id.                                               *)
(* Faulty variant: the journal is not asked.                               *)
UnbilledAlways(c) == TRUE
Unbilled(c) == c \notin journal.ids

(* Faulty variant: the ledger is told before the journal.                  *)
BillAfterAcknowledge ==
    /\ pc = "bill"
    /\ \E c \in snap.todo :
         /\ ledger' = [ledger EXCEPT ![c].accounted = TRUE]
         /\ snap' = [snap EXCEPT !.todo = @ \ {c}, !.current = {c}]
    /\ pc' = "ack"
    /\ UNCHANGED <<journal, task, job, controlVars, childVars, own, crashes>>

BillReceipt ==
    /\ pc = "bill"
    /\ \E c \in snap.todo :
         /\ IF Unbilled(c)
            THEN LET total == ctl.usage + ledger[c].receipt IN
                 /\ ctl' = [ctl EXCEPT !.usage = total,
                              !.stopped = @ \/ total + external >= Limit]
                 /\ journal' = [journal EXCEPT !.usage = total,
                                               !.ids = @ \cup {c}]
            ELSE UNCHANGED <<journal, ctl>>
         /\ snap' = [snap EXCEPT !.todo = @ \ {c}, !.current = {c}]
    /\ pc' = "ack"
    /\ UNCHANGED <<ledger, task, job, external, reserved, childVars, own,
                   crashes>>

Acknowledge ==
    /\ pc = "ack"
    /\ ledger' = [c \in Child |-> IF c \in snap.current
                    THEN [ledger[c] EXCEPT !.accounted = TRUE] ELSE ledger[c]]
    /\ snap' = [snap EXCEPT !.current = {}]
    /\ pc' = "bill"
    /\ UNCHANGED <<journal, task, job, controlVars, childVars, own, crashes>>

(* Where the caller of refresh_child_budgets goes on.                      *)
AfterRefresh == CASE job.kind \in {"tool", "subagent"} -> "admit"
                  [] job.kind = "lease"                -> "lease"
                  [] job.kind = "leased"               -> "submit"
                  [] job.kind = "returned"             -> "idle"
                  [] OTHER                             -> "commit"

(* set_external_reservations.                                              *)
(* Faulty variant: the reservations read are not installed.                *)
ReservationsForgotten == external
InstalledReservations == reserved

RefreshDone ==
    /\ pc = "bill"
    /\ snap.todo = {}
    /\ external' = InstalledReservations
    /\ pc' = AfterRefresh
    /\ UNCHANGED <<journal, ledger, task, job, snap, ctl, reserved, childVars,
                   own, crashes>>

-----------------------------------------------------------------------------
(***************************************************************************)
(* admit_tool_call, then (for a subagent call) background_child_lease.     *)
(* A refusal is a BudgetStop, which the tool turn commits with             *)
(* commit_budget_stop_with_boundary.                                       *)
(***************************************************************************)
AdmitToolCall ==
    /\ pc = "admit"
    /\ ~Exhausted
    /\ ctl' = [ctl EXCEPT !.usage = @ + 1]
    /\ journal' = [journal EXCEPT !.usage = ctl.usage + 1]
    /\ own' = own + 1
    /\ IF job.kind = "tool"
       THEN pc' = "idle" /\ job' = Idle
       ELSE pc' = "read" /\ job' = [job EXCEPT !.kind = "lease"]
    /\ UNCHANGED <<ledger, task, snap, external, reserved, childVars, crashes>>

RefuseToolCall ==
    /\ pc = "admit"
    /\ Exhausted
    /\ ctl' = [ctl EXCEPT !.stopped = TRUE]
    /\ job' = [job EXCEPT !.kind = "budget"]
    /\ pc' = "snapshot"
    /\ UNCHANGED <<journal, ledger, task, snap, external, reserved, childVars,
                   own, crashes>>

(* A tenth of the limit stays with the parent; siblings share the rest.    *)
(* The request a share is cut down to is the operation's own limit         *)
(* (config.budget, the controller's spec too), never less than the share.  *)
Share(siblings) ==
    Minus(Minus(Minus(Limit, ctl.usage), external), (Limit + 9) \div 10)
        \div siblings

GrantLease ==
    /\ pc = "lease"
    /\ ~Exhausted                                      \* child_leases
    /\ \E n \in 1 .. MaxSiblings, spec \in 1 .. Limit :
         /\ spec = Share(n)
         /\ ctl.usage + Charged + spec <= Limit        \* reserve
         /\ ledger' = [ledger EXCEPT ![job.child] =
              [NoEntry EXCEPT !.state = "open", !.spec = spec]]
    /\ job' = [job EXCEPT !.kind = "leased"]
    /\ pc' = "read"
    /\ UNCHANGED <<journal, task, snap, controlVars, childVars, own, crashes>>

(* The refusal of a lease returns a BudgetStop and leaves the controller   *)
(* as it is.                                                               *)
RefuseLease ==
    /\ pc = "lease"
    /\ \E n \in 1 .. MaxSiblings : Share(n) = 0
    /\ job' = [job EXCEPT !.kind = "budget"]
    /\ pc' = "snapshot"
    /\ UNCHANGED <<journal, ledger, task, snap, controlVars, childVars,
                   own, crashes>>

-----------------------------------------------------------------------------
(***************************************************************************)
(* The execution scope: a task holds a lease while it runs, stops, or is   *)
(* indeterminate; the oldest queued tasks take the free ones.              *)
(***************************************************************************)
Running == {c \in Child :
              task[c].status \in {"running", "stopping", "indeterminate"}}
Free == Minus(Capacity, Cardinality(Running))
Admissible(c) == Cardinality({d \in Child :
                    d < c /\ task[d].status = "queued"}) < Free
Admitted == [status |-> "running", started |-> TRUE]
EndedTask == [status |-> "ended", started |-> TRUE]

(* submit_subagent_with_intent: record the task and decide its lease.      *)
Submit ==
    /\ pc = "submit"
    /\ task' = [task EXCEPT ![job.child] =
                  IF Admissible(job.child) THEN Admitted
                  ELSE [status |-> "queued", started |-> FALSE]]
    /\ pc' = "bind"
    /\ UNCHANGED <<journal, ledger, job, snap, controlVars, childVars, own,
                   crashes>>

(* The call fails before a task exists: a refused or an invalid request.   *)
SubmitRefused ==
    /\ pc = "submit"
    /\ pc' = "refund"
    /\ UNCHANGED <<journal, ledger, task, job, snap, controlVars,
                   childVars, own, crashes>>

(* bind_task, then the launch closure goes to the dispatcher.              *)
BindTask ==
    /\ pc = "bind"
    /\ ledger' = [ledger EXCEPT ![job.child].bound = TRUE]
    /\ launch' = [launch EXCEPT ![job.child] = "pending"]
    /\ pc' = "refund"
    /\ UNCHANGED <<journal, task, job, snap, controlVars, spent, own, crashes>>

BindFails ==
    /\ pc = "bind"
    /\ task' = [task EXCEPT ![job.child] = EndedTask]
    /\ pc' = "refund"
    /\ UNCHANGED <<journal, ledger, job, snap, controlVars, childVars, own,
                   crashes>>

(* settle_child_lease: refund_unsubmitted, then another refresh.           *)
ReturnLease ==
    /\ pc = "refund"
    /\ ledger' = IF ledger[job.child].bound THEN ledger
                                            ELSE Settled(job.child, 0)
    /\ job' = [job EXCEPT !.kind = "returned"]
    /\ pc' = "read"
    /\ UNCHANGED <<journal, task, snap, controlVars, childVars, own, crashes>>

-----------------------------------------------------------------------------
(***************************************************************************)
(* settle_children_for_stop: one snapshot of the registry, then for each   *)
(* child in it request_stop_tree and, if the snapshot had it unstarted, a  *)
(* receipt of zero; then wait until none is active, and refresh.           *)
(***************************************************************************)
StopSnapshot ==
    /\ pc = "snapshot"
    /\ LET live == {c \in Child : task[c].status \in Active} IN
         snap' = [snap EXCEPT !.todo = live,
                              !.victims = live,
                              !.fresh = {c \in live : ~task[c].started}]
    /\ pc' = "stop"
    /\ UNCHANGED <<journal, ledger, task, job, controlVars, childVars, own,
                   crashes>>

(* request_stop: an in-process child is asked to stop; the worker process  *)
(* of a detached one is killed.                                            *)
StopRequested(c) ==
    IF task[c].status \notin Active THEN UNCHANGED <<task, launch>>
    ELSE IF c \in Detached /\ launch[c] \in {"executing", "settled"}
    THEN /\ task' = [task EXCEPT ![c] = EndedTask]
         /\ launch' = [launch EXCEPT ![c] = "gone"]
    ELSE /\ task' = [task EXCEPT ![c] =
                       [status |-> "stopping", started |-> TRUE]]
         /\ UNCHANGED launch

ZeroReceipt(c) == c \in snap.fresh /\ ledger[c].bound

StopChild ==
    /\ pc = "stop"
    /\ \E c \in snap.todo :
         /\ StopRequested(c)
         /\ ZeroReceipt(c) => Settles(c, 0)
         /\ ledger' = IF ZeroReceipt(c) THEN Settled(c, 0) ELSE ledger
         /\ snap' = [snap EXCEPT !.todo = @ \ {c}]
    /\ UNCHANGED <<journal, pc, job, controlVars, spent, own, crashes>>

(* The zero receipt conflicts with a bill the child has settled since the  *)
(* snapshot: the error ends the operation without a terminal.              *)
StopFails ==
    /\ pc = "stop"
    /\ \E c \in snap.todo :
         /\ StopRequested(c)
         /\ ZeroReceipt(c) /\ ~Settles(c, 0)
    /\ pc' = "failed"
    /\ UNCHANGED <<journal, ledger, job, snap, controlVars, spent, own,
                   crashes>>

StopAllRequested ==
    /\ pc = "stop"
    /\ snap.todo = {}
    /\ pc' = "wait"
    /\ UNCHANGED <<journal, ledger, task, job, snap, controlVars,
                   childVars, own, crashes>>

StopWaited ==
    /\ pc = "wait"
    /\ \A c \in snap.victims : task[c].status \notin Active
    /\ snap' = NoSnap
    /\ pc' = "read"
    /\ UNCHANGED <<journal, ledger, task, job, controlVars, childVars, own,
                   crashes>>

(* commit_terminal and commit_budget_stop.  The budget stop publishes      *)
(* controller.terminal(), which is Completed unless a stop was latched.    *)
CommitTerminal ==
    /\ pc = "commit"
    /\ journal' = [journal EXCEPT !.terminal =
         CASE job.kind = "complete" -> "completed"
           [] job.kind = "cancel"   -> "cancelled"
           [] OTHER -> IF ctl.stopped THEN "stopped" ELSE "completed"]
    /\ pc' = "idle"
    /\ UNCHANGED <<ledger, task, job, snap, controlVars, childVars, own,
                   crashes>>

-----------------------------------------------------------------------------
(***************************************************************************)
(* The dispatcher thread and the children.  The dispatcher and the         *)
(* in-process children live in the parent's process.                       *)
(***************************************************************************)
ProcessUp == pc # "down"

AcquireQueued(c) ==
    /\ ProcessUp
    /\ launch[c] = "pending"
    /\ task[c].status = "queued"
    /\ Admissible(c)
    /\ task' = [task EXCEPT ![c] = Admitted]
    /\ UNCHANGED <<journal, ledger, parentVars, childVars, own, crashes>>

(* A launch whose task was stopped is dropped: the task is settled first,  *)
(* its unstarted PendingChildBudget returns the reservation afterwards.    *)
(* Faulty variant: the task record is left as it is.                       *)
TaskLeftActive(c) == task
CancelledBeforeDispatch(c) == [task EXCEPT ![c] = EndedTask]

DropLaunch(c) ==
    /\ ProcessUp
    /\ launch[c] = "pending"
    /\ task[c].status \in {"stopping", "ended"}
    /\ task' = CancelledBeforeDispatch(c)
    /\ launch' = [launch EXCEPT ![c] = "dropped"]
    /\ UNCHANGED <<journal, ledger, parentVars, spent, own, crashes>>

UnstartedDropped(c) == launch[c] = "dropped"

RefundDropped(c) ==
    /\ ProcessUp
    /\ UnstartedDropped(c)
    /\ ledger' = Settled(c, 0)
    /\ launch' = [launch EXCEPT ![c] = "gone"]
    /\ UNCHANGED <<journal, task, parentVars, spent, own, crashes>>

StartChild(c) ==
    /\ ProcessUp
    /\ launch[c] = "pending"
    /\ task[c].status = "running"
    /\ launch' = [launch EXCEPT ![c] = "executing"]
    /\ UNCHANGED <<journal, ledger, task, parentVars, spent, own, crashes>>

(* A detached launch that fails before its worker started is billed zero.  *)
LaunchFails(c) ==
    /\ ProcessUp
    /\ c \in Detached
    /\ launch[c] = "pending"
    /\ task[c].status = "running"
    /\ ledger' = Settled(c, 0)
    /\ task' = [task EXCEPT ![c] = EndedTask]
    /\ launch' = [launch EXCEPT ![c] = "gone"]
    /\ UNCHANGED <<journal, parentVars, spent, own, crashes>>

(* A worker launched for a task that was stopped meanwhile is fenced by    *)
(* mark_running_with_lease; no receipt is written.                         *)
WorkerFenced(c) ==
    /\ ProcessUp
    /\ c \in Detached
    /\ launch[c] = "pending"
    /\ task[c].status = "stopping"
    /\ task' = [task EXCEPT ![c] = EndedTask]
    /\ launch' = [launch EXCEPT ![c] = "gone"]
    /\ UNCHANGED <<journal, ledger, parentVars, spent, own, crashes>>

(* The child's own controller admits calls up to the reserved spec.        *)
ChildSpends(c) ==
    /\ launch[c] = "executing"
    /\ spent[c] < ledger[c].spec
    /\ spent' = [spent EXCEPT ![c] = @ + 1]
    /\ UNCHANGED <<journal, ledger, task, parentVars, launch, own, crashes>>

(* settle_registry_task: the receipt is durable before the task ends.  A   *)
(* conflicting receipt fails the child and leaves the ledger as it is.     *)
ChildSettles(c) ==
    /\ launch[c] = "executing"
    /\ ledger' = Settled(c, spent[c])
    /\ launch' = [launch EXCEPT ![c] = "settled"]
    /\ UNCHANGED <<journal, task, parentVars, spent, own, crashes>>

ChildEnds(c) ==
    /\ launch[c] = "settled"
    /\ task' = [task EXCEPT ![c] = EndedTask]
    /\ launch' = [launch EXCEPT ![c] = "gone"]
    /\ UNCHANGED <<journal, ledger, parentVars, spent, own, crashes>>

(* No receipt: a panic of the launch thread leaves the task indeterminate, *)
(* a failed setup, a caught panic or a dead worker ends it.                *)
ChildLost(c) ==
    /\ launch[c] = "executing"
    /\ \E s \in {"ended", "indeterminate"} :
         /\ s = "indeterminate" => c \notin Detached
         /\ task' = [task EXCEPT ![c] = [status |-> s, started |-> TRUE]]
    /\ launch' = [launch EXCEPT ![c] = "gone"]
    /\ UNCHANGED <<journal, ledger, parentVars, spent, own, crashes>>

-----------------------------------------------------------------------------
(* The parent's process exits; its threads and queued closures go with it. *)
Crash ==
    /\ ProcessUp
    /\ crashes < MaxCrashes
    /\ journal.terminal = "none"
    /\ pc # "failed"
    /\ job.kind \in {"cancel", "budget"} => CrashInStop
    /\ crashes' = crashes + 1
    /\ pc' = "down"
    /\ job' = Idle
    /\ snap' = NoSnap
    /\ ctl' = [usage |-> 0, stopped |-> FALSE]
    /\ external' = 0 /\ reserved' = 0
    /\ launch' = [c \in Child |->
         IF launch[c] \notin {"executing", "settled"} THEN "gone"
         ELSE IF c \in Detached THEN launch[c] ELSE "lost"]
    /\ UNCHANGED <<journal, ledger, task, spent, own>>

(* open_at and from_durable_usage; mark_interrupted_if_active on the tasks *)
(* of the dead process; recover_queued_subagent_launches.                  *)
Interrupted(c) ==
    /\ task[c].status \in Active
    /\ launch[c] \notin {"executing", "settled"}
Requeued(c) == Interrupted(c) /\ c \notin Detached /\ launch[c] # "lost"

Reopen ==
    /\ pc = "down"
    /\ ctl' = [usage |-> journal.usage, stopped |-> FALSE]
    /\ task' = [c \in Child |->
         IF Requeued(c) THEN [status |-> "queued", started |-> FALSE]
         ELSE IF Interrupted(c)
         THEN [status |-> IF c \in Detached THEN "ended"
                          ELSE "indeterminate",
               started |-> TRUE]
         ELSE task[c]]
    /\ launch' = [c \in Child |-> IF Requeued(c) THEN "pending"
                                                 ELSE launch[c]]
    /\ pc' = "idle"
    /\ UNCHANGED <<journal, ledger, job, snap, external, reserved, spent, own,
                   crashes>>

-----------------------------------------------------------------------------
Refresh == ReadLedger \/ BillReceipt \/ Acknowledge \/ RefreshDone
Stop    == StopSnapshot \/ StopChild \/ StopAllRequested \/ StopWaited
Dispatch(c) == DropLaunch(c) \/ RefundDropped(c)
Parent ==
    \/ BeginTool \/ BeginSubagent \/ BeginComplete \/ BeginCancel
    \/ Refresh
    \/ AdmitToolCall \/ RefuseToolCall \/ GrantLease \/ RefuseLease
    \/ Submit \/ SubmitRefused \/ BindTask \/ BindFails \/ ReturnLease
    \/ Stop \/ CommitTerminal
ChildStep(c) ==
    \/ AcquireQueued(c) \/ Dispatch(c) \/ StartChild(c) \/ LaunchFails(c)
    \/ WorkerFenced(c)
    \/ ChildSpends(c) \/ ChildSettles(c) \/ ChildEnds(c) \/ ChildLost(c)

Next == Parent \/ StopFails \/ (\E c \in Child : ChildStep(c))
        \/ Crash \/ Reopen

Spec == Init /\ [][Next]_vars

(* The parent's thread and the dispatcher run on; a child that is asked to *)
(* stop observes its cancel token and settles.                             *)
FairSpec ==
    /\ Spec
    /\ WF_vars(Refresh) /\ WF_vars(Stop) /\ WF_vars(CommitTerminal)
    /\ \A c \in Child :
         /\ WF_vars(Dispatch(c))
         /\ WF_vars(task[c].status = "stopping" /\ ChildSettles(c))
         /\ WF_vars(ChildEnds(c))

-----------------------------------------------------------------------------
Kinds == {"none", "tool", "subagent", "lease", "leased", "returned",
          "complete", "cancel", "budget"}
Points == {"idle", "read", "bill", "ack", "admit", "lease", "submit", "bind",
           "refund", "snapshot", "stop", "wait", "commit", "failed", "down"}

(* The variables keep their types.                                         *)
TypeOK ==
    /\ journal \in [usage : Nat, ids : SUBSET Child,
                    terminal : {"none", "completed", "cancelled", "stopped"}]
    /\ ledger \in [Child -> [state : {"absent", "open", "settled"},
                             spec : Nat, receipt : Nat,
                             accounted : BOOLEAN, bound : BOOLEAN]]
    /\ task \in [Child -> [status : {"none", "queued", "running", "stopping",
                                     "ended", "indeterminate"},
                           started : BOOLEAN]]
    /\ pc \in Points
    /\ job \in [kind : Kinds, child : Child \cup {0}]
    /\ snap \in [todo : SUBSET Child, current : SUBSET Child,
                 victims : SUBSET Child, fresh : SUBSET Child]
    /\ ctl \in [usage : Nat, stopped : BOOLEAN]
    /\ external \in Nat /\ reserved \in Nat
    /\ launch \in [Child -> {"none", "pending", "dropped", "executing",
                             "settled", "lost", "gone"}]
    /\ spent \in [Child -> Nat]
    /\ own \in Nat
    /\ crashes \in Nat

(***************************************************************************)
(* The parent and all of its children together never make more tool calls  *)
(* than the operation allows, across crashes and retries: reservations,    *)
(* receipts and admissions never count the same capacity twice             *)
(* (budget_controller.rs: concurrent children never double-spend).         *)
(***************************************************************************)
NeverOverspent == own + SumOver(spent, Child) <= Limit

(***************************************************************************)
(* The journal's cumulative usage is the parent's own calls plus each      *)
(* journaled receipt exactly once: a crash between the journal and the     *)
(* acknowledgement of the ledger neither bills a child twice nor drops its *)
(* bill (refresh_child_budgets).                                           *)
(***************************************************************************)
Bill == [c \in Child |-> ledger[c].receipt]
BilledOnce == journal.usage = own + SumOver(Bill, journal.ids)

(***************************************************************************)
(* A reservation leaves the ledger's charge only after its receipt is in   *)
(* the journal, and only a reservation with a receipt is billed: nothing   *)
(* is released unbilled by a crash.                                        *)
(***************************************************************************)
AccountedIsJournaled ==
    \A c \in Child :
       /\ ledger[c].accounted => c \in journal.ids
       /\ c \in journal.ids => ledger[c].state = "settled"

(***************************************************************************)
(* A receipt is final: no retry, late report, zero receipt of a stop or    *)
(* later reservation replaces the bill of a settled child (settle: an      *)
(* identical retry succeeds, a conflicting one is an error).               *)
(***************************************************************************)
ReceiptFinal ==
    [][\A c \in Child : ledger[c].state = "settled" =>
          /\ ledger'[c].state = "settled"
          /\ ledger'[c].receipt = ledger[c].receipt]_vars

(***************************************************************************)
(* A lease the controller grants is one the ledger accepts: at the moment  *)
(* of the grant the durable charge leaves room for every share on offer,   *)
(* so reserve never fails with `exceeds unreserved parent capacity`.       *)
(***************************************************************************)
GrantFits ==
    pc = "lease" => \A n \in 1 .. MaxSiblings :
        Share(n) > 0 => ctl.usage + Charged + Share(n) <= Limit

(***************************************************************************)
(* A child that has executed is settled only by the bill it reports itself *)
(* (child_budget_ledger.rs: once started, only an explicit receipt can     *)
(* settle it).                                                             *)
(***************************************************************************)
SettledByOwnReceipt ==
    \A c \in Child :
       ledger[c].state = "settled" => ledger[c].receipt = spent[c]

(***************************************************************************)
(* The operation that ends because of a budget refusal is recorded as      *)
(* stopped (commit_budget_stop: the caller holds the BudgetStop that       *)
(* latched the controller).                                                *)
(***************************************************************************)
BudgetStopIsStopped ==
    (journal.terminal # "none" /\ job.kind = "budget")
        => journal.terminal = "stopped"

(***************************************************************************)
(* settle_children_for_stop does not wait for ever: every child it asked   *)
(* to stop ends, whatever it was doing, or the process goes down.          *)
(***************************************************************************)
StopEnds == (pc = "wait") ~> (pc # "wait")

-----------------------------------------------------------------------------
(***************************************************************************)
(* The inductive invariant behind AccountedIsJournaled and ReceiptFinal:   *)
(* a refresh only holds receipts that are written, has journaled what it   *)
(* is about to acknowledge, and a lease is only asked for a child that has *)
(* no reservation yet.                                                     *)
(***************************************************************************)
LedgerShape ==
    /\ ledger \in [Child -> [state : {"absent", "open", "settled"},
                             spec : Nat, receipt : Nat,
                             accounted : BOOLEAN, bound : BOOLEAN]]
    /\ journal \in [usage : Nat, ids : SUBSET Child,
                    terminal : {"none", "completed", "cancelled", "stopped"}]
    /\ job \in [kind : Kinds, child : Child \cup {0}]
    /\ snap \in [todo : SUBSET Child, current : SUBSET Child,
                 victims : SUBSET Child, fresh : SUBSET Child]
    /\ ctl \in [usage : Nat, stopped : BOOLEAN]
    /\ spent \in [Child -> Nat]
TodoSettled ==
    pc \in {"bill", "ack"} =>
        \A c \in snap.todo : ledger[c].state = "settled"
CurrentJournaled == pc = "ack" => snap.current \subseteq journal.ids
LeaseIsNew ==
    /\ pc = "admit" => job.kind \in {"tool", "subagent"}
    /\ pc = "lease" => job.kind = "lease"
    /\ job.kind \in {"subagent", "lease"} =>
         job.child \in Child /\ ledger[job.child].state = "absent"

LedgerInv ==
    LedgerShape /\ AccountedIsJournaled /\ TodoSettled /\ CurrentJournaled
    /\ LeaseIsNew

(***************************************************************************)
(* The inductive invariant behind BilledOnce and GrantFits: the controller *)
(* agrees with the journal, no bill exceeds its reservation, and what a    *)
(* refresh has read covers what the ledger charges outside the receipts it *)
(* still has to bill.                                                      *)
(***************************************************************************)
UsageTracked == pc # "down" => ctl.usage = journal.usage
WithinSpec ==
    \A c \in Child :
       /\ ledger[c].receipt <= ledger[c].spec
       /\ spent[c] <= ledger[c].spec
       /\ ledger[c].state = "absent" => ledger[c].spec = 0
RefreshCovers ==
    /\ pc # "ack" => snap.current = {}
    /\ pc \in {"bill", "ack"} =>
         SumOver(Charge, Unaccounted \ (snap.todo \cup snap.current)) <= reserved
    /\ pc \in {"admit", "lease"} => Charged <= external

BillingInv == TypeOK /\ LedgerInv /\ UsageTracked /\ BilledOnce /\ WithinSpec
              /\ RefreshCovers

(***************************************************************************)
(* The inductive invariant behind NeverOverspent.  What a child may still  *)
(* spend is its whole reservation until it has settled and its launch can  *)
(* no longer run (Exposure).  Until the operation stops its children, a    *)
(* settled child has been billed what it spent and runs no more, and a     *)
(* task that may be launched again has an open reservation (Honest).       *)
(***************************************************************************)
Stopping == job.kind \in {"cancel", "budget"} \/ journal.terminal # "none"
Exposure == [c \in Child |->
               IF ledger[c].state = "open"
                  \/ launch[c] \in {"pending", "executing"}
               THEN ledger[c].spec ELSE spent[c]]
ExposureFits == own + SumOver(Exposure, Child) <= Limit
StopIsLast ==
    /\ pc \in {"snapshot", "stop", "wait", "failed"} =>
         job.kind \in {"cancel", "budget"}
    /\ pc = "idle" /\ job.kind \in {"cancel", "budget"} =>
         journal.terminal # "none"
    /\ pc = "down" => job.kind = "none"
    /\ journal.terminal # "none" => pc = "idle"
LeaseHeld ==
    /\ pc \in {"submit", "bind", "refund"} => job.kind = "leased"
    /\ job.kind = "leased" =>
         /\ job.child \in Child
         /\ pc \in {"read", "bill", "ack", "submit", "bind", "refund"}
         /\ pc # "refund" => ~ledger[job.child].bound
         /\ ~ledger[job.child].bound =>
              /\ ledger[job.child].state = "open"
              /\ launch[job.child] \in {"none", "gone"}
              /\ spent[job.child] = 0
              /\ pc # "bind" => task[job.child].status \notin Active
AbsentUnused ==
    \A c \in Child : ledger[c].state = "absent" =>
       launch[c] \in {"none", "gone"} /\ task[c].status = "none"
LostIsOver ==
    pc # "down" => \A c \in Child :
       launch[c] = "lost" => task[c].status \notin Active
HonestAt(c) ==
    /\ ledger[c].state = "settled" =>
         /\ ledger[c].receipt = spent[c]
         /\ launch[c] \notin {"pending", "executing"}
    /\ task[c].status \in Active
         /\ launch[c] \notin {"executing", "settled", "lost"} =>
            ledger[c].state = "open" /\ spent[c] = 0
    /\ launch[c] \in {"pending", "dropped"} => spent[c] = 0
    /\ launch[c] = "dropped" => task[c].status \notin Active
Honest == ~Stopping => \A c \in Child : HonestAt(c)

SpendInv == BillingInv /\ ExposureFits /\ StopIsLast /\ LeaseHeld
            /\ AbsentUnused /\ LostIsOver /\ Honest
=============================================================================
