---------------------------- MODULE PromptQueue ----------------------------
(***************************************************************************)
(* The durable prompt queue of a thread (prompt_queue.rs), the thread      *)
(* actor that owns and drains it (runtime_host.rs), the generation that    *)
(* runs a turn and the steer inputs it takes (lifecycle.rs,                *)
(* runtime_turn_loop.rs, runtime_steer.rs), and recovery after an exit.    *)
(*                                                                         *)
(* The actor is sequential: pc says where its loop is.  It runs            *)
(* concurrently with the generation of the active turn and with clients,   *)
(* whose commands take time to arrive.  Every save of the queue is a step  *)
(* of its own, because the process may exit after it; a save that fails    *)
(* may have reached the file all the same.  An input is written by the     *)
(* user once, so it stands for its submission id, and for the id of the    *)
(* operation that runs it; its text is the number of its edits.  Blank     *)
(* inputs (refused by normalized_input) are left out.                      *)
(***************************************************************************)
EXTENDS Integers, FiniteSets, Sequences, SequencesExt

CONSTANTS
    Inputs,         \* what users type: queued prompts and steer inputs
    Clients,        \* clients with a queue command on its way
    NoInput,        \* the prompt of a turn that the queue did not start
    Capacity,       \* PROMPT_QUEUE_CAPACITY
    Backgroundable, \* whether a direct turn's provider may be suspended
    Holding,        \* whether goals and surface interactions may block
    Unreadable,     \* whether the queue may fail to be read at a restart
    MaxCommands,    \* bound on interrupts and commands but additions
    MaxFaults,      \* bound on failed writes and refused starts
    MaxCrashes      \* bound on exits of the process

ASSUME NoInputAssumption  == NoInput \notin Inputs
ASSUME CapacityAssumption == Capacity \in Nat \ {0}
ASSUME BoundAssumption    == /\ Backgroundable \in BOOLEAN
                             /\ Holding \in BOOLEAN
                             /\ Unreadable \in BOOLEAN
                             /\ MaxCommands \in Nat
                             /\ MaxFaults \in Nat
                             /\ MaxCrashes \in Nat

VARIABLES
    q,          \* the actor's PromptQueueState
    disk,       \* the last queue snapshot of the session file
    published,  \* the watch channel prompt_queue_updates
    turns,      \* turns[p]: user turns recorded in the session file for p
    shown,      \* steer inputs that entered the conversation
    active,     \* the active operation and its generation
    pc,         \* where the actor's loop is
    todo,       \* drained steer inputs still to be requeued
    left,       \* history: the steer inputs of the last operation to end
    mail,       \* mail[c]: the command of client c on its way
    held,       \* what keeps the thread from starting work of its own
    ready,      \* prompt_queue_dispatch_ready
    used,       \* inputs already typed
    commands, faults, crashes,
    acked,      \* history: additions acknowledged to their client
    steered,    \* history: steer inputs the thread accepted
    started,    \* history: prompts a turn was started for
    gone,       \* history: inputs a user removed or an exit took
    interrupts  \* history: interrupts whose pause was saved

queueVars   == <<q, disk, published>>
actorVars   == <<pc, todo, held, ready>>
historyVars == <<acked, steered, started, gone, interrupts, left>>
boundVars   == <<used, commands, faults, crashes>>
vars == <<queueVars, turns, shown, active, actorVars, mail, boundVars,
          historyVars>>

-----------------------------------------------------------------------------
Item(p, t) == [id |-> p, text |-> t]
NoFence    == [kind |-> "none", id |-> NoInput]
Empty      == [rev |-> 0, paused |-> FALSE, items |-> <<>>, fence |-> NoFence]
NoOp       == [prompt |-> NoInput, text |-> 0, phase |-> "none",
               outcome |-> "none", cancelled |-> FALSE, resume |-> FALSE,
               steer |-> <<>>]
NoCommand  == [kind |-> "none"]

Ids(s)        == {s.items[i].id : i \in DOMAIN s.items}
HeadIs(s, p)  == s.items # <<>> /\ Head(s.items).id = p
Bump(s)       == [s EXCEPT !.rev = @ + 1]
Busy          == active.phase # "none"

(* prepare_dispatch, accept_dispatch, consume_accepted, rollback_dispatch. *)
Prepared(s)   == [Bump(s) EXCEPT !.fence = [kind |-> "prepared",
                                            id |-> Head(s.items).id]]
Accepted(s)   == [Bump(s) EXCEPT !.fence.kind = "accepted"]
(* Faulty variant: the settled snapshot keeps its revision.                *)
ConsumedInPlace(s) == [s EXCEPT !.items = Tail(@), !.fence = NoFence]
Consumed(s)   == [Bump(s) EXCEPT !.items = Tail(@), !.fence = NoFence]
(* Faulty variant: the fence is left in place.                             *)
RolledBackFenced(s) == Bump(s)
RolledBack(s) == [Bump(s) EXCEPT !.fence = NoFence]

(* recover_dispatch.                                                       *)
(* Faulty variant: a prepared head is always put back.                     *)
RecoveredUnchecked(s) ==
    CASE s.fence.kind = "none"     -> s
      [] s.fence.kind = "prepared" -> RolledBack(s)
      [] OTHER                     -> Consumed(s)
Recovered(s) ==
    IF s.fence.kind = "none" THEN s
    ELSE IF s.fence.kind = "prepared" /\ ~(turns[s.fence.id] > 0) THEN RolledBack(s)
    ELSE IF ~HeadIs(s, s.fence.id) THEN s
    ELSE IF s.fence.kind = "prepared" THEN Consumed(Accepted(s))
    ELSE Consumed(s)

-----------------------------------------------------------------------------
(***************************************************************************)
(* PromptQueueState::apply.  A command carries the snapshot its client had *)
(* seen: every command but an addition expects that snapshot's revision.   *)
(***************************************************************************)
Pausing(s)     == [Bump(s) EXCEPT !.paused = TRUE]
Appended(s, p) == [Bump(s) EXCEPT !.items = Append(@, Item(p, 0))]
ToFront(s)     == [Bump(s) EXCEPT !.items = <<Last(@)>> \o Front(@)]

Current(s, m)  == m.view.rev = s.rev
Mutable(s, m)  == Current(s, m) /\ s.fence.kind # "prepared"
(* Faulty variant: the running head may be edited.                         *)
PendingMutableAny(s, m) == Mutable(s, m) /\ m.input \in Ids(s)
PendingMutable(s, m) ==
    /\ Mutable(s, m)
    /\ s.fence.kind = "accepted" => s.fence.id # m.input
    /\ m.input \in Ids(s)

(* Reorder: the current ids, each once, with a running head still first.   *)
(* Faulty variant: the running head may be moved.                          *)
ReorderableAny(s, m) == Mutable(s, m) /\ ToSet(m.order) = Ids(s)
Reorderable(s, m) ==
    /\ Mutable(s, m)
    /\ ToSet(m.order) = Ids(s) /\ Len(m.order) = Len(s.items)
    /\ s.fence.kind = "accepted" => m.order[1] = s.fence.id

Admits(s, m) ==
    CASE m.kind = "add"                   -> Len(s.items) < Capacity
      [] m.kind \in {"update", "delete"}  -> PendingMutable(s, m)
      [] m.kind = "reorder"               -> Reorderable(s, m)
      [] OTHER                            -> Current(s, m)

(* Where the first item with this id is.                                   *)
Position(s, p) ==
    CHOOSE i \in DOMAIN s.items : /\ s.items[i].id = p
                                  /\ \A j \in 1 .. i - 1 : s.items[j].id # p

Reordered(s, order) ==
    [i \in DOMAIN order |-> CHOOSE x \in ToSet(s.items) : x.id = order[i]]

Applied(s, m) ==
    CASE m.kind = "add"     -> Appended(s, m.input)
      [] m.kind = "update"  -> [Bump(s) EXCEPT !.items =
             [i \in DOMAIN @ |-> IF @[i].id = m.input
                                 THEN Item(m.input, @[i].text + 1) ELSE @[i]]]
      [] m.kind = "delete"  -> [Bump(s) EXCEPT !.items =
                                  RemoveAt(@, Position(s, m.input))]
      [] m.kind = "reorder" -> [Bump(s) EXCEPT
                                  !.items = Reordered(s, m.order)]
      [] m.kind = "pause"   -> Pausing(s)
      [] OTHER              -> [Bump(s) EXCEPT !.paused = FALSE]

(* persist_prompt_queue: a failed write may have reached the file.         *)
Saved(s) ==
    /\ disk' = s
    /\ UNCHANGED faults
SaveFails(s) ==
    /\ faults < MaxFaults
    /\ faults' = faults + 1
    /\ disk' \in {disk, s}
    /\ UNCHANGED published

(* apply_prompt_queue_action: a queue that was not saved is not changed.   *)
(* Faulty variant: the change is kept although it was not saved.           *)
ChangeKept(s) == \/ Saved(s) /\ q' = s /\ published' = s
                 \/ SaveFails(s) /\ q' = s
Change(s) == Saved(s) /\ q' = s /\ published' = s
ChangeFails(s) == SaveFails(s) /\ UNCHANGED q

(* The dispatch steps keep the change, saved or not.                       *)
Settle(s) ==
    /\ q' = s
    /\ \/ Saved(s) /\ published' = s
       \/ SaveFails(s)

(* Back to the top of the loop, which only an idle thread has work at.     *)
Loop(op) == pc' = IF op.phase = "none" THEN "top" ELSE "select"
-----------------------------------------------------------------------------
Init ==
    /\ q = Empty /\ disk = Empty /\ published = Empty
    /\ turns = [p \in Inputs |-> 0]
    /\ shown = {}
    /\ active = NoOp
    /\ pc = "top" /\ todo = <<>> /\ held = "none" /\ ready = FALSE
    /\ mail = [c \in Clients |-> NoCommand]
    /\ used = {} /\ commands = 0 /\ faults = 0 /\ crashes = 0
    /\ acked = {} /\ steered = {} /\ started = {} /\ gone = {}
    /\ interrupts = 0 /\ left = <<>>

(***************************************************************************)
(* A client sends a command, built from the last snapshot published or     *)
(* from a List.  It waits for the reply before it sends another.           *)
(***************************************************************************)
Orders(s) == {o \in [1 .. Len(s.items) -> Ids(s)] : ToSet(o) = Ids(s)}

Commands(v) ==
    LET Command(k, p, o) == [kind |-> k, view |-> v, input |-> p,
                             order |-> o, seen |-> interrupts] IN
    {Command("add", p, <<>>) : p \in Inputs \ used}
      \cup {Command(k, p, <<>>) : k \in {"update", "delete"}, p \in Ids(v)}
      \cup {Command("reorder", NoInput, o) : o \in Orders(v)}
      \cup {Command(k, NoInput, <<>>) : k \in {"pause", "start"}}

Commanded == commands < MaxCommands /\ commands' = commands + 1

Send(c) ==
    /\ pc # "down"
    /\ mail[c] = NoCommand
    /\ \E v \in {published} \cup {x \in {q} : pc = "select"} :
       \E m \in Commands(v) :
         /\ mail' = [mail EXCEPT ![c] = m]
         /\ IF m.kind = "add"
            THEN used' = used \cup {m.input} /\ UNCHANGED commands
            ELSE Commanded /\ UNCHANGED used
    /\ ready' = TRUE
    /\ UNCHANGED <<queueVars, turns, shown, active, pc, todo, held, faults,
                   crashes, historyVars>>

(* List changes nothing, but any use of the handle lets dispatch begin.    *)
List ==
    /\ pc # "down"
    /\ ~ready
    /\ ready' = TRUE
    /\ UNCHANGED <<queueVars, turns, shown, active, pc, todo, held, mail,
                   boundVars, historyVars>>

(* ThreadCommand::PromptQueue, on an idle or a busy thread.                *)
Handle(c) ==
    /\ pc = "select"
    /\ mail[c] # NoCommand
    /\ LET m == mail[c]
           s == Applied(q, m) IN
       \/ /\ ~Admits(q, m)
          /\ UNCHANGED <<queueVars, faults, acked, gone>>
       \/ /\ Admits(q, m)
          /\ Change(s)
          /\ acked' = IF m.kind = "add" THEN acked \cup {m.input} ELSE acked
          /\ gone' = IF m.kind = "delete" THEN gone \cup {m.input} ELSE gone
       \/ /\ Admits(q, m)
          /\ ChangeFails(s)
          /\ gone' = IF m.kind = "delete" THEN gone \cup {m.input} ELSE gone
          /\ UNCHANGED acked
    /\ mail' = [mail EXCEPT ![c] = NoCommand]
    /\ Loop(active)
    /\ UNCHANGED <<turns, shown, active, todo, held, ready, used, commands,
                   crashes, steered, started, interrupts, left>>

-----------------------------------------------------------------------------
(***************************************************************************)
(* try_drain_prompt_queue, at the top of the loop of an idle thread.  The  *)
(* fence that reconcile_prompt_queue_dispatch would settle first is never  *)
(* there: see RunningHead.                                                 *)
(***************************************************************************)
Drains == /\ ~Busy /\ ready /\ held = "none"
          /\ ~q.paused /\ q.fence = NoFence /\ q.items # <<>>

DrainNothing ==
    /\ pc = "top"
    /\ ~Drains
    /\ pc' = "select"
    /\ UNCHANGED <<queueVars, turns, shown, active, todo, held, ready, mail,
                   boundVars, historyVars>>

PrepareDispatch ==
    /\ pc = "top"
    /\ Drains
    /\ \/ Change(Prepared(q)) /\ pc' = "prepared"
       \/ ChangeFails(Prepared(q)) /\ pc' = "select"
    /\ UNCHANGED <<turns, shown, active, todo, held, ready, mail, used,
                   commands, crashes, historyVars>>

(* StartTurn spawns the generation and replies.                            *)
StartTurn ==
    /\ pc = "prepared"
    /\ active' = [NoOp EXCEPT !.prompt = Head(q.items).id,
                              !.text = Head(q.items).text,
                              !.phase = "spawned"]
    /\ started' = started \cup {Head(q.items).id}
    /\ pc' = "started"
    /\ UNCHANGED <<queueVars, turns, shown, todo, held, ready, mail,
                   boundVars, acked, steered, gone, interrupts, left>>

AcceptDispatch ==
    /\ pc = "started"
    /\ Settle(Accepted(q))
    /\ pc' = "select"
    /\ UNCHANGED <<turns, shown, active, todo, held, ready, mail, used,
                   commands, crashes, historyVars>>

(* A mention that does not expand or a start that is refused: the head is  *)
(* put back and the queue paused.  A failed expansion does not publish.    *)
RollBackDispatch ==
    /\ pc = "prepared"
    /\ faults < MaxFaults
    /\ q' = RolledBack(q)
    /\ disk' \in {disk, q'}
    /\ published' \in IF disk' = q' THEN {published, q'} ELSE {published}
    /\ faults' = faults + 1
    /\ pc' = "pausing"
    /\ UNCHANGED <<turns, shown, active, todo, held, ready, mail, used,
                   commands, crashes, historyVars>>

(* pause_prompt_queue_for_boundary: the queue drained, so it is not paused.*)
PauseForBoundary ==
    /\ pc = "pausing"
    /\ Change(Pausing(q)) \/ ChangeFails(Pausing(q))
    /\ pc' = "select"
    /\ UNCHANGED <<turns, shown, active, todo, held, ready, mail, used,
                   commands, crashes, historyVars>>

-----------------------------------------------------------------------------
(***************************************************************************)
(* The generation, on a thread of its own.  Its turn records the prompt    *)
(* (ThreadTurnContext::prepare), drains steer inputs before every model    *)
(* request, and refuses more of them once it ends.                         *)
(***************************************************************************)
GenerationFrame ==
    UNCHANGED <<queueVars, actorVars, mail, used, commands, crashes, acked,
                steered, started, interrupts, left>>

RecordPrompt ==
    /\ active.phase = "spawned"
    /\ \/ /\ active' = [active EXCEPT !.phase = "running"]
          /\ turns' = [p \in Inputs |-> IF p = active.prompt
                                        THEN turns[p] + 1 ELSE turns[p]]
          /\ UNCHANGED faults
       \/ /\ faults < MaxFaults
          /\ faults' = faults + 1
          /\ active' = [active EXCEPT !.phase = "ended", !.outcome = "failed"]
          /\ UNCHANGED turns
    /\ UNCHANGED <<shown, gone>>
    /\ GenerationFrame

(* RuntimeSteerStep::apply: an append that fails ends the turn, and drops  *)
(* the inputs that were drained with the one it failed on.                 *)
ApplySteer ==
    /\ active.phase = "running"
    /\ active.steer # <<>>
    /\ \/ /\ shown' = shown \cup ToSet(active.steer)
          /\ active' = [active EXCEPT !.steer = <<>>]
          /\ UNCHANGED faults
       \/ /\ faults < MaxFaults
          /\ faults' = faults + 1
          /\ \E i \in DOMAIN active.steer :
               shown' = shown \cup {active.steer[j] : j \in 1 .. i}
          /\ active' = [active EXCEPT !.steer = <<>>, !.phase = "ended",
                                      !.outcome = "failed"]
    /\ UNCHANGED <<turns, gone>>
    /\ GenerationFrame

(* steer_awaits_answer: a turn that ends on its own has no input pending.  *)
MayEnd(o) ==
    CASE o = "completed"    -> active.steer = <<>>
      [] o = "cancelled"    -> active.cancelled
      [] o = "backgrounded" -> Backgroundable /\ active.prompt = NoInput
      [] OTHER              -> TRUE

EndTurn ==
    /\ active.phase = "running"
    /\ \E o \in {"completed", "cancelled", "failed", "backgrounded"} :
         /\ MayEnd(o)
         /\ active' = [active EXCEPT !.phase = "ended", !.outcome = o]
    /\ UNCHANGED <<turns, shown, faults, gone>>
    /\ GenerationFrame
-----------------------------------------------------------------------------
(***************************************************************************)
(* What else the actor selects on: turns, interrupts, resumes and steer    *)
(* inputs of other clients, its polls, and the end of the generation.      *)
(***************************************************************************)
DirectTurn ==
    /\ pc = "select"
    /\ ~Busy
    /\ active' = [NoOp EXCEPT !.phase = "spawned"]
    /\ Loop(active')
    /\ UNCHANGED <<queueVars, turns, shown, todo, held, ready, mail,
                   boundVars, historyVars>>

(* pause_prompt_queue_for_interrupt.                                       *)
(* Faulty variant: a queue that is paused already is left as it is.        *)
InterruptOnce(s) == IF s.paused THEN s ELSE Pausing(s)
Interrupted(s) == Pausing(s)

Interrupt ==
    /\ pc = "select"
    /\ Busy
    /\ Commanded
    /\ \/ Change(Interrupted(q)) /\ interrupts' = interrupts + 1
       \/ ChangeFails(Interrupted(q)) /\ UNCHANGED interrupts
    /\ active' = [active EXCEPT !.cancelled = TRUE]
    /\ Loop(active')
    /\ UNCHANGED <<turns, shown, todo, held, ready, mail, used, crashes,
                   acked, steered, started, gone, left>>

(* SteerOperation: the ended phase stands for a closed steer handle.       *)
AcceptsSteer == /\ active.phase \in {"spawned", "running"}
                /\ ~active.cancelled /\ ~active.resume

Steer ==
    /\ pc = "select"
    /\ AcceptsSteer
    /\ \E p \in Inputs \ used :
         /\ active' = [active EXCEPT !.steer = Append(@, p)]
         /\ used' = used \cup {p}
         /\ steered' = steered \cup {p}
    /\ Loop(active')
    /\ UNCHANGED <<queueVars, turns, shown, todo, held, ready, mail, commands,
                   faults, crashes, acked, started, gone, interrupts, left>>

QueueResume ==
    /\ pc = "select"
    /\ Busy /\ active.cancelled /\ ~active.resume
    /\ active' = [active EXCEPT !.resume = TRUE]
    /\ Loop(active')
    /\ UNCHANGED <<queueVars, turns, shown, todo, held, ready, mail,
                   boundVars, historyVars>>

(* A goal being settled or a surface interaction begins or ends; a poll    *)
(* wakes the loop.                                                         *)
Poll ==
    /\ pc = "select"
    /\ ~Busy
    /\ held' \in IF Holding THEN {"none", "waiting"} ELSE {"none"}
    /\ pc' = "top"
    /\ UNCHANGED <<queueVars, turns, shown, active, todo, ready, mail,
                   boundVars, historyVars>>

Resumes == active.resume /\ active.outcome = "cancelled"

(* The next generation of an interrupted turn: pending steer inputs join   *)
(* the conversation (persist_pending_steer_inputs).                        *)
NextGeneration ==
    /\ pc = "select"
    /\ active.phase = "ended"
    /\ Resumes
    /\ shown' = shown \cup ToSet(active.steer)
    /\ active' = [active EXCEPT !.phase = "running", !.outcome = "none",
                                !.cancelled = FALSE, !.resume = FALSE,
                                !.steer = <<>>]
    /\ UNCHANGED <<queueVars, turns, actorVars, mail, boundVars, historyVars>>

(* The output of the old generation cannot be finished: the operation      *)
(* fails instead, in the same step of the actor.                           *)
ResumeFails ==
    /\ pc = "select"
    /\ active.phase = "ended"
    /\ Resumes
    /\ faults < MaxFaults
    /\ faults' = faults + 1
    /\ active' = [active EXCEPT !.outcome = "failed"]
    /\ pc' = "finishing"
    /\ UNCHANGED <<queueVars, turns, shown, todo, held, ready, mail, used,
                   commands, crashes, historyVars>>

(* complete_prompt_queue_dispatch: the fence names this operation.         *)
(* Faulty variant: only a turn that completed settles its prompt.          *)
CompletesOnSuccess == /\ active.outcome = "completed"
                      /\ q.fence = [kind |-> "accepted", id |-> active.prompt]
Completes == q.fence = [kind |-> "accepted", id |-> active.prompt]

(* Faulty variant: only an interrupted turn gives its inputs back.         *)
LeftOverIfCancelled ==
    IF active.outcome = "cancelled" THEN active.steer ELSE <<>>
LeftOver == IF active.outcome = "backgrounded" THEN <<>> ELSE active.steer

FinishOperation ==
    /\ pc \in {"select", "finishing"}
    /\ active.phase = "ended"
    /\ ~Resumes
    /\ IF Completes THEN Settle(Consumed(q))
                    ELSE UNCHANGED <<queueVars, faults>>
    /\ todo' = LeftOver
    /\ left' = active.steer
    /\ active' = NoOp
    /\ pc' = IF todo' = <<>> THEN "top" ELSE "requeue"
    /\ UNCHANGED <<turns, shown, held, ready, mail, used, commands, crashes,
                   acked, steered, started, gone, interrupts>>

(* requeue_unapplied_steer_inputs, last input first: an addition, and the  *)
(* reorder that brings it to the front.  A refused or unsaved addition is  *)
(* passed over; a refused reorder leaves the input last.                   *)
RequeueAdd ==
    /\ pc = "requeue"
    /\ LET s == Appended(q, Last(todo)) IN
       \/ /\ Len(q.items) < Capacity
          /\ Change(s)
          /\ pc' = "reorder"
          /\ UNCHANGED todo
       \/ /\ \/ Len(q.items) >= Capacity /\ UNCHANGED <<queueVars, faults>>
             \/ Len(q.items) < Capacity /\ ChangeFails(s)
          /\ todo' = Front(todo)
          /\ pc' = IF todo' = <<>> THEN "top" ELSE "requeue"
    /\ UNCHANGED <<turns, shown, active, held, ready, mail, used, commands,
                   crashes, historyVars>>

(* Faulty variant: the requeued input stays last.                          *)
MovedNowhere(s) == Bump(s)
Moved(s) == ToFront(s)

RequeueReorder ==
    /\ pc = "reorder"
    /\ Change(Moved(q)) \/ ChangeFails(Moved(q))
    /\ todo' = Front(todo)
    /\ pc' = IF todo' = <<>> THEN "top" ELSE "requeue"
    /\ UNCHANGED <<turns, shown, active, held, ready, mail, used, commands,
                   crashes, historyVars>>

-----------------------------------------------------------------------------
(* The process exits, with the commands and steer inputs it held.          *)
Crash ==
    /\ pc # "down"
    /\ crashes < MaxCrashes
    /\ crashes' = crashes + 1
    /\ gone' = gone \cup ToSet(active.steer) \cup ToSet(todo)
    /\ pc' = "down" /\ todo' = <<>> /\ held' = "none" /\ ready' = FALSE
    /\ active' = NoOp
    /\ mail' = [c \in Clients |-> NoCommand]
    /\ published' = Empty
    /\ q' = Empty
    /\ UNCHANGED <<disk, turns, shown, used, commands, faults, acked, steered,
                   started, interrupts, left>>

(* ThreadActor::new: a recovered queue that cannot be saved is kept.       *)
Restart ==
    /\ pc = "down"
    /\ q' = Recovered(disk)
    /\ \/ disk' = q' /\ UNCHANGED faults
       \/ /\ faults < MaxFaults
          /\ faults' = faults + 1
          /\ UNCHANGED disk
    /\ pc' = "top"
    /\ UNCHANGED <<published, turns, shown, active, todo, held, ready, mail,
                   used, commands, crashes, historyVars>>

(* The queue in the file cannot be read: the actor begins with an empty    *)
(* one, and leaves the file alone until the next save.                     *)
RestartUnread ==
    /\ pc = "down"
    /\ Unreadable
    /\ faults < MaxFaults
    /\ faults' = faults + 1
    /\ pc' = "top"
    /\ UNCHANGED <<queueVars, turns, shown, active, todo, held, ready, mail,
                   used, commands, crashes, historyVars>>

ActorStep ==
    \/ DrainNothing \/ PrepareDispatch \/ StartTurn \/ AcceptDispatch
    \/ RollBackDispatch \/ PauseForBoundary
    \/ NextGeneration \/ ResumeFails \/ FinishOperation
    \/ RequeueAdd \/ RequeueReorder

GenerationStep == RecordPrompt \/ ApplySteer \/ EndTurn

Next ==
    \/ List
    \/ \E c \in Clients : Send(c) \/ Handle(c)
    \/ ActorStep
    \/ GenerationStep
    \/ DirectTurn \/ Interrupt \/ Steer \/ QueueResume \/ Poll
    \/ Crash \/ Restart \/ RestartUnread

Spec == Init /\ [][Next]_vars
-----------------------------------------------------------------------------
Snapshots == [rev : Nat, paused : BOOLEAN,
              items : Seq([id : Inputs, text : Nat]),
              fence : {NoFence} \cup [kind : {"prepared", "accepted"},
                                      id : Inputs]]

(* The shape of the state.                                                 *)
TypeOK ==
    /\ {q, disk, published} \subseteq Snapshots
    /\ turns \in [Inputs -> Nat]
    /\ active \in [prompt : Inputs \cup {NoInput}, text : Nat,
                   phase : {"none", "spawned", "running", "ended"},
                   outcome : {"none", "completed", "cancelled", "failed",
                              "backgrounded"},
                   cancelled : BOOLEAN, resume : BOOLEAN,
                   steer : Seq(Inputs)]
    /\ pc \in {"top", "select", "prepared", "started", "pausing",
               "finishing", "requeue", "reorder", "down"}
    /\ todo \in Seq(Inputs) /\ left \in Seq(Inputs)
    /\ held \in {"none", "waiting"} /\ ready \in BOOLEAN
    /\ shown \cup used \cup acked \cup steered \cup started \cup gone
         \subseteq Inputs
    /\ {commands, faults, crashes, interrupts} \subseteq Nat

(* A queued prompt becomes at most one user turn of the session, whatever  *)
(* exits and failed saves fall between preparing its dispatch, recording   *)
(* its turn, accepting and settling it (recover_dispatch).                 *)
RunsOnce == \A p \in Inputs : turns[p] <= 1

(* The fence, in memory and in the file, names the head of the queue:      *)
(* otherwise neither settlement nor recovery would ever remove it          *)
(* (accept_dispatch and consume_accepted return None).                     *)
FenceIsHead ==
    \A s \in {q, disk} : s.fence # NoFence => HeadIs(s, s.fence.id)

(* While a queued prompt runs, the queue shows it as its accepted head,    *)
(* with the text that is running; while nothing runs there is no fence     *)
(* left, so that reconcile_prompt_queue_dispatch has nothing to settle.    *)
RunningHead ==
    pc = "select" =>
      IF active.prompt = NoInput THEN q.fence = NoFence
      ELSE /\ q.fence = [kind |-> "accepted", id |-> active.prompt]
           /\ q.items # <<>>
           /\ Head(q.items) = Item(active.prompt, active.text)

(* An acknowledged addition is in the session file until a turn was        *)
(* started for it or its user asked for its removal.                       *)
AckedDurable == acked \subseteq Ids(disk) \cup started \cup gone

(* A client whose expected revision is still current has seen the queue as *)
(* it is: no two queues a client can see share a revision, which is what   *)
(* the checks of ensure_revision rely on.                                  *)
RevisionIdentifies ==
    \A c \in Clients :
      (mail[c] # NoCommand /\ mail[c].view.rev = q.rev) => mail[c].view = q

(* Only a start sent after the last interrupt restarts a paused queue      *)
(* (pause_prompt_queue_for_interrupt).                                     *)
StaleStartRefused ==
    [][(pc # "down" /\ q.paused /\ ~q'.paused) =>
         \/ pc' = "down"
         \/ \E c \in Clients : /\ mail[c] # NoCommand
                               /\ mail'[c] = NoCommand
                               /\ mail[c].kind = "start"
                               /\ mail[c].seen = interrupts]_vars

(* A steer input that was accepted is pending, in the conversation, in the *)
(* queue or on its way back to it, until it runs as a prompt of its own    *)
(* (requeue_unapplied_steer_inputs), as long as no write fails.            *)
SteerKept ==
    faults = 0 => steered \subseteq
      UNION {shown, ToSet(active.steer), ToSet(todo), started, gone,
             IF pc = "down" THEN Ids(disk) ELSE Ids(q)}

(* Requeued steer inputs come first in the queue, in the order in which    *)
(* they were sent, when no write failed and the queue had room.            *)
SteerOrder ==
    [][(/\ pc \in {"requeue", "reorder"} /\ pc' = "top"
        /\ faults' = 0 /\ ToSet(left) \subseteq Ids(q')) =>
          \A i \in DOMAIN left : q'.items[i].id = left[i]]_vars

(* A prompt whose addition was acknowledged is in the queue, or has its    *)
(* turn, or was removed by its user, across exits of the process.          *)
PromptKept ==
    \A p \in acked \ gone :
      turns[p] > 0 \/ p \in IF pc = "down" THEN Ids(disk) ELSE Ids(q)

(***************************************************************************)
(* Fairness: the actor's loop and the generation's thread are scheduled,   *)
(* and the polls of the loop fire.  Nothing makes a turn end, a client     *)
(* send, or a process restart.                                             *)
(***************************************************************************)
FairSpec == /\ Spec
            /\ WF_vars(ActorStep)
            /\ WF_vars(RecordPrompt) /\ WF_vars(Poll)

(* A queue that stays started empties, if turns end and nothing holds the  *)
(* thread.                                                                 *)
QueueDrains ==
    (/\ <>[](ready /\ ~q.paused /\ held = "none")
     /\ []<>~Busy)  => []<>(q.items = <<>>)

=============================================================================
