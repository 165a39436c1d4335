--------------------- MODULE ContinuationOwners_proofs ---------------------
(***************************************************************************)
(* Proofs about the launches that execute the attempts of a lineage, on    *)
(* top of AgentContinuation_proofs: the store implements the atomic        *)
(* lineage, an attempt has one worker, no checkpoint is lost, the          *)
(* heartbeat gives a run up only when one of its two leases is lost or a   *)
(* committed renewal was reported as failed, and a lineage with unknown    *)
(* effects is not resumed after a crash.                                   *)
(*                                                                         *)
(* The refinement follows from the six ways to change a record alone.  The *)
(* other properties relate the record to what launches hold: a handle is   *)
(* never newer than the record (HandlesPast), the attempt and the epoch of *)
(* the current grant belong to one launch (GrantInv), and the conversation *)
(* of the launch that may write is the one of the stored checkpoint        *)
(* (ConversationInv).  BeatInv adds what an owner knows of the revision of *)
(* its record and of the expiry of its leases, ToolInv what the record     *)
(* knows of its tool.                                                      *)
(***************************************************************************)
EXTENDS AgentContinuation_proofs

Executing(o) == mode[o] \in {"running", "stopping"}

(* The calls a launch makes where it is.                                   *)
CallsIn(m) ==
    CASE m = "resuming" -> {"none", "resume"}
      [] m = "prepared" -> {"none", "acquire", "abandon"}
      [] m = "running"  -> {"none", "renew", "checkpoint", "boundary"}
      [] m = "stopping" -> {"none", "renew", "terminal"}
      [] OTHER          -> {"none"}

CallsFit == \A o \in Owners : call[o].op \in CallsIn(mode[o])

(* What a launch holds is of the current or of an earlier attempt.         *)
HandlesPast ==
    \A o \in Owners : held[o].attempt <= rec.attempt /\ held[o].epoch <= rec.epoch

(* Who owns the record executes its attempt; nobody does before that.      *)
GrantInv ==
    /\ rec.owner # NoOwner => rec.state = "Running"
    /\ \A o \in Owners : Executing(o) =>
          /\ rec.state = "Prepared" => held[o].attempt # rec.attempt
          /\ rec.owner \notin {o, NoOwner} => /\ held[o].attempt # rec.attempt
                                              /\ held[o].epoch # rec.epoch
    /\ AttemptExecutedOnce

(* The launch that may write next has the conversation of the checkpoint.  *)
ConversationInv ==
    \A o \in Owners :
       /\ mode[o] \in {"prepared", "running"} /\ held[o].attempt = rec.attempt
       /\ rec.state = "Prepared" \/ rec.owner = o
       => held[o].prev = rec.ckpt.attempt

OwnerInv == CallsFit /\ HandlesPast /\ GrantInv /\ ConversationInv

(* An owner knows the revision of its record, unless it was told that a    *)
(* committed renewal failed.                                               *)
RevisionKnown ==
    \A o \in Owners : mode[o] = "running" /\ rec.owner = o /\ o \notin masked =>
       /\ held[o].rev = rec.revision
       /\ call[o].op \in Writes => call[o].rev = rec.revision

(* A cancelled run renews nothing more.                                    *)
NoBeatAfterCancel ==
    \A o \in Owners : cancelled[o] => Executing(o) /\ call[o].op # "renew"

(* A lease lapses a lease duration after its last renewal, at the latest:  *)
(* by the clock, and by the times its heartbeat keeps of its renewals.     *)
TaskTimed(o) ==
    /\ task[o].until <= clock + TaskLeaseDuration
    /\ mode[o] = "running" /\ o \notin masked
       => task[o].until <= taskBeat[o] + TaskLeaseDuration

LeaseTimed ==
    /\ rec.owner # NoOwner => rec.expires <= clock + LeaseDuration
    /\ \A o \in Owners : mode[o] = "running" /\ rec.owner = o /\ o \notin masked
          => rec.expires <= beat[o] + LeaseDuration

BeatInv ==
    /\ RevisionKnown /\ NoBeatAfterCancel
    /\ LeaseTimed /\ \A o \in Owners : TaskTimed(o)
    /\ CancelOnlyWhenLostOrMasked

(* What a launch has of tools where it is.                                 *)
ToolsFit(o) ==
    /\ mode[o] \in {"idle", "resuming", "prepared"} => tool[o] = "None" /\ ran[o] = 0
    /\ call[o].op = "boundary" => ran[o] = 0 /\ tool[o] # "None"
    /\ call[o].op = "checkpoint" => tool[o] = "None"
    /\ mode[o] \in {"idle", "resuming"} => rec.owner # o

(* Before the tool of a response is admitted the record has no boundary.   *)
BoundaryNew(o) ==
    /\ mode[o] \in {"prepared", "running"} /\ rec.owner = o
    /\ ran[o] = 0 /\ (tool[o] = "None" \/ call[o].op = "boundary")
    => rec.boundary = "None"

(* The record keeps the boundary of an admitted tool, or is lost with it.  *)
BoundaryKept(o) ==
    mode[o] = "running" /\ tool[o] = "Indeterminate" /\ call[o].op # "boundary"
    => rec.status = "Indeterminate" \/ (rec.owner = o /\ rec.boundary = "Indeterminate")

ToolInv ==
    /\ rec.state = "Prepared" => rec.boundary = "None"
    /\ \A o \in Owners : ToolsFit(o) /\ BoundaryNew(o) /\ BoundaryKept(o)
    /\ exposed /\ rec.status \in {"Checkpointed", "Suspended"} => rec.boundary = "Indeterminate"
-----------------------------------------------------------------------------
(* What each of the six changes of the record leaves of it.                *)

LEMMA CreateFields ==
    ASSUME CreateStep
    PROVE  /\ rec'.status = "Created" /\ rec'.state = "Prepared" /\ rec'.owner = NoOwner
           /\ rec'.attempt = 1 /\ rec'.epoch = 0 /\ rec'.ckpt = NoCheckpoint
           /\ rec.status = "Absent" /\ rec.owner = NoOwner /\ rec.attempt = 0
           /\ rec.epoch = 0 /\ rec.ckpt = NoCheckpoint
  BY DEF CreateStep, CreatedRecord, NoRecord

LEMMA ResumeFields ==
    ASSUME rec \in Records, NEW o \in Owners, ResumeStep(o)
    PROVE  /\ rec'.status = "Resuming" /\ rec'.state = "Prepared" /\ rec'.owner = NoOwner
           /\ rec'.attempt = rec.attempt + 1 /\ rec'.epoch = rec.epoch
           /\ rec'.ckpt = rec.ckpt
  BY DEF ResumeStep, Stamped, ResumedAs, Records

LEMMA AcquireFields ==
    ASSUME rec \in Records, NEW o \in Owners, AcquireStep(o)
    PROVE  /\ rec'.status = "Running" /\ rec'.state = "Running" /\ rec'.owner = o
           /\ rec'.attempt = rec.attempt /\ rec'.epoch = rec.epoch + 1
           /\ rec'.ckpt = rec.ckpt /\ rec'.revision = rec.revision + 1
           /\ rec.state = "Prepared" /\ rec.status \in {"Created", "Resuming", "Checkpointed"}
  BY DEF AcquireStep, Stamped, AcquiredBy, Records, StatusSteps

LEMMA AbandonFields ==
    ASSUME rec \in Records, NEW o \in Owners, AbandonStep(o)
    PROVE  /\ rec'.status = "Failed" /\ rec'.state = "Terminal" /\ rec'.owner = NoOwner
           /\ rec'.attempt = rec.attempt /\ rec'.epoch = rec.epoch
           /\ rec'.ckpt = rec.ckpt
           /\ rec.state = "Prepared"
  BY DEF AbandonStep, Stamped, Settled, TerminalStatus, Records

(* A write of the owner.                                                   *)
LEMMA WriteFields ==
    ASSUME TypeOK, NEW o \in Owners, WriteStep(o)
    PROVE  /\ rec.state = "Running" /\ rec.owner = o
           /\ rec.attempt = held[o].attempt /\ rec.epoch = held[o].epoch
           /\ rec'.attempt = rec.attempt /\ rec'.epoch = rec.epoch
           /\ rec'.revision = rec.revision + 1
           /\ \/ /\ call[o].op \in {"renew", "boundary"} /\ rec'.ckpt = rec.ckpt
                 /\ rec'.status = rec.status
              \/ /\ call[o].op = "checkpoint" /\ rec'.ckpt = PendingCheckpoint(o)
                 /\ rec'.ckpt.seq = rec.ckpt.seq + 1 /\ rec'.status = "Checkpointed"
              \/ /\ call[o].op = "terminal" /\ rec'.ckpt = rec.ckpt
                 /\ rec'.status \in {"Completed", "Failed", "Cancelled", "Indeterminate"}
           /\ IF call[o].op = "terminal" THEN rec'.state = "Terminal" /\ rec'.owner = NoOwner
              ELSE rec'.state = "Running" /\ rec'.owner = o
           /\ call[o].op # "renew" /\ rec'.owner = o => rec'.expires = rec.expires
<1>1. rec \in Records /\ final[o] \in Terminal
  BY DEF TypeOK
<1>2. /\ rec.state = "Running" /\ rec.owner = o
      /\ rec.attempt = held[o].attempt /\ rec.epoch = held[o].epoch
  BY DEF WriteStep, WriteAdmitted, Fence, LiveLease
<1>3. rec' = Stamped(Written(o))
  BY DEF WriteStep
<1>4. CASE call[o].op = "renew"
  <2>1. rec' = Stamped(Renewed(rec, call[o].at))
    BY <1>3, <1>4 DEF Written
  <2> QED BY <1>1, <1>2, <1>4, <2>1 DEF Stamped, Renewed, Records
<1>5. CASE call[o].op = "boundary"
  <2>1. rec' = Stamped(WithBoundary(rec, tool[o], call[o].at))
    BY <1>3, <1>5 DEF Written
  <2> QED BY <1>1, <1>2, <1>5, <2>1 DEF Stamped, WithBoundary, Records
<1>6. CASE call[o].op = "checkpoint"
  <2> DEFINE c == PendingCheckpoint(o)
  <2>1. rec' = Stamped(WithCheckpoint(rec, c, call[o].at)) /\ c.seq = rec.ckpt.seq + 1
    BY <1>3, <1>6 DEF Written, WriteStep, WriteAdmitted
  <2> HIDE DEF c
  <2>2. /\ rec'.ckpt = c /\ rec'.status = "Checkpointed" /\ rec'.state = "Running"
        /\ rec'.owner = o /\ rec'.attempt = rec.attempt /\ rec'.epoch = rec.epoch
        /\ rec'.revision = rec.revision + 1 /\ rec'.expires = rec.expires
    BY <1>1, <1>2, <2>1 DEF Stamped, WithCheckpoint, Records
  <2> QED BY <1>2, <1>6, <2>1, <2>2 DEF c
<1>7. CASE call[o].op = "terminal"
  <2>1. rec' = Stamped(Settled(rec, final[o], call[o].at))
    BY <1>3, <1>7 DEF Written
  <2>2. <<rec.status, TerminalStatus(final[o])>> \in StatusSteps
    BY <1>7 DEF WriteStep, WriteAdmitted
  <2>3. TerminalStatus(final[o]) \in {"Completed", "Failed", "Cancelled", "Indeterminate"}
    BY <1>1, <2>2 DEF TerminalStatus, Terminal, StatusSteps
  <2> QED BY <1>1, <1>2, <1>7, <2>1, <2>3, OwnersAssumption DEF Stamped, Settled, Records
<1> QED BY <1>4, <1>5, <1>6, <1>7 DEF WriteStep, Writes

LEMMA ReconcileFields ==
    ASSUME rec \in Records, ReconcileStep
    PROVE  /\ rec.state = "Running" /\ rec'.owner = NoOwner
           /\ rec'.attempt = rec.attempt /\ rec'.epoch = rec.epoch /\ rec'.ckpt = rec.ckpt
           /\ \/ /\ rec'.status = "Suspended" /\ rec'.state = "Suspended"
                 /\ rec.ckpt # NoCheckpoint
              \/ rec'.status = "Indeterminate" /\ rec'.state = "Terminal"
<1>1. rec.state = "Running" /\ rec' = Stamped(Reconciled(rec, sweep))
  BY DEF ReconcileStep, ExpiredOwner
<1>2. CASE rec.ckpt # NoCheckpoint /\ rec.status = "Checkpointed" /\ rec.boundary # "Indeterminate"
  BY <1>1, <1>2 DEF Stamped, Reconciled, Records
<1>3. CASE ~(rec.ckpt # NoCheckpoint /\ rec.status = "Checkpointed"
             /\ rec.boundary # "Indeterminate")
  BY <1>1, <1>3 DEF Stamped, Reconciled, Settled, TerminalStatus, Records
<1> QED BY <1>2, <1>3

-----------------------------------------------------------------------------
(* The store implements the atomic lineage.                                *)

LEMMA LineageInit == Init => Lineage!Init
  BY DEF Init, Lineage!Init, NoRecord, NoCheckpoint, PhaseOf

LEMMA LineageStep ==
    TypeOK /\ StoreInv /\ [Next]_vars => [Lineage!Next]_(Lineage!lineageVars)
<1> SUFFICES ASSUME TypeOK, StoreInv, [Next]_vars
             PROVE  [Lineage!Next]_(Lineage!lineageVars)
  OBVIOUS
<1>t. rec \in Records /\ GoodRecord(rec, clock)
  BY DEF TypeOK, StoreInv, RecordInv
<1>s. rec.status # "Absent" => AttemptStateMatches(rec)
  BY <1>t DEF GoodRecord, ValidRecord
<1>c. rec.ckpt # NoCheckpoint => rec.ckpt.seq >= 0
  BY <1>t DEF GoodRecord, Records, Checkpoints
<1>r. rec.state = "Running" => PhaseOf(rec) = "owned"
  <2>1. rec.status = "Absent" => rec.state = "Prepared"
    BY <1>t DEF GoodRecord, NoRecord
  <2> QED BY <1>s, <2>1 DEF AttemptStateMatches, PhaseOf
<1>1. CASE rec' = rec
  BY <1>1 DEF Lineage!lineageVars
<1>2. CASE CreateStep
  <2>1. PhaseOf(rec) = "none" /\ PhaseOf(rec') = "ready"
    BY <1>2, CreateFields DEF PhaseOf
  <2>2. Lineage!Open
    BY <1>2, <2>1, CreateFields DEF Lineage!Open
  <2> QED BY <2>2 DEF Lineage!Next
<1>3. ASSUME NEW o \in Owners, ResumeStep(o) PROVE Lineage!Next
  <2>1. Resumable(rec)
    BY <1>3 DEF ResumeStep, ResumeAdmitted
  <2>2. PhaseOf(rec) \in {"owned", "parked", "settled"} /\ rec.ckpt.seq >= 0
    BY <1>c, <2>1 DEF Resumable, PhaseOf
  <2>3. PhaseOf(rec') = "ready"
    BY <1>t, <1>3, ResumeFields DEF PhaseOf
  <2>4. Lineage!Reopen
    BY <1>t, <1>3, <2>2, <2>3, ResumeFields DEF Lineage!Reopen
  <2> QED BY <2>4 DEF Lineage!Next
<1>4. ASSUME NEW o \in Owners, AcquireStep(o) PROVE Lineage!Next
  <2>1. PhaseOf(rec) = "ready" /\ PhaseOf(rec') = "owned"
    BY <1>t, <1>s, <1>4, AcquireFields DEF PhaseOf, AttemptStateMatches
  <2>2. Lineage!Grant(o)
    BY <1>t, <1>4, <2>1, AcquireFields DEF Lineage!Grant
  <2> QED BY <2>2 DEF Lineage!Next
<1>5. ASSUME NEW o \in Owners, AbandonStep(o) PROVE Lineage!Next
  <2>1. rec.status # "Absent"
    BY <1>5 DEF AbandonStep, StatusSteps
  <2>2. PhaseOf(rec) = "ready" /\ PhaseOf(rec') = "settled"
    BY <1>t, <1>s, <1>5, <2>1, AbandonFields DEF PhaseOf, AttemptStateMatches
  <2>3. Lineage!Settle
    BY <1>t, <1>5, <2>2, AbandonFields DEF Lineage!Settle
  <2> QED BY <2>3 DEF Lineage!Next
<1>6. ASSUME NEW o \in Owners, WriteStep(o) PROVE [Lineage!Next]_(Lineage!lineageVars)
  <2>1. PhaseOf(rec) = "owned"
    BY <1>r, <1>6, WriteFields
  <2>2. CASE call[o].op \in {"renew", "boundary"}
    <3>1. PhaseOf(rec') = PhaseOf(rec)
      BY <1>6, <2>2, WriteFields DEF PhaseOf
    <3> QED BY <1>6, <2>2, <3>1, WriteFields DEF Lineage!lineageVars
  <2>3. CASE call[o].op = "checkpoint"
    <3>1. PhaseOf(rec') = "owned"
      BY <1>6, <2>3, WriteFields DEF PhaseOf
    <3>2. Lineage!Save
      BY <1>6, <2>1, <2>3, <3>1, WriteFields DEF Lineage!Save
    <3> QED BY <3>2 DEF Lineage!Next
  <2>4. CASE call[o].op = "terminal"
    <3>1. PhaseOf(rec') \in {"settled", "lost"}
      BY <1>6, <2>4, WriteFields DEF PhaseOf
    <3>2. Lineage!Settle
      BY <1>6, <2>1, <2>4, <3>1, WriteFields DEF Lineage!Settle
    <3> QED BY <3>2 DEF Lineage!Next
  <2> QED BY <1>6, <2>2, <2>3, <2>4 DEF WriteStep, Writes
<1>7. CASE ReconcileStep
  <2>1. PhaseOf(rec) = "owned"
    BY <1>t, <1>r, <1>7, ReconcileFields
  <2>2. CASE rec'.status = "Suspended" /\ rec.ckpt # NoCheckpoint
    <3>1. PhaseOf(rec') = "parked"
      BY <2>2 DEF PhaseOf
    <3>2. Lineage!Park
      BY <1>t, <1>c, <1>7, <2>1, <2>2, <3>1, ReconcileFields DEF Lineage!Park
    <3> QED BY <3>2 DEF Lineage!Next
  <2>3. CASE rec'.status = "Indeterminate"
    <3>1. PhaseOf(rec') = "lost"
      BY <2>3 DEF PhaseOf
    <3>2. Lineage!Settle
      BY <1>t, <1>7, <2>1, <3>1, ReconcileFields DEF Lineage!Settle
    <3> QED BY <3>2 DEF Lineage!Next
  <2> QED BY <1>t, <1>7, <2>2, <2>3, ReconcileFields
<1> QED BY <1>1, <1>2, <1>3, <1>4, <1>5, <1>6, <1>7, RecordSteps DEF RecordStep

(* ImplementsLineage: the compare-and-swap store of agent_continuation.rs, *)
(* with its leases, stale clock reads, retries and failed writes,          *)
(* implements the atomic lineage: every committed mutation is one step of  *)
(* it, everything else leaves it alone.                                    *)
THEOREM LineageImplemented == Spec => ImplementsLineage
<1>1. Spec => [](TypeOK /\ StoreInv)
  BY StoreCorrect
<1> QED BY <1>1, LineageInit, LineageStep, PTL DEF Spec, ImplementsLineage, Lineage!Spec
-----------------------------------------------------------------------------
(* What a step does to the launches.                                       *)

Kept(q) == /\ mode'[q] = mode[q] /\ held'[q] = held[q]
           /\ call'[q] = call[q] /\ cancelled'[q] = cancelled[q]
           /\ beat'[q] = beat[q] /\ taskBeat'[q] = taskBeat[q]

(* The launch is over, with or without a last change of the record.        *)
Leaves(o) ==
    /\ mode'[o] = "gone" /\ held'[o] = NoHold /\ call'[o] = NoCall /\ ~cancelled'[o]
    /\ rec' = rec \/ AbandonStep(o) \/ AcquireStep(o) \/ WriteStep(o)

(* It has prepared an attempt, or found one prepared.                      *)
Prepares(o) ==
    /\ mode[o] \in {"idle", "resuming"} /\ cancelled'[o] = cancelled[o]
    /\ mode'[o] = "prepared" /\ held'[o] = HoldOf(rec') /\ call'[o].op = "none"
    /\ rec' = rec \/ CreateStep \/ ResumeStep(o)

(* It begins a call, or repeats a write after a conflict.                  *)
Begins(o) ==
    /\ rec' = rec /\ held'[o] = held[o] /\ cancelled'[o] = cancelled[o]
    /\ mode'[o] = mode[o] \/ (mode[o] = "idle" /\ mode'[o] = "resuming")
    /\ call'[o].op \in CallsIn(mode'[o]) /\ call[o].op \in {"none", call'[o].op}
    /\ call'[o].op \in Writes => call'[o].rev \in {held[o].rev, rec.revision}
    /\ call'[o].op = "renew" => ~cancelled[o]
    /\ beat'[o] = beat[o] /\ taskBeat'[o] = taskBeat[o]

(* Its acquire succeeds, now or in an earlier call that reported an error. *)
Starts(o) ==
    /\ mode[o] = "prepared" /\ mode'[o] = "running"
    /\ call'[o] = NoCall /\ cancelled'[o] = cancelled[o]
    /\ held'[o].attempt = held[o].attempt /\ held'[o].prev = held[o].prev
    /\ held'[o].epoch = rec'.epoch /\ held'[o].rev = rec'.revision
    /\ rec'.owner = o /\ held[o].attempt = rec'.attempt
    /\ beat'[o] = clock /\ taskBeat'[o] = clock
    /\ rec' = rec \/ AcquireStep(o)

AcquireFails(o) ==
    /\ mode[o] = "prepared" /\ mode'[o] = mode[o] /\ held'[o] = held[o]
    /\ call'[o].op = "none" /\ cancelled'[o] = cancelled[o]
    /\ rec' = rec \/ AcquireStep(o)

Wrote(o) ==
    /\ WriteStep(o) /\ call[o].op # "terminal"
    /\ mode'[o] = mode[o] /\ call'[o] = NoCall /\ cancelled'[o] = cancelled[o]
    /\ held'[o].attempt = held[o].attempt /\ held'[o].epoch = held[o].epoch
    /\ held'[o].rev = rec'.revision
    /\ held'[o].prev = IF call[o].op = "checkpoint" THEN rec'.ckpt.attempt ELSE held[o].prev
    /\ beat'[o] = IF call[o].op = "renew" THEN clock ELSE beat[o]
    /\ taskBeat'[o] = taskBeat[o]

WriteFails(o) ==
    /\ call[o].op \in {"checkpoint", "boundary"}
    /\ mode'[o] = "stopping" /\ held'[o] = held[o] /\ call'[o] = NoCall
    /\ cancelled'[o] = cancelled[o]
    /\ rec' = rec \/ WriteStep(o)

BeatFails(o) ==
    /\ call[o].op = "renew"
    /\ mode'[o] = mode[o] /\ held'[o] = held[o] /\ call'[o] = NoCall
    /\ beat'[o] = beat[o] /\ taskBeat'[o] = taskBeat[o]
    /\ \/ WriteStep(o) /\ o \in masked'
       \/ /\ rec' = rec
          /\ cancelled'[o] => cancelled[o] \/ clock - beat[o] >= LeaseDuration
       \/ rec' = rec /\ (rec.revision # call[o].rev \/ ~WriteAdmitted(o))

(* The run ends, goes on with a tool, or renews its task lease.            *)
Runs(o) ==
    /\ rec' = rec /\ held'[o] = held[o] /\ call'[o] = call[o]
    /\ beat'[o] = beat[o]
    /\ TaskStep(o) \/ (cancelled'[o] = cancelled[o] /\ taskBeat'[o] = taskBeat[o])
    /\ \/ mode'[o] = mode[o]
       \/ mode[o] = "running" /\ mode'[o] = "stopping" /\ call[o].op = "none"

OwnerStep(o) ==
    /\ \A q \in Owners \ {o} : Kept(q)
    /\ clock' = clock
    /\ \/ Leaves(o) \/ Prepares(o) \/ Begins(o) \/ Starts(o) \/ AcquireFails(o)
       \/ Wrote(o) \/ WriteFails(o) \/ BeatFails(o) \/ Runs(o)

(* The steps of one launch.                                                *)
StepOf(o) ==
    \/ Prepare(o) \/ Run(o) \/ BeginTerminal(o) \/ BeginRenew(o)
    \/ BeatTask(o) \/ FailTask(o) \/ FenceTask(o)
    \/ FinishCall(o) \/ FailWrite(o) \/ Crash(o)

(* Time, and the reconciler.                                               *)
StoreOnly ==
    /\ \A q \in Owners : Kept(q)
    /\ tool' = tool /\ ran' = ran /\ exposed' = exposed
    /\ rec' = rec \/ ReconcileStep
    /\ clock' \in {clock, clock + 1}

LEMMA GoneIs ==
    ASSUME TypeOK, NEW o \in Owners, Gone(o)
    PROVE  /\ mode'[o] = "gone" /\ held'[o] = NoHold /\ call'[o] = NoCall /\ ~cancelled'[o]
           /\ \A q \in Owners \ {o} : Kept(q)
<1>1. cancelled'[o] = FALSE /\ \A q \in Owners \ {o} : cancelled'[q] = cancelled[q]
  BY DEF TypeOK, Gone
<1> QED BY <1>1 DEF TypeOK, Gone, Kept

LEMMA StartIs ==
    ASSUME TypeOK, NEW o \in Owners, NEW r, StartWorker(o, r)
    PROVE  /\ mode'[o] = "running" /\ call'[o] = NoCall /\ cancelled'[o] = cancelled[o]
           /\ held'[o].attempt = held[o].attempt /\ held'[o].prev = held[o].prev
           /\ held'[o].epoch = r.epoch /\ held'[o].rev = r.revision
           /\ beat'[o] = clock /\ taskBeat'[o] = clock
           /\ \A q \in Owners \ {o} : Kept(q)
<1>1. held[o] \in Handles /\ held \in [Owners -> Handles]
  BY DEF TypeOK
<1> DEFINE h == [[held[o] EXCEPT !.epoch = r.epoch] EXCEPT !.rev = r.revision]
<1>2. /\ h.attempt = held[o].attempt /\ h.prev = held[o].prev
      /\ h.epoch = r.epoch /\ h.rev = r.revision
  BY <1>1 DEF Handles
<1>3. held' = [held EXCEPT ![o] = h]
  BY <1>1 DEF StartWorker
<1> HIDE DEF h
<1>4. held'[o] = h /\ \A q \in Owners \ {o} : held'[q] = held[q]
  BY <1>1, <1>3
<1>5. /\ mode'[o] = "running" /\ call'[o] = NoCall /\ cancelled'[o] = cancelled[o]
      /\ \A q \in Owners \ {o} : /\ mode'[q] = mode[q] /\ call'[q] = call[q]
                                 /\ cancelled'[q] = cancelled[q]
  BY DEF TypeOK, StartWorker, Moved, Returned
<1>6. /\ beat'[o] = clock /\ taskBeat'[o] = clock
      /\ \A q \in Owners \ {o} : beat'[q] = beat[q] /\ taskBeat'[q] = taskBeat[q]
  BY DEF TypeOK, StartWorker
<1> QED BY <1>2, <1>4, <1>5, <1>6 DEF Kept

LEMMA AcquireErrIs ==
    ASSUME TypeOK, NEW o \in Owners, AcquireErr(o), mode[o] = "prepared",
           rec' = rec \/ AcquireStep(o)
    PROVE  /\ \A q \in Owners \ {o} : Kept(q)
           /\ Leaves(o) \/ AcquireFails(o)
<1>1. CASE Gone(o)
  BY <1>1, GoneIs DEF Leaves
<1>2. CASE ~Gone(o)
  <2>1. /\ call' = [call EXCEPT ![o] = [NoCall EXCEPT !.retried = TRUE]]
        /\ UNCHANGED <<mode, held, worker>>
    BY <1>2 DEF AcquireErr
  <2>2. call'[o].op = "none" /\ \A q \in Owners \ {o} : call'[q] = call[q]
    BY <2>1 DEF TypeOK, NoCall
  <2> QED BY <2>1, <2>2 DEF AcquireFails, Kept, worker, heart
<1> QED BY <1>1, <1>2

LEMMA CalledIs ==
    ASSUME TypeOK, NEW o \in Owners, NEW op, NEW rev, NEW p, NEW b,
           Called(o, op, rev, p, b)
    PROVE  /\ call'[o].op = op /\ call'[o].rev = rev
           /\ \A q \in Owners \ {o} : call'[q] = call[q]
  BY DEF TypeOK, Called
LEMMA WriteOkIs ==
    ASSUME TypeOK, NEW o \in Owners, WriteOk(o, rec'), WriteStep(o)
    PROVE  /\ \A q \in Owners \ {o} : Kept(q)
           /\ Wrote(o) \/ Leaves(o)
<1>h. held[o] \in Handles /\ held \in [Owners -> Handles] /\ rec' \in Records
  BY WrittenType DEF TypeOK, WriteStep
<1>1. CASE call[o].op = "terminal"
  BY <1>1, GoneIs DEF WriteOk, Leaves
<1>2. CASE call[o].op \in {"renew", "boundary"}
  <2> DEFINE h == [held[o] EXCEPT !.rev = rec'.revision]
  <2>1. held' = [held EXCEPT ![o] = h] /\ Returned(o) /\ UNCHANGED <<mode, cancelled>>
    BY <1>h, <1>2 DEF WriteOk, RevisionAfter, worker
  <2>b. /\ beat' = IF call[o].op = "renew" THEN [beat EXCEPT ![o] = clock] ELSE beat
        /\ taskBeat' = taskBeat
    BY <1>2 DEF WriteOk, worker, heart
  <2>c. /\ beat'[o] = IF call[o].op = "renew" THEN clock ELSE beat[o]
        /\ taskBeat'[o] = taskBeat[o]
        /\ \A q \in Owners \ {o} : beat'[q] = beat[q] /\ taskBeat'[q] = taskBeat[q]
    BY <2>b DEF TypeOK
  <2>2. /\ h.attempt = held[o].attempt /\ h.prev = held[o].prev
        /\ h.epoch = held[o].epoch /\ h.rev = rec'.revision
    BY <1>h DEF Handles
  <2> HIDE DEF h
  <2>3. held'[o] = h /\ \A q \in Owners \ {o} : held'[q] = held[q]
    BY <1>h, <2>1
  <2>4. call'[o] = NoCall /\ \A q \in Owners \ {o} : call'[q] = call[q]
    BY <2>1 DEF TypeOK, Returned
  <2> QED BY <1>2, <2>1, <2>2, <2>3, <2>4, <2>c DEF Wrote, Kept
<1>3. CASE call[o].op = "checkpoint"
  <2> DEFINE h == [[[held[o] EXCEPT !.rev = rec'.revision] EXCEPT !.seq = rec'.ckpt.seq + 1]
                      EXCEPT !.prev = rec'.ckpt.attempt]
  <2>1. /\ held' = [held EXCEPT ![o].rev = rec'.revision, ![o].seq = rec'.ckpt.seq + 1,
                                ![o].prev = rec'.ckpt.attempt]
        /\ Returned(o) /\ UNCHANGED <<mode, cancelled>>
    BY <1>h, <1>3 DEF WriteOk, RevisionAfter
  <2>b. beat' = beat /\ taskBeat' = taskBeat
    BY <1>3 DEF WriteOk, heart
  <2>2. held' = [held EXCEPT ![o] = h]
    BY <1>h, <2>1
  <2>3. /\ h.attempt = held[o].attempt /\ h.prev = rec'.ckpt.attempt
        /\ h.epoch = held[o].epoch /\ h.rev = rec'.revision
    BY <1>h DEF Handles
  <2> HIDE DEF h
  <2>4. held'[o] = h /\ \A q \in Owners \ {o} : held'[q] = held[q]
    BY <1>h, <2>2
  <2>5. call'[o] = NoCall /\ \A q \in Owners \ {o} : call'[q] = call[q]
    BY <2>1 DEF TypeOK, Returned
  <2> QED BY <1>3, <2>1, <2>3, <2>4, <2>5, <2>b DEF Wrote, Kept
<1> QED BY <1>1, <1>2, <1>3 DEF WriteStep, Writes

LEMMA WriteErrIs ==
    ASSUME TypeOK, NEW o \in Owners, NEW b \in BOOLEAN, WriteErr(o, b),
           call[o].op \in Writes, rec' = rec \/ WriteStep(o),
           call[o].op = "renew" =>
              \/ WriteStep(o) /\ o \in masked'
              \/ rec' = rec /\ (b \/ rec.revision # call[o].rev \/ ~WriteAdmitted(o))
    PROVE  /\ \A q \in Owners \ {o} : Kept(q)
           /\ WriteFails(o) \/ BeatFails(o) \/ Leaves(o)
<1>1. CASE call[o].op = "terminal"
  BY <1>1, GoneIs DEF WriteErr, Leaves
<1>2. CASE call[o].op = "renew"
  <2> DEFINE ends == RenewalFailureEndsRun(b, clock - beat[o], LeaseDuration)
  <2>1. Returned(o) /\ UNCHANGED <<mode, held, beat, taskBeat>>
    BY <1>2 DEF WriteErr, heart
  <2>2. cancelled' = [cancelled EXCEPT ![o] = cancelled[o] \/ ends]
    BY <1>2 DEF WriteErr
  <2>3. b => (ends <=> clock - beat[o] >= LeaseDuration)
    BY DEF RenewalFailureEndsRun
  <2> HIDE DEF ends
  <2>4. /\ cancelled'[o] => cancelled[o] \/ ends
        /\ \A q \in Owners \ {o} : cancelled'[q] = cancelled[q]
    BY <2>2 DEF TypeOK
  <2>5. call'[o] = NoCall /\ \A q \in Owners \ {o} : call'[q] = call[q]
    BY <2>1 DEF TypeOK, Returned
  <2>6. \A q \in Owners \ {o} : Kept(q)
    BY <2>1, <2>4, <2>5 DEF Kept
  <2>7. BeatFails(o)
    BY <1>2, <2>1, <2>3, <2>4, <2>5 DEF BeatFails
  <2> QED BY <2>6, <2>7
<1>3. CASE call[o].op \in {"checkpoint", "boundary"}
  <2>1. /\ Returned(o) /\ Moved(o, "stopping")
        /\ UNCHANGED <<held, cancelled, beat, taskBeat>>
    BY <1>3 DEF WriteErr, heart
  <2>2. /\ call'[o] = NoCall /\ \A q \in Owners \ {o} : call'[q] = call[q]
        /\ mode'[o] = "stopping" /\ \A q \in Owners \ {o} : mode'[q] = mode[q]
    BY <2>1 DEF TypeOK, Returned, Moved
  <2> QED BY <1>3, <2>1, <2>2 DEF WriteFails, Kept
<1> QED BY <1>1, <1>2, <1>3 DEF Writes

(* Launches move one at a time, in one of nine ways.                       *)
LEMMA OwnerActs ==
    ASSUME TypeOK, StoreInv, CallsFit
    PROVE  /\ \A o \in Owners : StepOf(o) => OwnerStep(o)
           /\ [Next]_vars => StoreOnly \/ \E o \in Owners : StepOf(o)
<1>t. rec \in Records /\ clock \in Nat
  BY DEF TypeOK
<1>1. ASSUME NEW o \in Owners, NEW p \in Prompts, Create(o, p) PROVE OwnerStep(o)
  <2>1. /\ rec' = CreatedRecord(p, clock) /\ rec.status = "Absent" /\ clock' = clock
        /\ Moved(o, "prepared") /\ Holds(o, CreatedRecord(p, clock)) /\ UNCHANGED <<call, cancelled, beat, taskBeat>>
    BY <1>1 DEF Create, worker, heart
  <2>2. CreateStep
    BY <2>1 DEF CreateStep, StoreInv, RecordInv, GoodRecord
  <2>3. mode[o] = "idle"
    BY <1>1 DEF Create
  <2>4. call[o].op = "none"
    BY <2>3 DEF CallsFit, CallsIn
  <2>5. /\ mode'[o] = "prepared" /\ held'[o] = HoldOf(rec') /\ call'[o].op = "none"
        /\ \A q \in Owners \ {o} : Kept(q)
    BY <2>1, <2>4 DEF TypeOK, Moved, Holds, Kept
  <2> QED BY <2>1, <2>2, <2>3, <2>5 DEF OwnerStep, Prepares
<1>2. ASSUME NEW o \in Owners, mode[o] = "idle", Moved(o, "prepared"), Holds(o, rec),
             UNCHANGED <<rec, clock, call, cancelled, beat, taskBeat>>
      PROVE  OwnerStep(o)
  <2>1. call[o].op = "none"
    BY <1>2 DEF CallsFit, CallsIn
  <2>2. /\ mode'[o] = "prepared" /\ held'[o] = HoldOf(rec') /\ call'[o].op = "none"
        /\ \A q \in Owners \ {o} : Kept(q)
    BY <1>2, <2>1 DEF TypeOK, Moved, Holds, Kept
  <2> QED BY <1>2, <2>2 DEF OwnerStep, Prepares
<1>3. ASSUME NEW o \in Owners, NEW op, NEW rev, NEW p, NEW b, Called(o, op, rev, p, b),
             UNCHANGED <<rec, clock, held, cancelled, beat, taskBeat>>,
             \/ UNCHANGED mode /\ op \in CallsIn(mode[o])
             \/ mode[o] = "idle" /\ Moved(o, "resuming") /\ op = "resume",
             call[o].op \in {"none", op},
             op \in Writes => rev \in {held[o].rev, rec.revision},
             op = "renew" => ~cancelled[o]
      PROVE  OwnerStep(o)
  <2>1. /\ call'[o].op = op /\ call'[o].rev = rev
        /\ \A q \in Owners \ {o} : call'[q] = call[q]
    BY <1>3, CalledIs
  <2>2. /\ mode'[o] = mode[o] \/ (mode[o] = "idle" /\ mode'[o] = "resuming")
        /\ op \in CallsIn(mode'[o])
        /\ \A q \in Owners \ {o} : mode'[q] = mode[q]
    BY <1>3 DEF TypeOK, Moved, CallsIn
  <2> QED BY <1>3, <2>1, <2>2 DEF OwnerStep, Begins, Kept
<1>4. ASSUME NEW o \in Owners, NEW p \in Prompts, BeginResume(o, p) PROVE OwnerStep(o)
  <2>1. CASE PromptInProgress(p)
    BY <1>2, <1>4, <2>1 DEF BeginResume, worker, heart
  <2>2. CASE ~PromptInProgress(p)
    <3>1. "resume" \notin Writes
      BY DEF Writes
    <3>2. call[o].op = "none"
      BY <1>4 DEF BeginResume, CallsFit, CallsIn
    <3> QED BY <1>3, <1>4, <2>2, <3>1, <3>2 DEF BeginResume, worker, heart
  <2> QED BY <2>1, <2>2
<1>5. ASSUME NEW o \in Owners, BeginAcquire(o) PROVE OwnerStep(o)
  <2>1. mode[o] = "prepared" /\ call[o].op = "none" /\ UNCHANGED <<rec, clock>>
    BY <1>5 DEF BeginAcquire
  <2>2. CASE /\ Called(o, "acquire", held[o].rev, NoPrompt, call[o].retried)
             /\ UNCHANGED <<mode, held, worker>>
    BY <1>3, <2>1, <2>2 DEF worker, heart, CallsIn, Writes
  <2>3. CASE PreparedIdentity(o) /\ ExistingOwnerLease(o) /\ StartWorker(o, rec)
    BY <2>1, <2>3, StartIs DEF OwnerStep, Starts, PreparedIdentity, ExistingOwnerLease
  <2>4. CASE AcquireErr(o)
    BY <2>1, <2>4, AcquireErrIs DEF OwnerStep
  <2> QED BY <1>5, <2>2, <2>3, <2>4 DEF BeginAcquire
<1>6. ASSUME NEW o \in Owners, BeginAbandon(o) PROVE OwnerStep(o)
  <2>1. /\ mode[o] = "prepared" /\ call[o] = NoCall
        /\ Called(o, "abandon", held[o].rev, NoPrompt, FALSE)
        /\ UNCHANGED <<rec, clock, mode, held, cancelled, beat, taskBeat>>
    BY <1>6 DEF BeginAbandon, worker, heart
  <2>2. call[o].op = "none"
    BY <2>1 DEF NoCall
  <2> QED BY <1>3, <2>1, <2>2 DEF CallsIn, Writes
<1>7. ASSUME NEW o \in Owners, NEW b, BeginBoundary(o, b) PROVE OwnerStep(o)
  BY <1>3, <1>7 DEF BeginBoundary, heart, CallsIn
<1>8. ASSUME NEW o \in Owners, BeginCheckpoint(o) PROVE OwnerStep(o)
  BY <1>3, <1>8 DEF BeginCheckpoint, worker, heart, CallsIn
<1>9. ASSUME NEW o \in Owners, BeginRenew(o) PROVE OwnerStep(o)
  <2>1. ~cancelled[o]
    BY <1>9 DEF BeginRenew
  <2> QED BY <1>3, <1>9, <2>1 DEF BeginRenew, CallsIn
<1>10. ASSUME NEW o \in Owners, NEW b, RunTool(o, b) PROVE OwnerStep(o)
  BY <1>10 DEF RunTool, heart, OwnerStep, Runs, Kept
<1>11. ASSUME NEW o \in Owners, NEW t, EndRun(o, t) PROVE OwnerStep(o)
  <2>1. /\ mode[o] = "running" /\ call[o].op = "none" /\ Moved(o, "stopping")
        /\ UNCHANGED <<rec, clock, held, call, cancelled, beat, taskBeat>>
    BY <1>11 DEF EndRun, heart
  <2>2. mode'[o] = "stopping" /\ \A q \in Owners \ {o} : mode'[q] = mode[q]
    BY <2>1 DEF TypeOK, Moved
  <2> QED BY <2>1, <2>2 DEF OwnerStep, Runs, Kept
<1>12. ASSUME NEW o \in Owners, BeginTerminal(o) PROVE OwnerStep(o)
  <2>1. CASE AlreadySettled(o)
    BY <1>12, <2>1, GoneIs DEF BeginTerminal, OwnerStep, Leaves
  <2>2. CASE ~AlreadySettled(o)
    BY <1>3, <1>12, <2>2 DEF BeginTerminal, worker, heart, CallsIn
  <2> QED BY <2>1, <2>2
<1>13. ASSUME NEW o \in Owners, FinishResume(o) PROVE OwnerStep(o)
  <2> DEFINE new == ResumedAs(rec, rec.attempt + 1, call[o].prompt, call[o].at)
  <2>1. CASE ResumeAdmitted(o) /\ Accepts(rec, new)
    <3>1. /\ rec' = Stamped(new) /\ Moved(o, "prepared") /\ Holds(o, Stamped(new))
          /\ Returned(o) /\ UNCHANGED <<clock, cancelled, beat, taskBeat>>
          /\ call[o].op = "resume"
      BY <1>13, <2>1 DEF FinishResume, worker, heart
    <3>2. ResumeStep(o)
      BY <2>1, <3>1 DEF ResumeStep
    <3> HIDE DEF new
    <3>3. /\ mode'[o] = "prepared" /\ held'[o] = HoldOf(rec') /\ call'[o].op = "none"
          /\ \A q \in Owners \ {o} : Kept(q)
      BY <3>1 DEF TypeOK, Moved, Holds, Returned, NoCall, Kept
    <3>4. mode[o] = "resuming"
      BY <3>1 DEF CallsFit, CallsIn
    <3> QED BY <3>1, <3>2, <3>3, <3>4 DEF OwnerStep, Prepares
  <2>2. CASE ~(ResumeAdmitted(o) /\ Accepts(rec, new))
    BY <1>13, <2>2, GoneIs DEF FinishResume, OwnerStep, Leaves
  <2> QED BY <2>1, <2>2
<1>14. ASSUME NEW o \in Owners, FinishAcquire(o) PROVE OwnerStep(o)
  <2>1. clock' = clock /\ call[o].op = "acquire"
    BY <1>14 DEF FinishAcquire
  <2>2. mode[o] = "prepared"
    BY <2>1 DEF CallsFit, CallsIn, TypeOK, Modes
  <2>3. CASE rec' = rec /\ AcquireErr(o)
    BY <2>1, <2>2, <2>3, AcquireErrIs DEF OwnerStep
  <2>4. CASE AcquireStep(o) /\ AcquireErr(o)
    BY <2>1, <2>2, <2>4, AcquireErrIs DEF OwnerStep
  <2>5. CASE AcquireStep(o) /\ PreparedIdentity(o) /\ StartWorker(o, rec')
    <3>1. rec'.owner = o /\ rec'.attempt = rec.attempt
      BY <1>t, <2>5, AcquireFields
    <3>2. held[o].attempt = rec'.attempt
      BY <2>5, <3>1 DEF PreparedIdentity
    <3> QED BY <2>1, <2>2, <2>5, <3>1, <3>2, StartIs DEF OwnerStep, Starts
  <2> QED BY <1>14, <2>3, <2>4, <2>5 DEF FinishAcquire, AcquireStep
<1>15. ASSUME NEW o \in Owners, FinishAbandon(o) PROVE OwnerStep(o)
  <2>1. Gone(o) /\ clock' = clock
    BY <1>15 DEF FinishAbandon
  <2>2. rec' = rec \/ AbandonStep(o)
    BY <1>15 DEF FinishAbandon, AbandonStep
  <2> QED BY <2>1, <2>2, GoneIs DEF OwnerStep, Leaves
<1>16. ASSUME NEW o \in Owners, CommitWrite(o) PROVE OwnerStep(o)
  <2>1. WriteStep(o) /\ clock' = clock /\ call[o].op \in Writes
    BY <1>16 DEF CommitWrite, WriteStep
  <2>2. CASE WriteOk(o, rec')
    BY <2>1, <2>2, WriteOkIs DEF OwnerStep
  <2>3. CASE WriteErr(o, TRUE) /\ (call[o].op = "renew" => o \in masked')
    BY <2>1, <2>3, WriteErrIs DEF OwnerStep
  <2> QED BY <1>16, <2>2, <2>3 DEF CommitWrite
<1>17. ASSUME NEW o \in Owners, RefuseWrite(o) PROVE OwnerStep(o)
  <2>1. /\ call[o].op \in Writes /\ UNCHANGED <<rec, clock>> /\ WriteErr(o, FALSE)
        /\ ~(WriteAdmitted(o) /\ Accepts(rec, Written(o)))
    BY <1>17 DEF RefuseWrite
  <2>2. ~WriteAdmitted(o)
    BY <2>1, WrittenGood
  <2> QED BY <2>1, <2>2, WriteErrIs DEF OwnerStep
<1>18. ASSUME NEW o \in Owners, ConflictWrite(o) PROVE OwnerStep(o)
  <2>1. call[o].op \in Writes /\ UNCHANGED <<rec, clock>> /\ rec.revision # call[o].rev
    BY <1>18 DEF ConflictWrite
  <2>2. CASE WriteErr(o, FALSE)
    BY <2>1, <2>2, WriteErrIs DEF OwnerStep
  <2>3. CASE /\ Called(o, call[o].op, rec.revision, NoPrompt, TRUE)
             /\ UNCHANGED <<mode, held, worker>> /\ call[o].op # "renew"
    BY <1>3, <2>1, <2>3 DEF worker, heart, CallsFit
  <2> QED BY <1>18, <2>2, <2>3 DEF ConflictWrite
<1>19. ASSUME NEW o \in Owners, FailWrite(o) PROVE OwnerStep(o)
  BY <1>19, WriteErrIs DEF FailWrite, OwnerStep
<1>20. ASSUME NEW o \in Owners, Crash(o) PROVE OwnerStep(o)
  BY <1>20, GoneIs DEF Crash, OwnerStep, Leaves
<1>21. ASSUME Tick \/ BeginReconcile \/ UNCHANGED vars PROVE StoreOnly
  <2>1. /\ UNCHANGED <<rec, mode, held, call, tool, ran, beat, taskBeat>>
        /\ clock' \in {clock, clock + 1}
    BY <1>21 DEF Tick, BeginReconcile, vars, worker, heart
  <2>2. UNCHANGED <<cancelled, exposed>>
    BY <1>21, Zenon DEF Tick, BeginReconcile, vars, worker
  <2>3. exposed' = exposed /\ \A q \in Owners : cancelled'[q] = cancelled[q]
    BY <2>2, Zenon
  <2>4. \A q \in Owners : Kept(q)
    BY <2>1, <2>3 DEF Kept
  <2> QED BY <2>1, <2>3, <2>4 DEF StoreOnly
<1>22. ASSUME FinishReconcile PROVE StoreOnly
  <2>1. /\ UNCHANGED <<mode, held, call, tool, ran, beat, taskBeat>>
        /\ clock' \in {clock, clock + 1} /\ (rec' = rec \/ ReconcileStep)
    BY <1>22 DEF FinishReconcile, worker, heart, ReconcileStep
  <2>2. UNCHANGED <<cancelled, exposed>>
    BY <1>22, Zenon DEF FinishReconcile, worker
  <2>3. exposed' = exposed /\ \A q \in Owners : cancelled'[q] = cancelled[q]
    BY <2>2, Zenon
  <2>4. \A q \in Owners : Kept(q)
    BY <2>1, <2>3 DEF Kept
  <2> QED BY <2>1, <2>3, <2>4 DEF StoreOnly
<1>t1. ASSUME NEW o \in Owners, TaskStep(o) PROVE OwnerStep(o)
  <2>1. UNCHANGED <<rec, clock, mode, held, call, beat>>
    BY <1>t1, TaskStepKeeps
  <2>2. ASSUME NEW q \in Owners \ {o}
        PROVE  cancelled'[q] = cancelled[q] /\ taskBeat'[q] = taskBeat[q]
    <3>1. CASE AcquireTask(o) \/ FenceTask(o)
      BY <3>1 DEF AcquireTask, FenceTask, worker, heart
    <3>2. CASE RenewTask(o)
      BY <3>2 DEF RenewTask, TypeOK
    <3>3. ASSUME NEW b, TaskBeatFails(o, b)
          PROVE  cancelled'[q] = cancelled[q] /\ taskBeat'[q] = taskBeat[q]
      BY <3>3 DEF TaskBeatFails, heart, TypeOK
    <3> QED BY <1>t1, <3>1, <3>2, <3>3 DEF TaskStep, BeatTask, RefuseTask, FailTask
  <2>3. \A q \in Owners \ {o} : Kept(q)
    BY <2>1, <2>2 DEF Kept
  <2>4. Runs(o)
    BY <1>t1, <2>1 DEF Runs
  <2> QED BY <2>1, <2>3, <2>4 DEF OwnerStep
<1>23. ASSUME NEW o \in Owners, Prepare(o) \/ Run(o) PROVE OwnerStep(o)
  <2>1. ASSUME LoadPrepared(o) PROVE OwnerStep(o)
    BY <1>2, <2>1 DEF LoadPrepared, worker, heart
  <2> QED BY <1>1, <1>4, <1>t1, <1>5, <1>6, <1>7, <1>8, <1>10, <1>11, <1>23, <2>1 DEF Prepare, Run, TaskStep
<1>24. ASSUME NEW o \in Owners, FinishCall(o) PROVE OwnerStep(o)
  BY <1>13, <1>14, <1>15, <1>16, <1>17, <1>18, <1>24 DEF FinishCall
<1>25. ASSUME NEW o \in Owners, StepOf(o) PROVE OwnerStep(o)
  BY <1>9, <1>12, <1>19, <1>20, <1>t1, <1>23, <1>24, <1>25 DEF StepOf, TaskStep
<1>26. [Next]_vars => StoreOnly \/ \E o \in Owners : StepOf(o)
  BY <1>21, <1>22 DEF Next, StepOf
<1> QED BY <1>25, <1>26

LEMMA OwnerSteps ==
    ASSUME TypeOK, StoreInv, CallsFit, [Next]_vars
    PROVE  StoreOnly \/ \E o \in Owners : OwnerStep(o)
  BY OwnerActs
-----------------------------------------------------------------------------
(* What launches hold.                                                     *)

LEMMA CallsFitStep ==
    ASSUME TypeOK, StoreInv, CallsFit, [Next]_vars
    PROVE  CallsFit'
<1>1. \A m : "none" \in CallsIn(m)
  BY DEF CallsIn
<1>2. NoCall.op = "none"
  BY DEF NoCall
<1>3. CASE StoreOnly
  BY <1>3 DEF StoreOnly, Kept, CallsFit
<1>4. ASSUME NEW o \in Owners, OwnerStep(o) PROVE CallsFit'
  <2>1. \A q \in Owners \ {o} : call'[q].op \in CallsIn(mode'[q])
    BY <1>4 DEF OwnerStep, Kept, CallsFit
  <2>2. call'[o].op \in CallsIn(mode'[o])
    BY <1>1, <1>2, <1>4 DEF OwnerStep, Leaves, Prepares, Begins, Starts, AcquireFails, Wrote,
       WriteFails, BeatFails, Runs, CallsFit
  <2> QED BY <2>1, <2>2 DEF CallsFit
<1> QED BY <1>3, <1>4, OwnerSteps

(* The calls in flight tell where the launch is.                           *)
LEMMA WritesRun ==
    ASSUME CallsFit, NEW o \in Owners
    PROVE  /\ call[o].op \in {"checkpoint", "boundary"} => mode[o] = "running"
           /\ call[o].op \in Writes => Executing(o)
  BY DEF CallsFit, CallsIn, Writes, Executing

(* Attempts and epochs are never taken back.                               *)
LEMMA RecordGrows ==
    ASSUME TypeOK, StoreInv, [Next]_vars
    PROVE  /\ rec'.attempt \in Nat /\ rec'.epoch \in Nat
           /\ rec'.attempt >= rec.attempt /\ rec'.epoch >= rec.epoch
<1>t. rec \in Records /\ rec.attempt \in Nat /\ rec.epoch \in Nat
  BY DEF TypeOK, Records
<1>1. CASE rec' = rec
  BY <1>t, <1>1
<1>2. CASE CreateStep
  BY <1>2, CreateFields
<1>3. ASSUME NEW o \in Owners, ResumeStep(o)
      PROVE  rec'.attempt = rec.attempt + 1 /\ rec'.epoch = rec.epoch
  BY <1>t, <1>3, ResumeFields
<1>4. ASSUME NEW o \in Owners, AcquireStep(o)
      PROVE  rec'.attempt = rec.attempt /\ rec'.epoch = rec.epoch + 1
  BY <1>t, <1>4, AcquireFields
<1>5. ASSUME NEW o \in Owners, AbandonStep(o) \/ WriteStep(o)
      PROVE  rec'.attempt = rec.attempt /\ rec'.epoch = rec.epoch
  BY <1>t, <1>5, AbandonFields, WriteFields
<1>6. CASE ReconcileStep
  BY <1>t, <1>6, ReconcileFields
<1> QED BY <1>t, <1>1, <1>2, <1>3, <1>4, <1>5, <1>6, RecordSteps DEF RecordStep

LEMMA HandlesStep ==
    ASSUME TypeOK, StoreInv, CallsFit, HandlesPast, [Next]_vars
    PROVE  HandlesPast'
<1>t. /\ rec.attempt \in Nat /\ rec.epoch \in Nat
      /\ \A o \in Owners : held[o].attempt \in Nat /\ held[o].epoch \in Nat
  BY DEF TypeOK, Records, Handles
<1>g. /\ rec'.attempt \in Nat /\ rec'.epoch \in Nat
      /\ rec'.attempt >= rec.attempt /\ rec'.epoch >= rec.epoch
  BY RecordGrows
<1>1. ASSUME NEW q \in Owners,
             held'[q].attempt = held[q].attempt \/ held'[q].attempt = rec'.attempt
                \/ held'[q].attempt = 0,
             held'[q].epoch = held[q].epoch \/ held'[q].epoch = rec'.epoch
                \/ held'[q].epoch = 0
      PROVE  held'[q].attempt <= rec'.attempt /\ held'[q].epoch <= rec'.epoch
  BY <1>t, <1>g, <1>1 DEF HandlesPast
<1>2. ASSUME NEW q \in Owners, Kept(q)
      PROVE  held'[q].attempt <= rec'.attempt /\ held'[q].epoch <= rec'.epoch
  BY <1>1, <1>2 DEF Kept
<1>3. ASSUME NEW o \in Owners, OwnerStep(o)
      PROVE  held'[o].attempt <= rec'.attempt /\ held'[o].epoch <= rec'.epoch
  BY <1>1, <1>3 DEF OwnerStep, Leaves, Prepares, Begins, Starts, AcquireFails, Wrote,
     WriteFails, BeatFails, Runs, NoHold, HoldOf
<1>4. CASE StoreOnly
  BY <1>2, <1>4 DEF StoreOnly, HandlesPast
<1>5. ASSUME NEW o \in Owners, OwnerStep(o) PROVE HandlesPast'
  BY <1>2, <1>3, <1>5 DEF OwnerStep, HandlesPast
<1> QED BY <1>4, <1>5, OwnerSteps

-----------------------------------------------------------------------------
(* One worker per attempt.                                                 *)

(* An owned record is a running one.                                       *)
LEMMA OwnedStep ==
    ASSUME TypeOK, StoreInv, [Next]_vars, rec.owner # NoOwner => rec.state = "Running",
           rec'.owner # NoOwner
    PROVE  rec'.state = "Running"
<1>t. rec \in Records
  BY DEF TypeOK
<1>1. CASE rec' = rec
  BY <1>1
<1>2. CASE CreateStep \/ ReconcileStep
  BY <1>t, <1>2, CreateFields, ReconcileFields
<1>3. ASSUME NEW o \in Owners, ResumeStep(o) \/ AcquireStep(o) \/ AbandonStep(o) \/ WriteStep(o)
      PROVE  rec'.state = "Running"
  BY <1>t, <1>3, ResumeFields, AcquireFields, AbandonFields, WriteFields
<1> QED BY <1>1, <1>2, <1>3, RecordSteps DEF RecordStep

(* Who executes after a step did so before under the same fence, or starts.*)
LEMMA ExecutesOn ==
    ASSUME CallsFit, NEW q \in Owners, Executing(q)', ~Starts(q),
           Kept(q) \/ OwnerStep(q)
    PROVE  /\ Executing(q) /\ held'[q].attempt = held[q].attempt
           /\ held'[q].epoch = held[q].epoch
<1>1. CASE Kept(q)
  BY <1>1 DEF Kept, Executing
<1>2. CASE OwnerStep(q)
  <2>1. ~Leaves(q) /\ ~Prepares(q) /\ ~AcquireFails(q)
    BY DEF Executing, Leaves, Prepares, AcquireFails
  <2>2. CASE Begins(q) \/ Wrote(q) \/ BeatFails(q) \/ Runs(q)
    BY <2>2 DEF Executing, Begins, Wrote, BeatFails, Runs
  <2>3. CASE WriteFails(q)
    BY <2>3, WritesRun DEF Executing, WriteFails
  <2> QED BY <1>2, <2>1, <2>2, <2>3 DEF OwnerStep
<1> QED BY <1>1, <1>2

(* What a change of the record does to those who execute.                  *)
LEMMA FenceMoves ==
    ASSUME TypeOK, StoreInv, HandlesPast, GrantInv, [Next]_vars, NEW q \in Owners, Executing(q)
    PROVE  /\ rec'.state = "Prepared" => held[q].attempt # rec'.attempt
           /\ rec'.owner \notin {q, NoOwner} => /\ held[q].attempt # rec'.attempt
                                                /\ held[q].epoch # rec'.epoch
<1>t. /\ rec \in Records /\ rec.attempt \in Nat /\ rec.epoch \in Nat
      /\ held[q].attempt \in Nat /\ held[q].epoch \in Nat
      /\ held[q].attempt <= rec.attempt /\ held[q].epoch <= rec.epoch
  BY DEF TypeOK, Records, Handles, HandlesPast
<1>g. /\ rec.state = "Prepared" => held[q].attempt # rec.attempt
      /\ rec.owner \notin {q, NoOwner} => /\ held[q].attempt # rec.attempt
                                          /\ held[q].epoch # rec.epoch
  BY DEF GrantInv
<1>1. CASE rec' = rec
  BY <1>1, <1>g
<1>2. CASE CreateStep
  BY <1>2, CreateFields DEF StoreInv, CallInv, CallOK, Executing
<1>3. ASSUME NEW o \in Owners, ResumeStep(o)
      PROVE  held[q].attempt # rec'.attempt /\ rec'.owner = NoOwner
  <2>1. rec'.attempt = rec.attempt + 1 /\ rec'.owner = NoOwner
    BY <1>t, <1>3, ResumeFields
  <2> QED BY <1>t, <2>1
<1>4. ASSUME NEW o \in Owners, AcquireStep(o)
      PROVE  /\ held[q].attempt # rec'.attempt /\ held[q].epoch # rec'.epoch
  <2>1. rec'.attempt = rec.attempt /\ rec'.epoch = rec.epoch + 1 /\ rec.state = "Prepared"
    BY <1>t, <1>4, AcquireFields
  <2> QED BY <1>t, <1>g, <2>1
<1>5. ASSUME NEW o \in Owners, AbandonStep(o)
      PROVE  rec'.state # "Prepared" /\ rec'.owner = NoOwner
  BY <1>t, <1>5, AbandonFields
<1>6. ASSUME NEW o \in Owners, WriteStep(o)
      PROVE  /\ rec'.state # "Prepared" /\ rec'.owner \in {rec.owner, NoOwner}
             /\ rec'.attempt = rec.attempt /\ rec'.epoch = rec.epoch
  BY <1>6, WriteFields
<1>7. CASE ReconcileStep
  BY <1>t, <1>7, ReconcileFields
<1> QED BY <1>g, <1>1, <1>2, <1>3, <1>4, <1>5, <1>6, <1>7, RecordSteps DEF RecordStep

LEMMA GrantStep ==
    ASSUME TypeOK, StoreInv, CallsFit, HandlesPast, GrantInv, [Next]_vars
    PROVE  GrantInv'
<1>t. rec \in Records
  BY DEF TypeOK
<1>o. rec'.owner # NoOwner => rec'.state = "Running"
  BY OwnedStep DEF GrantInv
<1>1. CASE \A q \in Owners : Executing(q)' => /\ Executing(q)
                                              /\ held'[q].attempt = held[q].attempt
                                              /\ held'[q].epoch = held[q].epoch
  <2>1. \A q \in Owners : Executing(q)' =>
           /\ rec'.state = "Prepared" => held'[q].attempt # rec'.attempt
           /\ rec'.owner \notin {q, NoOwner} => /\ held'[q].attempt # rec'.attempt
                                                /\ held'[q].epoch # rec'.epoch
    BY <1>1, FenceMoves
  <2>2. AttemptExecutedOnce'
    BY <1>1 DEF GrantInv, AttemptExecutedOnce, Executing
  <2> QED BY <1>o, <2>1, <2>2 DEF GrantInv
<1>2. ASSUME NEW o \in Owners, OwnerStep(o), Starts(o) PROVE GrantInv'
  <2>1. /\ rec'.owner = o /\ held'[o].attempt = rec'.attempt /\ held'[o].epoch = rec'.epoch
    BY <1>2 DEF Starts
  <2>2. rec'.state = "Running"
    BY <1>o, <2>1, OwnersAssumption
  <2>3. ASSUME NEW q \in Owners, q # o, Executing(q)'
        PROVE  /\ Executing(q) /\ held'[q].attempt = held[q].attempt
               /\ held'[q].epoch = held[q].epoch
               /\ held'[q].attempt # rec'.attempt /\ held'[q].epoch # rec'.epoch
    <3>1. Executing(q) /\ held'[q] = held[q]
      BY <1>2, <2>3 DEF OwnerStep, Kept, Executing
    <3> QED BY <2>1, <2>3, <3>1, FenceMoves, OwnersAssumption
  <2>4. \A q \in Owners : Executing(q)' =>
           /\ rec'.state = "Prepared" => held'[q].attempt # rec'.attempt
           /\ rec'.owner \notin {q, NoOwner} => /\ held'[q].attempt # rec'.attempt
                                                /\ held'[q].epoch # rec'.epoch
    BY <2>1, <2>2, <2>3
  <2>5. AttemptExecutedOnce'
    <3> SUFFICES ASSUME NEW a \in Owners, NEW b \in Owners, Executing(a)', Executing(b)',
                        held'[a].attempt = held'[b].attempt \/ held'[a].epoch = held'[b].epoch
                 PROVE  a = b
      BY DEF AttemptExecutedOnce, Executing
    <3>1. CASE a # o /\ b # o
      BY <2>3, <3>1 DEF GrantInv, AttemptExecutedOnce, Executing
    <3>2. CASE a = o \/ b = o
      BY <2>1, <2>3, <3>2
    <3> QED BY <3>1, <3>2
  <2> QED BY <1>o, <2>4, <2>5 DEF GrantInv
<1>3. CASE StoreOnly
  BY <1>1, <1>3 DEF StoreOnly, Kept, Executing
<1>4. ASSUME NEW o \in Owners, OwnerStep(o), ~Starts(o) PROVE GrantInv'
  <2>1. \A q \in Owners : Kept(q) \/ (q = o /\ OwnerStep(q))
    BY <1>4 DEF OwnerStep
  <2>2. ASSUME NEW q \in Owners, Executing(q)'
        PROVE  /\ Executing(q) /\ held'[q].attempt = held[q].attempt
               /\ held'[q].epoch = held[q].epoch
    <3>1. CASE Kept(q)
      BY <2>2, <3>1 DEF Kept, Executing
    <3>2. CASE ~Kept(q)
      BY <1>4, <2>1, <2>2, <3>2, ExecutesOn
    <3> QED BY <3>1, <3>2
  <2> QED BY <1>1, <2>2
<1> QED BY <1>2, <1>3, <1>4, OwnerSteps
-----------------------------------------------------------------------------
(* No checkpoint is lost.                                                  *)

(* A launch that neither prepares nor writes a checkpoint.                 *)
LEMMA ConversationKept ==
    ASSUME TypeOK, StoreInv, HandlesPast, ConversationInv, [Next]_vars, NEW q \in Owners,
           mode[q] \in {"prepared", "running"},
           held'[q].attempt = held[q].attempt, held'[q].prev = held[q].prev,
           ~(WriteStep(q) /\ call[q].op = "checkpoint"),
           held'[q].attempt = rec'.attempt, rec'.state = "Prepared" \/ rec'.owner = q
    PROVE  held'[q].prev = rec'.ckpt.attempt
<1>t. /\ rec \in Records /\ rec.attempt \in Nat
      /\ held[q].attempt \in Nat /\ held[q].attempt <= rec.attempt /\ q # NoOwner
  BY OwnersAssumption DEF TypeOK, Records, Handles, HandlesPast
<1>c. /\ held[q].attempt = rec.attempt
      /\ rec.state = "Prepared" \/ rec.owner = q
      => held[q].prev = rec.ckpt.attempt
  BY DEF ConversationInv
<1>1. CASE rec' = rec
  BY <1>1, <1>c
<1>2. CASE CreateStep
  BY <1>2, CreateFields DEF StoreInv, CallInv, CallOK
<1>3. ASSUME NEW o \in Owners, ResumeStep(o) PROVE FALSE
  <2>1. rec'.attempt = rec.attempt + 1
    BY <1>t, <1>3, ResumeFields
  <2> QED BY <1>t, <2>1
<1>4. ASSUME NEW o \in Owners, AcquireStep(o) PROVE held'[q].prev = rec'.ckpt.attempt
  BY <1>t, <1>c, <1>4, AcquireFields
<1>5. ASSUME NEW o \in Owners, AbandonStep(o) PROVE FALSE
  BY <1>t, <1>5, AbandonFields
<1>6. ASSUME NEW o \in Owners, WriteStep(o) PROVE held'[q].prev = rec'.ckpt.attempt
  <2>1. o = q /\ rec.owner = q /\ rec'.attempt = rec.attempt
    BY <1>t, <1>6, WriteFields
  <2>2. rec'.ckpt = rec.ckpt
    BY <1>6, <2>1, WriteFields
  <2> QED BY <1>c, <2>1, <2>2
<1>7. CASE ReconcileStep
  BY <1>t, <1>7, ReconcileFields
<1> QED BY <1>1, <1>2, <1>3, <1>4, <1>5, <1>6, <1>7, RecordSteps DEF RecordStep

LEMMA ConversationStep ==
    ASSUME TypeOK, StoreInv, CallsFit, HandlesPast, ConversationInv, [Next]_vars
    PROVE  ConversationInv'
<1> SUFFICES ASSUME NEW q \in Owners, mode'[q] \in {"prepared", "running"},
                    held'[q].attempt = rec'.attempt,
                    rec'.state = "Prepared" \/ rec'.owner = q
             PROVE  held'[q].prev = rec'.ckpt.attempt
  BY DEF ConversationInv
<1>t. rec \in Records /\ q # NoOwner
  BY OwnersAssumption DEF TypeOK
<1>1. CASE Kept(q) /\ (StoreOnly \/ \E o \in Owners \ {q} : OwnerStep(o))
  <2>1. ~(WriteStep(q) /\ call[q].op = "checkpoint")
    <3> SUFFICES ASSUME WriteStep(q), call[q].op = "checkpoint" PROVE FALSE
      OBVIOUS
    <3>1. /\ rec.owner = q /\ rec.state = "Running" /\ rec'.owner = q
          /\ rec'.ckpt = PendingCheckpoint(q) /\ rec'.ckpt.seq = rec.ckpt.seq + 1
      BY WriteFields
    <3>2. rec' # rec
      BY <1>t, <3>1 DEF Records, Checkpoints
    <3>3. CASE StoreOnly
      BY <1>t, <3>1, <3>2, <3>3, ReconcileFields DEF StoreOnly
    <3>4. ASSUME NEW o \in Owners \ {q}, OwnerStep(o) PROVE FALSE
      <4>1. \/ CreateStep \/ ResumeStep(o) \/ AbandonStep(o) \/ AcquireStep(o) \/ WriteStep(o)
        BY <3>2, <3>4 DEF OwnerStep, Leaves, Prepares, Begins, Starts, AcquireFails, Wrote,
           WriteFails, BeatFails, Runs
      <4> QED BY <1>t, <3>1, <4>1, CreateFields, ResumeFields, AbandonFields, AcquireFields,
             WriteFields
    <3> QED BY <1>1, <3>3, <3>4
  <2> QED BY <1>1, <2>1, ConversationKept DEF Kept
<1>2. CASE OwnerStep(q)
  <2>1. ~Leaves(q) /\ ~WriteFails(q)
    BY DEF Leaves, WriteFails
  <2>2. CASE Prepares(q)
    BY <2>2 DEF Prepares, HoldOf
  <2>3. CASE Begins(q) \/ Starts(q) \/ AcquireFails(q) \/ Runs(q)
    <3>1. /\ mode[q] \in {"prepared", "running"}
          /\ held'[q].attempt = held[q].attempt /\ held'[q].prev = held[q].prev
      BY <2>3 DEF Begins, Starts, AcquireFails, Runs
    <3>2. rec' = rec \/ AcquireStep(q)
      BY <2>3 DEF Begins, Starts, AcquireFails, Runs
    <3>3. ~(WriteStep(q) /\ call[q].op = "checkpoint")
      <4> SUFFICES ASSUME WriteStep(q), call[q].op = "checkpoint" PROVE FALSE
        OBVIOUS
      <4>1. /\ rec.state = "Running" /\ rec'.ckpt.seq = rec.ckpt.seq + 1
        BY WriteFields
      <4>2. rec' # rec
        BY <1>t, <4>1 DEF Records, Checkpoints
      <4> QED BY <1>t, <3>2, <4>1, <4>2, AcquireFields
    <3> QED BY <3>1, <3>3, ConversationKept
  <2>4. CASE Wrote(q)
    <3>1. mode[q] = "running"
      BY <2>4, WritesRun DEF Wrote, WriteStep, Executing
    <3>2. CASE call[q].op = "checkpoint"
      BY <2>4, <3>2 DEF Wrote
    <3>3. CASE call[q].op # "checkpoint"
      BY <2>4, <3>1, <3>3, ConversationKept DEF Wrote
    <3> QED BY <3>2, <3>3
  <2>5. CASE BeatFails(q)
    BY <2>5, ConversationKept DEF BeatFails
  <2> QED BY <1>2, <2>1, <2>2, <2>3, <2>4, <2>5 DEF OwnerStep
<1> QED BY <1>1, <1>2, OwnerSteps DEF OwnerStep, StoreOnly

-----------------------------------------------------------------------------

LEMMA OwnerInit == Init => OwnerInv
<1> SUFFICES ASSUME Init PROVE OwnerInv OBVIOUS
<1>1. CallsFit
  BY DEF Init, CallsFit, CallsIn, NoCall
<1>2. HandlesPast
  <2>1. /\ NoHold.attempt = 0 /\ NoHold.epoch = 0
        /\ NoRecord.attempt = 0 /\ NoRecord.epoch = 0
    BY DEF NoHold, NoRecord
  <2>2. rec = NoRecord /\ \A o \in Owners : held[o] = NoHold
    BY DEF Init
  <2> QED
    <3> SUFFICES ASSUME NEW o \in Owners
                 PROVE  held[o].attempt <= rec.attempt /\ held[o].epoch <= rec.epoch
      BY DEF HandlesPast
    <3>1. held[o].attempt = 0 /\ rec.attempt = 0 /\ held[o].epoch = 0 /\ rec.epoch = 0
      BY <2>1, <2>2, Zenon
    <3> QED BY <3>1
<1>3. GrantInv
  BY DEF Init, GrantInv, AttemptExecutedOnce, Executing, NoRecord
<1>4. ConversationInv
  BY DEF Init, ConversationInv
<1> QED BY <1>1, <1>2, <1>3, <1>4 DEF OwnerInv

(* OwnerInv: calls fit where a launch is, handles are not newer than the   *)
(* record, the current grant has one worker, and the launch that may write *)
(* has the conversation of the stored checkpoint.                          *)
THEOREM OwnersCorrect == Spec => []OwnerInv
<1>1. TypeOK /\ StoreInv /\ OwnerInv /\ [Next]_vars => OwnerInv'
  BY CallsFitStep, HandlesStep, GrantStep, ConversationStep DEF OwnerInv
<1>2. Spec => [](TypeOK /\ StoreInv)
  BY StoreCorrect
<1> QED BY <1>1, <1>2, OwnerInit, PTL DEF Spec

(* AttemptExecutedOnce: an attempt is executed by at most one worker, and  *)
(* each lease epoch is granted to one worker, however many launches        *)
(* prepare, retry and acquire it at once (acquire, lease_from_record).     *)
THEOREM AttemptsExecuteOnce == Spec => []AttemptExecutedOnce
<1>1. OwnerInv => AttemptExecutedOnce
  BY DEF OwnerInv, GrantInv
<1> QED BY <1>1, OwnersCorrect, PTL

(* A checkpoint extends the one it replaces.                               *)
LEMMA ChainStep ==
    TypeOK /\ StoreInv /\ OwnerInv /\ [Next]_vars =>
        [rec'.ckpt # rec.ckpt => /\ rec'.ckpt.seq = rec.ckpt.seq + 1
                                 /\ rec'.ckpt.prev = rec.ckpt.attempt]_vars
<1> SUFFICES ASSUME TypeOK, StoreInv, OwnerInv, [Next]_vars, rec'.ckpt # rec.ckpt
             PROVE  /\ rec'.ckpt.seq = rec.ckpt.seq + 1
                    /\ rec'.ckpt.prev = rec.ckpt.attempt
  OBVIOUS
<1>t. rec \in Records
  BY DEF TypeOK
<1>1. PICK o \in Owners : WriteStep(o) /\ call[o].op = "checkpoint"
  <2>1. ~CreateStep /\ ~ReconcileStep
    BY <1>t, CreateFields, ReconcileFields
  <2>2. \A o \in Owners : ~ResumeStep(o) /\ ~AcquireStep(o) /\ ~AbandonStep(o)
    BY <1>t, ResumeFields, AcquireFields, AbandonFields
  <2>3. PICK o \in Owners : WriteStep(o)
    BY <2>1, <2>2, RecordSteps DEF RecordStep
  <2> QED BY <2>3, WriteFields
<1>2. /\ rec.owner = o /\ held[o].attempt = rec.attempt
      /\ rec'.ckpt = PendingCheckpoint(o) /\ rec'.ckpt.seq = rec.ckpt.seq + 1
  BY <1>1, WriteFields
<1>3. mode[o] = "running"
  BY <1>1, WritesRun DEF OwnerInv
<1>4. held[o].prev = rec.ckpt.attempt
  BY <1>2, <1>3 DEF OwnerInv, ConversationInv
<1> QED BY <1>2, <1>4 DEF PendingCheckpoint

(* CheckpointsChain: no update of the conversation is lost: a checkpoint   *)
(* that replaces another was built by a worker whose conversation started  *)
(* from or wrote exactly that one, and has the next sequence number        *)
(* (commit_checkpoint, build_checkpoint_observer).                         *)
THEOREM CheckpointsExtend == Spec => CheckpointsChain
<1>1. Spec => [](TypeOK /\ StoreInv)
  BY StoreCorrect
<1> QED BY <1>1, OwnersCorrect, ChainStep, PTL DEF Spec, CheckpointsChain
-----------------------------------------------------------------------------
(* The heartbeat.                                                          *)

LEMMA RecordOf ==
    ASSUME NEW q \in Owners, OwnerStep(q), rec' # rec
    PROVE  \/ CreateStep \/ ResumeStep(q) \/ AcquireStep(q) \/ AbandonStep(q) \/ WriteStep(q)
  BY DEF OwnerStep, Leaves, Prepares, Begins, Starts, AcquireFails, Wrote, WriteFails,
     BeatFails, Runs

(* Only the launch itself makes itself the owner.                          *)
LEMMA OwnerBySelf ==
    ASSUME TypeOK, NEW o \in Owners, rec' # rec, rec'.owner = o
    PROVE  /\ ~CreateStep /\ ~ReconcileStep
           /\ \A q \in Owners : /\ ~ResumeStep(q) /\ ~AbandonStep(q)
                                /\ AcquireStep(q) \/ WriteStep(q) => q = o
<1>t. rec \in Records /\ o # NoOwner
  BY OwnersAssumption DEF TypeOK
<1>1. ~CreateStep /\ ~ReconcileStep
  BY <1>t, CreateFields, ReconcileFields
<1>2. ASSUME NEW q \in Owners
      PROVE  ~ResumeStep(q) /\ ~AbandonStep(q) /\ (AcquireStep(q) \/ WriteStep(q) => q = o)
  BY <1>t, ResumeFields, AbandonFields, AcquireFields, WriteFields
<1> QED BY <1>1, <1>2

(* Who was told of a failed renewal does not forget.                       *)
LEMMA MaskedGrows == ASSUME [Next]_vars PROVE masked \subseteq masked'
<1>1. ASSUME NEW o \in Owners, TaskStep(o) PROVE masked \subseteq masked'
  BY <1>1 DEF TaskStep, AcquireTask, BeatTask, RenewTask, RefuseTask, FailTask, FenceTask, leases
<1> QED BY <1>1, LeasesMove DEF leases

(* A task lease changes by an acquisition, a renewal, or a fence.          *)
LEMMA TaskMoves ==
    ASSUME TypeOK, [Next]_vars, NEW o \in Owners, task'[o] # task[o]
    PROVE  /\ clock' = clock /\ mode' = mode
           /\ \/ mode[o] = "prepared" /\ task'[o].until = clock + TaskLeaseDuration
              \/ /\ TaskStands(o) /\ ~cancelled[o] /\ task'[o].until = clock + TaskLeaseDuration
                 /\ taskBeat'[o] = clock \/ o \in masked'
              \/ task'[o].until = 0
<1>t. task \in [Owners -> Tasks] /\ taskBeat \in [Owners -> Nat]
  BY DEF TypeOK
<1>1. PICK q \in Owners : TaskStep(q)
  BY LeasesMove DEF leases
<1>2. clock' = clock /\ mode' = mode
  BY <1>1, TaskStepKeeps
<1>3. task' # task
  OBVIOUS
<1>4. CASE AcquireTask(q)
  <2>1. q = o
    BY <1>t, <1>4 DEF AcquireTask
  <2> QED BY <1>t, <1>2, <1>4, <2>1 DEF AcquireTask
<1>5. CASE RenewTask(q)
  <2>1. q = o
    BY <1>t, <1>5 DEF RenewTask, TaskRenewed
  <2>2. task'[o].until = clock + TaskLeaseDuration /\ taskBeat'[o] = clock
    BY <1>t, <1>5, <2>1 DEF RenewTask, TaskRenewed, Tasks
  <2> QED BY <1>2, <1>5, <2>1, <2>2 DEF RenewTask, BeatDue
<1>6. CASE FailTask(q)
  <2>1. /\ BeatDue(q) /\ TaskStands(q) /\ task' = TaskRenewed(q) /\ q \in masked'
    BY <1>3, <1>6 DEF FailTask, leases
  <2>2. q = o
    BY <1>t, <2>1 DEF TaskRenewed
  <2>3. task'[o].until = clock + TaskLeaseDuration
    BY <1>t, <2>1, <2>2 DEF TaskRenewed, Tasks
  <2> QED BY <1>2, <2>1, <2>2, <2>3 DEF BeatDue
<1>7. CASE FenceTask(q)
  <2>1. task' = [task EXCEPT ![q].until = 0]
    BY <1>7 DEF FenceTask
  <2>2. q = o
    BY <1>t, <2>1
  <2>3. task'[o].until = 0
    BY <1>t, <2>1, <2>2 DEF Tasks
  <2> QED BY <1>2, <2>3
<1>8. ~RefuseTask(q)
  BY <1>3 DEF RefuseTask, leases
<1> QED BY <1>1, <1>4, <1>5, <1>6, <1>7, <1>8 DEF TaskStep, BeatTask

(* A run that has lost its task lease does not get it back.                *)
LEMMA TaskLostStays ==
    ASSUME TypeOK, [Next]_vars, clock' \in {clock, clock + 1}, NEW o \in Owners,
           mode[o] = "running", ~TaskStands(o)
    PROVE  ~TaskStands(o)'
<1>t. task[o].until \in Nat /\ clock \in Nat
  BY DEF TypeOK, Tasks
<1>1. CASE task'[o] = task[o]
  BY <1>t, <1>1 DEF TaskStands
<1>2. CASE task'[o] # task[o]
  <2>1. task'[o].until = 0
    BY <1>2, TaskMoves
  <2> QED BY <1>t, <2>1 DEF TaskStands
<1> QED BY <1>1, <1>2

LEMMA RevisionStep ==
    ASSUME TypeOK, StoreInv, OwnerInv, RevisionKnown, [Next]_vars
    PROVE  RevisionKnown'
<1> SUFFICES ASSUME NEW o \in Owners, mode'[o] = "running", rec'.owner = o,
                    o \notin masked'
             PROVE  /\ held'[o].rev = rec'.revision
                    /\ call'[o].op \in Writes => call'[o].rev = rec'.revision
  BY DEF RevisionKnown
<1>n. NoCall.op \notin Writes
  BY DEF NoCall, Writes
<1>k. /\ mode[o] = "running" /\ rec.owner = o
      => /\ held[o].rev = rec.revision
         /\ call[o].op \in Writes => call[o].rev = rec.revision
  BY MaskedGrows DEF RevisionKnown
<1>1. ASSUME Kept(o), rec' = rec
      PROVE  /\ held'[o].rev = rec'.revision
             /\ call'[o].op \in Writes => call'[o].rev = rec'.revision
  BY <1>1, <1>k DEF Kept
<1>2. CASE StoreOnly
  BY <1>1, <1>2, OwnerBySelf DEF StoreOnly
<1>3. ASSUME NEW q \in Owners, OwnerStep(q), q # o
      PROVE  /\ held'[o].rev = rec'.revision
             /\ call'[o].op \in Writes => call'[o].rev = rec'.revision
  <2>1. Kept(o)
    BY <1>3 DEF OwnerStep
  <2>2. rec' = rec
    BY <1>3, RecordOf, OwnerBySelf
  <2> QED BY <1>1, <2>1, <2>2
<1>4. CASE OwnerStep(o)
  <2>1. ~Leaves(o) /\ ~Prepares(o) /\ ~AcquireFails(o) /\ ~WriteFails(o)
    BY DEF Leaves, Prepares, AcquireFails, WriteFails
  <2>2. CASE Begins(o)
    BY <1>k, <2>2 DEF Begins
  <2>3. CASE Starts(o)
    BY <1>n, <2>3 DEF Starts
  <2>4. CASE Wrote(o)
    BY <1>n, <2>4 DEF Wrote
  <2>5. CASE BeatFails(o)
    BY <1>k, <1>n, <2>5 DEF BeatFails
  <2>6. CASE Runs(o)
    BY <1>k, <2>6 DEF Runs
  <2> QED BY <1>4, <2>1, <2>2, <2>3, <2>4, <2>5, <2>6 DEF OwnerStep
<1> QED BY <1>2, <1>3, <1>4, OwnerSteps DEF OwnerInv

(* A step on the task lease cancels a run that is due for a beat: its lease
   is lost, or has not been renewed for its duration.                      *)
LEMMA TaskCancels ==
    ASSUME TypeOK, NEW o \in Owners, TaskStep(o), cancelled'[o] # cancelled[o]
    PROVE  /\ BeatDue(o)
           /\ ~TaskStands(o) \/ clock - taskBeat[o] >= TaskLeaseDuration
           /\ task' = task \/ o \in masked'
<1>1. ~AcquireTask(o) /\ ~FenceTask(o) /\ ~RenewTask(o)
  BY Zenon DEF AcquireTask, FenceTask, RenewTask, worker
<1>2. CASE RefuseTask(o)
  BY <1>2 DEF RefuseTask, leases
<1>3. CASE FailTask(o)
  <2> DEFINE ends == RenewalFailureEndsRun(TRUE, clock - taskBeat[o], TaskLeaseDuration)
  <2>1. BeatDue(o) /\ TaskBeatFails(o, TRUE) /\ (task' = task \/ o \in masked')
    BY <1>3 DEF FailTask, leases
  <2>2. cancelled' = [cancelled EXCEPT ![o] = cancelled[o] \/ ends]
    BY <2>1 DEF TaskBeatFails
  <2>3. ends <=> clock - taskBeat[o] >= TaskLeaseDuration
    BY DEF RenewalFailureEndsRun
  <2> HIDE DEF ends
  <2>4. ends
    BY <2>2 DEF TypeOK
  <2> QED BY <2>1, <2>3, <2>4
<1> QED BY <1>1, <1>2, <1>3 DEF TaskStep, BeatTask

LEMMA NoBeatStep ==
    ASSUME TypeOK, StoreInv, OwnerInv, NoBeatAfterCancel, [Next]_vars
    PROVE  NoBeatAfterCancel'
<1>n. NoCall.op = "none"
  BY DEF NoCall
<1>1. ASSUME NEW q \in Owners, Kept(q), cancelled'[q]
      PROVE  Executing(q)' /\ call'[q].op # "renew"
  BY <1>1 DEF Kept, NoBeatAfterCancel, Executing
<1>2. ASSUME NEW o \in Owners, OwnerStep(o), cancelled'[o]
      PROVE  Executing(o)' /\ call'[o].op # "renew"
  <2>1. ~Leaves(o)
    BY <1>2 DEF Leaves
  <2>2. CASE BeatFails(o)
    BY <1>n, <2>2, WritesRun DEF OwnerInv, BeatFails, Executing, Writes
  <2>3. CASE WriteFails(o)
    BY <1>n, <2>3 DEF WriteFails, Executing
  <2>4. ASSUME cancelled'[o] = cancelled[o] PROVE Executing(o) /\ call[o].op # "renew"
    BY <1>2, <2>4 DEF NoBeatAfterCancel
  <2>5. ~Prepares(o) /\ ~Starts(o) /\ ~AcquireFails(o)
    BY <2>4 DEF Prepares, Starts, AcquireFails, Executing
  <2>6. CASE Begins(o)
    BY <1>2, <2>4, <2>6 DEF Begins, Executing
  <2>7. CASE Wrote(o)
    BY <1>n, <2>4, <2>7 DEF Wrote, Executing
  <2>8. CASE Runs(o) /\ cancelled'[o] = cancelled[o]
    BY <2>4, <2>8 DEF Runs, Executing
  <2>9. CASE TaskStep(o) /\ cancelled'[o] # cancelled[o]
    <3>1. BeatDue(o) /\ mode' = mode /\ call' = call
      BY <2>9, TaskStepKeeps, TaskCancels
    <3> QED BY <3>1 DEF BeatDue, Executing
  <2> QED BY <1>2, <2>1, <2>2, <2>3, <2>5, <2>6, <2>7, <2>8, <2>9 DEF OwnerStep, Runs
<1>3. CASE StoreOnly
  BY <1>1, <1>3 DEF StoreOnly, NoBeatAfterCancel, Executing
<1>4. ASSUME NEW o \in Owners, OwnerStep(o) PROVE NoBeatAfterCancel'
  BY <1>1, <1>2, <1>4 DEF OwnerStep, NoBeatAfterCancel, Executing
<1> QED BY <1>3, <1>4, OwnerSteps DEF OwnerInv

(* A lost lease comes back only by a renewal.                              *)
LEMMA LostStaysLost ==
    ASSUME TypeOK, StoreInv, OwnerInv, [Next]_vars, NEW o \in Owners,
           ~LeaseStands(o), call[o].op # "renew",
           held'[o].attempt = held[o].attempt, held'[o].epoch = held[o].epoch
    PROVE  ~LeaseStands(o)'
<1> SUFFICES ASSUME LeaseStands(o)' PROVE LeaseStands(o)
  OBVIOUS
<1>t. /\ rec \in Records /\ rec.epoch \in Nat /\ held[o].epoch \in Nat
      /\ held[o].epoch <= rec.epoch /\ clock \in Nat
  BY DEF TypeOK, Records, Handles, OwnerInv, HandlesPast
<1>1. /\ rec'.attempt = held[o].attempt /\ rec'.epoch = held[o].epoch
      /\ rec'.owner = o /\ rec'.expires > clock'
  BY DEF LeaseStands, LiveLease
<1>2. clock' \in {clock, clock + 1}
  BY OwnerSteps DEF OwnerInv, OwnerStep, StoreOnly
<1>e. rec.expires \in Int
  BY <1>t DEF Records
<1>3. ASSUME rec'.expires = rec.expires PROVE rec.expires > clock
  BY <1>t, <1>1, <1>2, <1>e, <1>3
<1>4. CASE rec' = rec
  <2>1. rec.expires > clock
    BY <1>3, <1>4
  <2> QED BY <1>1, <1>4, <2>1 DEF LeaseStands, LiveLease
<1>5. CASE rec' # rec
  <2>1. ~AcquireStep(o)
    <3> SUFFICES ASSUME AcquireStep(o) PROVE FALSE
      OBVIOUS
    <3>1. rec'.epoch = rec.epoch + 1
      BY <1>t, AcquireFields
    <3> QED BY <1>t, <1>1, <3>1
  <2>2. WriteStep(o)
    BY <1>1, <1>5, <2>1, RecordSteps, OwnerBySelf DEF RecordStep
  <2>3. /\ rec.owner = o /\ rec.attempt = held[o].attempt /\ rec.epoch = held[o].epoch
        /\ rec'.expires = rec.expires
    BY <1>1, <2>2, WriteFields
  <2> QED BY <1>3, <2>3 DEF LeaseStands, LiveLease
<1> QED BY <1>4, <1>5

(* A renewal of the lease that stands is admitted.                         *)
LEMMA StandingRenews ==
    ASSUME TypeOK, StoreInv, OwnerInv, RevisionKnown, NEW o \in Owners,
           call[o].op = "renew", LeaseStands(o), mode[o] = "running", o \notin masked
    PROVE  rec.revision = call[o].rev /\ WriteAdmitted(o)
<1>t. /\ rec \in Records /\ clock \in Nat /\ call[o].at \in Nat /\ o # NoOwner
  BY OwnersAssumption DEF TypeOK, Calls
<1>e. rec.expires \in Int
  BY <1>t DEF Records
<1>1. /\ rec.attempt = held[o].attempt /\ rec.epoch = held[o].epoch
      /\ rec.owner = o /\ rec.expires > clock
  BY DEF LeaseStands, LiveLease
<1>3. rec.revision = call[o].rev
  BY <1>1 DEF RevisionKnown, Writes
<1>4. call[o].at <= clock
  BY DEF StoreInv, CallInv, CallOK
<1>5. rec.expires > call[o].at
  BY <1>t, <1>e, <1>1, <1>4
<1>6. rec.state = "Running"
  BY <1>t, <1>1 DEF OwnerInv, GrantInv
<1> QED BY <1>1, <1>3, <1>5, <1>6 DEF WriteAdmitted, Fence, LiveLease

(* The leases lapse in time.                                               *)
LEMMA TaskTimedStep ==
    ASSUME TypeOK, TypeOK', StoreInv, OwnerInv, BeatInv, [Next]_vars, NEW o \in Owners
    PROVE  TaskTimed(o)'
<1>t. /\ task[o].until \in Nat /\ taskBeat[o] \in Nat /\ clock \in Nat
      /\ TaskLeaseDuration \in Nat /\ taskBeat'[o] \in Nat
  BY TaskDurationAssumption DEF TypeOK, Tasks
<1>c. clock' \in {clock, clock + 1}
  BY OwnerSteps DEF OwnerInv, OwnerStep, StoreOnly
<1>i. TaskTimed(o)
  BY DEF BeatInv
<1>1. CASE task'[o] # task[o]
  <2>1. /\ clock' = clock /\ mode'[o] = mode[o]
        /\ \/ mode[o] = "prepared" /\ task'[o].until = clock + TaskLeaseDuration
           \/ /\ task'[o].until = clock + TaskLeaseDuration
              /\ taskBeat'[o] = clock \/ o \in masked'
           \/ task'[o].until = 0
    BY <1>1, TaskMoves
  <2> QED BY <1>t, <2>1 DEF TaskTimed
<1>2. CASE task'[o] = task[o]
  <2>1. task'[o].until <= clock' + TaskLeaseDuration
    BY <1>t, <1>c, <1>i, <1>2 DEF TaskTimed
  <2>2. ASSUME mode'[o] = "running", o \notin masked'
        PROVE  task'[o].until <= taskBeat'[o] + TaskLeaseDuration
    <3>1. o \notin masked
      BY <2>2, MaskedGrows
    <3>2. CASE mode[o] = "running" /\ taskBeat'[o] = taskBeat[o]
      BY <1>i, <1>2, <3>1, <3>2 DEF TaskTimed
    <3>3. CASE taskBeat'[o] = clock
      BY <1>i, <1>2, <3>3 DEF TaskTimed
    <3>4. CASE Kept(o)
      BY <2>2, <3>2, <3>4 DEF Kept
    <3>5. CASE OwnerStep(o)
      <4>1. ~Leaves(o) /\ ~Prepares(o) /\ ~AcquireFails(o) /\ ~WriteFails(o)
        BY <2>2 DEF Leaves, Prepares, AcquireFails, WriteFails
      <4>2. CASE Starts(o)
        BY <3>3, <4>2 DEF Starts
      <4>3. CASE Begins(o) \/ Wrote(o) \/ BeatFails(o)
        BY <2>2, <3>2, <4>3 DEF Begins, Wrote, BeatFails
      <4>4. CASE Runs(o)
        <5>1. mode[o] = "running"
          BY <2>2, <4>4 DEF Runs
        <5>2. TaskStep(o) => taskBeat'[o] \in {taskBeat[o], clock}
          BY DEF TaskStep, AcquireTask, BeatTask, RenewTask, RefuseTask, FailTask, FenceTask,
             TaskBeatFails, worker, heart, TypeOK
        <5> QED BY <3>2, <3>3, <4>4, <5>1, <5>2 DEF Runs
      <4> QED BY <3>5, <4>1, <4>2, <4>3, <4>4 DEF OwnerStep
    <3> QED BY <3>4, <3>5, OwnerSteps DEF OwnerInv, OwnerStep, StoreOnly
  <2> QED BY <2>1, <2>2 DEF TaskTimed
<1> QED BY <1>1, <1>2

LEMMA LeaseTimedStep ==
    ASSUME TypeOK, TypeOK', StoreInv, OwnerInv, BeatInv, [Next]_vars
    PROVE  LeaseTimed'
<1>t. /\ rec \in Records /\ rec.expires \in Int /\ clock \in Nat /\ LeaseDuration \in Nat
      /\ rec'.expires \in Int
  BY DurationAssumption DEF TypeOK, Records
<1>c. clock' \in {clock, clock + 1}
  BY OwnerSteps DEF OwnerInv, OwnerStep, StoreOnly
<1>i. LeaseTimed
  BY DEF BeatInv
<1>a. \A o \in Owners : call[o].at \in Nat /\ (call[o].op # "none" => call[o].at <= clock)
  BY DEF TypeOK, Calls, StoreInv, CallInv, CallOK
<1>1. ASSUME rec'.owner # NoOwner PROVE rec'.expires <= clock' + LeaseDuration
  <2>1. CASE rec' = rec
    BY <1>t, <1>c, <1>i, <1>1, <2>1 DEF LeaseTimed
  <2>2. ~CreateStep /\ ~ReconcileStep /\ \A o \in Owners : ~ResumeStep(o) /\ ~AbandonStep(o)
    BY <1>t, <1>1, CreateFields, ReconcileFields, ResumeFields, AbandonFields
  <2>3. ASSUME NEW o \in Owners, AcquireStep(o) PROVE rec'.expires <= clock' + LeaseDuration
    <3>1. rec'.expires = call[o].at + LeaseDuration /\ call[o].op = "acquire"
      BY <1>t, <2>3 DEF AcquireStep, Stamped, AcquiredBy, Records
    <3> QED BY <1>t, <1>c, <1>a, <3>1
  <2>4. ASSUME NEW o \in Owners, WriteStep(o) PROVE rec'.expires <= clock' + LeaseDuration
    <3>1. CASE call[o].op = "renew"
      <4>1. rec'.expires = call[o].at + LeaseDuration
        BY <1>t, <2>4, <3>1 DEF WriteStep, Written, Stamped, Renewed, Records
      <4> QED BY <1>t, <1>c, <1>a, <3>1, <4>1
    <3>2. CASE call[o].op # "renew"
      <4>1. rec'.expires = rec.expires /\ rec.owner # NoOwner
        BY <1>1, <2>4, <3>2, WriteFields, OwnersAssumption
      <4> QED BY <1>t, <1>c, <1>i, <4>1 DEF LeaseTimed
    <3> QED BY <3>1, <3>2
  <2> QED BY <2>1, <2>2, <2>3, <2>4, RecordSteps DEF RecordStep
<1>2. ASSUME NEW o \in Owners, mode'[o] = "running", rec'.owner = o, o \notin masked'
      PROVE  rec'.expires <= beat'[o] + LeaseDuration
  <2>m. o \notin masked /\ o # NoOwner
    BY <1>2, MaskedGrows, OwnersAssumption
  <2>1. ASSUME mode[o] = "running", rec.owner = o, beat'[o] = beat[o],
               rec'.expires = rec.expires
        PROVE  rec'.expires <= beat'[o] + LeaseDuration
    BY <1>i, <2>m, <2>1 DEF LeaseTimed
  <2>2. ASSUME beat'[o] = clock, clock' = clock PROVE rec'.expires <= beat'[o] + LeaseDuration
    BY <1>1, <1>2, <2>m, <2>2
  <2>3. CASE Kept(o) /\ rec' = rec
    BY <1>2, <2>1, <2>3 DEF Kept
  <2>4. CASE StoreOnly
    BY <1>2, <2>3, <2>4, OwnerBySelf DEF StoreOnly
  <2>5. ASSUME NEW q \in Owners, OwnerStep(q), q # o PROVE Kept(o) /\ rec' = rec
    <3>1. rec' = rec
      BY <1>2, <2>5, RecordOf, OwnerBySelf
    <3> QED BY <2>5, <3>1 DEF OwnerStep
  <2>6. CASE OwnerStep(o)
    <3>1. ~Leaves(o) /\ ~Prepares(o) /\ ~AcquireFails(o) /\ ~WriteFails(o)
      BY <1>2 DEF Leaves, Prepares, AcquireFails, WriteFails
    <3>2. CASE Starts(o)
      BY <2>2, <2>6, <3>2 DEF Starts, OwnerStep
    <3>3. CASE Begins(o) \/ BeatFails(o) \/ Runs(o)
      BY <1>2, <2>1, <3>3 DEF Begins, BeatFails, Runs
    <3>4. CASE Wrote(o)
      <4>1. CASE call[o].op = "renew"
        BY <2>2, <2>6, <3>4, <4>1 DEF Wrote, OwnerStep
      <4>2. CASE call[o].op # "renew"
        <5>1. rec.owner = o /\ rec'.expires = rec.expires
          BY <1>2, <3>4, <4>2, WriteFields DEF Wrote
        <5> QED BY <1>2, <2>1, <3>4, <4>2, <5>1 DEF Wrote
      <4> QED BY <4>1, <4>2
    <3> QED BY <2>6, <3>1, <3>2, <3>3, <3>4 DEF OwnerStep
  <2> QED BY <2>3, <2>4, <2>5, <2>6, OwnerSteps DEF OwnerInv
<1> QED BY <1>1, <1>2 DEF LeaseTimed

LEMMA CancelStep ==
    ASSUME TypeOK, StoreInv, OwnerInv, BeatInv, [Next]_vars
    PROVE  CancelOnlyWhenLostOrMasked'
<1> SUFFICES ASSUME NEW o \in Owners, mode'[o] = "running", cancelled'[o], o \notin masked'
             PROVE  ~LeaseStands(o)' \/ ~TaskStands(o)'
  BY DEF CancelOnlyWhenLostOrMasked
<1>t. /\ clock \in Nat /\ beat[o] \in Nat /\ taskBeat[o] \in Nat
      /\ LeaseDuration \in Nat /\ TaskLeaseDuration \in Nat
      /\ rec.expires \in Int /\ task[o].until \in Nat
  BY DurationAssumption, TaskDurationAssumption DEF TypeOK, Records, Tasks
<1>c. clock' \in {clock, clock + 1}
  BY OwnerSteps DEF OwnerInv, OwnerStep, StoreOnly
<1>m. o \notin masked
  BY MaskedGrows
<1>1. ASSUME mode[o] = "running", cancelled[o],
             held'[o].attempt = held[o].attempt, held'[o].epoch = held[o].epoch
      PROVE  ~LeaseStands(o)' \/ ~TaskStands(o)'
  <2>1. (~LeaseStands(o) \/ ~TaskStands(o)) /\ call[o].op # "renew"
    BY <1>1, <1>m DEF BeatInv, CancelOnlyWhenLostOrMasked, NoBeatAfterCancel
  <2> QED BY <1>1, <1>c, <2>1, LostStaysLost, TaskLostStays
<1>2. CASE Kept(o)
  BY <1>1, <1>2 DEF Kept
<1>3. CASE OwnerStep(o)
  <2>1. ~Leaves(o) /\ ~Prepares(o) /\ ~AcquireFails(o) /\ ~WriteFails(o)
    BY DEF Leaves, Prepares, AcquireFails, WriteFails
  <2>2. CASE Begins(o)
    BY <1>1, <2>2 DEF Begins
  <2>3. ~Starts(o)
    BY DEF Starts, BeatInv, NoBeatAfterCancel, Executing
  <2>4. CASE Wrote(o)
    BY <1>1, <2>4 DEF Wrote
  <2>5. CASE BeatFails(o)
    <3>1. /\ rec' = rec /\ held'[o] = held[o] /\ clock' = clock /\ mode[o] = "running"
          /\ call[o].op = "renew"
      BY <1>3, <2>5 DEF BeatFails, OwnerStep
    <3>2. CASE cancelled[o]
      BY <1>1, <3>1, <3>2
    <3>3. CASE clock - beat[o] >= LeaseDuration
      <4>1. rec.owner = o => rec.expires <= beat[o] + LeaseDuration
        BY <1>m, <3>1 DEF BeatInv, LeaseTimed
      <4>2. ~(rec.owner = o /\ rec.expires > clock)
        BY <1>t, <3>3, <4>1
      <4> QED BY <3>1, <4>2 DEF LeaseStands, LiveLease
    <3>4. CASE rec.revision # call[o].rev \/ ~WriteAdmitted(o)
      <4>1. ~LeaseStands(o)
        BY <1>m, <3>1, <3>4, StandingRenews DEF BeatInv
      <4> QED BY <3>1, <4>1 DEF LeaseStands, LiveLease
    <3> QED BY <2>5, <3>2, <3>3, <3>4 DEF BeatFails
  <2>6. CASE Runs(o)
    <3>1. mode[o] = "running" /\ held'[o] = held[o] /\ clock' = clock
      BY <1>3, <2>6 DEF Runs, OwnerStep
    <3>2. CASE cancelled[o]
      BY <1>1, <3>1, <3>2
    <3>3. CASE ~cancelled[o]
      <4>1. cancelled'[o] # cancelled[o]
        BY <3>3, Zenon
      <4>2. TaskStep(o)
        BY <2>6, <4>1 DEF Runs
      <4>3. task' = task /\ (~TaskStands(o) \/ clock - taskBeat[o] >= TaskLeaseDuration)
        BY <4>1, <4>2, TaskCancels
      <4>4. ~TaskStands(o)
        BY <1>t, <1>m, <3>1, <4>3 DEF BeatInv, TaskTimed, TaskStands
      <4> QED BY <3>1, <4>3, <4>4 DEF TaskStands
    <3> QED BY <3>2, <3>3
  <2> QED BY <1>3, <2>1, <2>2, <2>3, <2>4, <2>5, <2>6 DEF OwnerStep
<1> QED BY <1>2, <1>3, OwnerSteps DEF OwnerInv, OwnerStep, StoreOnly

(* CancelOnlyWhenLostOrMasked: under any number of storage failures the    *)
(* heartbeat ends only a run that has lost its task lease or its           *)
(* continuation lease, or one that was told that a renewal failed which    *)
(* had been committed (renewal_failure_ends_run): whichever write of the   *)
(* worker or of another launch comes between two beats, a storage error    *)
(* ends a run only when the lease has lapsed.                              *)
THEOREM CancelsOnlyLostRuns == Spec => []CancelOnlyWhenLostOrMasked
<1>1. Init => BeatInv
  <2> SUFFICES ASSUME Init PROVE BeatInv OBVIOUS
  <2>1. rec.owner = NoOwner /\ \A o \in Owners : mode[o] = "idle" /\ ~cancelled[o]
    BY DEF Init, NoRecord
  <2>2. \A o \in Owners : task[o].until = 0 /\ clock = 0
    BY DEF Init, NoTask
  <2>3. \A o \in Owners : TaskTimed(o)
    <3>1. TaskLeaseDuration \in Nat
      BY TaskDurationAssumption
    <3>2. ASSUME NEW o \in Owners PROVE TaskTimed(o)
      <4>1. task[o].until = 0 /\ clock = 0 /\ mode[o] # "running"
        BY <2>1, <2>2
      <4> QED BY <3>1, <4>1 DEF TaskTimed
    <3> QED BY <3>2
  <2> QED BY <2>1, <2>3 DEF BeatInv, RevisionKnown, NoBeatAfterCancel, LeaseTimed,
            CancelOnlyWhenLostOrMasked
<1>2. TypeOK /\ TypeOK' /\ StoreInv /\ OwnerInv /\ BeatInv /\ [Next]_vars => BeatInv'
  BY RevisionStep, NoBeatStep, TaskTimedStep, LeaseTimedStep, CancelStep DEF BeatInv
<1>3. Spec => [](TypeOK /\ StoreInv)
  BY StoreCorrect
<1>4. BeatInv => CancelOnlyWhenLostOrMasked
  BY DEF BeatInv
<1> QED BY <1>1, <1>2, <1>3, <1>4, OwnersCorrect, PTL DEF Spec
-----------------------------------------------------------------------------
(* Tools with unknown effects.                                             *)

ToolsKept(q) == tool'[q] = tool[q] /\ ran'[q] = ran[q]

(* What a step of launch o does to its tools.                              *)
Idles(o) ==
    /\ ToolsKept(o)
    /\ call'[o].op = "boundary" => call[o].op = "boundary"
    /\ call'[o].op = "checkpoint" => call[o].op = "checkpoint" \/ tool[o] = "None"

Requests(o) ==
    /\ rec' = rec /\ mode[o] = "running" /\ mode'[o] = "running"
    /\ tool[o] = "None" /\ tool'[o] # "None" /\ call'[o].op = "boundary"
    /\ ran[o] < ToolsPerTurn /\ ran'[o] = ran[o]

Uses(o) ==
    /\ rec' = rec /\ mode[o] = "running" /\ mode'[o] = "running" /\ call'[o] = call[o]
    /\ call[o].op # "boundary" /\ tool'[o] = "None" /\ ran'[o] = ran[o] + 1

Clears(o) ==
    /\ tool'[o] = "None"
    /\ mode'[o] = "stopping" \/ (mode'[o] = "gone" /\ ran'[o] = 0)

Saves(o) ==
    /\ WriteStep(o) /\ call[o].op = "checkpoint" /\ mode'[o] = mode[o]
    /\ tool'[o] = tool[o] /\ ran'[o] = 0 /\ call'[o] = NoCall

ToolStep(o) ==
    /\ \A q \in Owners \ {o} : ToolsKept(q)
    /\ Idles(o) \/ Requests(o) \/ Uses(o) \/ Clears(o) \/ Saves(o)
    /\ exposed' => /\ ~(WriteStep(o) /\ call[o].op = "checkpoint")
                   /\ exposed \/ (Uses(o) /\ tool[o] = "Indeterminate")

LEMMA NoWrite ==
    ASSUME TypeOK, NEW o \in Owners, rec' = rec
    PROVE  ~WriteStep(o)
<1>1. rec.revision \in Nat
  BY DEF TypeOK, Records
<1>2. WriteStep(o) => rec'.revision = rec.revision + 1
  BY WriteFields
<1> QED BY <1>1, <1>2

(* Steps that leave the tools alone.                                       *)
LEMMA IdleStep ==
    ASSUME TypeOK, NEW o \in Owners, UNCHANGED <<tool, ran>>, exposed' => exposed,
           exposed' => ~(WriteStep(o) /\ call[o].op = "checkpoint"),
           call'[o].op = "boundary" => call[o].op = "boundary",
           call'[o].op = "checkpoint" => call[o].op = "checkpoint" \/ tool[o] = "None"
    PROVE  ToolStep(o)
  BY DEF ToolStep, ToolsKept, Idles

LEMMA GoneClears ==
    ASSUME TypeOK, NEW o \in Owners, Gone(o), exposed' => exposed,
           exposed' => ~(WriteStep(o) /\ call[o].op = "checkpoint")
    PROVE  ToolStep(o)
<1>1. /\ tool'[o] = "None" /\ ran'[o] = 0 /\ mode'[o] = "gone"
      /\ \A q \in Owners \ {o} : ToolsKept(q)
  BY DEF Gone, TypeOK, ToolsKept
<1> QED BY <1>1 DEF ToolStep, Clears

LEMMA AcquireErrIdles ==
    ASSUME TypeOK, NEW o \in Owners, AcquireErr(o), exposed' => exposed,
           exposed' => ~(WriteStep(o) /\ call[o].op = "checkpoint")
    PROVE  ToolStep(o)
<1>1. CASE Gone(o)
  BY <1>1, GoneClears
<1>2. CASE /\ call' = [call EXCEPT ![o] = [NoCall EXCEPT !.retried = TRUE]]
           /\ UNCHANGED <<mode, held, worker>>
  <2>1. call'[o].op = "none" /\ UNCHANGED <<tool, ran>>
    BY <1>2 DEF TypeOK, NoCall, worker
  <2> QED BY <2>1, IdleStep
<1> QED BY <1>1, <1>2 DEF AcquireErr

LEMMA WriteErrTools ==
    ASSUME TypeOK, NEW o \in Owners, NEW b, WriteErr(o, b), exposed' => exposed,
           exposed' => ~(WriteStep(o) /\ call[o].op = "checkpoint")
    PROVE  ToolStep(o)
<1>n. NoCall.op = "none"
  BY DEF NoCall
<1>1. CASE call[o].op = "renew"
  <2>1. Returned(o) /\ UNCHANGED <<tool, ran>>
    BY <1>1 DEF WriteErr
  <2>2. call'[o].op = "none"
    BY <1>n, <2>1 DEF TypeOK, Returned
  <2> QED BY <2>1, <2>2, IdleStep
<1>2. CASE call[o].op \in {"checkpoint", "boundary"}
  <2>1. /\ Moved(o, "stopping") /\ tool' = [tool EXCEPT ![o] = "None"] /\ ran' = ran
    BY <1>2 DEF WriteErr
  <2>2. /\ mode'[o] = "stopping" /\ tool'[o] = "None"
        /\ \A q \in Owners \ {o} : ToolsKept(q)
    BY <2>1 DEF TypeOK, Moved, ToolsKept
  <2> QED BY <2>2 DEF ToolStep, Clears
<1>3. CASE call[o].op \notin {"renew", "checkpoint", "boundary"}
  BY <1>3, GoneClears DEF WriteErr
<1> QED BY <1>1, <1>2, <1>3

LEMMA WriteOkTools ==
    ASSUME TypeOK, NEW o \in Owners, WriteStep(o), WriteOk(o, rec'), exposed' => exposed,
           exposed' => call[o].op # "checkpoint"
    PROVE  ToolStep(o)
<1>n. NoCall.op = "none"
  BY DEF NoCall
<1>1. CASE call[o].op \in {"renew", "boundary"}
  <2>1. Returned(o) /\ UNCHANGED <<tool, ran>>
    BY <1>1 DEF WriteOk, worker
  <2>2. call'[o].op = "none"
    BY <1>n, <2>1 DEF TypeOK, Returned
  <2> QED BY <2>1, <2>2, IdleStep
<1>2. CASE call[o].op = "checkpoint"
  <2>1. /\ Returned(o) /\ ran' = [ran EXCEPT ![o] = 0] /\ UNCHANGED <<mode, tool>>
    BY <1>2 DEF WriteOk
  <2>2. /\ call'[o] = NoCall /\ ran'[o] = 0 /\ tool'[o] = tool[o] /\ mode'[o] = mode[o]
        /\ \A q \in Owners \ {o} : ToolsKept(q)
    BY <2>1 DEF TypeOK, Returned, ToolsKept
  <2> QED BY <1>2, <2>2 DEF ToolStep, Saves
<1>3. CASE call[o].op \notin {"renew", "checkpoint", "boundary"}
  BY <1>3, GoneClears DEF WriteOk
<1> QED BY <1>1, <1>2, <1>3

LEMMA ToolSteps ==
    ASSUME TypeOK, StoreInv, CallsFit, NEW o \in Owners, StepOf(o)
    PROVE  ToolStep(o)
<1>n. NoCall.op = "none"
  BY DEF NoCall
<1>1. ASSUME NEW p, Create(o, p) PROVE ToolStep(o)
  <2>1. UNCHANGED <<tool, ran, call>> /\ mode[o] = "idle"
    BY <1>1 DEF Create, worker
  <2>2. exposed' = exposed
    BY <1>1, Zenon DEF Create
  <2>3. call[o].op = "none"
    BY <2>1 DEF CallsFit, CallsIn
  <2> QED BY <2>1, <2>2, <2>3, IdleStep
<1>2. ASSUME NEW op, NEW rev, NEW p, NEW b, Called(o, op, rev, p, b), UNCHANGED <<rec, tool, ran>>,
             exposed' => exposed,
             op = "boundary" => call[o].op = "boundary",
             op = "checkpoint" => call[o].op = "checkpoint" \/ tool[o] = "None"
      PROVE  ToolStep(o)
  <2>1. call'[o].op = op
    BY <1>2, CalledIs
  <2> QED BY <1>2, <2>1, IdleStep, NoWrite
<1>3. ASSUME UNCHANGED <<rec, tool, ran, call>>, exposed' => exposed PROVE ToolStep(o)
  BY <1>3, IdleStep, NoWrite
<1>4. ASSUME NEW p, BeginResume(o, p) PROVE ToolStep(o)
  <2>1. UNCHANGED <<rec, tool, ran>>
    BY <1>4 DEF BeginResume, worker
  <2>2. exposed' = exposed
    BY <1>4, Zenon DEF BeginResume
  <2>3. UNCHANGED call \/ Called(o, "resume", rec.revision, p, FALSE)
    BY <1>4 DEF BeginResume
  <2> QED BY <1>2, <1>3, <2>1, <2>2, <2>3
<1>5. ASSUME LoadPrepared(o) PROVE ToolStep(o)
  <2>1. UNCHANGED <<rec, tool, ran, call>>
    BY <1>5 DEF LoadPrepared, worker
  <2>2. exposed' = exposed
    BY <1>5, Zenon DEF LoadPrepared
  <2> QED BY <1>3, <2>1, <2>2
<1>6. ASSUME NEW r, StartWorker(o, r), exposed' => exposed, call[o].op \in {"none", "acquire"}
      PROVE ToolStep(o)
  <2>1. Returned(o) /\ UNCHANGED <<tool, ran>>
    BY <1>6 DEF StartWorker
  <2>2. call'[o].op = "none"
    BY <1>n, <2>1 DEF TypeOK, Returned
  <2> QED BY <1>6, <2>1, <2>2, IdleStep
<1>7. ASSUME BeginAcquire(o) PROVE ToolStep(o)
  <2>1. rec' = rec /\ call[o].op = "none"
    BY <1>7 DEF BeginAcquire
  <2>2. exposed' = exposed
    BY <1>7, Zenon DEF BeginAcquire
  <2>3. CASE /\ Called(o, "acquire", held[o].rev, NoPrompt, call[o].retried)
             /\ UNCHANGED <<mode, held, worker>>
    BY <1>2, <2>1, <2>2, <2>3 DEF worker
  <2>4. CASE StartWorker(o, rec)
    BY <1>6, <2>1, <2>2, <2>4
  <2>5. CASE AcquireErr(o)
    BY <2>1, <2>2, <2>5, AcquireErrIdles
  <2> QED BY <1>7, <2>3, <2>4, <2>5 DEF BeginAcquire
<1>8. ASSUME BeginAbandon(o) PROVE ToolStep(o)
  <2>1. Called(o, "abandon", held[o].rev, NoPrompt, FALSE) /\ UNCHANGED <<rec, tool, ran>>
    BY <1>8 DEF BeginAbandon, worker
  <2>2. exposed' = exposed
    BY <1>8, Zenon DEF BeginAbandon
  <2> QED BY <1>2, <2>1, <2>2
<1>9. ASSUME NEW b \in Boundary \ {"None"}, BeginBoundary(o, b) PROVE ToolStep(o)
  <2>1. /\ Called(o, "boundary", held[o].rev, NoPrompt, FALSE) /\ UNCHANGED <<rec, mode, ran>>
        /\ tool' = [tool EXCEPT ![o] = b] /\ tool[o] = "None" /\ ran[o] < ToolsPerTurn
        /\ mode[o] = "running"
    BY <1>9 DEF BeginBoundary
  <2>2. exposed' = exposed
    BY <1>9, Zenon DEF BeginBoundary
  <2>3. call'[o].op = "boundary"
    BY <2>1, CalledIs
  <2>4. tool'[o] = b /\ \A q \in Owners \ {o} : ToolsKept(q)
    BY <2>1 DEF TypeOK, ToolsKept
  <2>5. Requests(o)
    BY <2>1, <2>3, <2>4 DEF Requests
  <2> QED BY <2>1, <2>2, <2>4, <2>5, NoWrite DEF ToolStep
<1>10. ASSUME NEW b, RunTool(o, b) PROVE ToolStep(o)
  <2>1. /\ UNCHANGED <<rec, mode, call>> /\ mode[o] = "running" /\ call[o].op # "boundary"
        /\ tool' = [tool EXCEPT ![o] = "None"] /\ ran' = [ran EXCEPT ![o] = @ + 1]
    BY <1>10 DEF RunTool, ToolAdmitted
  <2>2. exposed' => exposed \/ tool[o] = "Indeterminate"
    BY <1>10 DEF RunTool
  <2>3. /\ tool'[o] = "None" /\ ran'[o] = ran[o] + 1 /\ \A q \in Owners \ {o} : ToolsKept(q)
    BY <2>1 DEF TypeOK, ToolsKept
  <2>4. Uses(o)
    BY <2>1, <2>3 DEF Uses
  <2> QED BY <2>1, <2>2, <2>3, <2>4, NoWrite DEF ToolStep
<1>11. ASSUME BeginCheckpoint(o) PROVE ToolStep(o)
  <2>1. /\ Called(o, "checkpoint", held[o].rev, NoPrompt, FALSE) /\ UNCHANGED <<rec, tool, ran>>
        /\ tool[o] = "None"
    BY <1>11 DEF BeginCheckpoint, worker
  <2>2. exposed' = exposed
    BY <1>11, Zenon DEF BeginCheckpoint
  <2> QED BY <1>2, <2>1, <2>2
<1>12. ASSUME NEW t, EndRun(o, t) PROVE ToolStep(o)
  <2>1. /\ Moved(o, "stopping") /\ tool' = [tool EXCEPT ![o] = "None"] /\ UNCHANGED <<rec, ran>>
    BY <1>12 DEF EndRun
  <2>2. exposed' = exposed
    BY <1>12, Zenon DEF EndRun
  <2>3. /\ mode'[o] = "stopping" /\ tool'[o] = "None" /\ \A q \in Owners \ {o} : ToolsKept(q)
    BY <2>1 DEF TypeOK, Moved, ToolsKept
  <2> QED BY <2>1, <2>2, <2>3, NoWrite DEF ToolStep, Clears
<1>13. ASSUME BeginTerminal(o) PROVE ToolStep(o)
  <2>1. rec' = rec
    BY <1>13 DEF BeginTerminal
  <2>2. exposed' = exposed
    BY <1>13, Zenon DEF BeginTerminal
  <2>3. CASE Gone(o)
    BY <2>1, <2>2, <2>3, GoneClears, NoWrite
  <2>4. CASE /\ Called(o, "terminal", held[o].rev, NoPrompt, FALSE)
             /\ UNCHANGED <<mode, held, worker>>
    BY <1>2, <2>1, <2>2, <2>4 DEF worker
  <2> QED BY <1>13, <2>3, <2>4 DEF BeginTerminal
<1>14. ASSUME BeginRenew(o) PROVE ToolStep(o)
  <2>1. Called(o, "renew", held[o].rev, NoPrompt, FALSE) /\ UNCHANGED <<rec, tool, ran>>
    BY <1>14 DEF BeginRenew, worker
  <2>2. exposed' = exposed
    BY <1>14, Zenon DEF BeginRenew
  <2> QED BY <1>2, <2>1, <2>2
<1>t. ASSUME TaskStep(o) PROVE ToolStep(o)
  <2>1. UNCHANGED <<rec, tool, ran, call>>
    BY <1>t, TaskStepKeeps
  <2>2. exposed' = exposed
    BY <1>t, TaskStepKeeps
  <2> QED BY <1>3, <2>1, <2>2
<1>15. ASSUME FinishResume(o) PROVE ToolStep(o)
  <2>1. call[o].op = "resume" /\ (Gone(o) \/ (Returned(o) /\ UNCHANGED <<tool, ran>>))
    BY <1>15 DEF FinishResume, worker
  <2>2. exposed' = exposed
    BY <1>15, Zenon DEF FinishResume
  <2>3. CASE Gone(o)
    BY <2>1, <2>2, <2>3, GoneClears
  <2>4. CASE Returned(o) /\ UNCHANGED <<tool, ran>>
    <3>1. call'[o].op = "none"
      BY <1>n, <2>4 DEF TypeOK, Returned
    <3> QED BY <2>1, <2>2, <2>4, <3>1, IdleStep
  <2> QED BY <2>1, <2>3, <2>4
<1>16. ASSUME FinishAcquire(o) PROVE ToolStep(o)
  <2>1. call[o].op = "acquire" /\ (AcquireErr(o) \/ \E r : StartWorker(o, r))
    BY <1>16 DEF FinishAcquire
  <2>2. exposed' = exposed
    BY <1>16, Zenon DEF FinishAcquire
  <2> QED BY <1>6, <2>1, <2>2, AcquireErrIdles
<1>17. ASSUME FinishAbandon(o) PROVE ToolStep(o)
  <2>1. call[o].op = "abandon" /\ Gone(o)
    BY <1>17 DEF FinishAbandon
  <2>2. exposed' = exposed
    BY <1>17, Zenon DEF FinishAbandon
  <2> QED BY <2>1, <2>2, GoneClears
<1>18. ASSUME CommitWrite(o) PROVE ToolStep(o)
  <2>1. WriteStep(o)
    BY <1>18 DEF CommitWrite, WriteStep
  <2>2. exposed' => exposed /\ call[o].op # "checkpoint"
    BY <1>18 DEF CommitWrite
  <2>3. WriteOk(o, rec') \/ WriteErr(o, TRUE)
    BY <1>18 DEF CommitWrite
  <2> QED BY <2>1, <2>2, <2>3, WriteOkTools, WriteErrTools
<1>19. ASSUME RefuseWrite(o) PROVE ToolStep(o)
  <2>1. rec' = rec /\ WriteErr(o, FALSE)
    BY <1>19 DEF RefuseWrite
  <2>2. exposed' = exposed
    BY <1>19, Zenon DEF RefuseWrite
  <2> QED BY <2>1, <2>2, WriteErrTools, NoWrite
<1>20. ASSUME ConflictWrite(o) PROVE ToolStep(o)
  <2>1. rec' = rec
    BY <1>20 DEF ConflictWrite
  <2>2. exposed' = exposed
    BY <1>20, Zenon DEF ConflictWrite
  <2>3. CASE WriteErr(o, FALSE)
    BY <2>1, <2>2, <2>3, WriteErrTools, NoWrite
  <2>4. CASE /\ Called(o, call[o].op, rec.revision, NoPrompt, TRUE)
             /\ UNCHANGED <<mode, held, worker>>
    BY <1>2, <2>1, <2>2, <2>4 DEF worker
  <2> QED BY <1>20, <2>3, <2>4 DEF ConflictWrite
<1>21. ASSUME FailWrite(o) PROVE ToolStep(o)
  <2>1. rec' = rec /\ WriteErr(o, TRUE)
    BY <1>21 DEF FailWrite
  <2>2. exposed' = exposed
    BY <1>21, Zenon DEF FailWrite
  <2> QED BY <2>1, <2>2, WriteErrTools, NoWrite
<1>22. ASSUME Crash(o) PROVE ToolStep(o)
  <2>1. rec' = rec /\ Gone(o)
    BY <1>22 DEF Crash
  <2>2. exposed' = exposed
    BY <1>22, Zenon DEF Crash
  <2> QED BY <2>1, <2>2, GoneClears, NoWrite
<1>23. CASE Prepare(o)
  BY <1>1, <1>4, <1>5, <1>7, <1>8, <1>t, <1>23 DEF Prepare, TaskStep
<1>24. CASE Run(o)
  BY <1>9, <1>10, <1>11, <1>12, <1>24 DEF Run
<1>25. CASE FinishCall(o)
  BY <1>15, <1>16, <1>17, <1>18, <1>19, <1>20, <1>25 DEF FinishCall
<1> QED BY <1>13, <1>14, <1>21, <1>22, <1>23, <1>24, <1>25, <1>t DEF StepOf, TaskStep
(* What the changes of a record do to its boundary.                        *)
LEMMA WriteBoundary ==
    ASSUME TypeOK, NEW o \in Owners, WriteStep(o)
    PROVE  /\ call[o].op = "renew" => rec'.boundary = rec.boundary
           /\ call[o].op = "boundary" => rec'.boundary = tool[o]
           /\ call[o].op = "checkpoint" => rec'.boundary = "None"
<1>1. rec \in Records /\ rec' = Stamped(Written(o))
  BY DEF TypeOK, WriteStep
<1>2. CASE call[o].op = "renew"
  <2>1. rec' = Stamped(Renewed(rec, call[o].at))
    BY <1>1, <1>2 DEF Written
  <2> QED BY <1>1, <1>2, <2>1 DEF Stamped, Renewed, Records
<1>3. CASE call[o].op = "boundary"
  <2>1. rec' = Stamped(WithBoundary(rec, tool[o], call[o].at))
    BY <1>1, <1>3 DEF Written
  <2> QED BY <1>1, <1>3, <2>1 DEF Stamped, WithBoundary, Records
<1>4. CASE call[o].op = "checkpoint"
  <2> DEFINE c == PendingCheckpoint(o)
  <2>1. rec' = Stamped(WithCheckpoint(rec, c, call[o].at))
    BY <1>1, <1>4 DEF Written
  <2> HIDE DEF c
  <2> QED BY <1>1, <1>4, <2>1 DEF Stamped, WithCheckpoint, Records
<1> QED BY <1>2, <1>3, <1>4

LEMMA ReconcileBoundary ==
    ASSUME rec \in Records, ReconcileStep, rec'.status # "Indeterminate"
    PROVE  rec.status = "Checkpointed" /\ rec.boundary # "Indeterminate"
<1>1. rec' = Stamped(Reconciled(rec, sweep))
  BY DEF ReconcileStep
<1> SUFFICES ASSUME ~(rec.status = "Checkpointed" /\ rec.boundary # "Indeterminate") PROVE FALSE
  OBVIOUS
<1>2. rec' = Stamped(Settled(rec, "OwnerExpired", sweep))
  BY <1>1 DEF Reconciled
<1> QED BY <1>2 DEF Stamped, Settled, TerminalStatus, Records

LEMMA PreparedBoundary ==
    /\ CreateStep => rec'.boundary = "None"
    /\ rec \in Records => \A o \in Owners : /\ ResumeStep(o) => rec'.boundary = "None"
                                            /\ AcquireStep(o) => rec'.boundary = rec.boundary
<1>1. CreateStep => rec'.boundary = "None"
  BY DEF CreateStep, CreatedRecord, NoRecord
<1>2. ASSUME rec \in Records, NEW o \in Owners, ResumeStep(o) PROVE rec'.boundary = "None"
  BY <1>2 DEF ResumeStep, Stamped, ResumedAs, Records
<1>3. ASSUME rec \in Records, NEW o \in Owners, AcquireStep(o)
      PROVE  rec'.boundary = rec.boundary
  BY <1>3 DEF AcquireStep, Stamped, AcquiredBy, Records
<1> QED BY <1>1, <1>2, <1>3

(* A lost lineage stays lost.                                              *)
LEMMA IndeterminateStays ==
    ASSUME TypeOK, StoreInv, [Next]_vars, rec.status = "Indeterminate"
    PROVE  rec' = rec
<1>t. rec \in Records
  BY DEF TypeOK
<1>1. rec.state = "Terminal"
  BY DEF StoreInv, RecordInv, GoodRecord, ValidRecord, AttemptStateMatches
<1>2. ~CreateStep /\ ~ReconcileStep
  BY <1>1, <1>t, CreateFields, ReconcileFields
<1>3. \A o \in Owners : /\ ~ResumeStep(o) /\ ~AcquireStep(o) /\ ~AbandonStep(o)
                        /\ ~WriteStep(o)
  <2> SUFFICES ASSUME NEW o \in Owners
               PROVE  ~ResumeStep(o) /\ ~AcquireStep(o) /\ ~AbandonStep(o) /\ ~WriteStep(o)
    OBVIOUS
  <2>1. ~ResumeStep(o)
    BY DEF ResumeStep, ResumeAdmitted, Resumable, IsIndeterminate
  <2> QED BY <1>t, <1>1, <2>1, AcquireFields, AbandonFields, WriteFields
<1> QED BY <1>2, <1>3, RecordSteps DEF RecordStep

(* The boundary of an admitted tool goes only with the lineage.            *)
LEMMA OpenBoundaryStays ==
    ASSUME TypeOK, StoreInv, OwnerInv, [Next]_vars, NEW o \in Owners,
           rec.owner = o, rec.boundary = "Indeterminate",
           call[o].op \notin {"boundary", "checkpoint", "terminal"}
    PROVE  rec'.status = "Indeterminate" \/ (rec'.owner = o /\ rec'.boundary = "Indeterminate")
<1>t. rec \in Records /\ o # NoOwner /\ rec.state = "Running"
  BY OwnersAssumption DEF TypeOK, OwnerInv, GrantInv
<1>1. CASE rec' = rec
  BY <1>1
<1>2. ~CreateStep
  BY <1>t, CreateFields
<1>3. ASSUME NEW q \in Owners PROVE ~ResumeStep(q) /\ ~AcquireStep(q) /\ ~AbandonStep(q)
  <2>1. ~ResumeStep(q)
    BY DEF ResumeStep, ResumeAdmitted, Resumable, IsIndeterminate
  <2> QED BY <1>t, <2>1, AcquireFields, AbandonFields
<1>4. ASSUME NEW q \in Owners, WriteStep(q)
      PROVE  rec'.owner = o /\ rec'.boundary = "Indeterminate"
  <2>1. q = o /\ call[o].op = "renew"
    BY <1>4, WriteFields
  <2> QED BY <1>4, <2>1, WriteFields, WriteBoundary
<1>5. CASE ReconcileStep
  BY <1>t, <1>5, ReconcileBoundary
<1> QED BY <1>1, <1>2, <1>3, <1>4, <1>5, RecordSteps DEF RecordStep

LEMMA PreparedStep ==
    ASSUME TypeOK, StoreInv, [Next]_vars, rec.state = "Prepared" => rec.boundary = "None",
           rec'.state = "Prepared"
    PROVE  rec'.boundary = "None"
<1>t. rec \in Records
  BY DEF TypeOK
<1>1. CASE rec' = rec
  BY <1>1
<1>2. CASE CreateStep \/ ReconcileStep
  BY <1>t, <1>2, PreparedBoundary, ReconcileFields
<1>3. ASSUME NEW o \in Owners, ResumeStep(o) \/ AcquireStep(o) \/ AbandonStep(o) \/ WriteStep(o)
      PROVE  rec'.boundary = "None"
  BY <1>t, <1>3, PreparedBoundary, AcquireFields, AbandonFields, WriteFields
<1> QED BY <1>1, <1>2, <1>3, RecordSteps DEF RecordStep

LEMMA ExposedStep ==
    ASSUME TypeOK, StoreInv, OwnerInv, ToolInv, [Next]_vars,
           exposed', rec'.status \in {"Checkpointed", "Suspended"}
    PROVE  rec'.boundary = "Indeterminate"
<1>t. rec \in Records
  BY DEF TypeOK
<1>i. exposed /\ rec.status \in {"Checkpointed", "Suspended"} => rec.boundary = "Indeterminate"
  BY DEF ToolInv
<1>1. CASE StoreOnly
  <2>1. exposed /\ (rec' = rec \/ ReconcileStep)
    BY <1>1 DEF StoreOnly
  <2> QED BY <1>t, <1>i, <2>1, ReconcileBoundary
<1>2. ASSUME NEW o \in Owners, StepOf(o) PROVE rec'.boundary = "Indeterminate"
  <2>1. OwnerStep(o)
    BY <1>2, OwnerActs DEF OwnerInv
  <2>2. /\ ~(WriteStep(o) /\ call[o].op = "checkpoint")
        /\ exposed \/ (Uses(o) /\ tool[o] = "Indeterminate")
    BY <1>2, ToolSteps DEF OwnerInv, ToolStep
  <2>3. CASE rec' = rec /\ exposed
    BY <1>i, <2>3
  <2>4. CASE Uses(o) /\ tool[o] = "Indeterminate"
    <3>1. /\ rec' = rec /\ mode[o] = "running" /\ call[o].op # "boundary"
      BY <2>4 DEF Uses
    <3>2. BoundaryKept(o)
      BY DEF ToolInv
    <3> QED BY <2>4, <3>1, <3>2 DEF BoundaryKept
  <2>5. CASE rec' # rec /\ exposed
    <3>1. ~CreateStep /\ ~ResumeStep(o) /\ ~AcquireStep(o) /\ ~AbandonStep(o)
      BY <1>t, CreateFields, ResumeFields, AcquireFields, AbandonFields
    <3>2. WriteStep(o)
      BY <2>1, <2>5, <3>1, RecordOf
    <3>3. call[o].op \in {"renew", "boundary"} /\ rec'.status = rec.status /\ rec.owner = o
      BY <2>2, <3>2, WriteFields
    <3>4. rec.boundary = "Indeterminate"
      BY <1>i, <2>5, <3>3
    <3>5. call[o].op # "boundary"
      <4> SUFFICES ASSUME call[o].op = "boundary" PROVE FALSE
        OBVIOUS
      <4>1. mode[o] = "running"
        BY WritesRun DEF OwnerInv
      <4>2. ToolsFit(o) /\ BoundaryNew(o)
        BY DEF ToolInv
      <4> QED BY <3>3, <3>4, <4>1, <4>2 DEF ToolsFit, BoundaryNew
    <3> QED BY <3>2, <3>3, <3>4, <3>5, WriteBoundary
  <2> QED BY <2>2, <2>3, <2>4, <2>5
<1> QED BY <1>1, <1>2, OwnerActs DEF OwnerInv
(* A launch that does not step keeps its tools, and what it owns.          *)
Elsewhere(q) == Kept(q) /\ ToolsKept(q) /\ (rec'.owner = q => rec' = rec)

LEMMA LaunchSteps ==
    ASSUME TypeOK, StoreInv, OwnerInv, [Next]_vars, NEW q \in Owners
    PROVE  Elsewhere(q) \/ (OwnerStep(q) /\ ToolStep(q))
<1>1. CASE StoreOnly
  <2>1. Kept(q) /\ ToolsKept(q) /\ (rec' = rec \/ ReconcileStep)
    BY <1>1 DEF StoreOnly, ToolsKept
  <2>2. rec'.owner = q => rec' = rec
    BY <2>1, OwnerBySelf
  <2> QED BY <2>1, <2>2 DEF Elsewhere
<1>2. ASSUME NEW o \in Owners, StepOf(o)
      PROVE  Elsewhere(q) \/ (OwnerStep(q) /\ ToolStep(q))
  <2>1. OwnerStep(o) /\ ToolStep(o)
    BY <1>2, OwnerActs, ToolSteps DEF OwnerInv
  <2>2. CASE q # o
    <3>1. Kept(q) /\ ToolsKept(q)
      BY <2>1, <2>2 DEF OwnerStep, ToolStep
    <3>2. rec'.owner = q => rec' = rec
      BY <2>1, <2>2, RecordOf, OwnerBySelf
    <3> QED BY <3>1, <3>2 DEF Elsewhere
  <2> QED BY <2>1, <2>2
<1> QED BY <1>1, <1>2, OwnerActs DEF OwnerInv

LEMMA ToolsFitStep ==
    ASSUME TypeOK, StoreInv, OwnerInv, ToolInv, ToolsPerTurn \in {0, 1}, [Next]_vars,
           NEW q \in Owners
    PROVE  ToolsFit(q)'
<1>i. ToolsFit(q)
  BY DEF ToolInv
<1>n. NoCall.op = "none"
  BY DEF NoCall
<1>c. call'[q].op \in {"boundary", "checkpoint"} => mode'[q] = "running"
  BY CallsFitStep DEF OwnerInv, CallsFit, CallsIn
<1>w. /\ call[q].op \in {"checkpoint", "boundary"} => mode[q] = "running"
      /\ call[q].op \in Writes => Executing(q)
  BY WritesRun DEF OwnerInv
<1>1. CASE Elsewhere(q)
  BY <1>i, <1>1 DEF Elsewhere, Kept, ToolsKept, ToolsFit
<1>2. CASE OwnerStep(q) /\ ToolStep(q)
  <2>t. Idles(q) \/ Requests(q) \/ Uses(q) \/ Clears(q) \/ Saves(q)
    BY <1>2 DEF ToolStep
  <2>1. ASSUME mode'[q] \in {"idle", "resuming", "prepared"}
        PROVE  mode[q] \in {"idle", "resuming", "prepared"}
    BY <1>2, <1>w, <2>1 DEF OwnerStep, Leaves, Prepares, Begins, Starts, AcquireFails, Wrote,
       WriteFails, BeatFails, Runs, WriteStep, Executing
  <2>2. ASSUME mode'[q] \in {"idle", "resuming", "prepared"}
        PROVE  tool'[q] = "None" /\ ran'[q] = 0
    BY <1>i, <1>w, <2>t, <2>1, <2>2 DEF ToolsFit, Idles, ToolsKept, Requests, Uses, Clears, Saves
  <2>3. ASSUME call'[q].op = "boundary" PROVE ran'[q] = 0 /\ tool'[q] # "None"
    <3>1. CASE Idles(q)
      BY <1>i, <2>3, <3>1 DEF Idles, ToolsKept, ToolsFit
    <3>2. CASE Requests(q)
      <4>1. ran[q] \in Nat /\ ran[q] < ToolsPerTurn /\ ran'[q] = ran[q] /\ tool'[q] # "None"
        BY <3>2 DEF Requests, TypeOK
      <4> QED BY <4>1
    <3> QED BY <1>c, <1>n, <2>t, <2>3, <3>1, <3>2 DEF Uses, Clears, Saves
  <2>4. ASSUME call'[q].op = "checkpoint" PROVE tool'[q] = "None"
    BY <1>c, <1>i, <1>n, <2>t, <2>4 DEF ToolsFit, Idles, ToolsKept, Requests, Uses, Clears, Saves
  <2>5. ASSUME mode'[q] \in {"idle", "resuming"} PROVE rec'.owner # q
    <3>1. rec' = rec /\ mode[q] \in {"idle", "resuming"}
      BY <1>2, <1>w, <2>5 DEF OwnerStep, Leaves, Prepares, Begins, Starts, AcquireFails, Wrote,
         WriteFails, BeatFails, Runs, WriteStep, Executing
    <3> QED BY <1>i, <3>1 DEF ToolsFit
  <2> QED BY <2>2, <2>3, <2>4, <2>5 DEF ToolsFit
<1> QED BY <1>1, <1>2, LaunchSteps

LEMMA BoundaryNewStep ==
    ASSUME TypeOK, StoreInv, OwnerInv, ToolInv, [Next]_vars, NEW q \in Owners
    PROVE  BoundaryNew(q)'
<1> SUFFICES ASSUME mode'[q] \in {"prepared", "running"}, rec'.owner = q, ran'[q] = 0,
                    tool'[q] = "None" \/ call'[q].op = "boundary"
             PROVE  rec'.boundary = "None"
  BY DEF BoundaryNew
<1>i. ToolsFit(q) /\ BoundaryNew(q)
  BY DEF ToolInv
<1>n. NoCall.op = "none"
  BY DEF NoCall
<1>w. /\ call[q].op \in {"checkpoint", "boundary"} => mode[q] = "running"
      /\ call[q].op \in Writes => Executing(q)
  BY WritesRun DEF OwnerInv
<1>t. rec \in Records /\ ran[q] \in Nat /\ q # NoOwner
  BY OwnersAssumption DEF TypeOK
<1>1. CASE Elsewhere(q)
  BY <1>i, <1>1 DEF Elsewhere, Kept, ToolsKept, BoundaryNew
<1>2. CASE OwnerStep(q) /\ ToolStep(q)
  <2>t. Idles(q) \/ Requests(q) \/ (Saves(q) /\ call[q].op = "checkpoint" /\ WriteStep(q))
    <3>1. ~Clears(q)
      BY DEF Clears
    <3>2. ~Uses(q)
      BY <1>t DEF Uses
    <3> QED BY <1>2, <3>1, <3>2 DEF ToolStep, Saves
  <2>1. CASE rec' = rec
    <3>1. ~WriteStep(q)
      BY <2>1, NoWrite
    <3>2. mode[q] \in {"prepared", "running"}
      BY <1>2, <1>i, <1>w, <2>1, <3>1 DEF OwnerStep, Leaves, Prepares, Begins, Starts,
         AcquireFails, Wrote, WriteFails, BeatFails, Runs, ToolsFit
    <3>3. ran[q] = 0 /\ (tool[q] = "None" \/ call[q].op = "boundary")
      BY <2>t, <3>1 DEF Idles, ToolsKept, Requests
    <3> QED BY <1>i, <2>1, <3>2, <3>3 DEF BoundaryNew
  <2>2. CASE rec' # rec
    <3>1. AcquireStep(q) \/ WriteStep(q)
      BY <1>2, <2>2, RecordOf, OwnerBySelf
    <3>2. CASE AcquireStep(q)
      BY <1>t, <3>2, AcquireFields, PreparedBoundary DEF ToolInv
    <3>3. CASE WriteStep(q)
      <4>1. call[q].op \in {"renew", "boundary", "checkpoint"} /\ rec.owner = q
        BY <1>t, <3>3, WriteFields
      <4>2. CASE call[q].op = "checkpoint"
        BY <3>3, <4>2, WriteBoundary
      <4>3. ~Requests(q)
        BY <2>2 DEF Requests
      <4>4. CASE call[q].op = "renew"
        <5>1. ran[q] = 0 /\ (tool[q] = "None" \/ call[q].op = "boundary")
          BY <2>t, <4>3, <4>4 DEF Idles, ToolsKept
        <5>2. Executing(q)
          BY <1>w, <4>4 DEF Writes
        <5>3. mode[q] = "running"
          BY <1>2, <2>2, <4>4, <5>2 DEF OwnerStep, Leaves, Prepares, Begins, Starts,
             AcquireFails, Wrote, WriteFails, BeatFails, Runs, Executing
        <5> QED BY <1>i, <3>3, <4>1, <4>4, <5>1, <5>3, WriteBoundary DEF BoundaryNew
      <4>5. call[q].op # "boundary"
        <5> SUFFICES ASSUME call[q].op = "boundary" PROVE FALSE
          OBVIOUS
        <5>1. tool[q] # "None" /\ tool'[q] = tool[q]
          BY <1>i, <2>t, <4>3 DEF Idles, ToolsKept, ToolsFit
        <5>2. call'[q] = NoCall
          BY <1>2, <1>w, <2>2 DEF OwnerStep, Leaves, Prepares, Begins, Starts, AcquireFails,
             Wrote, WriteFails, BeatFails, Runs
        <5> QED BY <1>n, <5>1, <5>2
      <4> QED BY <4>1, <4>2, <4>4, <4>5
    <3> QED BY <3>1, <3>2, <3>3
  <2> QED BY <2>1, <2>2
<1> QED BY <1>1, <1>2, LaunchSteps

LEMMA BoundaryKeptStep ==
    ASSUME TypeOK, StoreInv, OwnerInv, ToolInv, [Next]_vars, NEW q \in Owners
    PROVE  BoundaryKept(q)'
<1> SUFFICES ASSUME mode'[q] = "running", tool'[q] = "Indeterminate", call'[q].op # "boundary"
             PROVE  \/ rec'.status = "Indeterminate"
                    \/ rec'.owner = q /\ rec'.boundary = "Indeterminate"
  BY DEF BoundaryKept
<1>i. ToolsFit(q) /\ BoundaryKept(q)
  BY DEF ToolInv
<1>1. ASSUME mode[q] = "running", tool[q] = "Indeterminate", call[q].op # "boundary"
      PROVE  \/ rec'.status = "Indeterminate"
             \/ rec'.owner = q /\ rec'.boundary = "Indeterminate"
  <2>1. call[q].op \notin {"boundary", "checkpoint", "terminal"}
    BY <1>1, <1>i DEF ToolsFit, OwnerInv, CallsFit, CallsIn
  <2>2. CASE rec.status = "Indeterminate"
    BY <2>2, IndeterminateStays
  <2>3. CASE rec.owner = q /\ rec.boundary = "Indeterminate"
    BY <2>1, <2>3, OpenBoundaryStays
  <2> QED BY <1>1, <1>i, <2>2, <2>3 DEF BoundaryKept
<1>2. CASE Elsewhere(q)
  BY <1>1, <1>2 DEF Elsewhere, Kept, ToolsKept
<1>3. CASE OwnerStep(q) /\ ToolStep(q)
  <2>1. tool[q] = "Indeterminate"
    BY <1>3, <1>i DEF ToolStep, Idles, ToolsKept, Requests, Uses, Clears, Saves, ToolsFit
  <2>2. ~Starts(q)
    BY <1>i, <2>1 DEF Starts, ToolsFit
  <2>3. mode[q] = "running"
    BY <1>3, <2>2 DEF OwnerStep, Leaves, Prepares, Begins, AcquireFails, Wrote,
       WriteFails, BeatFails, Runs
  <2>4. CASE call[q].op = "boundary"
    <3>1. Wrote(q)
      BY <1>3, <2>2, <2>4 DEF OwnerStep, Leaves, Prepares, Begins, AcquireFails,
         WriteFails, BeatFails, Runs
    <3>2. WriteStep(q)
      BY <3>1 DEF Wrote
    <3> QED BY <2>1, <2>4, <3>2, WriteFields, WriteBoundary
  <2> QED BY <1>1, <2>1, <2>3, <2>4
<1> QED BY <1>2, <1>3, LaunchSteps

(* UnknownEffectsSurviveCrash: after a crash a lineage is resumable only   *)
(* if no tool with unknown effects ran that its checkpoint does not cover, *)
(* whatever leases end, writes fail and sweeps come between the boundary,  *)
(* the tool and its checkpoint (commit_tool_boundary, commit_checkpoint,   *)
(* reconcile_record).  With two tools in one response the boundary of the  *)
(* second replaces that of the first and TLC refutes it (MCToolBatch),     *)
(* hence the hypothesis.                                                   *)
THEOREM UnknownEffectsBlock ==
    ASSUME ToolsPerTurn \in {0, 1}
    PROVE  Spec => []UnknownEffectsSurviveCrash
<1>1. Init => ToolInv
  <2> SUFFICES ASSUME Init PROVE ToolInv
    OBVIOUS
  <2>1. rec.boundary = "None" /\ rec.owner = NoOwner
    BY DEF Init, NoRecord
  <2>2. \A o \in Owners : /\ tool[o] = "None" /\ ran[o] = 0 /\ call[o].op = "none"
    BY DEF Init, NoCall
  <2>3. ~exposed
    BY DEF Init
  <2> QED BY <2>1, <2>2, <2>3, OwnersAssumption
       DEF ToolInv, ToolsFit, BoundaryNew, BoundaryKept
<1>2. TypeOK /\ StoreInv /\ OwnerInv /\ ToolInv /\ [Next]_vars => ToolInv'
  <2> SUFFICES ASSUME TypeOK, StoreInv, OwnerInv, ToolInv, [Next]_vars PROVE ToolInv'
    OBVIOUS
  <2>1. rec'.state = "Prepared" => rec'.boundary = "None"
    BY PreparedStep DEF ToolInv
  <2>2. \A o \in Owners : ToolsFit(o)' /\ BoundaryNew(o)' /\ BoundaryKept(o)'
    BY ToolsFitStep, BoundaryNewStep, BoundaryKeptStep
  <2>3. exposed' /\ rec'.status \in {"Checkpointed", "Suspended"}
            => rec'.boundary = "Indeterminate"
    BY ExposedStep
  <2> QED BY <2>1, <2>2, <2>3 DEF ToolInv
<1>3. Spec => [](TypeOK /\ StoreInv)
  BY StoreCorrect
<1>4. ToolInv => UnknownEffectsSurviveCrash
  BY DEF ToolInv, UnknownEffectsSurviveCrash, Resumable, IsIndeterminate
<1> QED BY <1>1, <1>2, <1>3, <1>4, OwnersCorrect, PTL DEF Spec
=============================================================================
