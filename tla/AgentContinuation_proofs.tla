---------------------- MODULE AgentContinuation_proofs ----------------------
(***************************************************************************)
(* Proofs about AgentContinuation, for any sets of owners and prompts, any *)
(* lease duration and any bounds.                                          *)
(***************************************************************************)
EXTENDS AgentContinuation, TLAPS

-----------------------------------------------------------------------------
(***************************************************************************)
(* Records: the mutations build records, and the records they build pass   *)
(* validate_record.                                                        *)
(***************************************************************************)
(* Replacing one field by a value of its type gives a record: the provers
   take a mutation of several fields apart into these.                     *)
LEMMA SetStatus ==
    ASSUME NEW r \in Records, NEW x \in Status
    PROVE  [r EXCEPT !.status = x] \in Records
  BY DEF Records

(* Replacing the field revision keeps a record one.                         *)
LEMMA SetRevision ==
    ASSUME NEW r \in Records, NEW x \in Nat
    PROVE  [r EXCEPT !.revision = x] \in Records
  BY DEF Records

(* Replacing the field attempt keeps a record one.                          *)
LEMMA SetAttempt ==
    ASSUME NEW r \in Records, NEW x \in Nat
    PROVE  [r EXCEPT !.attempt = x] \in Records
  BY DEF Records

(* Replacing the field from keeps a record one.                             *)
LEMMA SetFrom ==
    ASSUME NEW r \in Records, NEW x \in Nat
    PROVE  [r EXCEPT !.from = x] \in Records
  BY DEF Records

(* Replacing the field prompt keeps a record one.                           *)
LEMMA SetPrompt ==
    ASSUME NEW r \in Records, NEW x \in Prompts \cup {NoPrompt}
    PROVE  [r EXCEPT !.prompt = x] \in Records
  BY DEF Records

(* Replacing the field state keeps a record one.                            *)
LEMMA SetState ==
    ASSUME NEW r \in Records, NEW x \in AttemptState
    PROVE  [r EXCEPT !.state = x] \in Records
  BY DEF Records

(* Replacing the field owner keeps a record one.                            *)
LEMMA SetOwner ==
    ASSUME NEW r \in Records, NEW x \in Owners \cup {NoOwner}
    PROVE  [r EXCEPT !.owner = x] \in Records
  BY DEF Records

(* Replacing the field epoch keeps a record one.                            *)
LEMMA SetEpoch ==
    ASSUME NEW r \in Records, NEW x \in Nat
    PROVE  [r EXCEPT !.epoch = x] \in Records
  BY DEF Records

(* Replacing the field expires keeps a record one.                          *)
LEMMA SetExpires ==
    ASSUME NEW r \in Records, NEW x \in Int
    PROVE  [r EXCEPT !.expires = x] \in Records
  BY DEF Records

(* Replacing the field started keeps a record one.                          *)
LEMMA SetStarted ==
    ASSUME NEW r \in Records, NEW x \in BOOLEAN
    PROVE  [r EXCEPT !.started = x] \in Records
  BY DEF Records

(* Replacing the field completed keeps a record one.                        *)
LEMMA SetCompleted ==
    ASSUME NEW r \in Records, NEW x \in BOOLEAN
    PROVE  [r EXCEPT !.completed = x] \in Records
  BY DEF Records

(* Replacing the field ckpt keeps a record one.                             *)
LEMMA SetCkpt ==
    ASSUME NEW r \in Records, NEW x \in Checkpoints
    PROVE  [r EXCEPT !.ckpt = x] \in Records
  BY DEF Records

(* Replacing the field boundary keeps a record one.                         *)
LEMMA SetBoundary ==
    ASSUME NEW r \in Records, NEW x \in Boundary
    PROVE  [r EXCEPT !.boundary = x] \in Records
  BY DEF Records

(* Replacing the field terminal keeps a record one.                         *)
LEMMA SetTerminal ==
    ASSUME NEW r \in Records, NEW x \in Terminal
    PROVE  [r EXCEPT !.terminal = x] \in Records
  BY DEF Records

(* Replacing the field updated keeps a record one.                          *)
LEMMA SetUpdated ==
    ASSUME NEW r \in Records, NEW x \in Int
    PROVE  [r EXCEPT !.updated = x] \in Records
  BY DEF Records

-----------------------------------------------------------------------------
(* create builds a record.                                                 *)
LEMMA CreatedType ==
    ASSUME NEW p \in Prompts, NEW at \in Nat
    PROVE  NoRecord \in Records /\ CreatedRecord(p, at) \in Records
<1>1. NoRecord \in Records
  BY DEF NoRecord, Records, Status, AttemptState, Boundary, Terminal,
         Checkpoints, NoCheckpoint, NoTime
<1>2. /\ "Created" \in Status /\ 1 \in Nat /\ at \in Int
      /\ p \in Prompts \cup {NoPrompt}
  BY DEF Status
<1> QED
  BY <1>1, <1>2, SetStatus, SetAttempt, SetPrompt, SetUpdated
  DEF CreatedRecord

(* The revision stamped by mutate_validated_record keeps a record one.     *)
LEMMA StampedType == ASSUME NEW r \in Records PROVE Stamped(r) \in Records
  BY DEF Stamped, Records

(* acquire builds a record.                                                *)
LEMMA AcquiredType ==
    ASSUME NEW r \in Records, NEW o \in Owners, NEW at \in Nat
    PROVE  AcquiredBy(r, o, at) \in Records
<1>1. /\ "Running" \in Status /\ "Running" \in AttemptState
      /\ r.epoch + 1 \in Nat /\ o \in Owners \cup {NoOwner}
      /\ at + LeaseDuration \in Int /\ TRUE \in BOOLEAN /\ at \in Int
  BY DurationAssumption DEF Records, Status, AttemptState
<1> QED
  BY <1>1, SetStatus, SetState, SetEpoch, SetOwner, SetExpires, SetStarted,
     SetUpdated
  DEF AcquiredBy

(* renew builds a record.                                                  *)
LEMMA RenewedType ==
    ASSUME NEW r \in Records, NEW at \in Nat
    PROVE  Renewed(r, at) \in Records
<1>1. at + LeaseDuration \in Int /\ at \in Int
  BY DurationAssumption
<1> QED BY <1>1, SetExpires, SetUpdated DEF Renewed

(* commit_checkpoint builds a record.                                      *)
LEMMA CheckpointType ==
    ASSUME NEW r \in Records, NEW c \in Checkpoints, NEW at \in Nat
    PROVE  WithCheckpoint(r, c, at) \in Records
<1>1. "Checkpointed" \in Status /\ "None" \in Boundary /\ at \in Int
  BY DEF Status, Boundary
<1> QED
  BY <1>1, SetStatus, SetCkpt, SetBoundary, SetUpdated DEF WithCheckpoint

(* commit_tool_boundary builds a record.                                   *)
LEMMA BoundaryType ==
    ASSUME NEW r \in Records, NEW b \in Boundary, NEW at \in Nat
    PROVE  WithBoundary(r, b, at) \in Records
<1>1. at \in Int
  OBVIOUS
<1> QED BY <1>1, SetBoundary, SetUpdated DEF WithBoundary

(* commit_terminal builds a record.                                        *)
LEMMA SettledType ==
    ASSUME NEW r \in Records, NEW t \in Terminal \ {"None"}, NEW at \in Nat
    PROVE  Settled(r, t, at) \in Records
<1>1. /\ TerminalStatus(t) \in Status /\ "Terminal" \in AttemptState
      /\ NoOwner \in Owners \cup {NoOwner} /\ NoTime \in Int
      /\ TRUE \in BOOLEAN /\ "None" \in Boundary /\ t \in Terminal
      /\ at \in Int
  BY DEF TerminalStatus, Terminal, Status, AttemptState, Boundary, NoTime
<1> QED
  BY <1>1, SetStatus, SetState, SetOwner, SetExpires, SetCompleted,
     SetBoundary, SetTerminal, SetUpdated
  DEF Settled

(* prepare_resume builds a record.                                         *)
LEMMA ResumedType ==
    ASSUME NEW r \in Records, NEW a \in Nat, NEW at \in Nat,
           NEW p \in Prompts \cup {NoPrompt}
    PROVE  ResumedAs(r, a, p, at) \in Records
<1>1. /\ "Resuming" \in Status /\ "Prepared" \in AttemptState
      /\ r.ckpt.attempt \in Nat /\ NoOwner \in Owners \cup {NoOwner}
      /\ NoTime \in Int /\ FALSE \in BOOLEAN /\ "None" \in Boundary
      /\ "None" \in Terminal /\ at \in Int
  BY DEF Records, Checkpoints, Status, AttemptState, Boundary, Terminal,
         NoTime
<1> QED
  BY <1>1, SetStatus, SetState, SetAttempt, SetFrom, SetPrompt, SetOwner,
     SetExpires, SetStarted, SetCompleted, SetBoundary, SetTerminal,
     SetUpdated
  DEF ResumedAs

(* The reconciler builds a record, whichever way it decides.               *)
LEMMA ReconciledType ==
    ASSUME NEW r \in Records, NEW at \in Nat
    PROVE  Reconciled(r, at) \in Records
<1>1. Settled(r, "OwnerExpired", at) \in Records
  BY SettledType DEF Terminal
<1>2. /\ "Suspended" \in Status /\ "Suspended" \in AttemptState
      /\ NoOwner \in Owners \cup {NoOwner} /\ NoTime \in Int /\ at \in Int
  BY DEF Status, AttemptState, NoTime
<1>3. [r EXCEPT !.status = "Suspended", !.state = "Suspended",
                !.owner = NoOwner, !.expires = NoTime, !.updated = at]
          \in Records
  BY <1>2, SetStatus, SetState, SetOwner, SetExpires, SetUpdated
<1> QED BY <1>1, <1>3 DEF Reconciled
-----------------------------------------------------------------------------
(***************************************************************************)
(* What validate_record requires, in each mutation's own preconditions     *)
(***************************************************************************)
(* A created record is valid.                                              *)
LEMMA CreatedValid ==
    ASSUME NEW p \in Prompts, NEW at \in Nat
    PROVE  ValidRecord(CreatedRecord(p, at))
  BY DEF CreatedRecord, NoRecord, NoCheckpoint, NoTime, ValidRecord,
         TimesMatch, LeaseMatches, AttemptStateMatches, TerminalMatches,
         CheckpointMatches

(* Validation does not look at the revision.                               *)
LEMMA StampedValid ==
    ASSUME NEW r \in Records, ValidRecord(r)
    PROVE  ValidRecord(Stamped(r))
  BY DEF Stamped, Records, ValidRecord, TimesMatch, LeaseMatches,
         AttemptStateMatches, TerminalMatches, CheckpointMatches

(* acquire turns a valid prepared record into a valid running one.         *)
LEMMA AcquiredValid ==
    ASSUME NEW r \in Records, ValidRecord(r), r.state = "Prepared",
           NEW o \in Owners, NEW at \in Nat
    PROVE  ValidRecord(AcquiredBy(r, o, at))
  BY OwnersAssumption, DurationAssumption
  DEF AcquiredBy, Records, NoTime, ValidRecord, TimesMatch, LeaseMatches,
      AttemptStateMatches, TerminalMatches, CheckpointMatches

(* renew keeps a running record valid.                                     *)
LEMMA RenewedValid ==
    ASSUME NEW r \in Records, ValidRecord(r), r.state = "Running",
           NEW at \in Nat
    PROVE  ValidRecord(Renewed(r, at))
  BY DurationAssumption
  DEF Renewed, Records, NoTime, ValidRecord, TimesMatch, LeaseMatches,
      AttemptStateMatches, TerminalMatches, CheckpointMatches

(* commit_checkpoint keeps a running record valid when the checkpoint is of
   its current attempt.                                                    *)
LEMMA CheckpointValid ==
    ASSUME NEW r \in Records, ValidRecord(r), r.state = "Running",
           NEW c \in Checkpoints, c.attempt = r.attempt, c.attempt # 0,
           NEW at \in Nat
    PROVE  ValidRecord(WithCheckpoint(r, c, at))
  BY DEF WithCheckpoint, Records, Checkpoints, NoCheckpoint, ValidRecord,
         TimesMatch, LeaseMatches, AttemptStateMatches, TerminalMatches,
         CheckpointMatches

(* commit_tool_boundary keeps a running record valid.                      *)
LEMMA BoundaryValid ==
    ASSUME NEW r \in Records, ValidRecord(r), r.state = "Running",
           NEW b \in Boundary, NEW at \in Nat
    PROVE  ValidRecord(WithBoundary(r, b, at))
  BY DEF WithBoundary, Records, ValidRecord, TimesMatch, LeaseMatches,
         AttemptStateMatches, TerminalMatches, CheckpointMatches

(* Settling any valid record gives a valid one.                            *)
LEMMA SettledValid ==
    ASSUME NEW r \in Records, ValidRecord(r),
           NEW t \in Terminal \ {"None"}, NEW at \in Nat
    PROVE  ValidRecord(Settled(r, t, at))
  BY DEF Settled, TerminalStatus, Terminal, Records, NoTime, ValidRecord,
         TimesMatch, LeaseMatches, AttemptStateMatches, TerminalMatches,
         CheckpointMatches

(* prepare_resume gives a valid record when it opens an attempt later than
   the one that wrote the checkpoint.                                      *)
LEMMA ResumedValid ==
    ASSUME NEW r \in Records, ValidRecord(r), Resumable(r),
           NEW a \in Nat, r.ckpt.attempt # a, r.ckpt.attempt # 0,
           NEW p \in Prompts \cup {NoPrompt}, NEW at \in Nat
    PROVE  ValidRecord(ResumedAs(r, a, p, at))
  BY DEF ResumedAs, Resumable, Records, NoTime, ValidRecord, TimesMatch,
         LeaseMatches, AttemptStateMatches, TerminalMatches,
         CheckpointMatches

(* The reconciler's record is valid.                                       *)
LEMMA ReconciledValid ==
    ASSUME NEW r \in Records, ValidRecord(r), r.state = "Running",
           NEW at \in Nat
    PROVE  ValidRecord(Reconciled(r, at))
<1>1. ValidRecord(Settled(r, "OwnerExpired", at))
  BY SettledValid DEF Terminal
<1>2. ASSUME r.ckpt # NoCheckpoint
      PROVE  ValidRecord([r EXCEPT !.status = "Suspended",
                 !.state = "Suspended", !.owner = NoOwner,
                 !.expires = NoTime, !.updated = at])
  BY <1>2
  DEF Records, NoTime, ValidRecord, TimesMatch, LeaseMatches,
      AttemptStateMatches, TerminalMatches, CheckpointMatches
<1> QED BY <1>1, <1>2 DEF Reconciled
-----------------------------------------------------------------------------
(***************************************************************************)
(* Types                                                                   *)
(***************************************************************************)
(* The part of TypeOK about the process-local state.                       *)
LocalType ==
    /\ mode \in [Owners -> Modes]
    /\ held \in [Owners -> Handles]
    /\ call \in [Owners -> Calls]
    /\ tool \in [Owners -> Boundary]
    /\ ran \in [Owners -> Nat]
    /\ unsettled \in [Owners -> BOOLEAN]
    /\ final \in [Owners -> Terminal]
    /\ cancelled \in [Owners -> BOOLEAN]
    /\ beat \in [Owners -> Nat]
    /\ taskBeat \in [Owners -> Nat]
    /\ due \in [Owners -> BOOLEAN]

(* TypeOK but for the task leases.                                         *)
CoreType ==
    /\ LocalType
    /\ rec \in Records
    /\ clock \in Nat /\ faults \in Nat
    /\ sweep \in Nat \cup {NoTime}
    /\ rejected \in BOOLEAN /\ exposed \in BOOLEAN

(* The steps that take, renew, fail to renew or fence a task lease.        *)
TaskStep(o) == AcquireTask(o) \/ BeatTask(o) \/ FailTask(o) \/ FenceTask(o)

(* They leave the record and the calls on it alone.                        *)
LEMMA TaskStepKeeps ==
    ASSUME NEW o \in Owners, TaskStep(o)
    PROVE  /\ UNCHANGED <<rec, clock, mode, held, call, tool, ran, unsettled, final,
                          beat, sweep>>
           /\ UNCHANGED <<rejected, exposed>>
<1>1. UNCHANGED <<rec, clock, mode, held, call, tool, ran, unsettled, final, beat, sweep>>
  BY DEF TaskStep, AcquireTask, BeatTask, RenewTask, RefuseTask, FailTask, FenceTask,
         TaskBeatFails, worker, heart
<1>2. UNCHANGED <<rejected, exposed>>
  BY Zenon DEF TaskStep, AcquireTask, BeatTask, RenewTask, RefuseTask, FailTask,
         FenceTask, TaskBeatFails
<1> QED BY <1>1, <1>2

(* The handle a launch takes from a record is one.                         *)
LEMMA HoldType == ASSUME NEW r \in Records PROVE HoldOf(r) \in Handles
  BY DEF HoldOf, Handles, Records, Checkpoints

(* The empty handle and the empty call have their types.                   *)
LEMMA NoneType == NoHold \in Handles /\ NoCall \in Calls
  BY DEF NoHold, NoCall, Handles, Calls, Ops

(* Replacing fields of a handle.                                           *)
LEMMA SetHoldRev ==
    ASSUME NEW h \in Handles, NEW x \in Nat
    PROVE  [h EXCEPT !.rev = x] \in Handles
  BY DEF Handles

(* The same for the lease epoch.                                            *)
LEMMA SetHoldEpoch ==
    ASSUME NEW h \in Handles, NEW x \in Nat
    PROVE  [h EXCEPT !.epoch = x] \in Handles
  BY DEF Handles

(* The same for the next checkpoint's sequence number.                      *)
LEMMA SetHoldSeq ==
    ASSUME NEW h \in Handles, NEW x \in Nat
    PROVE  [h EXCEPT !.seq = x] \in Handles
  BY DEF Handles

(* The same for the attempt whose conversation it extends.                  *)
LEMMA SetHoldPrev ==
    ASSUME NEW h \in Handles, NEW x \in Nat
    PROVE  [h EXCEPT !.prev = x] \in Handles
  BY DEF Handles

(* A launch that ends keeps the types of the process-local state.          *)
LEMMA GoneType ==
    ASSUME TypeOK, NEW o \in Owners, Gone(o)
    PROVE  LocalType'
<1>1. /\ "gone" \in Modes /\ "None" \in Boundary /\ 0 \in Nat
      /\ FALSE \in BOOLEAN /\ "None" \in Terminal
  BY DEF Modes, Boundary, Terminal
<1> QED BY <1>1, NoneType DEF LocalType, TypeOK, Gone

(* A call that begins has the type of one.                                 *)
LEMMA CalledType ==
    ASSUME TypeOK, NEW o \in Owners, NEW op \in Ops, NEW rev \in Nat,
           NEW p \in Prompts \cup {NoPrompt}, NEW b \in BOOLEAN,
           Called(o, op, rev, p, b)
    PROVE  call' \in [Owners -> Calls]
<1>1. [op |-> op, at |-> clock, rev |-> rev, prompt |-> p, retried |-> b]
          \in Calls
  BY DEF TypeOK, Calls
<1> QED BY <1>1 DEF TypeOK, Called

(* StartWorker keeps the types.                                            *)
LEMMA StartType ==
    ASSUME TypeOK, NEW o \in Owners, NEW r \in Records, StartWorker(o, r)
    PROVE  LocalType'
<1>1. "running" \in Modes /\ r.epoch \in Nat /\ r.revision \in Nat
  BY DEF Modes, Records
<1>2. [[held[o] EXCEPT !.epoch = r.epoch] EXCEPT !.rev = r.revision] \in Handles
  BY <1>1, SetHoldEpoch, SetHoldRev DEF TypeOK
<1>3. held' \in [Owners -> Handles]
  BY <1>2 DEF TypeOK, StartWorker
<1> QED
  BY <1>1, <1>3, NoneType DEF LocalType, TypeOK, StartWorker, Moved, Returned

(* A failed acquire keeps the types.                                       *)
LEMMA AcquireErrType ==
    ASSUME TypeOK, NEW o \in Owners, AcquireErr(o)
    PROVE  LocalType'
<1>1. [NoCall EXCEPT !.retried = TRUE] \in Calls
  BY DEF NoCall, Calls, Ops
<1> QED BY <1>1, GoneType DEF LocalType, TypeOK, AcquireErr, worker, heart

(* A mutation admitted for a lease holder builds a record.                 *)
LEMMA WrittenType ==
    ASSUME TypeOK, NEW o \in Owners, call[o].op \in Writes, WriteAdmitted(o)
    PROVE  Written(o) \in Records /\ Stamped(Written(o)) \in Records
<1>1. /\ rec \in Records /\ call[o].at \in Nat /\ tool[o] \in Boundary
      /\ final[o] \in Terminal /\ PendingCheckpoint(o) \in Checkpoints
  BY DEF TypeOK, Calls, Handles, PendingCheckpoint, Checkpoints
<1>2. ASSUME call[o].op = "terminal"
      PROVE  final[o] \in Terminal \ {"None"}
  BY <1>1, <1>2 DEF WriteAdmitted, StatusSteps, TerminalStatus
<1>3. CASE call[o].op = "renew"
  BY <1>1, <1>3, RenewedType, StampedType DEF Written
<1>4. CASE call[o].op = "checkpoint"
  BY <1>1, <1>4, CheckpointType, StampedType DEF Written
<1>5. CASE call[o].op = "boundary"
  BY <1>1, <1>5, BoundaryType, StampedType DEF Written
<1>6. CASE call[o].op = "terminal"
  BY <1>1, <1>2, <1>6, SettledType, StampedType DEF Written
<1> QED BY <1>3, <1>4, <1>5, <1>6 DEF Writes

(* What follows a successful write keeps the types.                        *)
LEMMA WriteOkType ==
    ASSUME TypeOK, NEW o \in Owners, NEW r \in Records, WriteOk(o, r)
    PROVE  LocalType'
<1>1. /\ held[o] \in Handles /\ RevisionAfter(o, r) \in Nat
      /\ r.ckpt.seq + 1 \in Nat /\ r.ckpt.attempt \in Nat
  BY DEF TypeOK, RevisionAfter, Records, Checkpoints
<1>2. [held[o] EXCEPT !.rev = RevisionAfter(o, r)] \in Handles
  BY <1>1, SetHoldRev
<1>3. [[[held[o] EXCEPT !.rev = RevisionAfter(o, r)]
           EXCEPT !.seq = r.ckpt.seq + 1] EXCEPT !.prev = r.ckpt.attempt]
         \in Handles
  BY <1>1, <1>2, SetHoldSeq, SetHoldPrev
<1>4. CASE call[o].op = "renew"
  BY <1>2, <1>4, NoneType DEF LocalType, TypeOK, WriteOk, Returned
<1>5. CASE call[o].op = "checkpoint"
  <2>1. held' = [held EXCEPT ![o] =
                    [[[held[o] EXCEPT !.rev = RevisionAfter(o, r)]
                         EXCEPT !.seq = r.ckpt.seq + 1]
                         EXCEPT !.prev = r.ckpt.attempt]]
    BY <1>5 DEF TypeOK, WriteOk
  <2>2. held' \in [Owners -> Handles]
    BY <1>3, <2>1 DEF TypeOK
  <2>3. /\ call' \in [Owners -> Calls] /\ ran' \in [Owners -> Nat]
        /\ UNCHANGED <<mode, tool, unsettled, final, cancelled, heart>>
    BY <1>5, NoneType DEF LocalType, TypeOK, WriteOk, Returned
  <2> QED BY <2>2, <2>3 DEF LocalType, TypeOK, heart
<1>6. CASE call[o].op = "boundary"
  BY <1>2, <1>6, NoneType DEF LocalType, TypeOK, WriteOk, Returned, worker, heart
<1>7. CASE call[o].op \notin {"renew", "checkpoint", "boundary"}
  BY <1>7, GoneType DEF WriteOk
<1> QED BY <1>4, <1>5, <1>6, <1>7

(* What follows a failed write keeps the types.                            *)
LEMMA WriteErrType ==
    ASSUME TypeOK, NEW o \in Owners, NEW b \in BOOLEAN, WriteErr(o, b)
    PROVE  LocalType'
<1>1. CASE call[o].op = "renew"
  <2> DEFINE ends == RenewalFailureEndsRun(b, clock - beat[o], LeaseDuration)
  <2>1. (cancelled[o] \/ ends) \in BOOLEAN
    BY Zenon DEF TypeOK, RenewalFailureEndsRun
  <2>2. cancelled' = [cancelled EXCEPT ![o] = cancelled[o] \/ ends]
    BY <1>1 DEF WriteErr
  <2> HIDE DEF ends
  <2> QED BY <1>1, <2>1, <2>2, NoneType DEF LocalType, TypeOK, WriteErr, Returned, heart
<1>2. CASE call[o].op \in {"checkpoint", "boundary"}
  <2>1. "stopping" \in Modes /\ "Failed" \in Terminal /\ "None" \in Boundary
    BY DEF Modes, Terminal, Boundary
  <2> QED BY <1>2, <2>1, NoneType DEF LocalType, TypeOK, WriteErr, Returned, Moved, heart
<1>3. CASE call[o].op \notin {"renew", "checkpoint", "boundary"}
  BY <1>3, GoneType DEF WriteErr
<1> QED BY <1>1, <1>2, <1>3

(* Init establishes TypeOK.                                                *)
LEMMA TypeInit == Init => TypeOK
<1>1. NoRecord \in Records
  BY DEF NoRecord, Records, Status, AttemptState, Boundary, Terminal,
         Checkpoints, NoCheckpoint, NoTime
<1>2. "idle" \in Modes /\ "None" \in Boundary /\ "None" \in Terminal
      /\ 0 \in Nat /\ FALSE \in BOOLEAN /\ NoTime \in Nat \cup {NoTime}
  BY DEF Modes, Boundary, Terminal
<1>3. Init => /\ unsettled \in [Owners -> BOOLEAN] /\ cancelled \in [Owners -> BOOLEAN]
              /\ due \in [Owners -> BOOLEAN]
  BY Zenon DEF Init
<1>4. Init => /\ rec \in Records /\ clock \in Nat /\ faults \in Nat
              /\ mode \in [Owners -> Modes] /\ held \in [Owners -> Handles]
              /\ call \in [Owners -> Calls] /\ tool \in [Owners -> Boundary]
              /\ ran \in [Owners -> Nat] /\ final \in [Owners -> Terminal]
              /\ beat \in [Owners -> Nat] /\ sweep \in Nat \cup {NoTime}
              /\ taskBeat \in [Owners -> Nat]
  BY <1>1, <1>2, NoneType DEF Init
<1>5. Init => rejected \in BOOLEAN /\ exposed \in BOOLEAN
  BY DEF Init
<1>6. Init => task \in [Owners -> Tasks] /\ masked \subseteq Owners
  BY DEF Init, NoTask, Tasks
<1> QED BY <1>3, <1>4, <1>5, <1>6, Zenon DEF TypeOK

(* The task leases change by the steps on them, the owners told of a failed
   renewal by those and by a commit that reports an error.                 *)
LEMMA LeasesMove ==
    ASSUME [Next]_vars
    PROVE  \/ UNCHANGED leases
           \/ \E o \in Owners :
                 \/ TaskStep(o)
                 \/ CommitWrite(o) /\ task' = task /\ masked' \in {masked, masked \cup {o}}
<1>1. ASSUME NEW o \in Owners, CommitWrite(o)
      PROVE  task' = task /\ masked' \in {masked, masked \cup {o}}
  BY <1>1 DEF CommitWrite
<1>2. ASSUME NEW o \in Owners,
             \/ \E p \in Prompts : Create(o, p) \/ BeginResume(o, p)
             \/ LoadPrepared(o) \/ BeginAcquire(o) \/ BeginAbandon(o)
             \/ Run(o) \/ BeginTerminal(o) \/ BeginRenew(o) \/ FailWrite(o) \/ Crash(o)
             \/ FinishResume(o) \/ FinishAcquire(o) \/ FinishAbandon(o)
             \/ RefuseWrite(o) \/ ConflictWrite(o)
      PROVE  UNCHANGED leases
  BY <1>2
  DEF Create, BeginResume, LoadPrepared, BeginAcquire, BeginAbandon, Run, BeginBoundary,
      RunTool, BeginCheckpoint, EndRun, BeginTerminal, BeginRenew, FailWrite, Crash,
      FinishResume, FinishAcquire, FinishAbandon, RefuseWrite, ConflictWrite
<1>3. ASSUME BeginReconcile \/ FinishReconcile \/ Tick \/ UNCHANGED vars
      PROVE  UNCHANGED leases
  BY <1>3 DEF BeginReconcile, FinishReconcile, Tick, vars
<1> QED BY <1>1, <1>2, <1>3 DEF Next, Prepare, FinishCall, TaskStep

(* What changes a task lease keeps its type.                               *)
LEMMA TaskTypeStep ==
    ASSUME TypeOK, [Next]_vars
    PROVE  task' \in [Owners -> Tasks] /\ masked' \subseteq Owners
<1>d. TaskLeaseDuration \in Nat
  BY TaskDurationAssumption
<1>t. task \in [Owners -> Tasks] /\ masked \subseteq Owners /\ clock \in Nat
  BY DEF TypeOK
<1>1. CASE UNCHANGED leases
  BY <1>1, <1>t DEF leases
<1>2. ASSUME NEW o \in Owners
      PROVE  /\ TaskRenewed(o) \in [Owners -> Tasks]
             /\ [task EXCEPT ![o].until = 0] \in [Owners -> Tasks]
             /\ [task EXCEPT ![o] = [of    |-> held[o].attempt,
                                    until |-> clock + TaskLeaseDuration]]
                   \in [Owners -> Tasks]
  <2>1. /\ [task[o] EXCEPT !.until = clock + TaskLeaseDuration] \in Tasks
        /\ [task[o] EXCEPT !.until = 0] \in Tasks
    BY <1>d, <1>t DEF Tasks
  <2>2. [of |-> held[o].attempt, until |-> clock + TaskLeaseDuration] \in Tasks
    BY <1>d, <1>t DEF Tasks, TypeOK, Handles
  <2> QED BY <1>t, <2>1, <2>2 DEF TaskRenewed
<1>3. ASSUME NEW o \in Owners, TaskStep(o)
      PROVE  task' \in [Owners -> Tasks] /\ masked' \subseteq Owners
  BY <1>1, <1>2, <1>3, <1>t
  DEF TaskStep, AcquireTask, BeatTask, RenewTask, RefuseTask, FailTask, FenceTask, leases
<1> QED BY <1>t, <1>1, <1>3, LeasesMove

(* Every step of every action keeps the rest of TypeOK.                    *)
LEMMA CoreTypeStep == TypeOK /\ [Next]_vars => CoreType'
<1> SUFFICES ASSUME TypeOK, [Next]_vars PROVE CoreType'
  OBVIOUS
<1> USE DEF TypeOK, CoreType, LocalType, heart
<1>1. ASSUME NEW o \in Owners, NEW p \in Prompts, Create(o, p)
      PROVE  CoreType'
  <2>1. CreatedRecord(p, clock) \in Records
    BY CreatedType
  <2>2. HoldOf(CreatedRecord(p, clock)) \in Handles /\ "prepared" \in Modes
    BY <2>1, HoldType DEF Modes
  <2> QED BY <1>1, <2>1, <2>2 DEF Create, Moved, Holds, worker
<1>2. ASSUME NEW o \in Owners, LoadPrepared(o)
      PROVE  CoreType'
  <2>1. HoldOf(rec) \in Handles /\ "prepared" \in Modes
    BY HoldType DEF Modes
  <2> QED BY <1>2, <2>1 DEF LoadPrepared, Moved, Holds, worker
<1>3. ASSUME NEW o \in Owners, NEW p \in Prompts, BeginResume(o, p)
      PROVE  CoreType'
  <2>1. /\ HoldOf(rec) \in Handles /\ "prepared" \in Modes
        /\ "resuming" \in Modes /\ "resume" \in Ops /\ rec.revision \in Nat
    BY HoldType DEF Modes, Ops, Records
  <2>2. CASE PromptInProgress(p)
    BY <1>3, <2>1, <2>2 DEF BeginResume, Moved, Holds, worker
  <2>3. CASE ~PromptInProgress(p)
    <3>1. Called(o, "resume", rec.revision, p, FALSE)
      BY <1>3, <2>3 DEF BeginResume
    <3>2. call' \in [Owners -> Calls]
      BY <2>1, <3>1, CalledType
    <3> QED BY <1>3, <2>1, <2>3, <3>2 DEF BeginResume, Moved, worker
  <2> QED BY <2>2, <2>3
<1>4. ASSUME NEW o \in Owners, BeginAcquire(o)
      PROVE  CoreType'
  <2>1. UNCHANGED <<rec, clock, sweep, faults, rejected, exposed>>
    BY <1>4 DEF BeginAcquire
  <2>2. ASSUME Called(o, "acquire", held[o].rev, NoPrompt, call[o].retried)
        PROVE  call' \in [Owners -> Calls]
    <3>1. "acquire" \in Ops /\ held[o].rev \in Nat /\ call[o].retried \in BOOLEAN
      BY DEF Ops, Handles, Calls
    <3>2. [op |-> "acquire", at |-> clock, rev |-> held[o].rev,
           prompt |-> NoPrompt, retried |-> call[o].retried] \in Calls
      BY <3>1 DEF Calls
    <3> QED BY <2>2, <3>2 DEF Called
  <2>3. LocalType'
    <3>1. CASE UNCHANGED <<mode, held, worker>> /\ call' \in [Owners -> Calls]
      BY <3>1 DEF LocalType, worker
    <3> QED BY <1>4, <2>2, <3>1, StartType, AcquireErrType DEF BeginAcquire
  <2> QED BY <2>1, <2>3 DEF LocalType
<1>5. ASSUME NEW o \in Owners, BeginAbandon(o)
      PROVE  CoreType'
  <2>1. "abandon" \in Ops /\ held[o].rev \in Nat /\ FALSE \in BOOLEAN
    BY DEF Ops, Handles
  <2>2. call' \in [Owners -> Calls]
    BY <1>5, <2>1, CalledType DEF BeginAbandon
  <2> QED BY <1>5, <2>2 DEF BeginAbandon, worker
<1>6. ASSUME NEW o \in Owners, NEW b \in Boundary \ {"None"}, BeginBoundary(o, b)
      PROVE  CoreType'
  <2>1. "boundary" \in Ops /\ held[o].rev \in Nat /\ FALSE \in BOOLEAN
    BY DEF Ops, Handles
  <2>2. call' \in [Owners -> Calls]
    BY <1>6, <2>1, CalledType DEF BeginBoundary
  <2> QED BY <1>6, <2>2 DEF BeginBoundary
<1>7. ASSUME NEW o \in Owners, NEW b \in BOOLEAN, RunTool(o, b)
      PROVE  CoreType'
  <2>1. "None" \in Boundary /\ ran[o] + 1 \in Nat
    BY DEF Boundary
  <2>2. (unsettled[o] \/ ~b) \in BOOLEAN
        /\ (exposed \/ tool[o] = "Indeterminate") \in BOOLEAN
    BY Zenon
  <2> QED BY <1>7, <2>1, <2>2 DEF RunTool
<1>8. ASSUME NEW o \in Owners, BeginCheckpoint(o)
      PROVE  CoreType'
  <2>1. "checkpoint" \in Ops /\ held[o].rev \in Nat /\ FALSE \in BOOLEAN
    BY DEF Ops, Handles
  <2>2. call' \in [Owners -> Calls]
    BY <1>8, <2>1, CalledType DEF BeginCheckpoint
  <2> QED BY <1>8, <2>2 DEF BeginCheckpoint, worker
<1>9. ASSUME NEW o \in Owners,
             NEW t \in {"Completed", "Failed", "Cancelled", "Panicked"},
             EndRun(o, t)
      PROVE  CoreType'
  <2>1. t \in Terminal /\ "stopping" \in Modes /\ "None" \in Boundary
    BY DEF Terminal, Modes, Boundary
  <2> QED BY <1>9, <2>1 DEF EndRun, Moved
<1>10. ASSUME NEW o \in Owners, BeginTerminal(o)
       PROVE  CoreType'
  <2>1. "terminal" \in Ops /\ held[o].rev \in Nat /\ FALSE \in BOOLEAN
    BY DEF Ops, Handles
  <2>2. CASE AlreadySettled(o)
    BY <1>10, <2>2, GoneType DEF BeginTerminal, LocalType
  <2>3. CASE ~AlreadySettled(o)
    <3>1. call' \in [Owners -> Calls]
      BY <1>10, <2>1, <2>3, CalledType DEF BeginTerminal
    <3> QED BY <1>10, <2>3, <3>1 DEF BeginTerminal, worker
  <2> QED BY <2>2, <2>3
<1>11. ASSUME NEW o \in Owners, BeginRenew(o)
       PROVE  CoreType'
  <2>1. "renew" \in Ops /\ held[o].rev \in Nat /\ FALSE \in BOOLEAN
    BY DEF Ops, Handles
  <2>2. call' \in [Owners -> Calls]
    BY <1>11, <2>1, CalledType DEF BeginRenew
  <2>3. due' \in [Owners -> BOOLEAN]
    BY <1>11 DEF BeginRenew
  <2> QED BY <1>11, <2>2, <2>3 DEF BeginRenew
<1>12. ASSUME NEW o \in Owners, FinishResume(o)
       PROVE  CoreType'
  <2> DEFINE new == ResumedAs(rec, rec.attempt + 1, call[o].prompt, call[o].at)
  <2>1. /\ rec.attempt + 1 \in Nat /\ call[o].at \in Nat
        /\ call[o].prompt \in Prompts \cup {NoPrompt}
    BY DEF Records, Calls
  <2>2. Stamped(new) \in Records
    BY <2>1, ResumedType, StampedType
  <2>3. HoldOf(Stamped(new)) \in Handles /\ "prepared" \in Modes
    BY <2>2, HoldType DEF Modes
  <2> HIDE DEF new
  <2>4. CASE ResumeAdmitted(o) /\ Accepts(rec, new)
    BY <1>12, <2>2, <2>3, <2>4, NoneType
    DEF FinishResume, Moved, Holds, Returned, worker, new
  <2>5. CASE ~(ResumeAdmitted(o) /\ Accepts(rec, new))
    <3>1. LocalType'
      BY <1>12, <2>5, GoneType DEF FinishResume, new
    <3>2. rejected' \in BOOLEAN
      BY <1>12, <2>5 DEF FinishResume, new, ResumeAdmitted
    <3> QED BY <1>12, <2>5, <3>1, <3>2 DEF FinishResume, LocalType, new
  <2> QED BY <2>4, <2>5
<1>13. ASSUME NEW o \in Owners, FinishAcquire(o)
       PROVE  CoreType'
  <2> DEFINE new == AcquiredBy(rec, o, call[o].at)
  <2>1. call[o].at \in Nat
    BY DEF Calls
  <2>2. Stamped(new) \in Records
    BY <2>1, AcquiredType, StampedType
  <2> HIDE DEF new
  <2>3. LocalType'
    BY <1>13, <2>2, StartType, AcquireErrType DEF FinishAcquire, new
  <2>4. rec' \in Records /\ faults' \in Nat
    BY <1>13, <2>2 DEF FinishAcquire, new
  <2>5. rejected' \in BOOLEAN
    BY <1>13 DEF FinishAcquire
  <2> QED BY <1>13, <2>3, <2>4, <2>5 DEF FinishAcquire, LocalType
<1>14. ASSUME NEW o \in Owners, FinishAbandon(o)
       PROVE  CoreType'
  <2> DEFINE new == Settled(rec, "Failed", call[o].at)
  <2>1. call[o].at \in Nat /\ "Failed" \in Terminal \ {"None"}
    BY DEF Calls, Terminal
  <2>2. Stamped(new) \in Records
    BY <2>1, SettledType, StampedType
  <2> HIDE DEF new
  <2>3. LocalType'
    BY <1>14, GoneType DEF FinishAbandon
  <2>4. rec' \in Records
    BY <1>14, <2>2 DEF FinishAbandon, new
  <2>5. rejected' \in BOOLEAN
    BY <1>14 DEF FinishAbandon
  <2> QED BY <1>14, <2>3, <2>4, <2>5 DEF FinishAbandon, LocalType
<1>15. ASSUME NEW o \in Owners, CommitWrite(o)
       PROVE  CoreType'
  <2>1. Stamped(Written(o)) \in Records
    BY <1>15, WrittenType DEF CommitWrite
  <2>2. LocalType'
    BY <1>15, <2>1, WriteOkType, WriteErrType DEF CommitWrite
  <2>3. rec' \in Records /\ faults' \in Nat
    <3>1. rec' = Stamped(Written(o)) /\ faults' \in {faults, faults + 1}
      BY <1>15, Zenon DEF CommitWrite
    <3> QED BY <2>1, <3>1
  <2>4. exposed' \in BOOLEAN
    BY <1>15 DEF CommitWrite
  <2> QED BY <1>15, <2>2, <2>3, <2>4 DEF CommitWrite, LocalType
<1>16. ASSUME NEW o \in Owners, RefuseWrite(o)
       PROVE  CoreType'
  <2>1. LocalType'
    BY <1>16, WriteErrType DEF RefuseWrite
  <2>2. rejected' \in BOOLEAN
    BY <1>16 DEF RefuseWrite
  <2> QED BY <1>16, <2>1, <2>2 DEF RefuseWrite, LocalType
<1>17. ASSUME NEW o \in Owners, ConflictWrite(o)
       PROVE  CoreType'
  <2>1. call[o].op \in Ops /\ rec.revision \in Nat /\ TRUE \in BOOLEAN
    BY DEF Calls, Records
  <2>2. CASE WriteErr(o, FALSE)
    BY <1>17, <2>2, WriteErrType DEF ConflictWrite, LocalType
  <2>3. CASE ~WriteErr(o, FALSE)
    <3>1. Called(o, call[o].op, rec.revision, NoPrompt, TRUE)
      BY <1>17, <2>3 DEF ConflictWrite
    <3>2. call' \in [Owners -> Calls]
      BY <2>1, <3>1, CalledType
    <3> QED BY <1>17, <2>3, <3>2 DEF ConflictWrite, worker
  <2> QED BY <2>2, <2>3
<1>18. ASSUME NEW o \in Owners, FailWrite(o)
       PROVE  CoreType'
  <2>1. LocalType'
    BY <1>18, WriteErrType DEF FailWrite
  <2> QED BY <1>18, <2>1 DEF FailWrite, LocalType
<1>19. ASSUME NEW o \in Owners, Crash(o)
       PROVE  CoreType'
  BY <1>19, GoneType DEF Crash, LocalType
<1>20. CASE BeginReconcile
  BY <1>20 DEF BeginReconcile, worker
<1>21. CASE FinishReconcile
  <2>1. sweep \in Nat
    BY <1>21 DEF FinishReconcile
  <2>2. Stamped(Reconciled(rec, sweep)) \in Records
    BY <2>1, ReconciledType, StampedType
  <2>3. rec' \in Records
    BY <1>21, <2>2 DEF FinishReconcile
  <2>4. rejected' \in BOOLEAN
    BY <1>21 DEF FinishReconcile
  <2> QED BY <1>21, <2>3, <2>4 DEF FinishReconcile, worker
<1>22. CASE Tick
  BY <1>22 DEF Tick, worker
<1>23. CASE UNCHANGED vars
  BY <1>23 DEF vars, worker
<1>24. ASSUME NEW o \in Owners, TaskStep(o)
       PROVE  CoreType'
  <2>1. cancelled' \in [Owners -> BOOLEAN]
    <3>1. CASE \E b \in BOOLEAN : TaskBeatFails(o, b)
      <4>1. PICK b \in BOOLEAN : TaskBeatFails(o, b)
        BY <3>1
      <4> DEFINE ends == RenewalFailureEndsRun(b, clock - taskBeat[o], TaskLeaseDuration)
      <4>2. (cancelled[o] \/ ends) \in BOOLEAN
        BY Zenon DEF RenewalFailureEndsRun
      <4>3. cancelled' = [cancelled EXCEPT ![o] = cancelled[o] \/ ends]
        BY <4>1 DEF TaskBeatFails
      <4> HIDE DEF ends
      <4> QED BY <4>2, <4>3
    <3>2. CASE UNCHANGED cancelled
      BY <3>2
    <3> QED BY <1>24, <3>1, <3>2
      DEF TaskStep, AcquireTask, BeatTask, RenewTask, RefuseTask, FailTask, FenceTask, worker
  <2>2. taskBeat' \in [Owners -> Nat] /\ due' \in [Owners -> BOOLEAN]
    BY <1>24 DEF TaskStep, AcquireTask, BeatTask, RenewTask, RefuseTask, FailTask,
                 FenceTask, TaskBeatFails, worker
  <2>3. faults' \in Nat
    <3>1. faults' = faults \/ faults' = faults + 1
      BY <1>24, Zenon
      DEF TaskStep, AcquireTask, BeatTask, RenewTask, RefuseTask, FailTask, FenceTask
    <3> QED BY <3>1
  <2> QED BY <1>24, <2>1, <2>2, <2>3, TaskStepKeeps
<1> HIDE DEF TypeOK, CoreType, LocalType
<1> QED
  BY <1>1, <1>2, <1>3, <1>4, <1>5, <1>6, <1>7, <1>8, <1>9, <1>10, <1>11,
     <1>12, <1>13, <1>14, <1>15, <1>16, <1>17, <1>18, <1>19, <1>20, <1>21,
     <1>22, <1>23, <1>24
  DEF Next, Prepare, Run, FinishCall, TaskStep

(* Every step of every action keeps TypeOK.                                *)
LEMMA TypeStep == TypeOK /\ [Next]_vars => TypeOK'
  BY TaskTypeStep, CoreTypeStep DEF TypeOK, CoreType, LocalType

(* Every reachable state of the coordinator, its workers and its reconciler
   is well typed: the records, handles and calls keep their Rust types, and
   no checkpoint sequence goes below zero.                                 *)
THEOREM TypeCorrect == Spec => []TypeOK
  BY TypeInit, TypeStep, PTL DEF Spec

-----------------------------------------------------------------------------
(***************************************************************************)
(* The store: what it holds is valid, and no call in flight can make it    *)
(* hold anything else                                                      *)
(***************************************************************************)
(* A record the store may hold at time now: it passes validation, was not
   updated in the future, an owned record was updated before its lease
   ends, and its checkpoint is of its current or of an earlier attempt.    *)
GoodRecord(r, now) ==
    /\ r.status = "Absent" => r = NoRecord
    /\ r.status # "Absent" => ValidRecord(r) /\ r.attempt # 0
    /\ r.updated <= now
    /\ r.owner # NoOwner => r.updated < r.expires
    /\ r.from <= r.attempt /\ r.ckpt.attempt <= r.attempt
    /\ r.ckpt # NoCheckpoint => r.ckpt.attempt # 0 /\ r.ckpt.seq # -1

RecordInv == GoodRecord(rec, clock)

(* A call in flight: if the revision it read is still the record's, so is
   everything it read, and the record is not newer than its clock.         *)
CallOK(o) ==
    /\ mode[o] \notin {"idle", "gone"} => rec.status # "Absent"
    /\ held[o].rev <= rec.revision
    /\ call[o].op # "none" =>
          /\ rec.status # "Absent"
          /\ call[o].at <= clock
          /\ call[o].rev <= rec.revision
          /\ call[o].rev = rec.revision => rec.updated <= call[o].at
    /\ call[o].op = "resume" /\ call[o].rev = rec.revision
          => rec.prompt # call[o].prompt
CallInv == \A o \in Owners : CallOK(o)

SweepInv == sweep # NoTime => sweep <= clock

StoreInv == RecordInv /\ CallInv /\ SweepInv /\ NeverRejected

(* What a step of launch o leaves alone.                                   *)
OthersKept(o) ==
    \A q \in Owners \ {o} :
        mode'[q] = mode[q] /\ held'[q] = held[q] /\ call'[q] = call[q]

(* A step that ends a call of o touches only o, and the revision o then
   holds is one it held, one it just wrote, or none.                       *)
Ended(o, r) ==
    /\ OthersKept(o)
    /\ call'[o].op = "none"
    /\ held'[o].rev \in {0, held[o].rev, r.revision}

(* The ways a call ends.                                                   *)
LEMMA GoneEnds ==
    ASSUME TypeOK, NEW o \in Owners, NEW r, Gone(o)
    PROVE  Ended(o, r)
  BY DEF TypeOK, Gone, Ended, OthersKept, NoCall, NoHold

(* A failed acquire ends the call.                                          *)
LEMMA AcquireErrEnds ==
    ASSUME TypeOK, NEW o \in Owners, NEW r, AcquireErr(o)
    PROVE  Ended(o, r)
<1>1. CASE Gone(o)
  BY <1>1, GoneEnds
<1>2. CASE ~Gone(o)
  BY <1>2 DEF TypeOK, AcquireErr, Ended, OthersKept, NoCall, Calls
<1> QED BY <1>1, <1>2

(* A worker that starts ends the call.                                      *)
LEMMA StartEnds ==
    ASSUME TypeOK, NEW o \in Owners, NEW r, StartWorker(o, r)
    PROVE  Ended(o, r)
  BY DEF TypeOK, Handles, StartWorker, Moved, Returned, Ended, OthersKept, NoCall

(* A successful write ends the call.                                        *)
LEMMA WriteOkEnds ==
    ASSUME TypeOK, NEW o \in Owners, NEW r, WriteOk(o, r)
    PROVE  Ended(o, r)
<1>1. CASE call[o].op \in {"renew", "checkpoint", "boundary"}
  BY <1>1 DEF TypeOK, Handles, WriteOk, Returned, RevisionAfter, Ended,
              OthersKept, NoCall, worker
<1>2. CASE call[o].op \notin {"renew", "checkpoint", "boundary"}
  BY <1>2, GoneEnds DEF WriteOk
<1> QED BY <1>1, <1>2

(* A failed write ends the call.                                            *)
LEMMA WriteErrEnds ==
    ASSUME TypeOK, NEW o \in Owners, NEW r, NEW b, WriteErr(o, b)
    PROVE  Ended(o, r)
<1>1. CASE call[o].op \in {"renew", "checkpoint", "boundary"}
  BY <1>1 DEF TypeOK, WriteErr, Returned, Moved, Ended, OthersKept, NoCall
<1>2. CASE call[o].op \notin {"renew", "checkpoint", "boundary"}
  BY <1>2, GoneEnds DEF WriteErr
<1> QED BY <1>1, <1>2

(* A committed mutation makes every other call in flight stale.            *)
LEMMA CommitKeepsCalls ==
    ASSUME TypeOK, TypeOK', CallInv, NEW o \in Owners, Ended(o, rec'),
           rec'.revision = rec.revision + 1, rec'.status # "Absent",
           clock' = clock
    PROVE  CallInv'
<1> SUFFICES ASSUME NEW q \in Owners PROVE CallOK(q)'
  BY DEF CallInv
<1>1. /\ rec.revision \in Nat /\ rec'.revision \in Nat
      /\ held[q].rev \in Nat /\ held'[q].rev \in Nat
      /\ call[q].rev \in Nat /\ call'[q].rev \in Nat /\ call'[q].at \in Nat
      /\ clock \in Nat /\ clock' \in Nat
  BY DEF TypeOK, Records, Handles, Calls
<1>2. CASE q = o
  BY <1>1, <1>2 DEF CallInv, CallOK, Ended
<1>3. CASE q # o
  BY <1>1, <1>3 DEF CallInv, CallOK, Ended, OthersKept
<1> QED BY <1>2, <1>3

(* A call that ends without writing leaves the other calls as they were.   *)
LEMMA EndKeepsCalls ==
    ASSUME TypeOK, TypeOK', CallInv, NEW o \in Owners, Ended(o, rec),
           rec' = rec, clock' = clock,
           rec.status # "Absent" \/ mode'[o] = "gone"
    PROVE  CallInv'
<1> SUFFICES ASSUME NEW q \in Owners PROVE CallOK(q)'
  BY DEF CallInv
<1>1. rec.revision \in Nat /\ held[q].rev \in Nat
  BY DEF TypeOK, Records, Handles
<1>2. CASE q = o
  BY <1>1, <1>2 DEF CallInv, CallOK, Ended
<1>3. CASE q # o
  BY <1>3 DEF CallInv, CallOK, Ended, OthersKept
<1> QED BY <1>2, <1>3

(* A call that begins at the current time with a revision o holds or reads. *)
LEMMA BeginKeepsCalls ==
    ASSUME TypeOK, CallInv, RecordInv, NEW o \in Owners, NEW op, NEW rev, NEW p,
           NEW b, Called(o, op, rev, p, b),
           rev \in {held[o].rev, rec.revision}, rec.status # "Absent",
           op = "resume" => p # rec.prompt,
           UNCHANGED <<rec, clock, held>>
    PROVE  CallInv'
<1> SUFFICES ASSUME NEW q \in Owners PROVE CallOK(q)'
  BY DEF CallInv
<1>1. CASE q = o
  <2>1. call'[o] = [op |-> op, at |-> clock, rev |-> rev, prompt |-> p,
                    retried |-> b]
    BY DEF TypeOK, Called
  <2>2. rec.revision \in Nat /\ held[o].rev \in Nat /\ clock \in Nat
    BY DEF TypeOK, Records, Handles
  <2>3. held[o].rev <= rec.revision /\ rec.updated <= clock
    BY DEF CallInv, CallOK, RecordInv, GoodRecord
  <2> QED BY <1>1, <2>1, <2>2, <2>3 DEF CallOK
<1>2. CASE q # o
  BY <1>2 DEF TypeOK, Called, CallInv, CallOK
<1> QED BY <1>1, <1>2

-----------------------------------------------------------------------------
(* Each mutation, with what its operation checks before, builds a record
   the store may hold.                                                     *)
LEMMA CreatedGood ==
    ASSUME NEW p \in Prompts, NEW now \in Nat
    PROVE  GoodRecord(CreatedRecord(p, now), now)
<1>1. ValidRecord(CreatedRecord(p, now))
  BY CreatedValid
<1> QED BY <1>1 DEF GoodRecord, CreatedRecord, NoRecord, NoCheckpoint

(* acquire builds a good record.                                            *)
LEMMA AcquiredGood ==
    ASSUME NEW r \in Records, NEW o \in Owners, NEW at \in Nat, NEW now \in Nat,
           GoodRecord(r, now), at <= now, r.status # "Absent",
           r.state = "Prepared"
    PROVE  /\ ValidRecord(AcquiredBy(r, o, at))
           /\ GoodRecord(Stamped(AcquiredBy(r, o, at)), now)
<1> DEFINE n == AcquiredBy(r, o, at)
<1>1. n \in Records /\ ValidRecord(n)
  BY AcquiredType, AcquiredValid DEF GoodRecord
<1>2. ValidRecord(Stamped(n))
  BY <1>1, StampedValid
<1>3. /\ Stamped(n).status = "Running" /\ Stamped(n).attempt = r.attempt
      /\ Stamped(n).updated = at /\ Stamped(n).expires = at + LeaseDuration
      /\ Stamped(n).from = r.from /\ Stamped(n).ckpt = r.ckpt
  BY DEF Stamped, AcquiredBy, Records
<1> QED BY <1>1, <1>2, <1>3, DurationAssumption DEF GoodRecord

(* renew builds a good record.                                              *)
LEMMA RenewedGood ==
    ASSUME NEW r \in Records, NEW at \in Nat, NEW now \in Nat,
           GoodRecord(r, now), at <= now, r.status # "Absent",
           r.state = "Running"
    PROVE  /\ ValidRecord(Renewed(r, at))
           /\ GoodRecord(Stamped(Renewed(r, at)), now)
<1> DEFINE n == Renewed(r, at)
<1>1. n \in Records /\ ValidRecord(n)
  BY RenewedType, RenewedValid DEF GoodRecord
<1>2. ValidRecord(Stamped(n))
  BY <1>1, StampedValid
<1>3. /\ Stamped(n).status = r.status /\ Stamped(n).attempt = r.attempt
      /\ Stamped(n).updated = at /\ Stamped(n).expires = at + LeaseDuration
      /\ Stamped(n).from = r.from /\ Stamped(n).ckpt = r.ckpt
  BY DEF Stamped, Renewed, Records
<1> QED BY <1>1, <1>2, <1>3, DurationAssumption DEF GoodRecord

(* commit_checkpoint builds a good record.                                  *)
LEMMA CheckpointGood ==
    ASSUME NEW r \in Records, NEW c \in Checkpoints, NEW at \in Nat,
           NEW now \in Nat, GoodRecord(r, now), at <= now,
           r.status # "Absent", r.state = "Running", r.expires > at,
           c.attempt = r.attempt, c.seq # -1
    PROVE  /\ ValidRecord(WithCheckpoint(r, c, at))
           /\ GoodRecord(Stamped(WithCheckpoint(r, c, at)), now)
<1> DEFINE n == WithCheckpoint(r, c, at)
<1>1. n \in Records /\ ValidRecord(n)
  BY CheckpointType, CheckpointValid DEF GoodRecord
<1>2. ValidRecord(Stamped(n))
  BY <1>1, StampedValid
<1>3. /\ Stamped(n).status = "Checkpointed" /\ Stamped(n).attempt = r.attempt
      /\ Stamped(n).updated = at /\ Stamped(n).expires = r.expires
      /\ Stamped(n).from = r.from /\ Stamped(n).ckpt = c
  BY DEF Stamped, WithCheckpoint, Records
<1> QED BY <1>1, <1>2, <1>3 DEF GoodRecord, Records

(* commit_tool_boundary builds a good record.                               *)
LEMMA BoundaryGood ==
    ASSUME NEW r \in Records, NEW b \in Boundary, NEW at \in Nat,
           NEW now \in Nat, GoodRecord(r, now), at <= now,
           r.status # "Absent", r.state = "Running", r.expires > at
    PROVE  /\ ValidRecord(WithBoundary(r, b, at))
           /\ GoodRecord(Stamped(WithBoundary(r, b, at)), now)
<1> DEFINE n == WithBoundary(r, b, at)
<1>1. n \in Records /\ ValidRecord(n)
  BY BoundaryType, BoundaryValid DEF GoodRecord
<1>2. ValidRecord(Stamped(n))
  BY <1>1, StampedValid
<1>3. /\ Stamped(n).status = r.status /\ Stamped(n).attempt = r.attempt
      /\ Stamped(n).updated = at /\ Stamped(n).expires = r.expires
      /\ Stamped(n).from = r.from /\ Stamped(n).ckpt = r.ckpt
  BY DEF Stamped, WithBoundary, Records
<1> QED BY <1>1, <1>2, <1>3 DEF GoodRecord

(* Settling an attempt builds a good record.                                *)
LEMMA SettledGood ==
    ASSUME NEW r \in Records, NEW t \in Terminal \ {"None"}, NEW at \in Nat,
           NEW now \in Nat, GoodRecord(r, now), at <= now, r.status # "Absent"
    PROVE  /\ ValidRecord(Settled(r, t, at))
           /\ GoodRecord(Stamped(Settled(r, t, at)), now)
<1> DEFINE n == Settled(r, t, at)
<1>1. n \in Records /\ ValidRecord(n)
  BY SettledType, SettledValid DEF GoodRecord
<1>2. ValidRecord(Stamped(n))
  BY <1>1, StampedValid
<1>3. /\ Stamped(n).status = TerminalStatus(t) /\ Stamped(n).attempt = r.attempt
      /\ Stamped(n).updated = at /\ Stamped(n).owner = NoOwner
      /\ Stamped(n).from = r.from /\ Stamped(n).ckpt = r.ckpt
  BY DEF Stamped, Settled, Records
<1>4. TerminalStatus(t) # "Absent"
  BY DEF TerminalStatus, Terminal
<1> QED BY <1>1, <1>2, <1>3, <1>4 DEF GoodRecord

(* prepare_resume builds a good record.                                     *)
LEMMA ResumedGood ==
    ASSUME NEW r \in Records, NEW p \in Prompts \cup {NoPrompt}, NEW at \in Nat,
           NEW now \in Nat, GoodRecord(r, now), at <= now,
           r.status # "Absent", Resumable(r)
    PROVE  /\ ValidRecord(ResumedAs(r, r.attempt + 1, p, at))
           /\ GoodRecord(Stamped(ResumedAs(r, r.attempt + 1, p, at)), now)
<1> DEFINE n == ResumedAs(r, r.attempt + 1, p, at)
<1>1. /\ r.attempt \in Nat /\ r.attempt + 1 \in Nat
      /\ r.ckpt.attempt \in Nat /\ r.ckpt.attempt # r.attempt + 1
      /\ r.ckpt.attempt # 0
  BY DEF GoodRecord, Resumable, Records, Checkpoints
<1>2. n \in Records
  BY <1>1, ResumedType
<1>3. ValidRecord(n)
  BY <1>1, ResumedValid DEF GoodRecord
<1>4. ValidRecord(Stamped(n))
  BY <1>2, <1>3, StampedValid
<1>5. /\ Stamped(n).status = "Resuming" /\ Stamped(n).attempt = r.attempt + 1
      /\ Stamped(n).updated = at /\ Stamped(n).owner = NoOwner
      /\ Stamped(n).from = r.ckpt.attempt /\ Stamped(n).ckpt = r.ckpt
  BY DEF Stamped, ResumedAs, Records
<1> QED BY <1>1, <1>3, <1>4, <1>5 DEF GoodRecord

(* The reconciler builds a good record.                                     *)
LEMMA ReconciledGood ==
    ASSUME NEW r \in Records, NEW at \in Nat, NEW now \in Nat,
           GoodRecord(r, now), at <= now, r.status # "Absent",
           r.state = "Running"
    PROVE  /\ ValidRecord(Reconciled(r, at))
           /\ GoodRecord(Stamped(Reconciled(r, at)), now)
<1> DEFINE n == Reconciled(r, at)
<1>1. n \in Records /\ ValidRecord(n)
  BY ReconciledType, ReconciledValid DEF GoodRecord
<1>2. ValidRecord(Stamped(n))
  BY <1>1, StampedValid
<1>3. /\ Stamped(n).status \in {"Suspended", "Indeterminate"}
      /\ Stamped(n).attempt = r.attempt
      /\ Stamped(n).updated = at /\ Stamped(n).owner = NoOwner
      /\ Stamped(n).from = r.from /\ Stamped(n).ckpt = r.ckpt
  BY DEF Stamped, Reconciled, Settled, TerminalStatus, Records
<1> QED BY <1>1, <1>2, <1>3 DEF GoodRecord

-----------------------------------------------------------------------------
(* What a lease holder writes, once admitted, is accepted and good.        *)
LEMMA WrittenGood ==
    ASSUME TypeOK, StoreInv, NEW o \in Owners, call[o].op \in Writes,
           WriteAdmitted(o)
    PROVE  /\ Accepts(rec, Written(o))
           /\ GoodRecord(Stamped(Written(o)), clock)
           /\ Stamped(Written(o)).status # "Absent"
           /\ Stamped(Written(o)).revision = rec.revision + 1
<1>1. /\ rec \in Records /\ call[o].at \in Nat /\ clock \in Nat
      /\ tool[o] \in Boundary /\ final[o] \in Terminal
      /\ PendingCheckpoint(o) \in Checkpoints
      /\ PendingCheckpoint(o).attempt = held[o].attempt
      /\ PendingCheckpoint(o).seq # -1
  BY DEF TypeOK, Calls, Handles, PendingCheckpoint, Checkpoints
<1>2. /\ GoodRecord(rec, clock) /\ call[o].at <= clock
      /\ rec.updated <= call[o].at /\ rec.status # "Absent"
  BY DEF StoreInv, RecordInv, CallInv, CallOK, WriteAdmitted, Fence, Writes
<1>3. /\ rec.state = "Running" /\ rec.expires > call[o].at
      /\ held[o].attempt = rec.attempt
  BY DEF WriteAdmitted, Fence, LiveLease
<1>4. CASE call[o].op = "renew"
  <2>1. Written(o) = Renewed(rec, call[o].at)
    BY <1>4 DEF Written
  <2>2. /\ Renewed(rec, call[o].at).updated = call[o].at
        /\ Stamped(Renewed(rec, call[o].at)).status = rec.status
        /\ Stamped(Renewed(rec, call[o].at)).revision = rec.revision + 1
    BY <1>1 DEF Renewed, Stamped, Records
  <2> QED BY <1>1, <1>2, <1>3, <2>1, <2>2, RenewedGood DEF Accepts
<1>5. CASE call[o].op = "checkpoint"
  <2> DEFINE c == PendingCheckpoint(o)
  <2>1. Written(o) = WithCheckpoint(rec, c, call[o].at)
    BY <1>5 DEF Written
  <2>2. /\ WithCheckpoint(rec, c, call[o].at).updated = call[o].at
        /\ Stamped(WithCheckpoint(rec, c, call[o].at)).status = "Checkpointed"
        /\ Stamped(WithCheckpoint(rec, c, call[o].at)).revision = rec.revision + 1
    BY <1>1 DEF WithCheckpoint, Stamped, Records
  <2> HIDE DEF c
  <2>3. c \in Checkpoints /\ c.attempt = rec.attempt /\ c.seq # -1
    BY <1>1, <1>3 DEF c
  <2> QED BY <1>1, <1>2, <1>3, <2>1, <2>2, <2>3, CheckpointGood DEF Accepts
<1>6. CASE call[o].op = "boundary"
  <2>1. Written(o) = WithBoundary(rec, tool[o], call[o].at)
    BY <1>6 DEF Written
  <2>2. /\ WithBoundary(rec, tool[o], call[o].at).updated = call[o].at
        /\ Stamped(WithBoundary(rec, tool[o], call[o].at)).status = rec.status
        /\ Stamped(WithBoundary(rec, tool[o], call[o].at)).revision = rec.revision + 1
    BY <1>1 DEF WithBoundary, Stamped, Records
  <2> QED BY <1>1, <1>2, <1>3, <2>1, <2>2, BoundaryGood DEF Accepts
<1>7. CASE call[o].op = "terminal"
  <2>1. final[o] \in Terminal \ {"None"}
    BY <1>1, <1>7 DEF WriteAdmitted, StatusSteps, TerminalStatus
  <2>2. Written(o) = Settled(rec, final[o], call[o].at)
    BY <1>7 DEF Written
  <2>3. /\ Settled(rec, final[o], call[o].at).updated = call[o].at
        /\ Stamped(Settled(rec, final[o], call[o].at)).status
              = TerminalStatus(final[o])
        /\ Stamped(Settled(rec, final[o], call[o].at)).revision = rec.revision + 1
    BY <1>1 DEF Settled, Stamped, Records
  <2>4. TerminalStatus(final[o]) # "Absent"
    BY <2>1 DEF TerminalStatus, Terminal
  <2> QED BY <1>1, <1>2, <1>3, <2>1, <2>2, <2>3, <2>4, SettledGood DEF Accepts
<1> QED BY <1>4, <1>5, <1>6, <1>7 DEF Writes

(* The initial store.                                                      *)
LEMMA StoreInit == Init => StoreInv
  BY DEF Init, StoreInv, RecordInv, GoodRecord, NoRecord, NoCheckpoint,
         NoTime, CallInv, CallOK, NoCall, NoHold, SweepInv, NeverRejected

(* Every step keeps the store's invariant.                                 *)
LEMMA StoreStep == TypeOK /\ TypeOK' /\ StoreInv /\ [Next]_vars => StoreInv'
<1> SUFFICES ASSUME TypeOK, TypeOK', StoreInv, [Next]_vars PROVE StoreInv'
  OBVIOUS
<1>a. RecordInv /\ CallInv /\ SweepInv /\ ~rejected /\ GoodRecord(rec, clock)
  BY DEF StoreInv, RecordInv, NeverRejected
<1>b. /\ rec \in Records /\ clock \in Nat
      /\ \A o \in Owners : call[o].at \in Nat /\ held[o].rev \in Nat
      /\ \A o \in Owners : call[o].prompt \in Prompts \cup {NoPrompt}
  BY DEF TypeOK, Calls, Handles
<1>c. ASSUME UNCHANGED <<rec, clock, sweep, rejected>>, CallInv'
      PROVE  StoreInv'
  BY <1>a, <1>c DEF StoreInv, RecordInv, SweepInv, NeverRejected
<1>d. ASSUME NEW o \in Owners, mode[o] \notin {"idle", "gone"} \/ call[o].op # "none"
      PROVE  rec.status # "Absent"
  BY <1>a, <1>d DEF CallInv, CallOK
<1>1. ASSUME NEW o \in Owners, NEW p \in Prompts, Create(o, p)
      PROVE  StoreInv'
  <2>1. GoodRecord(rec', clock')
    BY <1>1, <1>b, CreatedGood DEF Create
  <2>2. rec = NoRecord /\ rec'.status = "Created" /\ rec'.revision = 0
    BY <1>1, <1>a DEF Create, CreatedRecord, NoRecord, GoodRecord
  <2>3. CallInv'
    <3> SUFFICES ASSUME NEW q \in Owners PROVE CallOK(q)'
      BY DEF CallInv
    <3>1. call'[q].op = "none"
      BY <1>1, <1>a, <2>2 DEF Create, NoRecord, CallInv, CallOK
    <3>2. held'[q].rev = 0
      <4>1. CASE q = o
        BY <1>1, <2>2, <4>1 DEF Create, Holds, HoldOf, TypeOK, CreatedRecord,
                                NoRecord
      <4>2. CASE q # o
        BY <1>1, <1>a, <1>b, <2>2, <4>2 DEF Create, Holds, TypeOK, NoRecord,
                                            CallInv, CallOK
      <4> QED BY <4>1, <4>2
    <3> QED BY <2>2, <3>1, <3>2 DEF CallOK
  <2> QED
    BY <1>1, <1>a, <2>1, <2>3
    DEF Create, StoreInv, RecordInv, SweepInv, NeverRejected
<1>2. ASSUME NEW o \in Owners, LoadPrepared(o)
      PROVE  StoreInv'
  <2>1. CallInv'
    <3> SUFFICES ASSUME NEW q \in Owners PROVE CallOK(q)'
      BY DEF CallInv
    <3>1. held'[q].rev <= rec.revision
      BY <1>2, <1>a, <1>b DEF LoadPrepared, Holds, HoldOf, TypeOK, Records,
                              CallInv, CallOK
    <3> QED BY <1>2, <1>a, <3>1 DEF LoadPrepared, CallInv, CallOK
  <2> QED BY <1>2, <1>c, <2>1 DEF LoadPrepared
<1>3. ASSUME NEW o \in Owners, NEW p \in Prompts, BeginResume(o, p)
      PROVE  StoreInv'
  <2>1. CASE PromptInProgress(p)
    <3>1. CallInv'
      <4> SUFFICES ASSUME NEW q \in Owners PROVE CallOK(q)'
        BY DEF CallInv
      <4>1. held'[q].rev <= rec.revision
        BY <1>3, <1>a, <1>b, <2>1 DEF BeginResume, Holds, HoldOf, TypeOK,
                                      Records, CallInv, CallOK
      <4> QED BY <1>3, <1>a, <2>1, <4>1 DEF BeginResume, CallInv, CallOK
    <3> QED BY <1>3, <1>c, <3>1 DEF BeginResume
  <2>2. CASE ~PromptInProgress(p)
    <3>1. Called(o, "resume", rec.revision, p, FALSE)
      BY <1>3, <2>2 DEF BeginResume
    <3>2. p # rec.prompt
      BY <2>2 DEF PromptInProgress
    <3>3. rec.status # "Absent" /\ UNCHANGED <<rec, clock, held, sweep, rejected>>
      BY <1>3, <2>2 DEF BeginResume
    <3>4. CallInv'
      BY <1>a, <3>1, <3>2, <3>3, BeginKeepsCalls
    <3> QED BY <1>c, <3>3, <3>4
  <2> QED BY <2>1, <2>2
<1>4. ASSUME NEW o \in Owners, BeginAcquire(o)
      PROVE  StoreInv'
  <2>1. rec.status # "Absent" /\ UNCHANGED <<rec, clock, sweep, rejected>>
    BY <1>4, <1>d DEF BeginAcquire
  <2>2. CASE /\ Called(o, "acquire", held[o].rev, NoPrompt, call[o].retried)
             /\ UNCHANGED held
    BY <1>a, <1>c, <2>1, <2>2, BeginKeepsCalls
  <2>3. CASE StartWorker(o, rec) \/ AcquireErr(o)
    <3>1. Ended(o, rec)
      BY <2>3, StartEnds, AcquireErrEnds
    <3> QED BY <1>a, <1>c, <2>1, <3>1, EndKeepsCalls
  <2> QED BY <1>4, <2>2, <2>3 DEF BeginAcquire
<1>5. ASSUME NEW o \in Owners, BeginAbandon(o)
      PROVE  StoreInv'
  BY <1>5, <1>a, <1>c, <1>d, BeginKeepsCalls DEF BeginAbandon
<1>6. ASSUME NEW o \in Owners, NEW b \in Boundary \ {"None"}, BeginBoundary(o, b)
      PROVE  StoreInv'
  BY <1>6, <1>a, <1>c, <1>d, BeginKeepsCalls DEF BeginBoundary
<1>7. ASSUME NEW o \in Owners, NEW b \in BOOLEAN, RunTool(o, b)
      PROVE  StoreInv'
  BY <1>7, <1>a, <1>c DEF RunTool, CallInv, CallOK
<1>8. ASSUME NEW o \in Owners, BeginCheckpoint(o)
      PROVE  StoreInv'
  BY <1>8, <1>a, <1>c, <1>d, BeginKeepsCalls DEF BeginCheckpoint
<1>9. ASSUME NEW o \in Owners, NEW t, EndRun(o, t)
      PROVE  StoreInv'
  <2>1. rec.status # "Absent"
    BY <1>9, <1>d DEF EndRun
  <2> QED BY <1>9, <1>a, <1>c, <2>1 DEF EndRun, CallInv, CallOK
<1>10. ASSUME NEW o \in Owners, BeginTerminal(o)
       PROVE  StoreInv'
  <2>1. rec.status # "Absent" /\ UNCHANGED <<rec, clock, sweep, rejected>>
    BY <1>10, <1>d DEF BeginTerminal
  <2>2. CASE AlreadySettled(o)
    BY <1>10, <1>a, <1>c, <2>1, <2>2, GoneEnds, EndKeepsCalls DEF BeginTerminal
  <2>3. CASE ~AlreadySettled(o)
    BY <1>10, <1>a, <1>c, <2>1, <2>3, BeginKeepsCalls DEF BeginTerminal
  <2> QED BY <2>2, <2>3
<1>11. ASSUME NEW o \in Owners, BeginRenew(o)
       PROVE  StoreInv'
  BY <1>11, <1>a, <1>c, <1>d, BeginKeepsCalls DEF BeginRenew
<1>12. ASSUME NEW o \in Owners, FinishResume(o)
       PROVE  StoreInv'
  <2> DEFINE new == ResumedAs(rec, rec.attempt + 1, call[o].prompt, call[o].at)
  <2>1. rec.status # "Absent" /\ call[o].at <= clock
    BY <1>12, <1>a DEF FinishResume, CallInv, CallOK
  <2>2. ASSUME ResumeAdmitted(o)
        PROVE  Accepts(rec, new) /\ GoodRecord(Stamped(new), clock)
    <3>1. rec.updated <= call[o].at
      BY <1>12, <1>a, <2>2 DEF FinishResume, CallInv, CallOK, ResumeAdmitted
    <3>2. ValidRecord(new) /\ GoodRecord(Stamped(new), clock)
      BY <1>a, <1>b, <2>1, <2>2, ResumedGood DEF ResumeAdmitted
    <3>3. new.updated = call[o].at
      BY <1>b DEF ResumedAs, Records
    <3> HIDE DEF new
    <3> QED BY <3>1, <3>2, <3>3 DEF Accepts
  <2>3. CASE ResumeAdmitted(o)
    <3>1. /\ rec' = Stamped(new) /\ UNCHANGED <<clock, sweep, rejected>>
          /\ Moved(o, "prepared") /\ Holds(o, Stamped(new)) /\ Returned(o)
      BY <1>12, <2>2, <2>3 DEF FinishResume
    <3>2. rec'.revision = rec.revision + 1 /\ rec'.status = "Resuming"
      BY <1>b, <3>1 DEF Stamped, ResumedAs, Records
    <3> HIDE DEF new
    <3>3. Ended(o, rec')
      BY <3>1 DEF TypeOK, Moved, Holds, HoldOf, Returned, Ended, OthersKept,
                  NoCall
    <3>4. CallInv'
      BY <1>a, <3>1, <3>2, <3>3, CommitKeepsCalls
    <3> QED
      BY <1>a, <2>2, <2>3, <3>1, <3>4
      DEF StoreInv, RecordInv, SweepInv, NeverRejected
  <2>4. CASE ~ResumeAdmitted(o)
    <3>1. Gone(o) /\ ~rejected' /\ UNCHANGED <<rec, clock, sweep>>
      BY <1>12, <1>a, <2>4 DEF FinishResume
    <3>2. CallInv'
      BY <1>a, <2>1, <3>1, GoneEnds, EndKeepsCalls
    <3> QED
      BY <1>a, <3>1, <3>2 DEF StoreInv, RecordInv, SweepInv, NeverRejected
  <2> QED BY <2>3, <2>4
<1>13. ASSUME NEW o \in Owners, FinishAcquire(o)
       PROVE  StoreInv'
  <2> DEFINE new == AcquiredBy(rec, o, call[o].at)
             ok == /\ rec.revision = call[o].rev
                   /\ PreparedIdentity(o)
                   /\ rec.state = "Prepared"
                   /\ <<rec.status, "Running">> \in StatusSteps
  <2>1. rec.status # "Absent" /\ call[o].at <= clock
    BY <1>13, <1>a DEF FinishAcquire, CallInv, CallOK
  <2>2. ASSUME ok
        PROVE  Accepts(rec, new) /\ GoodRecord(Stamped(new), clock)
    <3>1. rec.updated <= call[o].at
      BY <1>13, <1>a, <2>2 DEF FinishAcquire, CallInv, CallOK
    <3>2. ValidRecord(new) /\ GoodRecord(Stamped(new), clock)
      BY <1>a, <1>b, <2>1, <2>2, AcquiredGood
    <3>3. new.updated = call[o].at
      BY <1>b DEF AcquiredBy, Records
    <3> HIDE DEF new
    <3> QED BY <3>1, <3>2, <3>3 DEF Accepts
  <2>3. CASE ok
    <3>1. /\ rec' = Stamped(new) /\ UNCHANGED <<clock, sweep, rejected>>
          /\ StartWorker(o, Stamped(new)) \/ AcquireErr(o)
      BY <1>13, <2>2, <2>3, Zenon DEF FinishAcquire
    <3>2. rec'.revision = rec.revision + 1 /\ rec'.status = "Running"
      BY <1>b, <3>1 DEF Stamped, AcquiredBy, Records
    <3>3. Ended(o, rec')
      BY <3>1, StartEnds, AcquireErrEnds
    <3>4. CallInv'
      BY <1>a, <3>1, <3>2, <3>3, CommitKeepsCalls
    <3> QED
      BY <1>a, <2>2, <2>3, <3>1, <3>4
      DEF StoreInv, RecordInv, SweepInv, NeverRejected
  <2>4. CASE ~ok
    <3>1. AcquireErr(o) /\ ~rejected' /\ UNCHANGED <<rec, clock, sweep>>
      BY <1>13, <1>a, <2>4, Zenon DEF FinishAcquire
    <3>2. CallInv'
      BY <1>a, <2>1, <3>1, AcquireErrEnds, EndKeepsCalls
    <3> QED
      BY <1>a, <3>1, <3>2 DEF StoreInv, RecordInv, SweepInv, NeverRejected
  <2> QED BY <2>3, <2>4
<1>14. ASSUME NEW o \in Owners, FinishAbandon(o)
       PROVE  StoreInv'
  <2> DEFINE new == Settled(rec, "Failed", call[o].at)
             ok == /\ rec.revision = call[o].rev
                   /\ PreparedIdentity(o)
                   /\ rec.state = "Prepared"
                   /\ <<rec.status, "Failed">> \in StatusSteps
  <2>1. rec.status # "Absent" /\ call[o].at <= clock
    BY <1>14, <1>a DEF FinishAbandon, CallInv, CallOK
  <2>2. ASSUME ok
        PROVE  Accepts(rec, new) /\ GoodRecord(Stamped(new), clock)
    <3>1. rec.updated <= call[o].at
      BY <1>14, <1>a, <2>2 DEF FinishAbandon, CallInv, CallOK
    <3>2. ValidRecord(new) /\ GoodRecord(Stamped(new), clock)
      BY <1>a, <1>b, <2>1, SettledGood DEF Terminal
    <3>3. new.updated = call[o].at
      BY <1>b DEF Settled, Records
    <3> HIDE DEF new
    <3> QED BY <3>1, <3>2, <3>3 DEF Accepts
  <2>3. Gone(o) /\ UNCHANGED <<clock, sweep>>
    BY <1>14 DEF FinishAbandon
  <2>4. CASE ok
    <3>1. rec' = Stamped(new) /\ UNCHANGED rejected
      BY <1>14, <2>2, <2>4, Zenon DEF FinishAbandon
    <3>2. rec'.revision = rec.revision + 1 /\ rec'.status = "Failed"
      BY <1>b, <3>1 DEF Stamped, Settled, TerminalStatus, Records
    <3>3. CallInv'
      BY <1>a, <2>3, <3>2, GoneEnds, CommitKeepsCalls
    <3> QED
      BY <1>a, <2>2, <2>3, <2>4, <3>1, <3>3
      DEF StoreInv, RecordInv, SweepInv, NeverRejected
  <2>5. CASE ~ok
    <3>1. ~rejected' /\ UNCHANGED rec
      BY <1>14, <1>a, <2>5, Zenon DEF FinishAbandon
    <3>2. CallInv'
      BY <1>a, <2>1, <2>3, <3>1, GoneEnds, EndKeepsCalls
    <3> QED
      BY <1>a, <2>3, <3>1, <3>2 DEF StoreInv, RecordInv, SweepInv, NeverRejected
  <2> QED BY <2>4, <2>5
<1>15. ASSUME NEW o \in Owners, CommitWrite(o)
       PROVE  StoreInv'
  <2>1. /\ rec' = Stamped(Written(o)) /\ UNCHANGED <<clock, sweep, rejected>>
        /\ call[o].op \in Writes /\ WriteAdmitted(o)
        /\ WriteOk(o, rec') \/ WriteErr(o, TRUE)
    BY <1>15, Zenon DEF CommitWrite
  <2>2. GoodRecord(rec', clock) /\ rec'.status # "Absent"
        /\ rec'.revision = rec.revision + 1
    BY <2>1, WrittenGood
  <2>3. Ended(o, rec')
    BY <2>1, WriteOkEnds, WriteErrEnds
  <2>4. CallInv'
    BY <1>a, <2>1, <2>2, <2>3, CommitKeepsCalls
  <2> QED
    BY <1>a, <2>1, <2>2, <2>4 DEF StoreInv, RecordInv, SweepInv, NeverRejected
<1>16. ASSUME NEW o \in Owners, RefuseWrite(o)
       PROVE  StoreInv'
  <2>1. ~WriteAdmitted(o)
    BY <1>16, WrittenGood DEF RefuseWrite
  <2>2. WriteErr(o, FALSE) /\ ~rejected' /\ UNCHANGED <<rec, clock, sweep>>
    BY <1>16, <1>a, <2>1 DEF RefuseWrite
  <2>3. rec.status # "Absent"
    BY <1>16, <1>d DEF RefuseWrite, Writes
  <2>4. CallInv'
    BY <1>a, <2>2, <2>3, WriteErrEnds, EndKeepsCalls
  <2> QED
    BY <1>a, <2>2, <2>4 DEF StoreInv, RecordInv, SweepInv, NeverRejected
<1>17. ASSUME NEW o \in Owners, ConflictWrite(o)
       PROVE  StoreInv'
  <2>1. rec.status # "Absent" /\ UNCHANGED <<rec, clock, sweep, rejected>>
    BY <1>17, <1>d DEF ConflictWrite, Writes
  <2>2. CASE WriteErr(o, FALSE)
    BY <1>a, <1>c, <2>1, <2>2, WriteErrEnds, EndKeepsCalls
  <2>3. CASE ~WriteErr(o, FALSE)
    <3>1. /\ Called(o, call[o].op, rec.revision, NoPrompt, TRUE)
          /\ UNCHANGED held /\ call[o].op # "resume"
      BY <1>17, <2>3 DEF ConflictWrite, Writes
    <3> QED BY <1>a, <1>c, <2>1, <3>1, BeginKeepsCalls
  <2> QED BY <2>2, <2>3
<1>18. ASSUME NEW o \in Owners, FailWrite(o)
       PROVE  StoreInv'
  <2>1. /\ rec.status # "Absent" /\ UNCHANGED <<rec, clock, sweep, rejected>>
        /\ WriteErr(o, TRUE)
    BY <1>18, <1>d DEF FailWrite, Writes
  <2> QED BY <1>a, <1>c, <2>1, WriteErrEnds, EndKeepsCalls
<1>19. ASSUME NEW o \in Owners, Crash(o)
       PROVE  StoreInv'
  <2>1. Gone(o) /\ UNCHANGED <<rec, clock, sweep, rejected>>
    BY <1>19 DEF Crash
  <2>2. mode'[o] = "gone"
    BY <2>1 DEF Gone, TypeOK
  <2> QED BY <1>a, <1>c, <2>1, <2>2, GoneEnds, EndKeepsCalls
<1>20. CASE BeginReconcile
  BY <1>20, <1>a, <1>b
  DEF BeginReconcile, StoreInv, RecordInv, CallInv, CallOK, SweepInv,
      NeverRejected
<1>21. CASE FinishReconcile
  <2>1. sweep \in Nat /\ sweep <= clock
    BY <1>21, <1>a DEF FinishReconcile, TypeOK, SweepInv
  <2>2. UNCHANGED <<clock, mode, held, call>> /\ sweep' = NoTime
    BY <1>21 DEF FinishReconcile
  <2>3. CASE ExpiredOwner(rec, sweep)
    <3>1. rec.status # "Absent" /\ rec.state = "Running"
      BY <2>3, <1>a DEF ExpiredOwner, GoodRecord, NoRecord
    <3>2. rec.updated <= sweep
      BY <2>1, <2>3, <1>a, <1>b DEF ExpiredOwner, GoodRecord, Records
    <3>3. /\ ValidRecord(Reconciled(rec, sweep))
          /\ GoodRecord(Stamped(Reconciled(rec, sweep)), clock)
      BY <1>a, <1>b, <2>1, <3>1, ReconciledGood
    <3>4. /\ Reconciled(rec, sweep).updated = sweep
          /\ Stamped(Reconciled(rec, sweep)).revision = rec.revision + 1
          /\ Stamped(Reconciled(rec, sweep)).status # "Absent"
      BY <1>b DEF Stamped, Reconciled, Settled, TerminalStatus, Records
    <3>5. rec' = Stamped(Reconciled(rec, sweep)) /\ UNCHANGED rejected
      BY <1>21, <2>3, <3>2, <3>3, <3>4 DEF FinishReconcile, Accepts
    <3>6. CallInv'
      <4> SUFFICES ASSUME NEW q \in Owners PROVE CallOK(q)'
        BY DEF CallInv
      <4>1. rec.revision \in Nat /\ held[q].rev \in Nat /\ call[q].rev \in Nat
        BY DEF TypeOK, Records, Handles, Calls
      <4> QED BY <1>a, <2>2, <3>4, <3>5, <4>1 DEF CallInv, CallOK
    <3> QED
      BY <1>a, <2>2, <3>3, <3>5, <3>6
      DEF StoreInv, RecordInv, SweepInv, NeverRejected
  <2>4. CASE ~ExpiredOwner(rec, sweep)
    <3>1. ~rejected' /\ UNCHANGED rec
      BY <1>21, <1>a, <2>4 DEF FinishReconcile
    <3> QED
      BY <1>a, <2>2, <3>1
      DEF StoreInv, RecordInv, CallInv, CallOK, SweepInv, NeverRejected
  <2> QED BY <2>3, <2>4
<1>22. CASE Tick
  <2>1. clock' = clock + 1 /\ UNCHANGED <<rec, mode, held, call, sweep, rejected>>
    BY <1>22 DEF Tick
  <2>2. GoodRecord(rec', clock')
    BY <1>a, <1>b, <2>1 DEF GoodRecord, Records
  <2>3. CallInv'
    BY <1>a, <1>b, <2>1 DEF CallInv, CallOK
  <2>4. SweepInv'
    BY <1>a, <1>b, <2>1 DEF SweepInv, TypeOK
  <2> QED BY <1>a, <2>1, <2>2, <2>3, <2>4 DEF StoreInv, RecordInv, NeverRejected
<1>23. CASE UNCHANGED vars
  BY <1>23, <1>a, <1>c DEF vars, CallInv, CallOK
<1>24. ASSUME NEW o \in Owners, TaskStep(o)
       PROVE  StoreInv'
  BY <1>24, <1>a, <1>c, TaskStepKeeps DEF CallInv, CallOK
<1> QED
  BY <1>1, <1>2, <1>3, <1>4, <1>5, <1>6, <1>7, <1>8, <1>9, <1>10, <1>11,
     <1>12, <1>13, <1>14, <1>15, <1>16, <1>17, <1>18, <1>19, <1>20, <1>21,
     <1>22, <1>23, <1>24
  DEF Next, Prepare, Run, FinishCall, TaskStep

(* The store invariant holds in every reachable state.                     *)
THEOREM StoreCorrect == Spec => [](TypeOK /\ StoreInv)
  BY TypeInit, TypeStep, StoreInit, StoreStep, PTL DEF Spec

(* No operation ever builds a record that mutate_validated_record refuses,
   however long it waited between reading the clock and taking the lock.   *)
THEOREM RecordsAlwaysAccepted == Spec => []NeverRejected
<1>1. StoreInv => NeverRejected
  BY DEF StoreInv
<1> QED BY <1>1, StoreCorrect, PTL

-----------------------------------------------------------------------------
(***************************************************************************)
(* The steps that change the record                                        *)
(***************************************************************************)
CreateStep == rec = NoRecord /\ \E p \in Prompts : rec' = CreatedRecord(p, clock)
ResumeStep(o) ==
    /\ call[o].op = "resume" /\ ResumeAdmitted(o)
    /\ rec' = Stamped(ResumedAs(rec, rec.attempt + 1, call[o].prompt, call[o].at))
AcquireStep(o) ==
    /\ call[o].op = "acquire"
    /\ rec.state = "Prepared" /\ <<rec.status, "Running">> \in StatusSteps
    /\ rec' = Stamped(AcquiredBy(rec, o, call[o].at))
AbandonStep(o) ==
    /\ rec.state = "Prepared" /\ <<rec.status, "Failed">> \in StatusSteps
    /\ rec' = Stamped(Settled(rec, "Failed", call[o].at))
WriteStep(o) ==
    /\ call[o].op \in Writes /\ WriteAdmitted(o)
    /\ rec' = Stamped(Written(o))
ReconcileStep ==
    /\ sweep # NoTime /\ ExpiredOwner(rec, sweep)
    /\ rec' = Stamped(Reconciled(rec, sweep))

RecordStep ==
    \/ CreateStep
    \/ \E o \in Owners : \/ ResumeStep(o) \/ AcquireStep(o) \/ AbandonStep(o)
                         \/ WriteStep(o)
    \/ ReconcileStep

(* A step that changes the record is one of the six.                       *)
LEMMA RecordSteps ==
    ASSUME TypeOK, StoreInv, [Next]_vars, rec' # rec
    PROVE  RecordStep
<1>1. ASSUME NEW o \in Owners, Prepare(o)
      PROVE  RecordStep
  <2>1. PICK p \in Prompts : Create(o, p)
    BY <1>1 DEF Prepare, BeginResume, LoadPrepared, AcquireTask, BeginAcquire, BeginAbandon
  <2> QED
    BY <2>1 DEF Create, RecordStep, CreateStep, StoreInv, RecordInv, GoodRecord
<1>2. ASSUME NEW o \in Owners, FinishCall(o)
      PROVE  RecordStep
  <2>1. CASE FinishResume(o)
    BY <2>1 DEF FinishResume, RecordStep, ResumeStep
  <2>2. CASE FinishAcquire(o)
    BY <2>2 DEF FinishAcquire, RecordStep, AcquireStep
  <2>3. CASE FinishAbandon(o)
    BY <2>3 DEF FinishAbandon, RecordStep, AbandonStep
  <2>4. CASE CommitWrite(o)
    BY <2>4 DEF CommitWrite, RecordStep, WriteStep
  <2> QED
    BY <1>2, <2>1, <2>2, <2>3, <2>4 DEF FinishCall, RefuseWrite, ConflictWrite
<1>3. CASE FinishReconcile
  BY <1>3 DEF FinishReconcile, RecordStep, ReconcileStep
<1>4. ASSUME NEW o \in Owners, BeatTask(o) \/ FailTask(o) \/ FenceTask(o)
      PROVE  rec' = rec
  BY <1>4, TaskStepKeeps DEF TaskStep
<1> QED
  BY <1>1, <1>2, <1>3, <1>4
  DEF Next, Run, BeginBoundary, RunTool, BeginCheckpoint, EndRun,
      BeginTerminal, BeginRenew, FailWrite, Crash, BeginReconcile, Tick, vars

(* Only a settling write of the owner takes a live lease away.             *)
LEMMA LiveLeaseStep ==
    TypeOK /\ StoreInv /\ [Next]_vars =>
        [(rec.owner # NoOwner /\ rec.expires > clock /\ rec'.owner # rec.owner)
           => call[rec.owner].op = "terminal"]_vars
<1> SUFFICES ASSUME TypeOK, StoreInv, [Next]_vars, rec.owner # NoOwner,
                    rec.expires > clock, rec'.owner # rec.owner
             PROVE  call[rec.owner].op = "terminal"
  OBVIOUS
<1>1. RecordStep
  BY RecordSteps
<1>2. /\ rec \in Records /\ clock \in Nat /\ rec.expires \in Int
      /\ \A o \in Owners : call[o].at \in Nat
  BY DEF TypeOK, Records, Calls
<1>3. rec.state # "Prepared" /\ rec # NoRecord
  BY DEF StoreInv, RecordInv, GoodRecord, NoRecord, ValidRecord, LeaseMatches
<1>4. ASSUME NEW o \in Owners, ResumeStep(o)
      PROVE  FALSE
  <2>1. call[o].at <= clock
    BY <1>4 DEF ResumeStep, StoreInv, CallInv, CallOK
  <2> QED BY <1>2, <1>4, <2>1 DEF ResumeStep, ResumeAdmitted, LiveOwner
<1>5. ASSUME NEW o \in Owners, WriteStep(o)
      PROVE  call[rec.owner].op = "terminal"
  <2>1. rec.owner = o
    BY <1>5 DEF WriteStep, WriteAdmitted, LiveLease
  <2>2. ASSUME call[o].op \in {"renew", "checkpoint", "boundary"}
        PROVE  rec'.owner = rec.owner
    BY <1>2, <1>5, <2>2
    DEF WriteStep, Written, Stamped, Renewed, WithCheckpoint, WithBoundary,
        Records
  <2> QED BY <1>5, <2>1, <2>2 DEF WriteStep, Writes
<1>6. ~ReconcileStep
  <2>1. SUFFICES ASSUME ReconcileStep PROVE FALSE
    OBVIOUS
  <2>2. sweep \in Nat /\ sweep <= clock
    BY <2>1 DEF ReconcileStep, StoreInv, SweepInv, TypeOK
  <2> QED BY <1>2, <2>1, <2>2 DEF ReconcileStep, ExpiredOwner
<1> QED
  BY <1>1, <1>3, <1>4, <1>5, <1>6
  DEF RecordStep, CreateStep, AcquireStep, AbandonStep

(* A live lease is taken from its owner by nobody else, at any interleaving
   of stale clock reads with commits.                                      *)
THEOREM LiveLeasesKept == Spec => LiveLeaseKept
<1>1. Spec => [](TypeOK /\ StoreInv)
  BY StoreCorrect
<1> QED BY <1>1, LiveLeaseStep, PTL DEF Spec, LiveLeaseKept

(* A settled record changes only by a resume, and never if Indeterminate.  *)
LEMMA SettledStep ==
    TypeOK /\ StoreInv /\ [Next]_vars =>
        [(rec.state = "Terminal" /\ rec' # rec)
           => /\ rec.status # "Indeterminate"
              /\ rec'.status = "Resuming"
              /\ rec'.attempt # rec.attempt]_vars
<1> SUFFICES ASSUME TypeOK, StoreInv, [Next]_vars, rec.state = "Terminal",
                    rec' # rec
             PROVE  /\ rec.status # "Indeterminate"
                    /\ rec'.status = "Resuming"
                    /\ rec'.attempt # rec.attempt
  OBVIOUS
<1>1. RecordStep
  BY RecordSteps
<1>2. PICK o \in Owners : ResumeStep(o)
  BY <1>1 DEF RecordStep, CreateStep, AcquireStep, AbandonStep, WriteStep,
              WriteAdmitted, ReconcileStep, ExpiredOwner, NoRecord
<1>3. rec.status # "Indeterminate"
  BY <1>2 DEF ResumeStep, ResumeAdmitted, Resumable, IsIndeterminate
<1>4. rec \in Records
  BY DEF TypeOK
<1>5. rec'.status = "Resuming" /\ rec'.attempt = rec.attempt + 1
  BY <1>2, <1>4 DEF ResumeStep, Stamped, ResumedAs, Records
<1> QED BY <1>3, <1>4, <1>5 DEF Records

(* A settled attempt stays exactly as committed until a resume opens a new
   one, and an Indeterminate lineage is never resumed.                     *)
THEOREM SettledAttemptsKept == Spec => SettledAttemptKept
<1>1. Spec => [](TypeOK /\ StoreInv)
  BY StoreCorrect
<1> QED BY <1>1, SettledStep, PTL DEF Spec, SettledAttemptKept

(* A step that opens an attempt opens it for another prompt.               *)
LEMMA PromptStep ==
    TypeOK /\ StoreInv /\ [Next]_vars =>
        [rec'.attempt # rec.attempt => rec'.prompt # rec.prompt]_vars
<1> SUFFICES ASSUME TypeOK, StoreInv, [Next]_vars, rec'.attempt # rec.attempt
             PROVE  rec'.prompt # rec.prompt
  OBVIOUS
<1>1. RecordStep
  BY RecordSteps
<1>2. rec \in Records
  BY DEF TypeOK
<1>3. ASSUME NEW o \in Owners, AcquireStep(o) \/ AbandonStep(o)
      PROVE  rec'.attempt = rec.attempt
  <2>1. CASE AcquireStep(o)
    BY <1>2, <2>1 DEF AcquireStep, Stamped, AcquiredBy, Records
  <2>2. CASE AbandonStep(o)
    BY <1>2, <2>2 DEF AbandonStep, Stamped, Settled, Records
  <2> QED BY <1>3, <2>1, <2>2
<1>4. ASSUME NEW o \in Owners, WriteStep(o)
      PROVE  rec'.attempt = rec.attempt
  <2>1. Written(o).attempt = rec.attempt
    BY <1>2, <1>4
    DEF WriteStep, Writes, Written, Renewed, WithCheckpoint, WithBoundary,
        Settled, Records
  <2>2. Written(o) \in Records
    BY <1>4, WrittenType DEF WriteStep
  <2> QED BY <1>4, <2>1, <2>2 DEF WriteStep, Stamped, Records
<1>5. ASSUME ReconcileStep
      PROVE  rec'.attempt = rec.attempt
  BY <1>2, <1>5 DEF ReconcileStep, Reconciled, Stamped, Settled, Records
<1>6. CASE CreateStep
  BY <1>6, PromptsAssumption DEF CreateStep, CreatedRecord, NoRecord
<1>7. ASSUME NEW o \in Owners, ResumeStep(o)
      PROVE  rec'.prompt # rec.prompt
  <2>1. call[o].prompt # rec.prompt
    BY <1>7 DEF ResumeStep, ResumeAdmitted, StoreInv, CallInv, CallOK
  <2>2. rec'.prompt = call[o].prompt
    BY <1>2, <1>7 DEF ResumeStep, Stamped, ResumedAs, Records
  <2> QED BY <2>1, <2>2
<1> QED BY <1>1, <1>3, <1>4, <1>5, <1>6, <1>7 DEF RecordStep

(* A prompt submitted twice, even by two processes at once, opens one
   attempt.                                                                *)
THEOREM PromptsOpenOneAttempt == Spec => PromptOpensOneAttempt
<1>1. Spec => [](TypeOK /\ StoreInv)
  BY StoreCorrect
<1> QED BY <1>1, PromptStep, PTL DEF Spec, PromptOpensOneAttempt
=============================================================================
