------------------------- MODULE ContinuationRecord -------------------------
(***************************************************************************)
(* The durable record of one child-agent continuation lineage, and the     *)
(* pure functions the store applies to it                                  *)
(* (crates/orca-runtime/src/agent_continuation.rs).                        *)
(*                                                                         *)
(* Identities are abstracted to what the code compares: an attempt is a    *)
(* number (0 is "none"), a checkpoint is named by the attempt that wrote   *)
(* it and its sequence number, an execution owner is an element of Owners. *)
(* The task, model and workspace bindings of a lineage never change the    *)
(* control flow of an operation that is admitted, so they are left out.    *)
(***************************************************************************)
EXTENDS Integers

CONSTANTS Owners,        \* owner identities of coordinators (one per process)
          NoOwner,       \* the absent owner_id
          Prompts,       \* prompt identities a caller may submit
          NoPrompt,      \* the prompt of a record not yet created
          LeaseDuration  \* CONTINUATION_LEASE_DURATION_MS, in clock ticks

ASSUME OwnersAssumption   == NoOwner \notin Owners
ASSUME PromptsAssumption  == NoPrompt \notin Prompts
ASSUME DurationAssumption == LeaseDuration \in Nat \ {0}

NoTime == -1

(* A conversation checkpoint: prev is the attempt that wrote the checkpoint
   whose conversation this one extends (the one numbered seq - 1).          *)
NoCheckpoint == [attempt |-> 0, seq |-> -1, prev |-> 0]

Status   == {"Absent", "Created", "Running", "Checkpointed", "Suspended",
             "Resuming", "Completed", "Failed", "Cancelled", "Indeterminate"}
AttemptState == {"Prepared", "Running", "Suspended", "Terminal"}

(* "Replayable" stands for SafeToRetry and IdempotentWithKey, which no
   branch of the store tells apart.                                        *)
Boundary == {"None", "Replayable", "Indeterminate"}

(* The two Indeterminate terminals differ in their reason text, and a
   terminal retry compares it: a panic report is not the reconciler's.     *)
Terminal == {"None", "Completed", "Failed", "Cancelled", "Panicked",
             "OwnerExpired"}

TerminalStatus(t) ==
    IF t \in {"Panicked", "OwnerExpired"} THEN "Indeterminate" ELSE t

StatusSteps ==
    {<<"Created", "Running">>,      <<"Created", "Failed">>,
     <<"Created", "Cancelled">>,    <<"Running", "Checkpointed">>,
     <<"Running", "Completed">>,    <<"Running", "Failed">>,
     <<"Running", "Cancelled">>,    <<"Running", "Indeterminate">>,
     <<"Checkpointed", "Running">>, <<"Checkpointed", "Suspended">>,
     <<"Checkpointed", "Completed">>,    <<"Checkpointed", "Failed">>,
     <<"Checkpointed", "Cancelled">>,    <<"Checkpointed", "Indeterminate">>,
     <<"Suspended", "Resuming">>,   <<"Suspended", "Cancelled">>,
     <<"Resuming", "Running">>,     <<"Resuming", "Failed">>,
     <<"Resuming", "Cancelled">>,   <<"Resuming", "Indeterminate">>,
     <<"Completed", "Resuming">>,   <<"Failed", "Resuming">>,
     <<"Cancelled", "Resuming">>}

(***************************************************************************)
(* Records                                                                 *)
(***************************************************************************)
Checkpoints == [attempt : Nat, seq : Nat \cup {-1}, prev : Nat]

Records ==
    [status : Status, revision : Nat, attempt : Nat, from : Nat,
     prompt : Prompts \cup {NoPrompt}, state : AttemptState,
     owner : Owners \cup {NoOwner}, epoch : Nat, expires : Int,
     started : BOOLEAN, completed : BOOLEAN, ckpt : Checkpoints,
     boundary : Boundary, terminal : Terminal, updated : Int]

NoRecord ==
    [status |-> "Absent", revision |-> 0, attempt |-> 0, from |-> 0,
     prompt |-> NoPrompt, state |-> "Prepared", owner |-> NoOwner,
     epoch |-> 0, expires |-> NoTime, started |-> FALSE,
     completed |-> FALSE, ckpt |-> NoCheckpoint, boundary |-> "None",
     terminal |-> "None", updated |-> NoTime]

CreatedRecord(p, at) ==
    [NoRecord EXCEPT !.status = "Created", !.attempt = 1, !.prompt = p,
                     !.updated = at]

(***************************************************************************)
(* validate_record and validate_status_structure, one name per rejection.  *)
(***************************************************************************)
AttemptStateMatches(r) ==
    \/ r.status \in {"Created", "Resuming"} /\ r.state = "Prepared"
    \/ r.status \in {"Running", "Checkpointed"} /\ r.state = "Running"
    \/ r.status = "Suspended" /\ r.state = "Suspended"
    \/ /\ r.status \in {"Completed", "Failed", "Cancelled", "Indeterminate"}
       /\ r.state = "Terminal"

TerminalMatches(r) ==
    IF r.state = "Terminal"
    THEN r.terminal # "None" /\ TerminalStatus(r.terminal) = r.status
    ELSE r.terminal = "None"

CheckpointMatches(r) ==
    /\ r.status \in {"Checkpointed", "Suspended", "Resuming"}
           => r.ckpt # NoCheckpoint
    /\ r.status = "Created" => r.ckpt = NoCheckpoint
    /\ r.ckpt # NoCheckpoint
           => \/ r.ckpt.attempt = r.attempt
              \/ r.ckpt.attempt = r.from /\ r.from # 0

LeaseMatches(r) ==
    /\ (r.owner = NoOwner) <=> (r.expires = NoTime)
    /\ r.state \in {"Prepared", "Terminal"} => r.owner = NoOwner
    /\ r.state = "Running" => r.owner # NoOwner

(* Only the presence of the start and completion times is kept: each is the
   update time of the write that sets it, so their order is the order that
   the update time check of Accepts enforces.                              *)
TimesMatch(r) ==
    /\ r.completed <=> (r.state = "Terminal")
    /\ r.state \in {"Running", "Suspended"} => r.started

ValidRecord(r) ==
    /\ r.from # r.attempt
    /\ TimesMatch(r)
    /\ LeaseMatches(r)
    /\ AttemptStateMatches(r)
    /\ TerminalMatches(r)
    /\ CheckpointMatches(r)
    /\ r.state = "Terminal" => r.boundary = "None"

(* mutate_validated_record: what it accepts, and the revision it stamps.   *)
Accepts(old, new) == new.updated >= old.updated /\ ValidRecord(new)
Stamped(r) == [r EXCEPT !.revision = @ + 1]

(***************************************************************************)
(* Predicates on a record at a time                                        *)
(***************************************************************************)
LiveOwner(r, at) == r.owner # NoOwner /\ r.expires > at

(* record_is_indeterminate; a stored checkpoint is always taken at an
   observed tool terminal, so its own boundary never is Indeterminate.     *)
IsIndeterminate(r) ==
    r.status = "Indeterminate" \/ r.boundary = "Indeterminate"

(* Faulty variant: any lineage with a checkpoint and no open unsafe tool.   *)
ResumableFromCheckpoint(r) ==
    r.boundary # "Indeterminate" /\ r.ckpt # NoCheckpoint /\ r.state # "Prepared"

Resumable(r) ==
    /\ ~IsIndeterminate(r)
    /\ r.status \in {"Checkpointed", "Suspended", "Completed", "Failed",
                     "Cancelled"}
    /\ r.ckpt # NoCheckpoint

(* Faulty variants: expiry declared one tick early; an owner without a
   checkpoint skipped.                                                     *)
ExpiringOwner(r, at) ==
    r.state = "Running" /\ r.owner # NoOwner /\ r.expires <= at + 1
ExpiredOwnerWithCheckpoint(r, at) ==
    /\ r.state = "Running" /\ r.owner # NoOwner /\ r.expires <= at
    /\ r.ckpt # NoCheckpoint

ExpiredOwner(r, at) ==
    r.state = "Running" /\ r.owner # NoOwner /\ r.expires <= at

(***************************************************************************)
(* The mutations the coordinator and the reconciler apply                  *)
(***************************************************************************)
(* Faulty variant: the lease epoch is not advanced.                        *)
AcquiredSameEpoch(r, o, at) ==
    [r EXCEPT !.status = "Running", !.state = "Running",
              !.owner = o, !.expires = at + LeaseDuration,
              !.started = TRUE, !.updated = at]

AcquiredBy(r, o, at) ==
    [r EXCEPT !.status = "Running", !.state = "Running",
              !.epoch = @ + 1, !.owner = o, !.expires = at + LeaseDuration,
              !.started = TRUE, !.updated = at]

Renewed(r, at) ==
    [r EXCEPT !.expires = at + LeaseDuration, !.updated = at]

WithCheckpoint(r, c, at) ==
    [r EXCEPT !.status = "Checkpointed", !.ckpt = c, !.boundary = "None",
              !.updated = at]

WithBoundary(r, b, at) == [r EXCEPT !.boundary = b, !.updated = at]

(* Faulty variant: ownership is not cleared.                               *)
SettledKeepingOwner(r, t, at) ==
    [r EXCEPT !.status = TerminalStatus(t), !.state = "Terminal",
              !.completed = TRUE, !.boundary = "None", !.terminal = t,
              !.updated = at]

Settled(r, t, at) ==
    [r EXCEPT !.status = TerminalStatus(t), !.state = "Terminal",
              !.owner = NoOwner, !.expires = NoTime, !.completed = TRUE,
              !.boundary = "None", !.terminal = t, !.updated = at]

ResumedAs(r, a, p, at) ==
    [r EXCEPT !.status = "Resuming", !.state = "Prepared", !.attempt = a,
              !.from = r.ckpt.attempt, !.prompt = p, !.owner = NoOwner,
              !.expires = NoTime, !.started = FALSE, !.completed = FALSE,
              !.boundary = "None", !.terminal = "None", !.updated = at]

Reconciled(r, at) ==
    IF /\ r.ckpt # NoCheckpoint
       /\ r.status = "Checkpointed"
       /\ r.boundary # "Indeterminate"
    THEN [r EXCEPT !.status = "Suspended", !.state = "Suspended",
                   !.owner = NoOwner, !.expires = NoTime, !.updated = at]
    ELSE Settled(r, "OwnerExpired", at)
=============================================================================
