--------------------------- MODULE RuntimeSurface ---------------------------
(***************************************************************************)
(* The surface of one recorded thread: the commit ledger in the session's  *)
(* JSONL file (runtime_surface/store.rs, thread_store/writer.rs), the      *)
(* commit coordinator that reduces batches into the thread's state and     *)
(* recovers it (runtime_surface/commit.rs), the hub that hands every       *)
(* committed batch to the attached clients (runtime_surface/hub.rs), and   *)
(* the thread actor's callers with their bounded retries.                  *)
(*                                                                         *)
(* The actor is one thread: commits do not interleave with each other.     *)
(* What interleaves with the two writes of a commit are crashes and the    *)
(* clients, which read the hub from threads of their own.  A batch is its  *)
(* commit id, its two boundary cursors and the fact about a detached child *)
(* that tells its treatment apart: it starts the child, settles it, or     *)
(* neither.  The thread's state is the sequence of batches reduced into    *)
(* it.  For a new batch the permits, the size preflight and the reducer's  *)
(* rules refuse before anything changes and are left out, with the byte    *)
(* limits, which bound the same queues as the event limits; for a batch    *)
(* recovery finds prepared the refusals are modelled (Recoverable).  The   *)
(* owner lease is an OS lock a process holds while the thread is open: at  *)
(* most one host.                                                          *)
(***************************************************************************)
EXTENDS Collections, SequencesExt

CONSTANTS
    Lanes,         \* the clients, each with one attachment at a time
    None,          \* no batch
    Sizes,         \* the event counts of a batch
    Attempts,      \* SURFACE_SEMANTIC_COMMIT_RETRY_ATTEMPTS
    RetainedLimit, \* SURFACE_RETAINED_EVENT_LIMIT
    LaneLimit,     \* SURFACE_SUBSCRIBER_EVENT_LIMIT
    MaxLanes,      \* maximum_subscribers
    MaxBatches,    \* bound on the batches the ledger ever accepts
    MaxEpoch,      \* bound on the starts of the thread
    MaxFaults,     \* bound on the failed writes
    MaxCrashes     \* bound on the ends of the process

ASSUME SurfaceBounds == /\ Sizes \subseteq Nat \ {0} /\ Sizes # {}
                        /\ Attempts \in Nat \ {0}
                        /\ {RetainedLimit, LaneLimit, MaxLanes} \subseteq Nat
                        /\ {MaxBatches, MaxEpoch, MaxFaults, MaxCrashes} \subseteq Nat
                        /\ MaxEpoch > MaxFaults + MaxCrashes

VARIABLES
    disk,        \* the surface commit records of the session file
    epoch,       \* the durable owner epoch
    pc,          \* where the host is in opening or closing the thread
    index,       \* index[id]: the ledger's in-memory index, id -> committed
    applied,     \* the coordinator's state: the batches reduced into it
    nextSeq, incomplete,        \* next_sequence, incomplete
    publications,               \* recovered_publications
    job,         \* the commit the actor is in the middle of
    held,        \* the batch of a pending control, kept to be retried
    hub,         \* the hub's snapshot cursor, retained suffix and flags
    lane,        \* lane[l]: the subscriber of client l
    view, at,    \* view[l], at[l]: what client l has seen, and its cursor
    acked,       \* the commit ids a caller was told committed
    built, faults, crashes   \* counters

coordVars  == <<applied, nextSeq, incomplete, publications>>
laneVars   == <<lane, view, at>>
vars == <<disk, epoch, pc, index, applied, nextSeq, incomplete, publications,
          job, held, hub, lane, view, at, acked, built, faults, crashes>>
-----------------------------------------------------------------------------
(* Batches and cursors.                                                    *)

Cursors == [inc : Nat, seq : Nat]
Facts == {"none", "starts", "settles"}
Batches == {b \in [id : Nat, before : Cursors, after : Cursors, fact : Facts] :
              b.before.seq < b.after.seq}

ASSUME NoneIsNoBatch == None \notin Batches

Origin == [inc |-> 0, seq |-> 0]

Ids(s)    == [i \in DOMAIN s |-> s[i].id]
Size(b)   == b.after.seq - b.before.seq
Events(s) == SumOver([k \in DOMAIN s |-> Size(s[k])], DOMAIN s)

\* The boundary a sequence of batches leads to.
HeadOf(s) == IF s = << >> THEN Origin ELSE Last(s).after

\* The longest suffix of a sequence of batches within the retained limit.
Within(s) ==
    LET from == Min({i \in 1..(Len(s) + 1) : Events(SubSeq(s, i, Len(s))) <= RetainedLimit})
    IN SubSeq(s, from, Len(s))

\* A batch built on the coordinator's state: a fresh commit id at its head.
NewBatch(size, inc, fact) ==
    LET head == HeadOf(applied)
    IN [id |-> built + 1, before |-> head,
        after |-> [inc |-> inc, seq |-> head.seq + size], fact |-> fact]
-----------------------------------------------------------------------------
(* The ledger.  A second copy of a record changes nothing when the file is *)
(* read, so what it holds is the prepared batches in order and the commit  *)
(* ids with a committed record.  A failed write leaves a torn line, which  *)
(* the next write cuts off again, or the whole record: the line was        *)
(* written and the sync failed, or all but its newline was written and the *)
(* next write adds it.                                                     *)

WithPrepared(b)   == [disk EXCEPT !.prepared = IF b \in Range(@) THEN @ ELSE Append(@, b)]
WithCommitted(id) == [disk EXCEPT !.committed = @ \cup {id}]

\* write_durable_record reports success.
Written(file) == disk' = file /\ UNCHANGED faults

\* It reports a failure.
WriteFails(file) == /\ faults < MaxFaults
                    /\ faults' = faults + 1
                    /\ disk' \in {disk, file}

\* replay_batches: the cursors chain, and only the last batch may still be
\* prepared.
Replays == \A k \in DOMAIN disk.prepared :
               /\ disk.prepared[k].before =
                      IF k = 1 THEN Origin ELSE disk.prepared[k - 1].after
               /\ k < Len(disk.prepared) => disk.prepared[k].id \in disk.committed

\* The committed batches, the durable history of the thread.
IsCommitted(b) == b.id \in disk.committed
History == Selected(disk.prepared,
                    {k \in DOMAIN disk.prepared : IsCommitted(disk.prepared[k])})
-----------------------------------------------------------------------------
(* The hub.                                                                *)

Batch(b) == [kind |-> "batch", batch |-> b]
Gap      == [kind |-> "gap"]
Sealed   == [kind |-> "sealed"]

NoLane == [st |-> "none", queue |-> << >>]
NoHub  == [bound |-> FALSE, ready |-> FALSE, head |-> Origin, retained |-> << >>]

Queued(queue) ==
    LET batches == Selected(queue, {k \in DOMAIN queue : queue[k].kind = "batch"})
    IN [k \in DOMAIN batches |-> batches[k].batch]

Live == {l \in Lanes : lane[l].st = "live"}
Retired == {l \in Lanes : lane[l].st = "retired"}

\* enqueue_batch: the lane has room for the batch.
HasRoom(queue, b) == Events(Queued(queue)) + Size(b) <= LaneLimit

\* Slip: a full lane skips the batch and stays attached.
DeliveredOrSkipped(n, b) ==
    IF n.st = "live" /\ HasRoom(n.queue, b)
    THEN [n EXCEPT !.queue = Append(@, Batch(b))]
    ELSE n

\* publish_batch for one subscriber: the batch, or a sticky gap that retires
\* the lane.
Delivered(n, b) ==
    IF n.st # "live" THEN n
    ELSE IF HasRoom(n.queue, b) THEN [n EXCEPT !.queue = Append(@, Batch(b))]
    ELSE [st |-> "retired", queue |-> Append(n.queue, Gap)]

\* signal_gap for one subscriber.
Gapped(n) == IF n.st = "live"
             THEN [st |-> "retired", queue |-> Append(n.queue, Gap)]
             ELSE n

\* apply_committed: the batch continues the hub's snapshot, or every lane is
\* told of a replay hole.
ApplyCommitted(b) ==
    IF hub.head = b.before
    THEN /\ hub' = [hub EXCEPT !.head = b.after, !.retained = Within(Append(@, b))]
         /\ lane' = [l \in Lanes |-> Delivered(lane[l], b)]
    ELSE /\ hub' = [hub EXCEPT !.head = b.after, !.retained = << >>]
         /\ lane' = [l \in Lanes |-> Gapped(lane[l])]

\* BoundedPublicationSuffix::push.
Push(s, b) == Within(Append(IF s # << >> /\ Last(s).after # b.before THEN << >> ELSE s, b))

\* repair_committed for a hub created at the coordinator's own head: the
\* publications that end there become the retained suffix.
Repaired(s, head) == IF s # << >> /\ Last(s).after = head THEN Within(s) ELSE << >>
-----------------------------------------------------------------------------
(* A commit: commit_batch_with_authority, in the caller's retry loop.      *)

NoJob == [kind |-> "none", batch |-> None, left |-> 0, step |-> "append"]

Job(kind, b, attempts) == [kind |-> kind, batch |-> b, left |-> attempts, step |-> "append"]

Init ==
    /\ disk = [prepared |-> << >>, committed |-> {}] /\ epoch = 0 /\ pc = "down" /\ index = << >>
    /\ applied = << >> /\ nextSeq = 0 /\ incomplete = None /\ publications = << >>
    /\ job = NoJob /\ held = None /\ hub = NoHub
    /\ lane = [l \in Lanes |-> NoLane]
    /\ view = [l \in Lanes |-> << >>] /\ at = [l \in Lanes |-> Origin]
    /\ acked = {} /\ built = 0 /\ faults = 0 /\ crashes = 0

\* The process is gone, or the thread did not start: its memory with it.
Down == /\ pc' = "down" /\ index' = << >> /\ applied' = << >> /\ nextSeq' = 0
        /\ incomplete' = None /\ publications' = << >> /\ job' = NoJob /\ held' = None
        /\ hub' = NoHub /\ lane' = [l \in Lanes |-> NoLane]
        /\ UNCHANGED <<view, at>>

\* Slips: a batch at the state's head is appended whether or not
\* another is incomplete; nothing is appended while one is.
AdmitsOverIncomplete(b) == b.before = HeadOf(applied)
AdmitsNoRetry(b) == incomplete = None /\ b.before.seq = nextSeq

\* The batch may be appended: it is the incomplete one, or none is and it
\* continues the sequence.
Admits(b) == IF incomplete # None THEN incomplete = b ELSE b.before.seq = nextSeq

\* It was committed before: the probe of its commit id finds its receipt.
AlreadyPresent(b) == /\ incomplete = None /\ b.before.seq # nextSeq
                     /\ b.id \in DOMAIN index /\ index[b.id]

\* The caller was told the batch committed, and what it does then.
Succeed ==
    /\ acked' = acked \cup {job.batch.id}
    /\ held' = IF job.kind = "control" THEN None ELSE held
    /\ job' = IF job.kind = "recover"
              THEN Job("takeover", None, 1)
              ELSE NoJob
    /\ pc' = IF job.kind = "takeover" THEN "starting" ELSE pc

\* The caller is told it failed for good.  A start fails with it, unless it
\* was the context-limit refresh and nothing is incomplete; a control whose
\* checkpoint failed is kept.
GiveUp(checkpointFailed) ==
    IF \/ job.kind \in {"recover", "takeover", "reconcile"}
       \/ job.kind = "refresh" /\ incomplete # None
    THEN Down /\ UNCHANGED acked
    ELSE /\ job' = NoJob
         /\ held' = IF job.kind = "control" /\ checkpointFailed THEN job.batch ELSE held
         /\ UNCHANGED <<pc, index, coordVars, hub, laneVars, acked>>

\* The ledger failed: the loop tries the same batch again, or gives up.
Retry(checkpointFailed) ==
    IF job.left > 1
    THEN /\ job' = [job EXCEPT !.left = @ - 1, !.step = "append"]
         /\ UNCHANGED <<pc, index, coordVars, held, hub, laneVars, acked>>
    ELSE GiveUp(checkpointFailed)

\* append_complete_batch: an indexed batch is on disk already.
Reserve(b) ==
    /\ index' = [id \in DOMAIN index \cup {b.id} |->
                    IF id \in DOMAIN index THEN index[id] ELSE FALSE]
    /\ nextSeq' = b.after.seq
    /\ incomplete' = b
    /\ job' = [job EXCEPT !.step = "checkpoint"]
    /\ UNCHANGED <<pc, applied, publications, held, hub, laneVars, acked>>

CommitAppend ==
    /\ job.batch # None /\ job.step = "append"
    /\ LET b == job.batch
       IN \/ /\ ~Admits(b) /\ AlreadyPresent(b)
             /\ Succeed
             /\ UNCHANGED <<disk, index, coordVars, hub, laneVars, faults>>
          \/ /\ ~Admits(b) /\ ~AlreadyPresent(b)
             /\ GiveUp(FALSE)
             /\ UNCHANGED <<disk, faults>>
          \/ /\ Admits(b) /\ b.id \in DOMAIN index
             /\ Reserve(b)
             /\ UNCHANGED <<disk, faults>>
          \/ /\ Admits(b) /\ b.id \notin DOMAIN index
             /\ Written(WithPrepared(b))
             /\ Reserve(b)
          \/ /\ Admits(b) /\ b.id \notin DOMAIN index
             /\ WriteFails(WithPrepared(b))
             /\ Retry(FALSE)
    /\ UNCHANGED <<epoch, built, crashes>>

\* The batch is durable: it becomes state, and the hub publishes it.
Materialize(b) ==
    /\ index' = [index EXCEPT ![b.id] = TRUE]
    /\ applied' = Append(applied, b)
    /\ incomplete' = None
    /\ IF hub.bound
       THEN ApplyCommitted(b) /\ UNCHANGED publications
       ELSE publications' = Push(publications, b) /\ UNCHANGED <<hub, lane>>
    /\ UNCHANGED <<nextSeq, view, at>>

\* Slip: a failed write is taken for a committed one.
CheckpointUnchecked ==
    /\ job.batch # None /\ job.step = "checkpoint"
    /\ LET b == job.batch
       IN /\ \/ Written(WithCommitted(b.id))
             \/ WriteFails(WithCommitted(b.id))
          /\ Materialize(b) /\ Succeed
    /\ UNCHANGED <<epoch, built, crashes>>

CommitCheckpoint ==
    /\ job.batch # None /\ job.step = "checkpoint"
    /\ LET b == job.batch
       IN \/ Written(WithCommitted(b.id)) /\ Materialize(b) /\ Succeed
          \/ WriteFails(WithCommitted(b.id)) /\ Retry(TRUE)
    /\ UNCHANGED <<epoch, built, crashes>>
-----------------------------------------------------------------------------
(* Opening and closing the thread.                                         *)

\* A batch found prepared that recovery may commit.  It is not the start of a
\* detached child, for which no authority is issued, and not an owner
\* takeover, the one batch whose epoch is not that of the state before it.
Recoverable(b) == b.fact # "starts" /\ b.after.inc = b.before.inc

\* recover_with_authority succeeds up to the commit of the prepared batch.
Opens == Replays /\ (disk.prepared = History \/ Recoverable(Last(disk.prepared)))

\* The owner lease advances the epoch, the ledger loads its index, and
\* recover_with_authority replays the committed batches; a batch left
\* prepared is committed first.  A log that does not replay, or a prepared
\* batch that is refused, fails the start, and leaves the file as it was.
Start ==
    /\ pc = "down" /\ epoch < MaxEpoch
    /\ epoch' = epoch + 1
    /\ IF ~Opens
       THEN UNCHANGED <<pc, index, coordVars, job>>
       ELSE /\ index' = [id \in Range(Ids(disk.prepared)) |-> id \in disk.committed]
            /\ applied' = History
            /\ publications' = Within(History)
            /\ nextSeq' = HeadOf(disk.prepared).seq
            /\ IF disk.prepared = History
               THEN /\ incomplete' = None
                    /\ job' = IF epoch = 0 THEN NoJob ELSE Job("takeover", None, 1)
                    /\ pc' = IF epoch = 0 THEN "starting" ELSE "recovering"
               ELSE /\ incomplete' = Last(disk.prepared)
                    /\ job' = Job("recover", Last(disk.prepared), 1)
                    /\ pc' = "recovering"
    /\ UNCHANGED <<disk, held, hub, laneVars, acked, built, faults, crashes>>

\* materialize_cold_owner_takeover: a batch that names the new owner epoch
\* and moves the cursor to a new incarnation.  It is not Recoverable: if its
\* second write fails, the thread cannot be opened again.
Takeover ==
    /\ job.kind = "takeover" /\ job.batch = None /\ built < MaxBatches
    /\ job' = [job EXCEPT !.batch = NewBatch(1, epoch, "none")]
    /\ built' = built + 1
    /\ UNCHANGED <<disk, epoch, pc, index, coordVars, held, hub, laneVars, acked, faults, crashes>>

\* The other commits of a start: recovered owners, outcomes, interrupted
\* operations and tasks, the Goal outbox.  One attempt each, and a failure
\* fails the start.
Reconcile ==
    /\ pc = "starting" /\ job = NoJob /\ built < MaxBatches
    /\ \E n \in Sizes : job' = Job("reconcile", NewBatch(n, HeadOf(applied).inc, "none"), 1)
    /\ built' = built + 1
    /\ UNCHANGED <<disk, epoch, pc, index, coordVars, held, hub, laneVars, acked, faults, crashes>>

\* refresh_recovered_context_limit, at most once and before a hub is bound.
Refresh ==
    /\ pc = "starting" /\ job = NoJob /\ built < MaxBatches
    /\ pc' = "refreshed"
    /\ job' = Job("refresh", NewBatch(1, HeadOf(applied).inc, "none"), Attempts)
    /\ built' = built + 1
    /\ UNCHANGED <<disk, epoch, index, coordVars, held, hub, laneVars, acked, faults, crashes>>

\* bind_runtime_surface: a hub at the coordinator's head, with the recovered
\* publications as its retained suffix.
Bind ==
    /\ pc \in {"starting", "refreshed"} /\ job = NoJob
    /\ hub' = [bound |-> TRUE, ready |-> TRUE, head |-> HeadOf(applied),
               retained |-> Repaired(publications, HeadOf(applied))]
    /\ publications' = << >>
    /\ pc' = "up"
    /\ UNCHANGED <<disk, epoch, index, applied, nextSeq, incomplete, job, held,
                   laneVars, acked, built, faults, crashes>>

\* The actor's loop ended: seal_subscriptions.
Seal ==
    /\ pc = "up" /\ job = NoJob /\ crashes < MaxCrashes
    /\ crashes' = crashes + 1
    /\ pc' = "sealed"
    /\ hub' = [hub EXCEPT !.ready = FALSE]
    /\ lane' = [l \in Lanes |-> IF lane[l].st = "live"
                                THEN [lane[l] EXCEPT !.queue = Append(@, Sealed)]
                                ELSE lane[l]]
    /\ UNCHANGED <<disk, epoch, index, coordVars, job, held, view, at, acked, built, faults>>

\* The process ends after the seal.
Close ==
    /\ pc = "sealed"
    /\ Down
    /\ UNCHANGED <<disk, epoch, acked, built, faults, crashes>>

\* The process dies.
Crash ==
    /\ pc \notin {"down", "sealed"} /\ crashes < MaxCrashes
    /\ crashes' = crashes + 1
    /\ Down
    /\ UNCHANGED <<disk, epoch, acked, built, faults>>
-----------------------------------------------------------------------------
(* The actor's callers.                                                    *)

\* A batch the coordinator refuses leaves nothing behind, its id included.
Submit(kind, size, fact, attempts) ==
    /\ pc = "up" /\ job = NoJob /\ built < MaxBatches
    /\ LET b == NewBatch(size, HeadOf(applied).inc, fact)
       IN /\ job' = Job(kind, b, attempts)
          /\ built' = IF Admits(b) THEN built + 1 ELSE built
    /\ UNCHANGED <<disk, epoch, pc, index, coordVars, held, hub, laneVars, acked, faults, crashes>>

\* A semantic batch: commit_surface_actor_batch_naming_failure and its kin.
\* The first frame of a detached child starts it.
Semantic == \E n \in Sizes, fact \in {"none", "starts"} : Submit("actor", n, fact, Attempts)

\* cancel_surface_background_*: one attempt, kept when its checkpoint failed.
Control == held = None /\ \E n \in Sizes : Submit("control", n, "none", 1)

\* settle_stranded_detached_subagents, each poll: the state still shows the
\* child running, so a batch that settles it is built and committed.
ChildSettled == \E i \in DOMAIN applied : applied[i].fact = "settles"

Poll == ~ChildSettled /\ Submit("actor", 1, "settles", Attempts)

\* retry_surface_background_control.
RetryControl ==
    /\ pc = "up" /\ job = NoJob /\ held # None
    /\ job' = Job("control", held, 1)
    /\ UNCHANGED <<disk, epoch, pc, index, coordVars, held, hub, laneVars, acked, built, faults, crashes>>

\* retry_incomplete_batch, when a Goal run fails with a batch incomplete that
\* it is given the authority of.
RetryIncomplete ==
    /\ pc = "up" /\ job = NoJob /\ incomplete # None /\ Recoverable(incomplete)
    /\ job' = Job("goal", incomplete, 1)
    /\ UNCHANGED <<disk, epoch, pc, index, coordVars, held, hub, laneVars, acked, built, faults, crashes>>
-----------------------------------------------------------------------------
(* The clients.                                                            *)

\* has_registration_capacity.
HasCapacity == /\ Cardinality(Live) < MaxLanes
               /\ Cardinality(Live \cup Retired) < 2 * MaxLanes

Registers(l) == /\ hub.ready /\ lane[l].st = "none" /\ HasCapacity
                /\ lane' = [lane EXCEPT ![l] = [st |-> "live", queue |-> << >>]]
                /\ at' = [at EXCEPT ![l] = hub.head]
                /\ UNCHANGED <<disk, epoch, pc, index, coordVars, job, held, hub, acked,
                               built, faults, crashes>>

\* attach_fresh: the snapshot, and live batches from its cursor on.
AttachFresh(l) ==
    /\ Registers(l)
    /\ view' = [view EXCEPT ![l] = Ids(applied)]

\* capture_retained_replay: the retained batches after a cursor that is a
\* boundary of the current incarnation.
Replay(cursor) ==
    Selected(hub.retained,
             {k \in DOMAIN hub.retained : hub.retained[k].after.seq > cursor.seq})

\* Slip: whether the suffix still reaches back to the cursor is
\* not asked.
CanReplayTrimmed(cursor) == cursor.inc = hub.head.inc

CanReplay(cursor) ==
    LET boundaries == {hub.head} \cup {b.before : b \in Range(hub.retained)}
                                 \cup {b.after : b \in Range(hub.retained)}
        replay == Replay(cursor)
    IN /\ cursor.inc = hub.head.inc
       /\ cursor \in boundaries
       /\ \A k \in DOMAIN replay :
              replay[k].before = IF k = 1 THEN cursor ELSE replay[k - 1].after
       /\ hub.head = IF replay = << >> THEN cursor ELSE Last(replay).after

\* attach_after: the batches since the client's cursor, and the live ones.
AttachAfter(l) ==
    /\ CanReplay(at[l])
    /\ Registers(l)
    /\ view' = [view EXCEPT ![l] = @ \o Ids(Replay(at[l]))]

\* take_subscription_item: a retired lane drains too, and ends with its gap.
Taken(n) == IF Head(n.queue).kind = "gap" THEN NoLane
            ELSE [n EXCEPT !.queue = Tail(@)]

\* Slip: a retired lane is not drained.
ReceiveLive(l) ==
    /\ lane[l].st = "live" /\ lane[l].queue # << >>
    /\ lane' = [lane EXCEPT ![l] = Taken(@)]
    /\ LET item == Head(lane[l].queue)
       IN IF item.kind = "batch"
          THEN /\ view' = [view EXCEPT ![l] = Append(@, item.batch.id)]
               /\ at' = [at EXCEPT ![l] = item.batch.after]
          ELSE UNCHANGED <<view, at>>
    /\ UNCHANGED <<disk, epoch, pc, index, coordVars, job, held, hub, acked, built, faults, crashes>>

Receive(l) ==
    /\ lane[l].queue # << >>
    /\ lane' = [lane EXCEPT ![l] = Taken(@)]
    /\ LET item == Head(lane[l].queue)
       IN IF item.kind = "batch"
          THEN /\ view' = [view EXCEPT ![l] = Append(@, item.batch.id)]
               /\ at' = [at EXCEPT ![l] = item.batch.after]
          ELSE UNCHANGED <<view, at>>
    /\ UNCHANGED <<disk, epoch, pc, index, coordVars, job, held, hub, acked, built, faults, crashes>>

\* The receiver or the unclaimed handle is dropped, or the client detaches.
Leave(l) ==
    /\ lane[l].st # "none"
    /\ lane' = [lane EXCEPT ![l] = NoLane]
    /\ UNCHANGED <<disk, epoch, pc, index, coordVars, job, held, hub, view, at, acked,
                   built, faults, crashes>>
-----------------------------------------------------------------------------
Client(l) == AttachFresh(l) \/ AttachAfter(l) \/ Receive(l) \/ Leave(l)

Next == \/ CommitAppend \/ CommitCheckpoint
        \/ Start \/ Takeover \/ Reconcile \/ Refresh \/ Bind \/ Seal \/ Close \/ Crash
        \/ Semantic \/ Control \/ Poll \/ RetryControl \/ RetryIncomplete
        \/ \E l \in Lanes : Client(l)

Spec == Init /\ [][Next]_vars

\* The actor's loop runs and serves its timers, the poll and the retry of a
\* control, between commits; a client reads what its lane holds; and the
\* thread is opened again after it went down.
Fairness ==
    /\ WF_vars(CommitAppend) /\ WF_vars(CommitCheckpoint)
    /\ WF_vars(Start) /\ WF_vars(Takeover) /\ WF_vars(Bind)
    /\ WF_vars(Close)
    /\ SF_vars(Poll) /\ SF_vars(RetryControl)
    /\ \A l \in Lanes : WF_vars(Receive(l))

FairSpec == Spec /\ Fairness
-----------------------------------------------------------------------------
(* Properties.                                                             *)

\* A client sees the one durable history of the thread, in order and without
\* holes, and never sees less of it than before (PublishedLog): through
\* attachments, replays, gaps, restarts, and batches whose writes failed.
Published == INSTANCE PublishedLog WITH
    Clients <- Lanes, Batches <- 1..MaxBatches, history <- Ids(History), seen <- view

PublishedSpec == Published!Spec

\* A lane that is not gapped owes its client exactly what is left between what
\* the client has seen and the thread's state, and a lane that is gapped ends
\* with the gap and held everything up to it: publish_batch, apply_committed
\* and the two attach calls take no batch twice and miss none, within the
\* limit of a lane.
NothingMissed ==
    \A l \in Lanes :
        LET owed == view[l] \o Ids(Queued(lane[l].queue))
        IN /\ Events(Queued(lane[l].queue)) <= LaneLimit
           /\ lane[l].st = "live" => owed = Ids(applied)
           /\ lane[l].st = "retired" => /\ Last(lane[l].queue) = Gap
                                        /\ IsStrictPrefix(owed, Ids(applied))

\* What the coordinator has reduced into its state is what the log holds as
\* committed, but for one batch whose checkpoint was reported failed and is
\* still incomplete; and its retained suffix leads to its head.
StateIsLog ==
    pc # "down" =>
        /\ \/ applied = History
           \/ incomplete # None /\ Append(applied, incomplete) = History
        /\ hub.bound => /\ hub.head = HeadOf(applied)
                        /\ hub.retained # << >> => HeadOf(hub.retained) = hub.head

\* A commit the caller was told of is never lost: it is in the durable
\* history, and in the state of every later opening of the thread.
AckedSurvives ==
    /\ acked \subseteq Range(Ids(History))
    /\ pc # "down" => acked \subseteq Range(Ids(applied))

\* The log can be replayed: the thread can be opened again.
LogReplays == Replays

\* A start that finds a log that replays opens the thread, after a crash or a
\* failed write in the middle of the start before it too.  Only a detached
\* child's start is never recovered, on purpose.
Reopens ==
    [][/\ epoch' # epoch /\ Replays
       /\ disk.prepared # History => Last(disk.prepared).fact # "starts"
       => pc' # "down"]_vars

\* A control kept because its checkpoint failed is committed in the end, by
\* its retries, by a Goal run or by the recovery after a crash, unless the
\* log no longer replays.
ControlCommits ==
    \A id \in 1..MaxBatches :
        (held # None /\ held.id = id) ~> (id \in Range(Ids(History)) \/ ~Replays)

\* A client that is attached and keeps reading catches up with every batch
\* that is published while it is attached, or is told of a gap.
CaughtUp ==
    \A l \in Lanes : \A n \in 1..MaxBatches :
        (lane[l].st # "none" /\ Len(applied) >= n)
            ~> (Len(view[l]) >= n \/ lane[l].st = "none" \/ pc = "down")

\* The stranded child is settled in the end: a failed commit is retried by
\* the next poll.
ChildSettles == <>[](pc = "up" /\ built < MaxBatches) => <>ChildSettled
-----------------------------------------------------------------------------
(***************************************************************************)
(* The inductive invariant behind the safety properties, in three parts:   *)
(* the log, what the coordinator has in memory, and what the hub owes the  *)
(* clients.                                                                *)
(***************************************************************************)
Items == [kind : {"batch"}, batch : Batches] \cup {Gap, Sealed}

TypeOK ==
    /\ disk \in [prepared : Seq(Batches), committed : SUBSET Nat]
    /\ epoch \in Nat /\ nextSeq \in Nat /\ built \in Nat /\ acked \in SUBSET Nat
    /\ faults \in Nat /\ crashes \in Nat
    /\ pc \in {"down", "recovering", "starting", "refreshed", "up", "sealed"}
    /\ index \in [DOMAIN index -> BOOLEAN]
    /\ applied \in Seq(Batches) /\ publications \in Seq(Batches)
    /\ incomplete \in Batches \cup {None} /\ held \in Batches \cup {None}
    /\ job \in [kind : {"none", "recover", "takeover", "reconcile", "refresh",
                         "actor", "control", "goal"},
                 batch : Batches \cup {None}, left : Nat,
                 step : {"append", "checkpoint"}]
    /\ hub \in [bound : BOOLEAN, ready : BOOLEAN, head : Cursors,
                 retained : Seq(Batches)]
    /\ lane \in [Lanes -> [st : {"none", "live", "retired"}, queue : Seq(Items)]]
    /\ view \in [Lanes -> Seq(Nat)] /\ at \in [Lanes -> Cursors]

\* s is the end of t, or t as far as it is retained.
EndOf(s, t) ==
    /\ Len(s) <= Len(t)
    /\ \A k \in DOMAIN s : s[k] = t[Len(t) - Len(s) + k]

\* The cursor after the first n batches of a sequence.
CursorAt(s, n) == IF n = 0 THEN Origin ELSE s[n].after

\* Commit ids are used once, only prepared batches are committed, and the
\* committed ones follow each other, whatever lies between them.
LogInv ==
    /\ \A i, j \in DOMAIN disk.prepared :
          disk.prepared[i].id = disk.prepared[j].id => i = j
    /\ \A i \in DOMAIN disk.prepared : disk.prepared[i].id \in 1..built
    /\ disk.committed \subseteq Range(Ids(disk.prepared))
    /\ \A k \in DOMAIN History : History[k].before = CursorAt(History, k - 1)

\* The incomplete batch is the last of the log and continues the state.
IncompleteInv ==
    IF incomplete = None
    THEN applied = History /\ nextSeq = HeadOf(applied).seq
    ELSE /\ disk.prepared # << >> /\ Last(disk.prepared) = incomplete
         /\ incomplete.before = HeadOf(applied)
         /\ nextSeq = incomplete.after.seq
         /\ History = IF incomplete.id \in disk.committed
                      THEN Append(applied, incomplete) ELSE applied

\* The index knows the state and the incomplete batch only.
IndexInv ==
    \A id \in DOMAIN index :
       /\ index[id] => id \in Range(Ids(applied))
       /\ \/ id \in disk.committed
          \/ incomplete # None /\ id = incomplete.id

\* A batch that is being committed is the incomplete one, or was committed
\* already, or is new, or is going to be refused.
Fresh(b) == /\ incomplete = None /\ b.before = HeadOf(applied)
            /\ b.id \in 1..built /\ b.id \notin disk.committed
            /\ b.id \in Range(Ids(disk.prepared)) => Last(disk.prepared) = b
Refused(b) == incomplete # None /\ incomplete # b
JobInv ==
    /\ job.batch # None => \/ incomplete = job.batch \/ job.batch \in Range(applied)
                           \/ Fresh(job.batch) \/ Refused(job.batch)
    /\ job.step = "checkpoint" => job.batch # None /\ incomplete = job.batch
    /\ held # None => held = incomplete \/ held \in Range(applied)

\* The thread's life.
PhaseInv ==
    /\ hub.bound <=> pc \in {"up", "sealed"}
    /\ hub.ready <=> pc = "up"
    /\ pc = "sealed" => job = NoJob
    /\ job.kind \in {"recover", "takeover"} => pc = "recovering"
    /\ job.kind = "reconcile" => pc = "starting"
    /\ job.kind = "refresh" => pc = "refreshed"
    /\ pc = "down" => job = NoJob /\ held = None /\ hub = NoHub

SuffixInv == IF hub.bound
             THEN hub.head = HeadOf(applied) /\ EndOf(hub.retained, applied)
             ELSE EndOf(publications, applied)

CoordInv == /\ LogInv /\ AckedSurvives /\ PhaseInv
            /\ pc # "down" => IncompleteInv /\ IndexInv /\ JobInv /\ SuffixInv

\* What a client has seen is a beginning of the history, and its cursor
\* where that ends; a lane holds what comes next.
ViewInv ==
    \A l \in Lanes :
       /\ Len(view[l]) <= Len(History)
       /\ \A k \in DOMAIN view[l] : view[l][k] = History[k].id
       /\ at[l] = CursorAt(History, Len(view[l]))
       /\ pc # "down" => Len(view[l]) <= Len(applied)
LaneInv ==
    \A l \in Lanes :
       LET q == Queued(lane[l].queue)
       IN /\ Events(q) <= LaneLimit
          /\ lane[l].st = "none" => lane[l].queue = << >>
          /\ lane[l].st # "none" =>
               /\ hub.bound
               /\ Len(view[l]) + Len(q) <= Len(applied)
               /\ \A k \in DOMAIN q : q[k] = applied[Len(view[l]) + k]
          /\ lane[l].st = "live" => Len(view[l]) + Len(q) = Len(applied)
          /\ lane[l].st = "retired" =>
               /\ Len(view[l]) + Len(q) < Len(applied)
               /\ lane[l].queue # << >> /\ Last(lane[l].queue) = Gap

SurfaceInv == TypeOK /\ CoordInv /\ ViewInv /\ LaneInv
=============================================================================
