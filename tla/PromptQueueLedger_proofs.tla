---------------------- MODULE PromptQueueLedger_proofs ----------------------
(***************************************************************************)
(* What clients may rely on, proved on top of PromptQueue_proofs: what a   *)
(* revision identifies (RevisionIdentifies, StaleStartRefused), where an   *)
(* acknowledged prompt is (AckedDurable), where an accepted steer input is *)
(* (SteerKept) and in which order those left over are requeued             *)
(* (SteerOrder), with the rest of TypeOK.                                  *)
(*                                                                         *)
(* The steps are sorted once by what they do to the queues: nothing, a     *)
(* write of the actor's own, a client's command sent or handled, an exit,  *)
(* a restart.  Each invariant is then shown for the kinds of step.         *)
(***************************************************************************)
EXTENDS PromptQueue_proofs

(* A step that leaves the queues as they are.                              *)
Quiet == /\ UNCHANGED <<q, disk, published, mail, interrupts, acked>>
         /\ pc' # "down" /\ (pc = "down" => Unreadable)

(* A write of the actor's own: it may settle the prompt that runs, and     *)
(* never restarts a paused queue.                                          *)
Rewrites(s) ==
    /\ pc # "down" /\ pc' # "down" /\ mail' = mail /\ acked' = acked
    /\ Writes(s) /\ Follows(q, s)
    /\ Ids(q) \ Ids(s) \subseteq {active.prompt} \ {NoInput}
    /\ s.fence.kind = "accepted" => s.fence.id = active.prompt
    /\ q.paused => s.paused
    /\ interrupts' = interrupts \/ q' = s

(* What runs was started, and nothing started or taken away is forgotten.  *)
Starts ==
    /\ started \subseteq started' /\ gone \subseteq gone'
    /\ active'.prompt \in {NoInput, active.prompt} \cup started'
    /\ \A p \in Inputs : turns'[p] > 0 => turns[p] > 0 \/ p = active.prompt

LEMMA DownIsIdle ==
    ASSUME QueueInv
    PROVE  pc = "down" => active.phase = "none"
  BY NoOpFields DEF QueueInv, Actor, Idle

(* An accepted fence is that of the prompt which runs.                     *)
LEMMA AcceptedRuns ==
    ASSUME QueueInv, q.fence.kind = "accepted"
    PROVE  active.prompt # NoInput /\ q.fence.id = active.prompt
<1>1. q.fence # NoFence
  BY DEF NoFence
<1>2. pc \in {"select", "finishing"}
  BY <1>1 DEF QueueInv, Types, Points, Actor, Idle
<1> QED BY <1>1, <1>2 DEF QueueInv, Actor, Running

LEMMA QuietSteps ==
    ASSUME QueueInv,
           \/ List \/ DrainNothing \/ StartTurn \/ GenerationStep \/ DirectTurn \/ Steer
           \/ QueueResume \/ Poll \/ NextGeneration \/ ResumeFails \/ RestartUnread
    PROVE  Quiet
<1>1. CASE List \/ DrainNothing \/ Poll \/ RestartUnread \/ StartTurn \/ ResumeFails
  BY <1>1 DEF List, DrainNothing, Poll, RestartUnread, StartTurn, ResumeFails, Quiet,
     queueVars, historyVars
<1>2. CASE DirectTurn \/ Steer \/ QueueResume
  BY <1>2 DEF DirectTurn, Steer, QueueResume, Loop, Quiet, queueVars, historyVars
<1>3. CASE GenerationStep
  <2>1. active.phase # "none" /\ GenerationFrame
    BY <1>3 DEF GenerationStep, RecordPrompt, ApplySteer, EndTurn
  <2>2. pc # "down" /\ pc' = pc
    BY <2>1, DownIsIdle DEF GenerationFrame, actorVars
  <2> QED BY <2>1, <2>2 DEF Quiet, GenerationFrame, queueVars
<1>4. CASE NextGeneration
  BY <1>4 DEF NextGeneration, Quiet, queueVars, actorVars, historyVars
<1> QED BY <1>1, <1>2, <1>3, <1>4

LEMMA DispatchRewrites ==
    ASSUME QueueInv, PrepareDispatch \/ AcceptDispatch \/ RollBackDispatch
    PROVE  \E s : Rewrites(s)
<1>1. acked' = acked
  BY DEF PrepareDispatch, AcceptDispatch, RollBackDispatch, historyVars
<1>2. CASE PrepareDispatch
  <2> DEFINE s == Prepared(q)
  <2>1. /\ pc = "top" /\ pc' \in {"prepared", "select"} /\ mail' = mail
        /\ interrupts' = interrupts /\ Writes(s) /\ Follows(q, s) /\ Ids(s) = Ids(q)
        /\ s.paused = q.paused
        /\ s.fence = [kind |-> "prepared", id |-> Head(q.items).id]
    BY <1>2, PrepareIs
  <2> HIDE DEF s
  <2>2. s.fence.kind # "accepted"
    BY <2>1
  <2> QED BY <1>1, <2>1, <2>2 DEF Rewrites
<1>3. CASE AcceptDispatch
  <2> DEFINE s == Accepted(q)
  <2>1. /\ pc = "started" /\ pc' = "select" /\ mail' = mail
        /\ interrupts' = interrupts /\ Writes(s) /\ Follows(q, s) /\ Ids(s) = Ids(q)
        /\ s.paused = q.paused
        /\ s.fence = [kind |-> "accepted", id |-> active.prompt]
    BY <1>3, AcceptIs
  <2> HIDE DEF s
  <2>2. s.fence.id = active.prompt
    BY <2>1
  <2> QED BY <1>1, <2>1, <2>2 DEF Rewrites
<1>4. CASE RollBackDispatch
  <2> DEFINE s == RolledBack(q)
  <2>1. /\ pc = "prepared" /\ pc' = "pausing" /\ mail' = mail
        /\ interrupts' = interrupts /\ Writes(s) /\ Follows(q, s) /\ Ids(s) = Ids(q)
        /\ s.paused = q.paused /\ s.fence = NoFence
    BY <1>4, RollBackIs
  <2> HIDE DEF s
  <2>2. s.fence.kind # "accepted"
    BY <2>1 DEF NoFence
  <2> QED BY <1>1, <2>1, <2>2 DEF Rewrites
<1> QED BY <1>2, <1>3, <1>4

LEMMA PausingRewrites ==
    ASSUME QueueInv, PauseForBoundary \/ Interrupt
    PROVE  \E s : Rewrites(s)
<1> DEFINE s == Pausing(q)
<1>1. /\ Follows(q, s) /\ Ids(s) = Ids(q) /\ s.paused = TRUE /\ s.fence = q.fence
  BY PauseIs
<1>2. /\ pc \in {"pausing", "select"} /\ pc' = "select" /\ mail' = mail /\ acked' = acked
      /\ Writes(s) /\ (interrupts' = interrupts \/ q' = s)
  <2>1. CASE PauseForBoundary
    <3>1. Change(s) \/ ChangeFails(s)
      BY <2>1 DEF PauseForBoundary
    <3>2. Writes(s)
      BY <3>1, ChangeWrites
    <3> QED BY <2>1, <3>2 DEF PauseForBoundary, historyVars
  <2>2. CASE Interrupt
    BY <2>2, InterruptIs
  <2> QED BY <2>1, <2>2
<1> HIDE DEF s
<1>3. s.fence.kind = "accepted" => s.fence.id = active.prompt
  BY <1>1, AcceptedRuns
<1> QED BY <1>1, <1>2, <1>3 DEF Rewrites

LEMMA FinishRewrites ==
    ASSUME QueueInv, FinishOperation
    PROVE  Quiet \/ \E s : Rewrites(s)
<1> DEFINE s == Consumed(q)
<1>1. /\ pc \in {"select", "finishing"} /\ mail' = mail /\ interrupts' = interrupts
      /\ acked' = acked /\ pc' \in {"top", "requeue"}
      /\ \/ UNCHANGED <<q, disk, published>>
         \/ /\ active.prompt # NoInput /\ Writes(s) /\ q' = s /\ Follows(q, s)
            /\ Ids(s) = Ids(q) \ {active.prompt} /\ s.paused = q.paused /\ s.fence = NoFence
  BY FinishIs
<1> HIDE DEF s
<1>2. CASE UNCHANGED <<q, disk, published>>
  BY <1>1, <1>2 DEF Quiet
<1>3. CASE /\ active.prompt # NoInput /\ Writes(s) /\ q' = s /\ Follows(q, s)
           /\ Ids(s) = Ids(q) \ {active.prompt} /\ s.paused = q.paused /\ s.fence = NoFence
  <2>1. s.fence.kind # "accepted"
    BY <1>3 DEF NoFence
  <2> QED BY <1>1, <1>3, <2>1 DEF Rewrites
<1> QED BY <1>1, <1>2, <1>3

LEMMA RequeueRewrites ==
    ASSUME QueueInv, RequeueAdd \/ RequeueReorder
    PROVE  Quiet \/ \E s : Rewrites(s)
<1>1. CASE RequeueAdd
  <2> DEFINE s == Appended(q, Last(todo))
  <2>1. /\ pc = "requeue" /\ mail' = mail /\ interrupts' = interrupts /\ acked' = acked
        /\ pc' \in {"reorder", "top", "requeue"}
        /\ Follows(q, s) /\ Ids(s) = Ids(q) \cup {Last(todo)} /\ s.paused = q.paused
        /\ s.fence = NoFence
        /\ UNCHANGED <<q, disk, published>> \/ Writes(s)
    BY <1>1, RequeueAddIs
  <2> HIDE DEF s
  <2>2. s.fence.kind # "accepted"
    BY <2>1 DEF NoFence
  <2> QED BY <2>1, <2>2 DEF Rewrites, Quiet
<1>2. CASE RequeueReorder
  <2> DEFINE s == ToFront(q)
  <2>1. /\ pc = "reorder" /\ mail' = mail /\ interrupts' = interrupts /\ acked' = acked
        /\ pc' \in {"top", "requeue"}
        /\ Follows(q, s) /\ Ids(s) = Ids(q) /\ s.paused = q.paused
        /\ s.fence = NoFence /\ Writes(s)
    BY <1>2, RequeueReorderIs
  <2> HIDE DEF s
  <2>2. s.fence.kind # "accepted"
    BY <2>1 DEF NoFence
  <2> QED BY <2>1, <2>2 DEF Rewrites, Quiet
<1> QED BY <1>1, <1>2

(* Every step is of one of these kinds.                                    *)
LEMMA QueueMoves ==
    ASSUME QueueInv, Next
    PROVE  \/ Quiet
           \/ \E s : Rewrites(s)
           \/ \E c \in Clients : Send(c) \/ Handle(c)
           \/ Crash
           \/ Restart
<1>1. CASE ActorStep
  BY <1>1, QuietSteps, DispatchRewrites, PausingRewrites, FinishRewrites, RequeueRewrites
     DEF ActorStep
<1>2. CASE ~ActorStep
  BY <1>2, QuietSteps, PausingRewrites DEF Next
<1> QED BY <1>1, <1>2

-----------------------------------------------------------------------------
(***************************************************************************)
(* Revisions.                                                              *)
(***************************************************************************)

(* A client's snapshot is older than the queue, or is the queue.           *)
Seen(v) == v.rev <= q.rev /\ (v.rev = q.rev => v = q)

(* A command whose revision is current was sent after the last interrupt.  *)
(* A file with a revision of zero holds no queue, so that what a restart   *)
(* makes of it is not mistaken for the empty queue of the watch channel.   *)
RevInv ==
    /\ disk.rev = 0 => disk = Empty
    /\ Seen(published)
    /\ \A c \in Clients : mail[c] # NoCommand =>
         /\ Seen(mail[c].view)
         /\ mail[c].view.rev = q.rev => mail[c].seen = interrupts
    /\ pc = "down" => /\ q = Empty /\ published = Empty
                      /\ \A c \in Clients : mail[c] = NoCommand

LEMMA Revisions ==
    ASSUME QueueInv
    PROVE  /\ q.rev \in Nat /\ disk.rev \in Nat /\ published.rev \in Nat
           /\ \A c \in Clients : mail[c] # NoCommand => mail[c].view.rev \in Nat
  BY DEF QueueInv, Types, Queues, Sound, Snapshots, Sent

LEMMA RevInit == Init => RevInv
<1>1. Empty.rev = 0
  BY SoundEmpty
<1> QED BY <1>1 DEF Init, RevInv, Seen

LEMMA QuietRev ==
    ASSUME RevInv, UNCHANGED <<q, disk, published, interrupts>>, pc' # "down",
           \A c \in Clients : mail'[c] \in {mail[c], NoCommand}
    PROVE  RevInv'
  BY DEF RevInv, Seen

LEMMA WriteRev ==
    ASSUME QueueInv, RevInv, pc' # "down", NEW s, Writes(s), Follows(q, s),
           \A c \in Clients : mail'[c] \in {mail[c], NoCommand},
           interrupts' = interrupts \/ q' = s
    PROVE  RevInv'
<1>1. q.rev \in Nat /\ s.rev = q.rev + 1
  BY Revisions DEF Follows
<1>2. disk'.rev = 0 => disk' = Empty
  BY <1>1 DEF Writes, RevInv
<1>3. ASSUME NEW v, v.rev \in Nat, Seen(v)
      PROVE  v.rev <= q'.rev /\ (v.rev = q'.rev => v = q' /\ q' = q /\ q' # s)
  BY <1>1, <1>3 DEF Writes, Seen
<1>4. Seen(published)'
  <2>1. CASE published' = published
    BY <1>3, <2>1, Revisions DEF RevInv, Seen
  <2>2. CASE published' = s /\ q' = s
    BY <1>1, <2>2 DEF Seen
  <2> QED BY <2>1, <2>2 DEF Writes
<1>5. ASSUME NEW c \in Clients, mail'[c] # NoCommand
      PROVE  /\ Seen(mail[c].view)'
             /\ mail'[c].view.rev = q'.rev => mail'[c].seen = interrupts'
  <2>1. mail'[c] = mail[c] /\ mail[c] # NoCommand
    BY <1>5
  <2>2. mail[c].view.rev \in Nat /\ Seen(mail[c].view)
        /\ (mail[c].view.rev = q.rev => mail[c].seen = interrupts)
    BY <2>1, Revisions DEF RevInv
  <2> QED BY <1>3, <2>1, <2>2 DEF Seen
<1> QED BY <1>2, <1>4, <1>5 DEF RevInv

LEMMA SendRev ==
    ASSUME QueueInv, RevInv, NEW c \in Clients, Send(c)
    PROVE  RevInv'
<1>1. PICK v \in {published, q}, m \in Sent :
        /\ mail' = [mail EXCEPT ![c] = m] /\ m.view = v /\ m.seen = interrupts
        /\ UNCHANGED <<q, disk, published, pc, interrupts>>
  BY SendIs
<1>2. pc # "down"
  BY DEF Send
<1>3. Seen(v)
  BY <1>1, Revisions DEF RevInv, Seen
<1>4. ASSUME NEW d \in Clients
      PROVE  mail'[d] = m \/ mail'[d] = mail[d]
  BY <1>1 DEF QueueInv, Types
<1> QED BY <1>1, <1>2, <1>3, <1>4 DEF RevInv, Seen

LEMMA HandleRev ==
    ASSUME QueueInv, RevInv, NEW c \in Clients, Handle(c)
    PROVE  RevInv'
<1> DEFINE s == Applied(q, mail[c])
<1>1. /\ mail' = [mail EXCEPT ![c] = NoCommand] /\ interrupts' = interrupts
      /\ pc' \in {"top", "select"}
      /\ UNCHANGED <<q, disk, published>> \/ (Writes(s) /\ Follows(q, s))
  BY HandleIs DEF AppliedTo
<1> HIDE DEF s
<1>2. \A d \in Clients : mail'[d] \in {mail[d], NoCommand}
  BY <1>1 DEF QueueInv, Types
<1>3. pc' # "down"
  BY <1>1
<1> QED BY <1>1, <1>2, <1>3, QuietRev, WriteRev

LEMMA CrashRev ==
    ASSUME QueueInv, RevInv, Crash
    PROVE  RevInv'
<1>1. /\ mail' = [c \in Clients |-> NoCommand] /\ published' = Empty /\ q' = Empty
      /\ disk' = disk
  BY CrashIs
<1>2. Empty.rev \in Nat
  BY SoundEmpty
<1> QED BY <1>1, <1>2 DEF RevInv, Seen

LEMMA RestartRev ==
    ASSUME QueueInv, RevInv, Restart
    PROVE  RevInv'
<1> DEFINE s == Recovered(disk)
<1>1. /\ pc = "down" /\ pc' = "top" /\ q' = s /\ disk' \in {disk, s}
      /\ UNCHANGED <<published, mail, interrupts>>
      /\ Sound(s) /\ (s = disk \/ s.rev > 0)
  BY RestartIs
<1> HIDE DEF s
<1>2. published = Empty /\ \A c \in Clients : mail[c] = NoCommand
  BY <1>1 DEF RevInv
<1>3. s.rev \in Nat
  BY <1>1 DEF Sound, Snapshots
<1>4. s.rev = 0 => s = Empty
  BY <1>1 DEF RevInv
<1>5. Empty.rev = 0
  BY SoundEmpty
<1> QED BY <1>1, <1>2, <1>3, <1>4, <1>5 DEF RevInv, Seen

LEMMA RevStep == QueueInv /\ RevInv /\ [Next]_vars => RevInv'
<1> SUFFICES ASSUME QueueInv, RevInv, [Next]_vars PROVE RevInv' OBVIOUS
<1>1. CASE Quiet
  BY <1>1, QuietRev DEF Quiet
<1>2. CASE \E s : Rewrites(s)
  <2>1. PICK s : Rewrites(s)
    BY <1>2
  <2> QED BY <2>1, WriteRev DEF Rewrites
<1>3. CASE \E c \in Clients : Send(c) \/ Handle(c)
  BY <1>3, SendRev, HandleRev
<1>4. CASE Crash \/ Restart
  BY <1>4, CrashRev, RestartRev
<1>5. CASE UNCHANGED vars
  BY <1>5 DEF RevInv, Seen, vars, queueVars, actorVars, historyVars
<1> QED BY <1>1, <1>2, <1>3, <1>4, <1>5, QueueMoves

LEMMA RevHolds == Spec => []RevInv
  BY QueueHolds, RevInit, RevStep, PTL DEF Spec

(* RevisionIdentifies: a client whose expected revision is still current   *)
(* has seen the queue as it is.  No two queues that a client can see share *)
(* a revision, across saves that fail, exits and restarts, which is what   *)
(* the checks of ensure_revision rely on.                                  *)
THEOREM RevisionsIdentify == Spec => []RevisionIdentifies
<1>1. RevInv => RevisionIdentifies
  BY DEF RevInv, Seen, RevisionIdentifies
<1> QED BY <1>1, RevHolds, PTL

(* StaleStartRefused: a paused queue is restarted only by a start command  *)
(* that was sent after the last interrupt whose pause was saved            *)
(* (pause_prompt_queue_for_interrupt, ensure_revision).                    *)
THEOREM StartsAreFresh == Spec => StaleStartRefused
<1> DEFINE Fresh == \E c \in Clients : /\ mail[c] # NoCommand
                                       /\ mail'[c] = NoCommand
                                       /\ mail[c].kind = "start"
                                       /\ mail[c].seen = interrupts
           Restarts == pc # "down" /\ q.paused /\ ~q'.paused
<1>1. QueueInv /\ RevInv /\ [Next]_vars =>
        [Restarts => pc' = "down" \/ Fresh]_vars
  <2> SUFFICES ASSUME QueueInv, RevInv, Next, Restarts, pc' # "down"
               PROVE  Fresh
    OBVIOUS
  <2>1. CASE Quiet
    BY <2>1 DEF Quiet
  <2>2. CASE \E s : Rewrites(s)
    BY <2>2 DEF Rewrites, Writes
  <2>3. CASE \E c \in Clients : Send(c)
    BY <2>3, SendIs
  <2>4. ASSUME NEW c \in Clients, Handle(c) PROVE Fresh
    <3> DEFINE s == Applied(q, mail[c])
    <3>1. /\ mail' = [mail EXCEPT ![c] = NoCommand]
          /\ UNCHANGED <<q, disk, published>> \/ (Writes(s) /\ AppliedTo(q, mail[c], s))
      BY <2>4, HandleIs
    <3> HIDE DEF s
    <3>2. q' = s /\ mail[c].kind = "start" /\ Current(q, mail[c])
      BY <3>1 DEF Writes, AppliedTo
    <3>3. mail[c] # NoCommand /\ mail'[c] = NoCommand
      BY <2>4, <3>1 DEF Handle, QueueInv, Types
    <3>4. mail[c].seen = interrupts
      BY <3>2, <3>3 DEF Current, RevInv
    <3> QED BY <3>2, <3>3, <3>4
  <2>5. CASE Crash
    BY <2>5, CrashIs
  <2>6. CASE Restart
    BY <2>6, RestartIs
  <2> QED BY <2>1, <2>2, <2>3, <2>4, <2>5, <2>6, QueueMoves
<1> QED BY <1>1, QueueHolds, RevHolds, PTL DEF Spec, StaleStartRefused

-----------------------------------------------------------------------------
(***************************************************************************)
(* Acknowledged prompts.                                                   *)
(***************************************************************************)

(* A prompt that runs, has its turn or was accepted in the file was        *)
(* started.                                                                *)
Marked ==
    /\ active.prompt # NoInput => active.prompt \in started
    /\ \A p \in Inputs : turns[p] > 0 => p \in started
    /\ disk.fence.kind = "accepted" => disk.fence.id \in started

(* An acknowledged prompt is in the queue s, unless it was started or a    *)
(* user or an exit took it.                                                *)
Covered(s) == acked \subseteq Ids(s) \cup started \cup gone

AckInv == Covered(disk) /\ (pc # "down" => Covered(q))

LEMMA OperationStarts ==
    ASSUME QueueInv,
           \/ DirectTurn \/ GenerationStep \/ Steer \/ QueueResume \/ Interrupt
           \/ NextGeneration \/ ResumeFails
    PROVE  Starts
<1>1. started' = started /\ gone' = gone
  BY DEF DirectTurn, GenerationStep, RecordPrompt, ApplySteer, EndTurn, Steer, QueueResume,
     Interrupt, NextGeneration, ResumeFails, GenerationFrame, historyVars
<1>2. CASE RecordPrompt
  <2>1. /\ active'.prompt = active.prompt
        /\ \/ turns' = [p \in Inputs |-> IF p = active.prompt THEN turns[p] + 1 ELSE turns[p]]
           \/ turns' = turns
    BY <1>2, RecordIs
  <2> QED BY <1>1, <2>1 DEF Starts
<1>3. CASE ~RecordPrompt
  <2>1. turns' = turns
    BY <1>3 DEF DirectTurn, GenerationStep, ApplySteer, EndTurn, Steer, QueueResume,
       Interrupt, NextGeneration, ResumeFails
  <2>2. active'.prompt \in {NoInput, active.prompt}
    <3>1. CASE DirectTurn
      BY <3>1 DEF DirectTurn, NoOp
    <3>2. CASE ApplySteer \/ EndTurn \/ QueueResume \/ NextGeneration \/ ResumeFails
      BY <3>2 DEF ApplySteer, EndTurn, QueueResume, NextGeneration, ResumeFails, QueueInv,
         Types, Operation
    <3>3. CASE Steer \/ Interrupt
      BY <3>3, SteerIs, InterruptIs
    <3> QED BY <1>3, <3>1, <3>2, <3>3 DEF GenerationStep
  <2> QED BY <1>1, <2>1, <2>2 DEF Starts
<1> QED BY <1>2, <1>3

(* Every step keeps the account of what was started.                       *)
LEMMA StepStarts ==
    ASSUME QueueInv, Next
    PROVE  Starts
<1>1. CASE \/ DirectTurn \/ GenerationStep \/ Steer \/ QueueResume \/ Interrupt
           \/ NextGeneration \/ ResumeFails
  BY <1>1, OperationStarts
<1>2. CASE StartTurn
  <2>1. started' = started \cup {active'.prompt} /\ turns' = turns
    BY <1>2, StartIs
  <2>2. gone' = gone
    BY <1>2 DEF StartTurn
  <2> QED BY <2>1, <2>2 DEF Starts
<1>3. CASE \/ List \/ DrainNothing \/ PrepareDispatch \/ AcceptDispatch \/ RollBackDispatch
           \/ PauseForBoundary \/ RequeueAdd \/ RequeueReorder \/ Poll \/ Restart
           \/ RestartUnread
  <2>1. UNCHANGED <<started, gone, active, turns>>
    BY <1>3 DEF List, DrainNothing, PrepareDispatch, AcceptDispatch, RollBackDispatch,
       PauseForBoundary, RequeueAdd, RequeueReorder, Poll, Restart, RestartUnread,
       historyVars
  <2> QED BY <2>1 DEF Starts
<1>4. CASE \E c \in Clients : Send(c) \/ Handle(c)
  <2>1. UNCHANGED <<started, active, turns>> /\ gone \subseteq gone'
    BY <1>4 DEF Send, Handle, historyVars
  <2> QED BY <2>1 DEF Starts
<1>5. CASE FinishOperation \/ Crash
  <2>1. UNCHANGED <<started, turns>> /\ gone \subseteq gone' /\ active' = NoOp
    BY <1>5 DEF FinishOperation, Crash, historyVars
  <2> QED BY <2>1, NoOpFields DEF Starts
<1> QED BY <1>1, <1>2, <1>3, <1>4, <1>5 DEF Next, ActorStep

LEMMA MarkedInit == Init => Marked
  BY NoOpFields, SoundEmpty DEF Init, Marked, NoFence

LEMMA MarkedStep == QueueInv /\ Marked /\ [Next]_vars => Marked'
<1> SUFFICES ASSUME QueueInv, Marked, [Next]_vars PROVE Marked' OBVIOUS
<1>1. CASE UNCHANGED vars
  BY <1>1 DEF Marked, vars, queueVars, historyVars
<1>2. CASE Next
  <2>1. Starts
    BY <1>2, StepStarts
  <2>2. /\ active'.prompt # NoInput => active'.prompt \in started'
        /\ \A p \in Inputs : turns'[p] > 0 => p \in started'
    BY <2>1, NoInputAssumption DEF Starts, Marked
  <2>3. \/ disk'.fence = disk.fence \/ disk'.fence = NoFence
        \/ disk'.fence.kind = "accepted" => disk'.fence.id = active.prompt
    <3>1. CASE Quiet \/ Crash
      BY <3>1, CrashIs DEF Quiet
    <3>2. CASE \E s : Rewrites(s)
      BY <3>2 DEF Rewrites, Writes
    <3>3. CASE \E c \in Clients : Send(c)
      BY <3>3, SendIs
    <3>4. ASSUME NEW c \in Clients, Handle(c)
          PROVE  disk'.fence = disk.fence \/ disk'.fence = q.fence
      <4> DEFINE s == Applied(q, mail[c])
      <4>1. disk' = disk \/ (Writes(s) /\ AppliedTo(q, mail[c], s))
        BY <3>4, HandleIs
      <4> HIDE DEF s
      <4> QED BY <4>1 DEF Writes, AppliedTo
    <3>5. CASE Restart
      BY <3>5, RestartIs
    <3> QED BY <1>2, <3>1, <3>2, <3>3, <3>4, <3>5, QueueMoves, AcceptedRuns
  <2>4. disk'.fence.kind = "accepted" => disk'.fence.id \in started'
    <3>1. CASE disk'.fence = disk.fence
      BY <2>1, <3>1 DEF Starts, Marked
    <3>2. CASE disk'.fence = NoFence
      BY <3>2 DEF NoFence
    <3>3. CASE disk'.fence.kind = "accepted" /\ disk'.fence.id = active.prompt
      <4>1. disk'.fence \in Fences
        BY QueueStep DEF QueueInv, Queues, Sound, Snapshots, Fences
      <4>2. active.prompt # NoInput
        BY <3>3, <4>1, FenceFields DEF NoFence
      <4> QED BY <2>1, <3>3, <4>2 DEF Starts, Marked
    <3> QED BY <2>3, <3>1, <3>2, <3>3
  <2> QED BY <2>2, <2>4 DEF Marked
<1> QED BY <1>1, <1>2

LEMMA MarkedHolds == Spec => []Marked
  BY QueueHolds, MarkedInit, MarkedStep, PTL DEF Spec

(* What Handle notes: an addition is acknowledged once both the file and   *)
(* the actor have it, and a deletion is asked for once it is tried.        *)
LEMMA HandleNotes ==
    ASSUME QueueInv, NEW c \in Clients, Handle(c)
    PROVE  \/ UNCHANGED <<q, disk, acked, gone>>
           \/ /\ Admits(q, mail[c])
              /\ mail[c].kind = "delete" => mail[c].input \in gone'
              /\ gone' \subseteq gone \cup {p \in {mail[c].input} : mail[c].kind = "delete"}
              /\ \/ acked' = acked
                 \/ /\ mail[c].kind = "add" /\ acked' = acked \cup {mail[c].input}
                    /\ q' = Applied(q, mail[c]) /\ disk' = Applied(q, mail[c])
<1> DEFINE m == mail[c]
           s == Applied(q, m)
<1> HIDE DEF s
<1>1. CASE ~Admits(q, m) /\ UNCHANGED <<queueVars, faults, acked, gone>>
  BY <1>1 DEF queueVars
<1>2. CASE /\ Admits(q, m) /\ Change(s)
           /\ acked' = IF m.kind = "add" THEN acked \cup {m.input} ELSE acked
           /\ gone' = IF m.kind = "delete" THEN gone \cup {m.input} ELSE gone
  BY <1>2 DEF Change, Saved, s
<1>3. CASE /\ Admits(q, m)
           /\ gone' = IF m.kind = "delete" THEN gone \cup {m.input} ELSE gone
           /\ acked' = acked
  BY <1>3
<1> QED BY <1>1, <1>2, <1>3 DEF Handle, s

LEMMA AckInit == Init => AckInv
  BY DEF Init, AckInv, Covered

(* A write of a queue that covers what was acknowledged.                   *)
LEMMA WriteAck ==
    ASSUME AckInv, pc # "down", NEW s, Writes(s), Starts, acked' = acked,
           acked \subseteq Ids(s) \cup started' \cup gone'
    PROVE  AckInv'
  BY DEF AckInv, Covered, Writes, Starts

LEMMA HandleAck ==
    ASSUME QueueInv, AckInv, NEW c \in Clients, Handle(c), Starts
    PROVE  AckInv'
<1> DEFINE m == mail[c]
           s == Applied(q, m)
<1>1. /\ pc = "select"
      /\ UNCHANGED <<q, disk, published>> \/ (Writes(s) /\ AppliedTo(q, m, s))
  BY HandleIs
<1>2. \/ UNCHANGED <<q, disk, acked, gone>>
      \/ /\ m.kind = "delete" => m.input \in gone'
         /\ \/ acked' = acked
            \/ /\ m.kind = "add" /\ acked' = acked \cup {m.input} /\ q' = s /\ disk' = s
  BY HandleNotes
<1>3. CASE UNCHANGED <<q, disk, acked, gone>>
  BY <1>1, <1>3 DEF AckInv, Covered, Starts
<1>4. CASE ~UNCHANGED <<q, disk, acked, gone>>
  <2>1. acked \subseteq Ids(q) \cup started \cup gone
    BY <1>1 DEF AckInv, Covered
  <2>2. CASE UNCHANGED <<q, disk, published>> /\ acked' = acked
    BY <1>1, <2>2 DEF AckInv, Covered, Starts
  <2>3. CASE Writes(s) /\ AppliedTo(q, m, s) /\ acked' = acked
    <3>1. Ids(q) \subseteq Ids(s) \cup gone'
      BY <1>2, <1>4, <2>3 DEF AppliedTo
    <3> QED BY <1>1, <2>1, <2>3, <3>1, WriteAck DEF Starts
  <2>4. CASE /\ m.kind = "add" /\ acked' = acked \cup {m.input} /\ q' = s /\ disk' = s
    <3>1. AppliedTo(q, m, s)
      <4>1. mail[c] # NoCommand
        BY DEF Handle
      <4>2. CASE Admits(q, m)
        BY <1>1, <4>1, <4>2, HandledIs
      <4>3. CASE ~Admits(q, m)
        BY <1>4, <4>3 DEF Handle, queueVars
      <4> QED BY <4>2, <4>3
    <3>2. Ids(s) = Ids(q) \cup {m.input}
      BY <2>4, <3>1 DEF AppliedTo
    <3> QED BY <2>1, <2>4, <3>2 DEF AckInv, Covered, Starts
  <2> QED BY <1>1, <1>2, <1>4, <2>2, <2>3, <2>4
<1> QED BY <1>3, <1>4

LEMMA RestartAck ==
    ASSUME QueueInv, Marked, AckInv, Restart
    PROVE  AckInv'
<1> DEFINE s == Recovered(disk)
<1>1. /\ q' = s /\ disk' \in {disk, s} /\ UNCHANGED <<acked, started>>
      /\ \A p \in Ids(disk) \ Ids(s) : /\ p = disk.fence.id
                                       /\ disk.fence.kind = "accepted" \/ turns[p] > 0
  BY RestartIs
<1>2. gone' = gone
  BY DEF Restart, historyVars
<1> HIDE DEF s
<1>3. Ids(disk) \subseteq Inputs
  BY DEF QueueInv, Flight, Types
<1>4. Ids(disk) \subseteq Ids(s) \cup started
  BY <1>1, <1>3 DEF Marked
<1> QED BY <1>1, <1>2, <1>4 DEF AckInv, Covered

LEMMA AckStep ==
    ASSUME ~Unreadable
    PROVE  QueueInv /\ Marked /\ AckInv /\ [Next]_vars => AckInv'
<1> SUFFICES ASSUME QueueInv, Marked, AckInv, [Next]_vars PROVE AckInv' OBVIOUS
<1>1. CASE UNCHANGED vars
  BY <1>1 DEF AckInv, Covered, vars, queueVars, actorVars, historyVars
<1>2. CASE Next
  <2>1. Starts
    BY <1>2, StepStarts
  <2>2. CASE Quiet
    BY <2>1, <2>2 DEF Quiet, AckInv, Covered, Starts
  <2>3. ASSUME NEW s, Rewrites(s) PROVE AckInv'
    <3>1. Ids(q) \subseteq Ids(s) \cup started
      BY <2>3 DEF Rewrites, Marked
    <3>2. acked \subseteq Ids(s) \cup started' \cup gone'
      BY <2>1, <2>3, <3>1 DEF Rewrites, AckInv, Covered, Starts
    <3> QED BY <2>1, <2>3, <3>2, WriteAck DEF Rewrites
  <2>4. CASE \E c \in Clients : Send(c)
    BY <2>1, <2>4 DEF Send, queueVars, historyVars, AckInv, Covered, Starts
  <2>5. CASE \E c \in Clients : Handle(c)
    BY <2>1, <2>5, HandleAck
  <2>6. CASE Crash
    BY <2>1, <2>6, CrashIs DEF AckInv, Covered, Starts
  <2>7. CASE Restart
    BY <2>7, RestartAck
  <2> QED BY <1>2, <2>2, <2>3, <2>4, <2>5, <2>6, <2>7, QueueMoves
<1> QED BY <1>1, <1>2

(* AckedDurable: a prompt whose addition was acknowledged is in the        *)
(* session file until a turn was started for it or its user removed it,    *)
(* across saves that fail, exits and recovery (persist_prompt_queue,       *)
(* recover_dispatch).  The hypothesis is needed: ThreadActor::new begins   *)
(* with an empty queue when it cannot read the one in the file, and the    *)
(* next save replaces what was there.                                      *)
THEOREM AcknowledgedIsDurable ==
    ASSUME ~Unreadable
    PROVE  Spec => []AckedDurable
<1>1. AckInv => AckedDurable
  BY DEF AckInv, Covered, AckedDurable
<1> QED BY <1>1, QueueHolds, MarkedHolds, AckInit, AckStep, PTL DEF Spec

-----------------------------------------------------------------------------
(***************************************************************************)
(* The rest of the type invariant.                                         *)
(***************************************************************************)
Books ==
    /\ held \in {"none", "waiting"} /\ ready \in BOOLEAN
    /\ shown \subseteq Inputs /\ acked \subseteq Inputs /\ steered \subseteq Inputs
    /\ started \subseteq Inputs /\ gone \subseteq Inputs
    /\ commands \in Nat /\ faults \in Nat /\ crashes \in Nat

LEMMA InputsOf ==
    ASSUME NEW t \in Seq(Inputs)
    PROVE  /\ ToSet(t) \subseteq Inputs
           /\ \A i \in DOMAIN t : \A j \in 1 .. i : t[j] \in Inputs
<1>1. DOMAIN t = 1 .. Len(t) /\ Len(t) \in Nat /\ \A i \in 1 .. Len(t) : t[i] \in Inputs
  BY LenProperties, ElementOfSeq
<1> QED BY <1>1 DEF ToSet

LEMMA BooksInit == Init => Books
<1> SUFFICES ASSUME Init PROVE Books OBVIOUS
<1>1. held = "none" /\ ready \in BOOLEAN
  BY DEF Init
<1>2. shown = {} /\ acked = {} /\ steered = {} /\ started = {} /\ gone = {}
  BY DEF Init
<1>3. commands \in Nat /\ faults \in Nat /\ crashes \in Nat
  BY DEF Init
<1> QED BY <1>1, <1>2, <1>3 DEF Books

LEMMA FaultsCounted ==
    ASSUME Next
    PROVE  faults' \in {faults, faults + 1}
  BY DEF Next, ActorStep, GenerationStep, List, Send, Handle, DrainNothing, PrepareDispatch,
     StartTurn, AcceptDispatch, RollBackDispatch, PauseForBoundary, NextGeneration,
     ResumeFails, FinishOperation, RequeueAdd, RequeueReorder, RecordPrompt, ApplySteer,
     EndTurn, DirectTurn, Interrupt, Steer, QueueResume, Poll, Crash, Restart,
     RestartUnread, Change, ChangeFails, Settle, Saved, SaveFails, boundVars

LEMMA CountersKept ==
    ASSUME Books, Next
    PROVE  /\ commands' \in Nat /\ crashes' \in Nat /\ faults' \in Nat
<1>1. commands' \in {commands, commands + 1} /\ crashes' \in {crashes, crashes + 1}
  BY DEF Next, ActorStep, GenerationStep, List, Send, Handle, DrainNothing, PrepareDispatch,
     StartTurn, AcceptDispatch, RollBackDispatch, PauseForBoundary, NextGeneration,
     ResumeFails, FinishOperation, RequeueAdd, RequeueReorder, RecordPrompt, ApplySteer,
     EndTurn, DirectTurn, Interrupt, Steer, QueueResume, Poll, Crash, Restart,
     RestartUnread, GenerationFrame, Commanded, boundVars
<1> QED BY <1>1, FaultsCounted DEF Books

LEMMA HeldKept ==
    ASSUME Books, Next
    PROVE  held' \in {"none", "waiting"} /\ ready' \in BOOLEAN
  BY DEF Books, Next, ActorStep, GenerationStep, List, Send, Handle, DrainNothing,
     PrepareDispatch, StartTurn, AcceptDispatch, RollBackDispatch, PauseForBoundary,
     NextGeneration, ResumeFails, FinishOperation, RequeueAdd, RequeueReorder, RecordPrompt,
     ApplySteer, EndTurn, DirectTurn, Interrupt, Steer, QueueResume, Poll, Crash, Restart,
     RestartUnread, GenerationFrame, actorVars

LEMMA NotesKept ==
    ASSUME QueueInv, Books, Next
    PROVE  acked' \subseteq Inputs /\ steered' \subseteq Inputs /\ started' \subseteq Inputs
<1>1. CASE \E c \in Clients : Handle(c)
  <2>1. PICK c \in Clients : Handle(c)
    BY <1>1
  <2>2. UNCHANGED <<steered, started>> /\ mail[c] # NoCommand
    BY <2>1 DEF Handle
  <2>3. acked' = acked \/ (mail[c].kind = "add" /\ acked' = acked \cup {mail[c].input})
    BY <2>1, HandleNotes
  <2>4. mail[c].kind = "add" => mail[c].input \in Inputs
    BY DEF QueueInv, Flight, MailApart, Adds
  <2> QED BY <2>2, <2>3, <2>4 DEF Books
<1>2. CASE StartTurn
  <2>1. started' = started \cup {active'.prompt} /\ active'.prompt \in Inputs
    BY <1>2, StartIs
  <2> QED BY <1>2, <2>1 DEF StartTurn, Books
<1>3. CASE Steer
  BY <1>3 DEF Steer, Books
<1>4. CASE ~StartTurn /\ ~Steer /\ ~(\E c \in Clients : Handle(c))
  BY <1>4 DEF Books, Next, ActorStep, GenerationStep, List, Send, DrainNothing,
     PrepareDispatch, AcceptDispatch, RollBackDispatch, PauseForBoundary,
     NextGeneration, ResumeFails, FinishOperation, RequeueAdd, RequeueReorder, RecordPrompt,
     ApplySteer, EndTurn, DirectTurn, Interrupt, QueueResume, Poll, Crash, Restart,
     RestartUnread, GenerationFrame, historyVars
<1> QED BY <1>1, <1>2, <1>3, <1>4

LEMMA ShownKept ==
    ASSUME QueueInv, Books, Next
    PROVE  shown' \subseteq Inputs /\ gone' \subseteq Inputs
<1>1. active.steer \in Seq(Inputs) /\ todo \in Seq(Inputs)
  BY DEF QueueInv, Types, Operation
<1>2. /\ ToSet(active.steer) \subseteq Inputs /\ ToSet(todo) \subseteq Inputs
      /\ \A i \in DOMAIN active.steer : \A j \in 1 .. i : active.steer[j] \in Inputs
  BY <1>1, InputsOf
<1>3. CASE ApplySteer
  <2>1. \/ shown' = shown \cup ToSet(active.steer)
        \/ \E i \in DOMAIN active.steer : shown' = shown \cup {active.steer[j] : j \in 1 .. i}
    BY <1>3 DEF ApplySteer
  <2>2. shown' \subseteq Inputs
    BY <1>2, <2>1 DEF Books
  <2> QED BY <1>3, <2>2 DEF ApplySteer, Books
<1>4. CASE NextGeneration
  BY <1>2, <1>4 DEF NextGeneration, historyVars, Books
<1>5. CASE Crash
  BY <1>2, <1>5 DEF Crash, Books
<1>6. CASE \E c \in Clients : Handle(c)
  <2>1. PICK c \in Clients : Handle(c)
    BY <1>6
  <2>2. shown' = shown
    BY <2>1 DEF Handle
  <2>3. \/ gone' = gone
        \/ /\ Admits(q, mail[c])
           /\ gone' \subseteq gone \cup {p \in {mail[c].input} : mail[c].kind = "delete"}
    BY <2>1, HandleNotes
  <2>4. Admits(q, mail[c]) /\ mail[c].kind = "delete" => mail[c].input \in Ids(q)
    BY DEF Admits, PendingMutable
  <2>5. Ids(q) \subseteq Inputs
    BY DEF QueueInv, Flight, Types
  <2> QED BY <2>2, <2>3, <2>4, <2>5 DEF Books
<1>7. CASE ~ApplySteer /\ ~NextGeneration /\ ~Crash /\ ~(\E c \in Clients : Handle(c))
  BY <1>7 DEF Books, Next, ActorStep, GenerationStep, List, Send, DrainNothing,
     PrepareDispatch, StartTurn, AcceptDispatch, RollBackDispatch, PauseForBoundary,
     ResumeFails, FinishOperation, RequeueAdd, RequeueReorder, RecordPrompt,
     EndTurn, DirectTurn, Interrupt, Steer, QueueResume, Poll, Restart,
     RestartUnread, historyVars
<1> QED BY <1>3, <1>4, <1>5, <1>6, <1>7

LEMMA BooksStep == QueueInv /\ Books /\ [Next]_vars => Books'
<1> SUFFICES ASSUME QueueInv, Books, [Next]_vars PROVE Books' OBVIOUS
<1>1. CASE UNCHANGED vars
  BY <1>1 DEF Books, vars, actorVars, historyVars, boundVars
<1>2. CASE Next
  BY <1>2, CountersKept, HeldKept, NotesKept, ShownKept DEF Books
<1> QED BY <1>1, <1>2

LEMMA BooksHold == Spec => []Books
  BY QueueHolds, BooksInit, BooksStep, PTL DEF Spec

(* TypeOK: the shape of the state of the queue, of the actor that owns it  *)
(* and of what clients have sent.                                          *)
THEOREM PromptQueueTypes == Spec => []TypeOK
<1>1. QueueInv /\ Books => TypeOK
  BY DEF QueueInv, Types, Queues, Sound, Books, TypeOK, Operation, Points
<1> QED BY <1>1, QueueHolds, BooksHold, PTL

-----------------------------------------------------------------------------
(***************************************************************************)
(* Steer inputs.  While no write has failed the file and the actor have    *)
(* the same queue, so that an input is accounted for in the file.          *)
(***************************************************************************)
Home == UNION {shown, ToSet(active.steer), ToSet(todo), started, gone, Ids(disk)}

SteerNow ==
    /\ pc # "down" => q = disk
    /\ steered \subseteq Home
    /\ pc = "reorder" => Last(todo) \in Ids(q)
    /\ active.outcome # "backgrounded"
SteerInv == faults = 0 => SteerNow

(* The queue has room for every input that may be typed, and no turn is    *)
(* handed to the background with inputs pending.                           *)
Roomy == /\ IsFiniteSet(Inputs) /\ Cardinality(Inputs) <= Capacity
         /\ ~Backgroundable

LEMMA InputSets ==
    ASSUME NEW t \in Seq(Inputs)
    PROVE  /\ \A p \in Inputs : ToSet(Append(t, p)) = ToSet(t) \cup {p}
           /\ t # <<>> => ToSet(t) \subseteq ToSet(Front(t)) \cup {Last(t)}
<1>1. DOMAIN t = 1 .. Len(t) /\ Len(t) \in Nat
  BY LenProperties
<1>2. ASSUME NEW p \in Inputs PROVE ToSet(Append(t, p)) = ToSet(t) \cup {p}
  <2>1. /\ DOMAIN Append(t, p) = 1 .. Len(t) + 1
        /\ \A i \in 1 .. Len(t) : Append(t, p)[i] = t[i]
        /\ Append(t, p)[Len(t) + 1] = p
    BY <1>1, AppendProperties, LenProperties
  <2> QED BY <1>1, <2>1 DEF ToSet
<1>3. ASSUME t # <<>> PROVE ToSet(t) \subseteq ToSet(Front(t)) \cup {Last(t)}
  <2>1. /\ Len(t) \in Nat \ {0} /\ Last(t) = t[Len(t)]
        /\ DOMAIN Front(t) = 1 .. Len(t) - 1
        /\ \A i \in 1 .. Len(t) - 1 : Front(t)[i] = t[i]
    BY <1>3, FrontInputs
  <2> QED BY <1>1, <2>1 DEF ToSet
<1> QED BY <1>2, <1>3

(* A queue without the input p is not full.                                *)
LEMMA RoomFor ==
    ASSUME Roomy, NEW s, Sound(s), NEW p \in Inputs, p \notin Ids(s)
    PROVE  Len(s.items) < Capacity
<1> DEFINE n == Len(s.items)
           f == [i \in 1 .. n |-> s.items[i].id]
           T == Inputs \ {p}
<1>1. /\ s.items \in Seq(Items) /\ n \in Nat /\ DOMAIN s.items = 1 .. n
      /\ \A i \in 1 .. n : s.items[i] \in Items
  BY SoundItems, LenProperties, ElementOfSeq
<1>2. \A i \in 1 .. n : s.items[i].id \in T
  BY <1>1 DEF Items, Ids
<1>3. f \in Injection(1 .. n, T)
  BY <1>1, <1>2 DEF Injection, IsInjective, Sound, Unique
<1>4. IsFiniteSet(T) /\ Cardinality(T) = Cardinality(Inputs) - 1
  BY FS_RemoveElement DEF Roomy
<1>5. Cardinality(1 .. n) = n
  BY <1>1, FS_Interval
<1> HIDE DEF f, T
<1>6. Cardinality(1 .. n) <= Cardinality(T)
  BY <1>3, <1>4, FS_Injection
<1>7. Cardinality(Inputs) \in Nat
  BY FS_CardinalityType DEF Roomy
<1> QED BY <1>1, <1>4, <1>5, <1>6, <1>7, CapacityAssumption DEF Roomy

(* An input stays accounted for when each place gives what it loses to     *)
(* another.                                                                *)
LEMMA HomeKept ==
    ASSUME SteerNow, Starts, shown \subseteq shown',
           Ids(disk) \subseteq Ids(disk') \cup started' \cup gone',
           ToSet(active.steer) \subseteq ToSet(active'.steer) \cup shown' \cup ToSet(todo') \cup gone',
           ToSet(todo) \subseteq ToSet(todo') \cup Ids(disk') \cup gone',
           steered' \subseteq steered \cup ToSet(active'.steer)
    PROVE  (steered \subseteq Home)'
  BY DEF SteerNow, Starts, Home

(* Steps that leave the queue alone, and what is pending.                  *)
LEMMA SteerQuiet ==
    ASSUME QueueInv, SteerNow, Starts, Roomy,
           \/ List \/ DrainNothing \/ StartTurn \/ Poll \/ RecordPrompt \/ EndTurn
           \/ QueueResume \/ DirectTurn \/ \E c \in Clients : Send(c)
    PROVE  SteerNow'
<1>1. /\ UNCHANGED <<q, disk, shown, todo, steered>> /\ pc # "down"
      /\ pc' = "reorder" => pc = "reorder"
  <2>1. CASE RecordPrompt \/ EndTurn
    BY <2>1, DownIsIdle DEF RecordPrompt, EndTurn, GenerationFrame, queueVars, actorVars
  <2>2. CASE List \/ DrainNothing \/ StartTurn \/ Poll \/ \E c \in Clients : Send(c)
    BY <2>2 DEF List, DrainNothing, StartTurn, Poll, Send, queueVars, historyVars
  <2>3. CASE QueueResume \/ DirectTurn
    BY <2>3 DEF QueueResume, DirectTurn, Loop, queueVars, historyVars
  <2> QED BY <2>1, <2>2, <2>3
<1>2. ToSet(active'.steer) = ToSet(active.steer) /\ active'.outcome # "backgrounded"
  <2>1. CASE List \/ DrainNothing \/ Poll \/ \E c \in Clients : Send(c)
    BY <2>1 DEF List, DrainNothing, Poll, Send, SteerNow
  <2>2. CASE RecordPrompt \/ QueueResume
    BY <2>2 DEF RecordPrompt, QueueResume, SteerNow, QueueInv, Types, Operation
  <2>3. CASE EndTurn
    BY <2>3 DEF EndTurn, MayEnd, Roomy, QueueInv, Types, Operation
  <2>4. CASE StartTurn \/ DirectTurn
    <3>1. active = NoOp
      BY <2>4 DEF StartTurn, DirectTurn, Busy, QueueInv, Actor, Idle
    <3>2. active'.steer = <<>> /\ active'.outcome = "none" /\ active.steer = <<>>
      BY <2>4, <3>1 DEF StartTurn, DirectTurn, NoOp
    <3> QED BY <3>2
  <2> QED BY <2>1, <2>2, <2>3, <2>4
<1>3. (steered \subseteq Home)'
  BY <1>1, <1>2, HomeKept
<1> QED BY <1>1, <1>2, <1>3 DEF SteerNow

(* Steps that take pending inputs in or into the conversation.             *)
LEMMA SteerApplied ==
    ASSUME QueueInv, SteerNow, Starts, ApplySteer \/ Steer \/ NextGeneration,
           faults' = faults, faults \in Nat
    PROVE  SteerNow'
<1>1. /\ UNCHANGED <<q, disk, todo>> /\ pc # "down" /\ shown \subseteq shown'
      /\ pc' = "reorder" => pc = "reorder"
  <2>1. CASE ApplySteer
    BY <2>1, DownIsIdle DEF ApplySteer, GenerationFrame, queueVars, actorVars
  <2>2. CASE Steer
    BY <2>2 DEF Steer, Loop, queueVars
  <2>3. CASE NextGeneration
    BY <2>3 DEF NextGeneration, queueVars, actorVars
  <2> QED BY <2>1, <2>2, <2>3
<1>2. /\ ToSet(active.steer) \subseteq ToSet(active'.steer) \cup shown'
      /\ steered' \subseteq steered \cup ToSet(active'.steer)
      /\ active'.outcome # "backgrounded"
  <2>1. CASE ApplySteer
    <3>1. shown' = shown \cup ToSet(active.steer) /\ active'.outcome = active.outcome
      BY <2>1 DEF ApplySteer, QueueInv, Types, Operation
    <3>2. steered' = steered
      BY <2>1 DEF ApplySteer, GenerationFrame
    <3> QED BY <3>1, <3>2 DEF SteerNow
  <2>2. CASE Steer
    <3>1. PICK p \in Inputs : /\ active' = [active EXCEPT !.steer = Append(@, p)]
                              /\ steered' = steered \cup {p}
      BY <2>2 DEF Steer
    <3>2. /\ active.steer \in Seq(Inputs) /\ active'.steer = Append(active.steer, p)
          /\ active'.outcome = active.outcome
      BY <3>1 DEF QueueInv, Types, Operation
    <3>3. ToSet(active'.steer) = ToSet(active.steer) \cup {p}
      BY <3>2, InputSets
    <3> QED BY <3>1, <3>2, <3>3 DEF SteerNow
  <2>3. CASE NextGeneration
    BY <2>3 DEF NextGeneration, historyVars, QueueInv, Types, Operation
  <2> QED BY <2>1, <2>2, <2>3
<1>3. (steered \subseteq Home)'
  BY <1>1, <1>2, HomeKept
<1> QED BY <1>1, <1>2, <1>3 DEF SteerNow

(* What the actor's own writes keep in the file.                           *)
LEMMA FileKept ==
    ASSUME Marked, SteerNow, Starts, Quiet \/ \E s : Rewrites(s)
    PROVE  Ids(disk) \subseteq Ids(disk') \cup started'
<1>1. CASE Quiet
  BY <1>1 DEF Quiet
<1>2. ASSUME NEW s, Rewrites(s) PROVE Ids(disk) \subseteq Ids(disk') \cup started'
  <2>1. q = disk /\ disk' \in {disk, s} /\ Ids(q) \ Ids(s) \subseteq {active.prompt} \ {NoInput}
    BY <1>2 DEF Rewrites, Writes, SteerNow
  <2>2. {active.prompt} \ {NoInput} \subseteq started'
    BY DEF Marked, Starts
  <2> QED BY <2>1, <2>2
<1> QED BY <1>1, <1>2

(* Without a failed write, the actor and the file change together.         *)
LEMMA NoFault ==
    ASSUME faults \in Nat, faults' = faults, NEW s,
           Change(s) \/ ChangeFails(s) \/ Settle(s)
    PROVE  q' = s /\ disk' = s
  BY DEF Change, ChangeFails, Settle, Saved, SaveFails

LEMMA SteerWrites ==
    ASSUME QueueInv, Marked, SteerNow, Starts, faults' = faults, faults \in Nat,
           PrepareDispatch \/ AcceptDispatch \/ PauseForBoundary \/ Interrupt
    PROVE  SteerNow'
<1>1. /\ UNCHANGED <<shown, steered, todo>> /\ pc' # "reorder"
      /\ \E s : Change(s) \/ ChangeFails(s) \/ Settle(s)
  <2>1. CASE PrepareDispatch \/ AcceptDispatch \/ PauseForBoundary
    BY <2>1 DEF PrepareDispatch, AcceptDispatch, PauseForBoundary, historyVars
  <2>2. CASE Interrupt
    BY <2>2 DEF Interrupt, Loop
  <2> QED BY <2>1, <2>2
<1>2. q' = disk'
  BY <1>1, NoFault
<1>3. active'.steer = active.steer /\ active'.outcome = active.outcome
  BY DEF PrepareDispatch, AcceptDispatch, PauseForBoundary, Interrupt, QueueInv, Types,
     Operation
<1>4. \E s : Rewrites(s)
  BY DispatchRewrites, PausingRewrites
<1>5. (steered \subseteq Home)'
  BY <1>1, <1>3, <1>4, FileKept, HomeKept
<1> QED BY <1>1, <1>2, <1>3, <1>5 DEF SteerNow

LEMMA SteerFinish ==
    ASSUME QueueInv, Marked, SteerNow, Starts, faults' = faults, faults \in Nat,
           FinishOperation
    PROVE  SteerNow'
<1>1. /\ pc \in {"select", "finishing"} /\ pc' \in {"top", "requeue"} /\ active' = NoOp
      /\ UNCHANGED <<shown, steered>>
      /\ UNCHANGED <<q, disk>> \/ Settle(Consumed(q))
  BY DEF FinishOperation, queueVars
<1>2. q' = disk'
  BY <1>1, NoFault DEF SteerNow
<1>3. todo' = active.steer
  BY DEF FinishOperation, LeftOver, SteerNow
<1>4. todo = <<>>
  BY <1>1 DEF QueueInv, Actor
<1>5. ToSet(todo) = {}
  BY <1>4, EmptyInputs DEF ToSet
<1>6. (steered \subseteq Home)'
  BY <1>1, <1>3, <1>5, FinishRewrites, FileKept, HomeKept
<1>7. NoOp.outcome = "none"
  BY DEF NoOp
<1> QED BY <1>1, <1>2, <1>6, <1>7 DEF SteerNow

LEMMA SteerRequeue ==
    ASSUME QueueInv, Marked, SteerNow, Starts, Roomy, faults' = faults, faults \in Nat,
           RequeueAdd \/ RequeueReorder
    PROVE  SteerNow'
<1> DEFINE p == Last(todo)
<1>1. /\ UNCHANGED <<shown, steered, active>> /\ pc \in {"requeue", "reorder"}
  BY DEF RequeueAdd, RequeueReorder, historyVars
<1>2. todo \in Seq(Inputs) /\ todo # <<>> /\ p \in Inputs
  BY <1>1, FrontInputs DEF QueueInv, Types, Actor
<1>3. ToSet(todo) \subseteq ToSet(Front(todo)) \cup {p}
  BY <1>2, InputSets
<1>4. Ids(disk) \subseteq Ids(disk') \cup started'
  BY RequeueRewrites, FileKept
<1>5. CASE RequeueAdd
  <2> DEFINE s == Appended(q, p)
  <2>1. Outside(p) /\ Ids(s) = Ids(q) \cup {p}
    BY <1>5, RequeueAddIs
  <2> HIDE DEF p
  <2>2. Len(q.items) < Capacity
    BY <1>2, <2>1, RoomFor DEF Outside, QueueInv, Queues
  <2>3. Len(q.items) \in Nat
    BY SoundItems, LenProperties DEF QueueInv, Queues
  <2>4. ~(Len(q.items) >= Capacity)
    BY <2>2, <2>3, CapacityAssumption
  <2>5. ~ChangeFails(s)
    BY DEF ChangeFails, SaveFails
  <2>6. Change(s) /\ pc' = "reorder" /\ todo' = todo
    BY <1>5, <2>4, <2>5 DEF RequeueAdd, p
  <2>7. q' = s /\ disk' = s
    BY <2>6, NoFault
  <2>8. (steered \subseteq Home)'
    BY <1>1, <1>4, <2>6, HomeKept
  <2> QED BY <1>1, <2>1, <2>6, <2>7, <2>8 DEF SteerNow, p
<1>6. CASE RequeueReorder
  <2> DEFINE s == ToFront(q)
  <2>1. Ids(s) = Ids(q) /\ pc = "reorder" /\ todo' = Front(todo) /\ pc' \in {"top", "requeue"}
    BY <1>6, RequeueReorderIs
  <2>2. q' = s /\ disk' = s
    BY <1>6, NoFault DEF RequeueReorder, Moved
  <2> HIDE DEF p, s
  <2>3. p \in Ids(disk')
    BY <2>1, <2>2 DEF SteerNow, p
  <2>4. (steered \subseteq Home)'
    BY <1>1, <1>3, <1>4, <2>1, <2>3, HomeKept
  <2> QED BY <1>1, <2>1, <2>2, <2>4 DEF SteerNow
<1> QED BY <1>5, <1>6

LEMMA SteerHandle ==
    ASSUME QueueInv, SteerNow, Starts, faults' = faults, faults \in Nat,
           NEW c \in Clients, Handle(c)
    PROVE  SteerNow'
<1> DEFINE m == mail[c]
           s == Applied(q, m)
<1>1. /\ pc = "select" /\ pc' \in {"top", "select"}
      /\ UNCHANGED <<shown, steered, active, todo>>
  BY DEF Handle, Loop
<1>2. \/ UNCHANGED <<q, disk>>
      \/ Admits(q, m) /\ (Change(s) \/ ChangeFails(s))
  BY DEF Handle, queueVars
<1>3. \/ UNCHANGED <<q, disk>>
      \/ /\ Admits(q, m) /\ q' = s /\ disk' = s
         /\ AppliedTo(q, m, s)
         /\ m.kind = "delete" => m.input \in gone'
  <2>1. CASE Admits(q, m) /\ (Change(s) \/ ChangeFails(s))
    <3>1. q' = s /\ disk' = s
      BY <2>1, NoFault
    <3>2. AppliedTo(q, m, s)
      BY <1>1, <2>1, HandledIs DEF Handle
    <3>3. \/ UNCHANGED <<q, disk>>
          \/ m.kind = "delete" => m.input \in gone'
      BY HandleNotes
    <3> QED BY <2>1, <3>1, <3>2, <3>3
  <2> QED BY <1>2, <2>1
<1> HIDE DEF s
<1>4. q' = disk' /\ Ids(disk) \subseteq Ids(disk') \cup gone'
  BY <1>1, <1>3 DEF SteerNow, AppliedTo
<1>5. (steered \subseteq Home)'
  BY <1>1, <1>4, HomeKept
<1> QED BY <1>1, <1>4, <1>5 DEF SteerNow

LEMMA SteerExit ==
    ASSUME QueueInv, Marked, SteerNow, Starts, faults' = faults, faults \in Nat,
           Crash \/ Restart
    PROVE  SteerNow'
<1>1. CASE Crash
  <2>1. /\ UNCHANGED <<disk, shown, steered>> /\ pc' = "down" /\ active' = NoOp
        /\ gone' = gone \cup ToSet(active.steer) \cup ToSet(todo)
    BY <1>1 DEF Crash
  <2>2. (steered \subseteq Home)'
    BY <2>1, HomeKept
  <2>3. NoOp.outcome = "none"
    BY DEF NoOp
  <2> QED BY <2>1, <2>2, <2>3 DEF SteerNow
<1>2. CASE Restart
  <2> DEFINE s == Recovered(disk)
  <2>1. /\ \A p \in Ids(disk) \ Ids(s) : /\ p = disk.fence.id
                                         /\ disk.fence.kind = "accepted" \/ turns[p] > 0
        /\ started' = started
    BY <1>2, RestartIs
  <2>2. /\ UNCHANGED <<shown, steered, active, todo>> /\ pc' = "top" /\ q' = s /\ disk' = s
    BY <1>2 DEF Restart, historyVars
  <2> HIDE DEF s
  <2>3. Ids(disk) \subseteq Inputs
    BY DEF QueueInv, Flight, Types
  <2>4. Ids(disk) \subseteq Ids(disk') \cup started'
    BY <2>1, <2>2, <2>3 DEF Marked
  <2>5. (steered \subseteq Home)'
    BY <2>2, <2>4, HomeKept
  <2> QED BY <2>2, <2>5 DEF SteerNow
<1> QED BY <1>1, <1>2

LEMMA SteerInit == Init => SteerInv
  BY DEF Init, SteerInv, SteerNow, NoOp

LEMMA SteerStep ==
    ASSUME Roomy
    PROVE  QueueInv /\ Marked /\ Books /\ SteerInv /\ [Next]_vars => SteerInv'
<1> SUFFICES ASSUME QueueInv, Marked, Books, SteerInv, [Next]_vars, faults' = 0
             PROVE  SteerNow'
  BY DEF SteerInv
<1>1. CASE UNCHANGED vars
  BY <1>1 DEF SteerInv, SteerNow, Home, vars, queueVars, actorVars, historyVars, boundVars
<1>2. CASE Next
  <2>1. Starts
    BY <1>2, StepStarts
  <2>2. faults \in Nat /\ faults' = faults /\ SteerNow
    BY <1>2, FaultsCounted DEF Books, SteerInv
  <2>3. ~RollBackDispatch /\ ~ResumeFails /\ ~RestartUnread
    BY <2>2 DEF RollBackDispatch, ResumeFails, RestartUnread
  <2>4. CASE ActorStep
    BY <2>1, <2>2, <2>3, <2>4, SteerQuiet, SteerWrites, SteerApplied, SteerFinish,
       SteerRequeue DEF ActorStep
  <2>5. CASE GenerationStep
    BY <2>1, <2>2, <2>5, SteerQuiet, SteerApplied DEF GenerationStep
  <2>6. CASE List \/ DirectTurn \/ Interrupt \/ Steer \/ QueueResume \/ Poll
    BY <2>1, <2>2, <2>6, SteerQuiet, SteerWrites, SteerApplied
  <2>7. CASE \E c \in Clients : Send(c) \/ Handle(c)
    BY <2>1, <2>2, <2>7, SteerQuiet, SteerHandle
  <2>8. CASE Crash \/ Restart
    BY <2>1, <2>2, <2>8, SteerExit
  <2> QED BY <1>2, <2>3, <2>4, <2>5, <2>6, <2>7, <2>8 DEF Next
<1> QED BY <1>1, <1>2

(* SteerKept: as long as no write fails, a steer input that the thread     *)
(* accepted is pending, in the conversation, in the queue or on its way    *)
(* back to it, until it runs as a prompt of its own or an exit takes it    *)
(* (requeue_unapplied_steer_inputs).  Roomy is needed: the requeue passes  *)
(* over an input that a full queue refuses, and a turn that is handed to   *)
(* the background gives nothing back.                                      *)
THEOREM SteersAreKept ==
    ASSUME Roomy
    PROVE  Spec => []SteerKept
<1>1. QueueInv /\ SteerInv => SteerKept
  BY DEF SteerInv, SteerNow, Home, SteerKept
<1> QED BY <1>1, QueueHolds, MarkedHolds, BooksHold, SteerInit, SteerStep, PTL DEF Spec
-----------------------------------------------------------------------------
(***************************************************************************)
(* The order of requeued inputs.  The inputs are given back from the last  *)
(* to the first, so that those after the ones still to do are in front; or *)
(* one was refused, and the queue stays full.                              *)
(***************************************************************************)
(* The items t begin with the inputs m after the first n.                  *)
InFront(t, m, n) == /\ Len(m) - n <= Len(t)
                    /\ \A i \in 1 .. Len(m) - n : t[i].id = m[n + i]

OrderNow ==
    pc \in {"requeue", "reorder"} =>
      /\ Len(todo) <= Len(left)
      /\ \A i \in 1 .. Len(todo) : left[i] = todo[i]
      /\ IF pc = "reorder"
         THEN /\ InFront(q.items, left, Len(todo))
              /\ Len(left) - Len(todo) < Len(q.items)
              /\ Last(q.items).id = Last(todo)
         ELSE \/ InFront(q.items, left, Len(todo))
              \/ /\ Len(q.items) >= Capacity
                 /\ \E i \in 1 .. Len(left) : left[i] \notin Ids(q)
OrderInv == faults = 0 => OrderNow

(* An item added behind them, and then moved to the front.                 *)
LEMMA FrontAppended ==
    ASSUME NEW t \in Seq(Items), NEW x \in Items, NEW m \in Seq(Inputs), NEW n \in Nat,
           n <= Len(m), InFront(t, m, n)
    PROVE  LET u == Append(t, x) IN
           /\ InFront(u, m, n) /\ Len(m) - n < Len(u) /\ Last(u) = x
<1> DEFINE u == Append(t, x)
<1>1. /\ u \in Seq(Items) /\ Len(u) = Len(t) + 1 /\ u[Len(t) + 1] = x
      /\ \A i \in 1 .. Len(t) : u[i] = t[i]
      /\ Len(t) \in Nat /\ Len(m) \in Nat
  BY AppendProperties, LenProperties
<1> HIDE DEF u
<1>2. Len(m) - n <= Len(t) /\ \A i \in 1 .. Len(m) - n : t[i].id = m[n + i]
  BY DEF InFront
<1>3. \A i \in 1 .. Len(m) - n : u[i].id = m[n + i]
  <2>1. \A i \in 1 .. Len(m) - n : i \in 1 .. Len(t)
    BY <1>1, <1>2
  <2> QED BY <1>1, <1>2, <2>1
<1>4. Len(m) - n < Len(u) /\ Len(m) - n <= Len(u)
  BY <1>1, <1>2
<1>5. Last(u) = x
  BY <1>1 DEF Last
<1> QED BY <1>3, <1>4, <1>5 DEF InFront, u

LEMMA FrontMoved ==
    ASSUME NEW t \in Seq(Items), t # <<>>, NEW m \in Seq(Inputs), NEW n \in Nat \ {0},
           n <= Len(m), InFront(t, m, n), Len(m) - n < Len(t), Last(t).id = m[n]
    PROVE  InFront(<<Last(t)>> \o Front(t), m, n - 1)
<1> DEFINE u == <<Last(t)>> \o Front(t)
<1>1. /\ Len(u) = Len(t) /\ Len(t) \in Nat \ {0} /\ Len(m) \in Nat
      /\ \A i \in 1 .. Len(t) : u[i] = IF i = 1 THEN t[Len(t)] ELSE t[i - 1]
  BY RotatePlaces, HeadItem, LenProperties
<1>2. t[Len(t)].id = m[n] /\ \A i \in 1 .. Len(m) - n : t[i].id = m[n + i]
  BY DEF InFront, Last
<1> HIDE DEF u
<1>3. Len(m) - (n - 1) <= Len(u)
  BY <1>1
<1>4. ASSUME NEW i \in 1 .. Len(m) - (n - 1) PROVE u[i].id = m[n - 1 + i]
  <2>1. i \in 1 .. Len(t)
    BY <1>1
  <2>2. CASE i = 1
    <3>1. u[i] = t[Len(t)] /\ n - 1 + i = n
      BY <1>1, <2>1, <2>2
    <3> QED BY <1>2, <3>1
  <2>3. CASE i # 1
    <3>1. i - 1 \in 1 .. Len(m) - n /\ n + (i - 1) = n - 1 + i
      BY <1>1, <2>3
    <3>2. u[i] = t[i - 1]
      BY <1>1, <2>1, <2>3
    <3> QED BY <1>2, <3>1, <3>2
  <2> QED BY <2>2, <2>3
<1> QED BY <1>3, <1>4 DEF InFront, u

(* What the two changes of a requeue do to the items.                      *)
LEMMA RequeueItems ==
    ASSUME NEW s, Sound(s)
    PROVE  /\ \A p \in Inputs : Appended(s, p).items = Append(s.items, Item(p, 0))
           /\ s.items # <<>> => ToFront(s).items = <<Last(s.items)>> \o Front(s.items)
<1>1. s \in Snapshots /\ Bump(s) \in Snapshots /\ Bump(s).items = s.items
  BY SoundItems, BumpFields
<1>2. \A t : [Bump(s) EXCEPT !.items = t].items = t
  BY <1>1 DEF Snapshots
<1> QED BY <1>1, <1>2 DEF Appended, ToFront

(* What the other steps do meanwhile, and how a requeue begins.            *)
LEMMA RequeueAlone ==
    ASSUME Next, ~RequeueAdd, ~RequeueReorder
    PROVE  /\ pc \in {"requeue", "reorder"} =>
                 pc' = "down" \/ UNCHANGED <<pc, q, todo, left>>
           /\ pc \notin {"requeue", "reorder"} /\ pc' \in {"requeue", "reorder"} =>
                 FinishOperation
<1>1. CASE List \/ \E c \in Clients : Send(c)
  BY <1>1 DEF List, Send, queueVars, historyVars
<1>2. CASE \E c \in Clients : Handle(c)
  BY <1>2 DEF Handle, Loop
<1>3. CASE \/ DrainNothing \/ PrepareDispatch \/ StartTurn \/ AcceptDispatch
           \/ RollBackDispatch \/ PauseForBoundary
  <2>1. pc \notin {"requeue", "reorder"} /\ pc' \notin {"requeue", "reorder"}
    BY <1>3 DEF DrainNothing, PrepareDispatch, StartTurn, AcceptDispatch,
       RollBackDispatch, PauseForBoundary
  <2> QED BY <2>1
<1>4. CASE NextGeneration \/ ResumeFails
  BY <1>4 DEF NextGeneration, ResumeFails, actorVars
<1>5. CASE FinishOperation
  BY <1>5 DEF FinishOperation
<1>6. CASE GenerationStep
  BY <1>6 DEF GenerationStep, RecordPrompt, ApplySteer, EndTurn, GenerationFrame,
     queueVars, actorVars
<1>7. CASE DirectTurn \/ Interrupt \/ Steer \/ QueueResume \/ Poll
  <2>1. pc = "select" /\ pc' \in {"top", "select"}
    BY <1>7 DEF DirectTurn, Interrupt, Steer, QueueResume, Poll, Loop
  <2> QED BY <2>1
<1>8. CASE Crash \/ Restart \/ RestartUnread
  BY <1>8 DEF Crash, Restart, RestartUnread
<1> QED BY <1>1, <1>2, <1>3, <1>4, <1>5, <1>6, <1>7, <1>8 DEF Next, ActorStep

(* A step of a requeue.                                                    *)
LEMMA OrderAdd ==
    ASSUME QueueInv, OrderNow, RequeueAdd, faults \in Nat, faults' = faults
    PROVE  /\ OrderNow'
           /\ pc' = "top" => \E i \in 1 .. Len(left) : left[i] \notin Ids(q')
<1> DEFINE p == Last(todo)  n == Len(todo)  t == Front(todo)
<1>1. /\ pc = "requeue" /\ todo # <<>> /\ p \in Inputs /\ p \notin Ids(q) /\ left' = left
  BY RequeueAddIs DEF Outside
<1>2. /\ n \in Nat \ {0} /\ p = todo[n] /\ Len(t) = n - 1
      /\ \A i \in 1 .. n - 1 : t[i] = todo[i]
  BY <1>1, FrontInputs DEF QueueInv, Types
<1>3. /\ n <= Len(left) /\ \A i \in 1 .. n : left[i] = todo[i]
      /\ \/ InFront(q.items, left, n)
         \/ /\ Len(q.items) >= Capacity
            /\ \E i \in 1 .. Len(left) : left[i] \notin Ids(q)
  BY <1>1 DEF OrderNow
<1>4. /\ Len(left) \in Nat /\ Len(q.items) \in Nat /\ left \in Seq(Inputs)
      /\ q.items \in Seq(Items) /\ Sound(q) /\ Capacity \in Nat
  BY SoundItems, LenProperties, CapacityAssumption DEF QueueInv, Queues, Types
<1>5. CASE Len(q.items) < Capacity
  <2>1. ~(Len(q.items) >= Capacity) /\ InFront(q.items, left, n)
    BY <1>3, <1>4, <1>5
  <2>2. Change(Appended(q, p)) /\ pc' = "reorder" /\ todo' = todo
    BY <2>1 DEF RequeueAdd, ChangeFails, SaveFails
  <2>3. q'.items = Append(q.items, Item(p, 0))
    BY <1>1, <1>4, <2>2, RequeueItems DEF Change
  <2>4. Item(p, 0) \in Items /\ Item(p, 0).id = p
    BY <1>1 DEF Item, Items
  <2>5. /\ InFront(q'.items, left, n) /\ Len(left) - n < Len(q'.items)
        /\ Last(q'.items) = Item(p, 0)
    BY <1>2, <1>3, <1>4, <2>1, <2>3, <2>4, FrontAppended
  <2>6. pc' # "top"
    BY <2>2
  <2> QED BY <1>1, <1>3, <2>2, <2>4, <2>5, <2>6 DEF OrderNow
<1>6. CASE Len(q.items) >= Capacity
  <2>1. /\ q' = q /\ todo' = t /\ pc' \in {"top", "requeue"}
    BY <1>4, <1>6 DEF RequeueAdd, ChangeFails, SaveFails, queueVars
  <2>2. left[n] \notin Ids(q') /\ n \in 1 .. Len(left)
    BY <1>1, <1>2, <1>3, <1>4, <2>1
  <2>3. \E i \in 1 .. Len(left) : left[i] \notin Ids(q')
    BY <2>2
  <2>4. Len(todo') <= Len(left) /\ \A i \in 1 .. Len(todo') : left[i] = todo'[i]
    BY <1>2, <1>3, <1>4, <2>1
  <2>5. Len(q'.items) >= Capacity /\ left' = left /\ pc' # "reorder"
    BY <1>1, <1>6, <2>1
  <2>6. OrderNow'
    BY <2>3, <2>4, <2>5 DEF OrderNow
  <2> QED BY <2>3, <2>6
<1> QED BY <1>4, <1>5, <1>6

LEMMA OrderMove ==
    ASSUME QueueInv, OrderNow, RequeueReorder, faults \in Nat, faults' = faults
    PROVE  OrderNow' /\ (pc' = "top" => InFront(q'.items, left, 0))
<1> DEFINE n == Len(todo)  t == Front(todo)
<1>1. /\ pc = "reorder" /\ todo # <<>> /\ left' = left /\ todo' = t
      /\ pc' = IF todo' = <<>> THEN "top" ELSE "requeue"
  BY RequeueReorderIs
<1>2. /\ n \in Nat \ {0} /\ Last(todo) = todo[n] /\ Len(t) = n - 1
      /\ \A i \in 1 .. n - 1 : t[i] = todo[i]
  BY <1>1, FrontInputs DEF QueueInv, Types
<1>3. /\ n <= Len(left) /\ \A i \in 1 .. n : left[i] = todo[i]
      /\ InFront(q.items, left, n) /\ Len(left) - n < Len(q.items)
      /\ Last(q.items).id = Last(todo)
  BY <1>1 DEF OrderNow
<1>4. /\ Len(left) \in Nat /\ left \in Seq(Inputs) /\ q.items # <<>>
      /\ q.items \in Seq(Items) /\ Sound(q)
  BY <1>1, SoundItems, LenProperties DEF QueueInv, Queues, Types, Actor
<1>5. q' = ToFront(q)
  BY NoFault DEF RequeueReorder, Moved
<1>6. q'.items = <<Last(q.items)>> \o Front(q.items)
  BY <1>4, <1>5, RequeueItems
<1>7. n \in 1 .. n /\ Last(q.items).id = left[n]
  BY <1>2, <1>3
<1>8. InFront(q'.items, left, n - 1)
  BY <1>2, <1>3, <1>4, <1>6, <1>7, FrontMoved
<1>9. Len(todo') <= Len(left) /\ \A i \in 1 .. Len(todo') : left[i] = todo'[i]
  BY <1>1, <1>2, <1>3, <1>4
<1>10. Len(todo') = n - 1
  BY <1>1, <1>2
<1>11. OrderNow'
  <2>1. InFront(q'.items, left', Len(todo')) /\ pc' # "reorder"
    BY <1>1, <1>8, <1>10
  <2> QED BY <1>1, <1>9, <2>1 DEF OrderNow
<1>12. ASSUME pc' = "top" PROVE InFront(q'.items, left, 0)
  <2>1. todo' = <<>>
    BY <1>1, <1>12
  <2>2. n - 1 = 0
    BY <1>10, <2>1, EmptyInputs
  <2> QED BY <1>8, <2>2
<1> QED BY <1>11, <1>12

LEMMA OrderFinish ==
    ASSUME QueueInv, FinishOperation
    PROVE  OrderNow'
<1>1. /\ left' = active.steer /\ (todo' = active.steer \/ todo' = <<>>)
      /\ pc' = IF todo' = <<>> THEN "top" ELSE "requeue"
  BY FinishIs
<1>2. active.steer \in Seq(Inputs)
  BY DEF QueueInv, Types, Operation
<1>3. ASSUME pc' # "top" PROVE OrderNow'
  <2> DEFINE m == active.steer
  <2>1. pc' = "requeue" /\ todo' = m /\ left' = m
    BY <1>1, <1>3
  <2>2. Len(m) \in Nat /\ Len(m) <= Len(m) /\ Len(m) - Len(m) = 0
    BY <1>2, LenProperties
  <2>3. QueueInv'
    BY FinishKeeps
  <2>4. Len(q'.items) \in Nat
    BY <2>3, SoundItems, LenProperties DEF QueueInv, Queues
  <2> HIDE DEF m
  <2>5. InFront(q'.items, m, Len(m))
    BY <2>2, <2>4 DEF InFront
  <2> QED BY <2>1, <2>2, <2>5 DEF OrderNow
<1>4. ASSUME pc' = "top" PROVE OrderNow'
  BY <1>4 DEF OrderNow
<1> QED BY <1>3, <1>4

LEMMA OrderStep == QueueInv /\ Books /\ OrderInv /\ [Next]_vars => OrderInv'
<1> SUFFICES ASSUME QueueInv, Books, OrderInv, [Next]_vars, faults' = 0
             PROVE  OrderNow'
  BY DEF OrderInv
<1>1. CASE UNCHANGED vars
  BY <1>1 DEF OrderInv, OrderNow, InFront, vars, queueVars, actorVars, historyVars, boundVars
<1>2. CASE Next
  <2>1. faults \in Nat /\ faults' = faults /\ OrderNow
    BY <1>2, FaultsCounted DEF Books, OrderInv
  <2>2. CASE RequeueAdd \/ RequeueReorder
    BY <2>1, <2>2, OrderAdd, OrderMove
  <2>3. CASE FinishOperation
    BY <2>3, OrderFinish
  <2>4. CASE ~RequeueAdd /\ ~RequeueReorder /\ ~FinishOperation
    <3>1. \/ pc' \notin {"requeue", "reorder"}
          \/ pc' = "down" \/ UNCHANGED <<pc, q, todo, left>>
      BY <1>2, <2>4, RequeueAlone
    <3> QED BY <2>1, <3>1 DEF OrderNow, InFront
  <2> QED BY <2>2, <2>3, <2>4
<1> QED BY <1>1, <1>2

LEMMA OrderHolds == Spec => []OrderInv
<1>1. Init => OrderInv
  BY DEF Init, OrderInv, OrderNow
<1> QED BY <1>1, QueueHolds, BooksHold, OrderStep, PTL DEF Spec

(* SteerOrder: when the inputs that a turn leaves over are back in the     *)
(* queue, they are its first ones and in the order in which they were      *)
(* sent, if no write failed and the queue took all of them, whatever else  *)
(* it holds (requeue_unapplied_steer_inputs).                              *)
THEOREM SteersInOrder == Spec => SteerOrder
<1> DEFINE Ends == /\ pc \in {"requeue", "reorder"} /\ pc' = "top"
                   /\ faults' = 0 /\ ToSet(left) \subseteq Ids(q')
<1>1. QueueInv /\ Books /\ OrderInv /\ [Next]_vars =>
        [Ends => \A i \in DOMAIN left : q'.items[i].id = left[i]]_vars
  <2> SUFFICES ASSUME QueueInv, Books, OrderInv, Next, Ends
               PROVE  \A i \in DOMAIN left : q'.items[i].id = left[i]
    OBVIOUS
  <2>1. faults \in Nat /\ faults' = faults /\ OrderNow
    BY FaultsCounted DEF Books, OrderInv
  <2>2. DOMAIN left = 1 .. Len(left) /\ Len(left) \in Nat
    BY LenProperties DEF QueueInv, Types
  <2>3. CASE RequeueAdd
    <3>1. PICK i \in 1 .. Len(left) : left[i] \notin Ids(q')
      BY <2>1, <2>3, OrderAdd
    <3>2. left[i] \in ToSet(left)
      BY <2>2, <3>1 DEF ToSet
    <3> QED BY <3>1, <3>2
  <2>4. CASE RequeueReorder
    <3>1. InFront(q'.items, left, 0)
      BY <2>1, <2>4, OrderMove
    <3>2. ASSUME NEW i \in 1 .. Len(left) PROVE q'.items[i].id = left[i]
      <4>1. i \in 1 .. Len(left) - 0 /\ 0 + i = i
        BY <2>2
      <4> QED BY <3>1, <4>1 DEF InFront
    <3> QED BY <2>2, <3>2
  <2>5. CASE ~RequeueAdd /\ ~RequeueReorder
    BY <2>5, RequeueAlone
  <2> QED BY <2>3, <2>4, <2>5
<1> QED BY <1>1, QueueHolds, BooksHold, OrderHolds, PTL DEF SteerOrder, Spec
=============================================================================
