------------------------ MODULE SubagentRelay_proofs ------------------------
(***************************************************************************)
(* Proofs about SubagentRelay, for any number of processes that may take   *)
(* the lease over, any size of the file and any number of faults: nothing  *)
(* is appended once the task ended or is to stop, what the writers leave   *)
(* in the file passes its scan, its frames reach the surface in order and  *)
(* once each, and everyone who keeps the child's outcome keeps the same.   *)
(*                                                                         *)
(* EndInv is inductive by itself, ScanInv relative to it and DeliveryInv   *)
(* relative to both; the lemmas on what a step may do to the file, to the  *)
(* surface and to a page (LogGrows, SurfaceMoves, PageMoves) spare a case  *)
(* for every action in each.                                               *)
(***************************************************************************)
EXTENDS SubagentRelay, SequenceTheorems, TLAPS

-----------------------------------------------------------------------------
(* Which steps leave the task and the workers alone.                       *)
QuietStep == \/ DiskFault \/ LaunchStarted \/ LaunchReport
             \/ Poll \/ DrainRecord \/ DrainMore \/ Strand \/ PollEnds
             \/ StopGiveUp \/ StopSurface \/ HostCrash \/ Resumed \/ CloseOneShot

(* A worker that publishes, and where the publish leads it.                *)
PublishStep(w) == PublishStarted(w) \/ PublishProgress(w) \/ PublishCompleted(w)

(* Next, in the order of the proofs.                                       *)
LEMMA NextSplit ==
    ASSUME Next
    PROVE  \/ \E w \in Workers : \/ AcquireLease(w) \/ MarkRunning(w) \/ PublishStep(w)
                                 \/ EndRun(w) \/ SettleTask(w) \/ WorkerCrash(w)
           \/ LeaseExpires \/ Reap \/ LaunchSpawn \/ LaunchFail
           \/ StopMark \/ StopKill \/ Restart
           \/ QuietStep
  BY DEF Next, WorkerStep, LaunchStep, ActorStep, QuietStep, PublishStep

-----------------------------------------------------------------------------
(* Nothing after the end.                                                  *)

WorkerRecord == [pc : Points, epoch : Nat, next : Nat, pending : Kinds,
                 outcome : {"Completed", "Failed"}]

(* EndInv holds initially.                                                 *)
LEMMA EndInit == Init => EndInv
<1> SUFFICES ASSUME Init PROVE EndInv OBVIOUS
<1>1. TaskOK
  BY DEF Init, TaskOK
<1>2. WorkersOK
  BY DEF Init, WorkersOK, Points, Kinds
<1>3. PublisherFenced
  BY DEF Init, PublisherFenced, Publishing
<1>4. LaunchFirst
  BY DEF Init, LaunchFirst
<1>5. StopMarked
  BY DEF Init, StopMarked
<1> QED BY <1>1, <1>2, <1>3, <1>4, <1>5 DEF EndInv

(* A worker that goes on under its lease, or ends, while the task record   *)
(* stays as it is.                                                         *)
LEMMA WorkerGoesOn ==
    ASSUME EndInv, NEW w \in Workers, NEW r \in WorkerRecord,
           wk' = [wk EXCEPT ![w] = r],
           r.epoch = wk[w].epoch,
           r.pc \in Publishing => wk[w].pc \in Publishing,
           \/ wk[w].pc # "none" /\ r.pc = "exited"
           \/ wk[w].pc \in Publishing \cup {"settle"},
           UNCHANGED <<task, launch, actor>>
    PROVE  EndInv'
<1>1. TaskOK' /\ WorkersOK'
  BY DEF EndInv, TaskOK, WorkersOK, WorkerRecord
<1>2. PublisherFenced'
  <2> SUFFICES ASSUME NEW v \in Workers, wk'[v].pc \in Publishing, HoldsLease(v)'
               PROVE  ~task.stop /\ ~TaskSettled
    BY DEF PublisherFenced, TaskSettled
  <2>1. wk[v].pc \in Publishing /\ wk'[v].epoch = wk[v].epoch
    BY DEF EndInv, WorkersOK
  <2> QED BY <2>1 DEF EndInv, PublisherFenced, HoldsLease
<1>3. LaunchFirst'
  BY DEF EndInv, LaunchFirst, WorkersOK, Publishing
<1>4. StopMarked'
  BY DEF EndInv, StopMarked
<1> QED BY <1>1, <1>2, <1>3, <1>4 DEF EndInv

(* A publish changes nothing but the relay, the fault count and its        *)
(* worker, which keeps its epoch.                                          *)
LEMMA PublishMoves ==
    ASSUME WorkersOK, NEW w \in Workers, PublishStep(w)
    PROVE  /\ UNCHANGED <<task, hostVars, crashes>>
           /\ wk[w].pc \in Publishing
           /\ \E r \in WorkerRecord : /\ wk' = [wk EXCEPT ![w] = r]
                                      /\ r.epoch = wk[w].epoch
<1>1. ASSUME NEW kind \in Kinds, NEW ok \in Points, NEW errs \in SUBSET Points,
             Publish(w, kind, ok, errs)
      PROVE  /\ UNCHANGED <<task, hostVars, crashes>>
             /\ \E r \in WorkerRecord : /\ wk' = [wk EXCEPT ![w] = r]
                                        /\ r.epoch = wk[w].epoch
  <2>1. Flushing(w, kind) \in Kinds
    BY DEF Flushing, WorkersOK
  <2>2. CASE wk' = [wk EXCEPT ![w].next = @ + 1, ![w].pending = "none",
                              ![w].pc = IF wk[w].pending = "none" THEN ok ELSE @]
    <3> DEFINE r == [wk[w] EXCEPT !.next = @ + 1, !.pending = "none",
                                  !.pc = IF wk[w].pending = "none" THEN ok ELSE @]
    <3>0. wk[w] \in WorkerRecord /\ "none" \in Kinds
      BY DEF WorkersOK, WorkerRecord, Kinds
    <3>n. wk[w].next + 1 \in Nat
      BY <3>0 DEF WorkerRecord
    <3> DEFINE pc == IF wk[w].pending = "none" THEN ok ELSE wk[w].pc
    <3>p. pc \in Points
      BY <3>0 DEF WorkerRecord
    <3>1. r \in WorkerRecord /\ r.epoch = wk[w].epoch
      <4> HIDE DEF pc
      <4>1. r = [wk[w] EXCEPT !.next = wk[w].next + 1, !.pending = "none", !.pc = pc]
        BY DEF pc
      <4> HIDE DEF r
      <4> QED BY <3>0, <3>n, <3>p, <4>1 DEF WorkerRecord
    <3>2. wk' = [wk EXCEPT ![w] = r]
      BY <2>2 DEF WorkersOK
    <3> QED BY <1>1, <3>1, <3>2 DEF Publish
  <2>3. ASSUME NEW pc \in errs,
               wk' = [wk EXCEPT ![w].pending = Flushing(w, kind), ![w].pc = pc,
                                ![w].outcome = IF pc = wk[w].pc THEN @ ELSE "Failed"]
        PROVE  \E r \in WorkerRecord : /\ wk' = [wk EXCEPT ![w] = r]
                                       /\ r.epoch = wk[w].epoch
    <3> DEFINE r == [wk[w] EXCEPT !.pending = Flushing(w, kind), !.pc = pc,
                                  !.outcome = IF pc = wk[w].pc THEN @ ELSE "Failed"]
    <3>1. r \in WorkerRecord /\ r.epoch = wk[w].epoch
      BY <2>1 DEF WorkersOK, WorkerRecord
    <3>2. wk' = [wk EXCEPT ![w] = r]
      BY <2>3 DEF WorkersOK
    <3> QED BY <3>1, <3>2
  <2> QED BY <1>1, <2>2, <2>3 DEF Publish
<1>2. wk[w].outcome \in Kinds
  BY DEF WorkersOK, Kinds
<1>3. {"Started", "Progress"} \subseteq Kinds /\ {"run", "settle", "end"} \subseteq Points
  BY DEF Kinds, Points
<1> QED BY <1>1, <1>2, <1>3 DEF PublishStep, PublishStarted, PublishProgress, PublishCompleted,
                                Publishing

(* EndInv is kept by every step.                                           *)
LEMMA EndStep == EndInv /\ [Next]_vars => EndInv'
<1> SUFFICES ASSUME EndInv, [Next]_vars PROVE EndInv'
  OBVIOUS
<1>n. NoOwner \notin Workers /\ Worker \in Workers
  BY RelayNames DEF Workers
<1>t. TaskOK /\ WorkersOK /\ PublisherFenced /\ LaunchFirst /\ StopMarked
  BY DEF EndInv
<1>e. task.epoch \in Nat /\ task.epoch + 1 \in Nat
  BY <1>t DEF TaskOK
<1>1. ASSUME NEW w \in Workers, AcquireLease(w) PROVE EndInv'
  <2>1. CASE TaskSettled \/ (task.owner \notin {w, NoOwner} /\ task.live)
    <3> DEFINE r == [wk[w] EXCEPT !.pc = "exited"]
    <3>1. r \in WorkerRecord /\ r.epoch = wk[w].epoch /\ r.pc = "exited"
      BY <1>t DEF WorkersOK, WorkerRecord, Points
    <3>2. wk' = [wk EXCEPT ![w] = r] /\ UNCHANGED <<task, launch, actor>>
      BY <1>t, <1>1, <2>1 DEF AcquireLease, WorkersOK, hostVars
    <3>3. wk[w].pc # "none"
      BY <1>1, <2>1 DEF AcquireLease
    <3> HIDE DEF r
    <3> QED BY <3>1, <3>2, <3>3, WorkerGoesOn DEF Publishing
  <2>2. CASE ~(TaskSettled \/ (task.owner \notin {w, NoOwner} /\ task.live))
    <3>1. /\ task' = [task EXCEPT !.epoch = task.epoch + 1, !.owner = w, !.live = TRUE,
                                  !.touched = TRUE]
          /\ wk' = [wk EXCEPT ![w].pc = "leased", ![w].epoch = task.epoch + 1]
          /\ launch' = launch /\ actor' = actor
      BY <1>1, <2>2 DEF AcquireLease, hostVars
    <3>2. TaskOK'
      BY <1>t, <1>e, <3>1 DEF TaskOK
    <3>3. WorkersOK'
      BY <1>t, <1>e, <3>1 DEF WorkersOK, Points
    <3>4. /\ task'.owner = w /\ task'.stop = task.stop /\ wk'[w].pc = "leased"
          /\ \A v \in Workers : v # w => wk'[v] = wk[v]
      BY <1>t, <3>1 DEF TaskOK, WorkersOK
    <3>5. PublisherFenced'
      BY <3>4 DEF PublisherFenced, HoldsLease, Publishing
    <3>6. LaunchFirst'
      <4>1. launch # "done" => w # Worker /\ task.epoch # 0
        BY <1>n, <1>t, <1>1 DEF AcquireLease, LaunchFirst
      <4> QED BY <1>t, <3>1, <3>4, <4>1 DEF LaunchFirst
    <3>7. StopMarked'
      BY <1>t, <3>1, <3>4 DEF StopMarked
    <3> QED BY <3>2, <3>3, <3>5, <3>6, <3>7 DEF EndInv
  <2> QED BY <2>1, <2>2
<1>2. ASSUME NEW w \in Workers, MarkRunning(w) PROVE EndInv'
  <2>1. CASE HoldsLease(w) /\ ~task.stop
    <3> DEFINE pc == IF w = Worker THEN "start" ELSE "run"
               next == IF w = Worker THEN 1 ELSE Len(log) + 1
    <3>1. /\ task' = [task EXCEPT !.status = "Running"]
          /\ wk' = [wk EXCEPT ![w].pc = pc, ![w].next = next]
          /\ launch' = launch /\ actor' = actor /\ wk[w].pc = "leased"
      BY <1>2, <2>1 DEF MarkRunning, hostVars
    <3>2. pc \in Points /\ next \in Nat
      BY DEF Points
    <3> HIDE DEF pc, next
    <3>3. TaskOK'
      BY <1>t, <3>1 DEF TaskOK
    <3>4. WorkersOK'
      BY <1>t, <3>1, <3>2 DEF WorkersOK
    <3>5. /\ task'.owner = w /\ ~task'.stop /\ task'.status = "Running" /\ task.owner = w
      BY <1>t, <2>1, <3>1 DEF TaskOK, HoldsLease
    <3>6. PublisherFenced'
      BY <3>5 DEF PublisherFenced, HoldsLease, TaskSettled, Settled
    <3>7. launch = "done"
      BY <1>t, <2>1, <3>1 DEF LaunchFirst
    <3>8. StopMarked'
      BY <1>t, <2>1, <3>1 DEF StopMarked
    <3> QED BY <3>1, <3>3, <3>4, <3>6, <3>7, <3>8 DEF EndInv, LaunchFirst
  <2>2. CASE ~(HoldsLease(w) /\ ~task.stop)
    <3> DEFINE r == [wk[w] EXCEPT !.pc = "exited"]
    <3>1. r \in WorkerRecord /\ r.epoch = wk[w].epoch /\ r.pc = "exited"
      BY <1>t DEF WorkersOK, WorkerRecord, Points
    <3>2. wk' = [wk EXCEPT ![w] = r] /\ UNCHANGED <<task, launch, actor>> /\ wk[w].pc = "leased"
      BY <1>t, <1>2, <2>2 DEF MarkRunning, WorkersOK, hostVars
    <3> HIDE DEF r
    <3> QED BY <3>1, <3>2, WorkerGoesOn DEF Publishing
  <2> QED BY <2>1, <2>2
<1>3. ASSUME NEW w \in Workers, PublishStep(w) PROVE EndInv'
  BY <1>n, <1>t, <1>3, PublishMoves, WorkerGoesOn DEF hostVars
<1>4. ASSUME NEW w \in Workers, EndRun(w) PROVE EndInv'
  <2>1. PICK outcome \in {"Completed", "Failed"}, committed \in BOOLEAN :
           wk' = [wk EXCEPT ![w].pc = IF committed THEN "publish" ELSE "settle",
                            ![w].outcome = IF committed THEN outcome ELSE "Failed"]
    BY <1>4 DEF EndRun
  <2> DEFINE r == [wk[w] EXCEPT !.pc = IF committed THEN "publish" ELSE "settle",
                                !.outcome = IF committed THEN outcome ELSE "Failed"]
  <2>2. r \in WorkerRecord /\ r.epoch = wk[w].epoch /\ wk' = [wk EXCEPT ![w] = r]
    BY <1>n, <1>t, <2>1 DEF WorkersOK, WorkerRecord, Points
  <2>3. wk[w].pc \in Publishing
    BY <1>4 DEF EndRun, Publishing
  <2> QED BY <1>4, <2>2, <2>3, WorkerGoesOn DEF EndRun, hostVars
<1>5. ASSUME NEW w \in Workers, SettleTask(w) PROVE EndInv'
  <2>1. TaskOK' /\ WorkersOK'
    BY <1>n, <1>t, <1>5 DEF SettleTask, TaskOK, WorkersOK, Points, Settled
  <2>2. PublisherFenced'
    BY <1>n, <1>t, <1>5 DEF SettleTask, PublisherFenced, HoldsLease, TaskSettled, TaskOK, WorkersOK,
                      Publishing
  <2>3. LaunchFirst'
    BY <1>n, <1>t, <1>5 DEF SettleTask, LaunchFirst, TaskOK, WorkersOK, hostVars
  <2>4. StopMarked'
    BY <1>n, <1>t, <1>5 DEF SettleTask, StopMarked, TaskOK, hostVars
  <2> QED BY <2>1, <2>2, <2>3, <2>4 DEF EndInv
<1>6. ASSUME NEW w \in Workers, WorkerCrash(w) PROVE EndInv'
  <2> DEFINE r == [wk[w] EXCEPT !.pc = "exited"]
  <2>1. r \in WorkerRecord /\ r.epoch = wk[w].epoch /\ r.pc = "exited"
    BY <1>t DEF WorkersOK, WorkerRecord, Points
  <2>2. wk' = [wk EXCEPT ![w] = r]
    BY <1>n, <1>t, <1>6 DEF WorkerCrash, WorkersOK
  <2> HIDE DEF r
  <2> QED BY <1>6, <2>1, <2>2, WorkerGoesOn DEF WorkerCrash, hostVars, Publishing
<1>7. ASSUME LeaseExpires PROVE EndInv'
  BY <1>n, <1>t, <1>7 DEF EndInv, LeaseExpires, TaskOK, WorkersOK, PublisherFenced, HoldsLease,
                    TaskSettled, LaunchFirst, StopMarked, hostVars
<1>8. ASSUME Reap PROVE EndInv'
  <2>1. TaskOK' /\ WorkersOK'
    BY <1>n, <1>t, <1>8 DEF Reap, TaskOK, WorkersOK, Settled
  <2>2. PublisherFenced'
    BY <1>n, <1>t, <1>8 DEF Reap, PublisherFenced, HoldsLease, TaskSettled, TaskOK, WorkersOK,
                            Publishing
  <2>3. LaunchFirst' /\ StopMarked'
    BY <1>n, <1>t, <1>8 DEF Reap, LaunchFirst, StopMarked, TaskOK
  <2> QED BY <2>1, <2>2, <2>3 DEF EndInv
<1>9. ASSUME LaunchSpawn PROVE EndInv'
  <2>1. CASE UNCHANGED <<task, wk>> /\ launch' # "done"
    BY <1>t, <1>9, <2>1 DEF EndInv, LaunchSpawn, TaskOK, WorkersOK, PublisherFenced, HoldsLease,
                            TaskSettled, LaunchFirst, StopMarked
  <2>2. CASE /\ task' = [task EXCEPT !.status = "Running", !.pid = TRUE, !.touched = FALSE]
             /\ wk' = [wk EXCEPT ![Worker].pc = "spawned"]
             /\ launch' = "done" /\ ~TaskSettled
    <3>1. TaskOK'
      BY <1>t, <2>2 DEF TaskOK
    <3>2. WorkersOK'
      BY <1>n, <1>t, <2>2 DEF WorkersOK, Points
    <3>3. /\ task'.status = "Running"
          /\ UNCHANGED <<task.stop, task.owner, task.epoch, task.live>>
      BY <1>t, <2>2 DEF TaskOK
    <3>4. /\ wk'[Worker].pc = "spawned"
          /\ \A v \in Workers : v # Worker => wk'[v] = wk[v]
      BY <1>n, <1>t, <2>2 DEF WorkersOK
    <3>5. PublisherFenced'
      BY <1>t, <3>3, <3>4 DEF PublisherFenced, HoldsLease, TaskSettled, Settled, Publishing
    <3>6. LaunchFirst' /\ StopMarked'
      BY <1>t, <1>9, <2>2, <3>3 DEF LaunchSpawn, LaunchFirst, StopMarked
    <3> QED BY <3>1, <3>2, <3>5, <3>6 DEF EndInv
  <2> QED BY <1>9, <2>1, <2>2 DEF LaunchSpawn
<1>10. ASSUME LaunchFail PROVE EndInv'
  <2>1. TaskOK' /\ WorkersOK'
    BY <1>n, <1>t, <1>10 DEF LaunchFail, TaskOK, WorkersOK, Settled
  <2>2. \A w \in Workers : wk[w].pc \notin Publishing
    BY <1>n, <1>t, <1>10 DEF LaunchFail, LaunchFirst, Publishing
  <2>3. PublisherFenced'
    BY <1>10, <2>2 DEF LaunchFail, PublisherFenced
  <2>4. LaunchFirst' /\ StopMarked'
    BY <1>n, <1>t, <1>10 DEF LaunchFail, LaunchFirst, StopMarked, TaskOK
  <2> QED BY <2>1, <2>3, <2>4 DEF EndInv
<1>11. ASSUME StopMark PROVE EndInv'
  <2>1. TaskOK' /\ WorkersOK'
    <3>1. task' = [task EXCEPT !.status = "Stopping", !.stop = TRUE, !.epoch = task.epoch + 1,
                               !.owner = NoOwner, !.live = FALSE, !.touched = TRUE]
      BY <1>11 DEF StopMark
    <3> QED BY <1>t, <1>e, <1>11, <3>1 DEF StopMark, TaskOK, WorkersOK
  <2>2. PublisherFenced'
    BY <1>n, <1>t, <1>11 DEF StopMark, PublisherFenced, HoldsLease, TaskOK
  <2>3. LaunchFirst' /\ StopMarked'
    BY <1>n, <1>t, <1>11 DEF StopMark, LaunchFirst, StopMarked, TaskOK
  <2> QED BY <2>1, <2>2, <2>3 DEF EndInv
<1>12. ASSUME StopKill PROVE EndInv'
  <2>1. TaskOK' /\ WorkersOK'
    BY <1>n, <1>t, <1>12 DEF StopKill, TaskOK, WorkersOK, Settled, Points
  <2>2. PublisherFenced'
    BY <1>n, <1>t, <1>12 DEF StopKill, PublisherFenced, HoldsLease, TaskOK, WorkersOK, StopMarked,
                       Publishing
  <2>3. LaunchFirst' /\ StopMarked'
    BY <1>n, <1>t, <1>12 DEF StopKill, LaunchFirst, StopMarked, TaskOK, WorkersOK
  <2> QED BY <2>1, <2>2, <2>3 DEF EndInv
<1>13. ASSUME Restart PROVE EndInv'
  <2>1. TaskOK' /\ WorkersOK'
    BY <1>n, <1>t, <1>13 DEF Restart, TaskOK, WorkersOK, Settled
  <2>2. PublisherFenced'
    BY <1>n, <1>t, <1>13 DEF Restart, PublisherFenced, HoldsLease, TaskOK, TaskSettled
  <2>3. LaunchFirst' /\ StopMarked'
    BY <1>n, <1>t, <1>13 DEF Restart, LaunchFirst, StopMarked, TaskOK
  <2> QED BY <2>1, <2>2, <2>3 DEF EndInv
<1>14. ASSUME QuietStep \/ UNCHANGED vars PROVE EndInv'
  <2>1. UNCHANGED <<task, wk>>
    BY <1>14 DEF QuietStep, vars, DiskFault, LaunchStarted, LaunchReport, Poll, DrainRecord,
                 DrainMore, Strand, PollEnds, StopGiveUp, StopSurface, HostCrash, Resumed,
                 CloseOneShot
  <2>2. launch' = launch \/ (launch # "done" /\ launch' # "done")
    BY <1>14 DEF QuietStep, vars, hostVars, DiskFault, LaunchStarted, LaunchReport, Poll,
                 DrainRecord, DrainMore, Strand, PollEnds, StopGiveUp, StopSurface, HostCrash,
                 Resumed, CloseOneShot
  <2>3. actor' = actor \/ actor' \notin {"stopping", "stopped"}
    BY <1>14 DEF QuietStep, vars, hostVars, DiskFault, LaunchStarted, LaunchReport, Poll, ReadPage,
                 DrainRecord, DrainMore, Strand, PollEnds, StopGiveUp, StopSurface, HostCrash,
                 Resumed, CloseOneShot
  <2> QED BY <1>n, <1>t, <2>1, <2>2, <2>3 DEF EndInv, TaskOK, WorkersOK, PublisherFenced,
                                              HoldsLease, TaskSettled, LaunchFirst, StopMarked
<1> QED BY <1>1, <1>2, <1>3, <1>4, <1>5, <1>6, <1>7, <1>8, <1>9, <1>10, <1>11, <1>12, <1>13, <1>14,
           NextSplit

(* The relay file grows only by a frame of a worker that publishes, holds  *)
(* the lease and was admitted by the open.                                 *)
LEMMA LogGrows ==
    ASSUME [Next]_vars
    PROVE  \/ log' = log
           \/ \E w \in Workers : \E kind \in {"Started", "Progress", wk[w].outcome} :
                 LET r == Record(w, Flushing(w, kind)) IN
                 /\ wk[w].pc \in Publishing
                 /\ HoldsLease(w) /\ OpenAdmits(w) /\ AppendAdmits(r)
                 /\ log' = Append(log, r)
<1>1. ASSUME NEW w \in Workers, NEW kind, NEW ok, NEW errs, Publish(w, kind, ok, errs),
             log' # log
      PROVE  LET r == Record(w, Flushing(w, kind)) IN
             /\ HoldsLease(w) /\ OpenAdmits(w) /\ AppendAdmits(r)
             /\ log' = Append(log, r)
  BY <1>1 DEF Publish, Appended, Refused, Broken, OpenRefused, relayVars
<1>2. ASSUME NEW w \in Workers, PublishStarted(w), log' # log
      PROVE  LET r == Record(w, Flushing(w, "Started")) IN
             /\ wk[w].pc \in Publishing
             /\ HoldsLease(w) /\ OpenAdmits(w) /\ AppendAdmits(r)
             /\ log' = Append(log, r)
  BY <1>1, <1>2 DEF PublishStarted, Publishing
<1>3. ASSUME NEW w \in Workers, PublishProgress(w), log' # log
      PROVE  LET r == Record(w, Flushing(w, "Progress")) IN
             /\ wk[w].pc \in Publishing
             /\ HoldsLease(w) /\ OpenAdmits(w) /\ AppendAdmits(r)
             /\ log' = Append(log, r)
  BY <1>1, <1>3 DEF PublishProgress, Publishing
<1>4. ASSUME NEW w \in Workers, PublishCompleted(w), log' # log
      PROVE  LET r == Record(w, Flushing(w, wk[w].outcome)) IN
             /\ wk[w].pc \in Publishing
             /\ HoldsLease(w) /\ OpenAdmits(w) /\ AppendAdmits(r)
             /\ log' = Append(log, r)
  BY <1>1, <1>4 DEF PublishCompleted, Publishing
<1>5. ASSUME NEW w \in Workers,
             \/ AcquireLease(w) \/ MarkRunning(w) \/ EndRun(w) \/ SettleTask(w) \/ WorkerCrash(w)
      PROVE  log' = log
  BY <1>5 DEF AcquireLease, MarkRunning, EndRun, SettleTask, WorkerCrash, relayVars
<1>6. ASSUME \/ LeaseExpires \/ Reap \/ LaunchSpawn \/ LaunchFail \/ StopMark \/ StopKill
             \/ Restart \/ QuietStep \/ UNCHANGED vars
      PROVE  log' = log
  BY <1>6 DEF LeaseExpires, Reap, LaunchSpawn, LaunchFail, StopMark, StopKill, Restart, QuietStep,
              vars, relayVars, DiskFault, LaunchStarted, LaunchReport, Poll, DrainRecord, DrainMore,
              Strand, PollEnds, StopGiveUp, StopSurface, HostCrash, Resumed, CloseOneShot
<1> QED BY <1>2, <1>3, <1>4, <1>5, <1>6, NextSplit DEF PublishStep

(* EndInv holds of every behaviour: a worker that can still publish under  *)
(* the lease works for a task that has not ended and is not to stop.       *)
THEOREM PublishersFenced == Spec => []EndInv
  BY EndInit, EndStep, PTL DEF Spec

(* NothingAfterEnd: no frame is appended to the relay once the task is     *)
(* settled or a stop is requested, whichever of its workers, the reaper,   *)
(* the launch, the user or a restarted host ended it.                      *)
THEOREM RelayEndsWithTask == Spec => NothingAfterEnd
<1>1. EndInv /\ [Next]_vars => [TaskSettled \/ task.stop => log' = log]_vars
  <2> SUFFICES ASSUME EndInv, [Next]_vars, TaskSettled \/ task.stop PROVE log' = log
    OBVIOUS
  <2>1. \A w \in Workers : ~(wk[w].pc \in Publishing /\ HoldsLease(w))
    BY DEF EndInv, PublisherFenced
  <2> QED BY <2>1, LogGrows
<1> QED BY <1>1, PublishersFenced, PTL DEF Spec, NothingAfterEnd

-----------------------------------------------------------------------------
(* The file passes its scan.                                               *)

(* A frame of the file is a record.                                        *)
LEMMA FrameType ==
    ASSUME RelayOK, NEW i \in DOMAIN log
    PROVE  log[i] \in Records /\ log[i].epoch \in Nat
<1>1. log[i] \in Records
  BY DEF RelayOK
<1> QED BY <1>1 DEF Records

(* The set PriorEpoch is the maximum of has one, which the order of the    *)
(* frames shows: the last frame's epoch, or that of one of the markers.    *)
LEMMA PriorIsMax ==
    ASSUME RelayOK, LogOrdered
    PROVE  PriorEpoch \in Nat /\ \A l \in Observed : l.epoch <= PriorEpoch
<1> DEFINE S == {0} \cup {l.epoch : l \in Observed}
<1>1. \A l \in Observed : l.epoch \in Nat
  BY FrameType DEF Observed, RelayOK, Leases
<1>2. PICK m \in S : \A i \in DOMAIN log : log[i].epoch <= m
  <2>1. CASE log = <<>>
    BY <2>1
  <2>2. CASE log # <<>>
    <3>1. Len(log) \in DOMAIN log /\ DOMAIN log = 1..Len(log) /\ Len(log) \in Nat
      BY <2>2 DEF RelayOK
    <3>2. \A i \in DOMAIN log : log[i].epoch \in Nat
      BY FrameType
    <3>3. \A i \in DOMAIN log : log[i].epoch <= log[Len(log)].epoch
      BY <3>1, <3>2 DEF LogOrdered
    <3>4. [owner |-> log[Len(log)].by, epoch |-> log[Len(log)].epoch] \in Observed
      BY <3>1 DEF Observed
    <3>5. log[Len(log)].epoch \in S
      BY <3>4
    <3> QED BY <3>3, <3>5
  <2> QED BY <2>1, <2>2
<1> DEFINE a == IF attemptMarker = NoLease THEN 0 ELSE attemptMarker.epoch
           c == IF currentMarker = NoLease THEN 0 ELSE currentMarker.epoch
<1>3. a \in S /\ c \in S
  <2>1. attemptMarker # NoLease => attemptMarker \in Observed
    BY DEF Observed
  <2>2. currentMarker # NoLease => currentMarker \in Observed
    BY DEF Observed
  <2>3. a \in S
    BY <2>1
  <2>4. c \in S
    BY <2>2
  <2> QED BY <2>3, <2>4
<1>4. S \subseteq Nat
  BY <1>1
<1>5. \A y \in S : y <= m \/ y <= a \/ y <= c
  <2>1. ASSUME NEW l \in Observed PROVE l.epoch <= m \/ l.epoch <= a \/ l.epoch <= c
    <3>1. CASE l \in {attemptMarker, currentMarker} \ {NoLease}
      <4>1. l.epoch = a \/ l.epoch = c
        BY <3>1
      <4> HIDE DEF a, c, S
      <4> QED BY <1>1, <4>1
    <3>2. CASE \E i \in DOMAIN log : l = [owner |-> log[i].by, epoch |-> log[i].epoch]
      BY <1>2, <3>2
    <3> QED BY <3>1, <3>2 DEF Observed
  <2>2. 0 <= m
    BY <1>4
  <2> QED BY <2>1, <2>2
<1> HIDE DEF a, c
<1>6. \E x \in S : \A y \in S : x >= y
  <2> HIDE DEF S
  <2> QED BY <1>2, <1>3, <1>4, <1>5
<1>7. Max(S) \in S /\ \A y \in S : Max(S) >= y
  <2> HIDE DEF S
  <2> QED BY <1>6 DEF Max
<1>8. PriorEpoch = Max(S)
  BY DEF PriorEpoch
<1>9. \A l \in Observed : l.epoch \in S
  OBVIOUS
<1> HIDE DEF S
<1> QED BY <1>1, <1>4, <1>7, <1>8, <1>9

(* Whom the open admits comes after, or wrote, every frame of the file.    *)
LEMMA AdmittedIsLater ==
    ASSUME RelayOK, LogOrdered, WorkersOK, NEW w \in Workers, OpenAdmits(w),
           NEW i \in DOMAIN log
    PROVE  \/ log[i].epoch < wk[w].epoch
           \/ log[i].epoch = wk[w].epoch /\ log[i].by = w
<1> DEFINE l == [owner |-> log[i].by, epoch |-> log[i].epoch]
<1>1. l \in Observed
  BY DEF Observed
<1>2. PriorEpoch \in Nat /\ l.epoch <= PriorEpoch
  BY <1>1, PriorIsMax
<1>3. wk[w].epoch \in Nat /\ log[i].epoch \in Nat
  BY FrameType DEF WorkersOK
<1>4. CASE wk[w].epoch > PriorEpoch
  BY <1>2, <1>3, <1>4
<1>5. CASE wk[w].epoch = PriorEpoch /\ PriorOwners \subseteq {w}
  <2>1. l.epoch = PriorEpoch => l.owner \in PriorOwners
    BY <1>1 DEF PriorOwners
  <2> QED BY <1>2, <1>3, <1>5, <2>1
<1> QED BY <1>4, <1>5 DEF OpenAdmits

(* ScanInv holds initially.                                                *)
LEMMA ScanInit == Init => ScanInv
<1> SUFFICES ASSUME Init PROVE ScanInv OBVIOUS
<1>1. log = <<>> /\ log \in Seq(Records) /\ DOMAIN log = {} /\ Len(log) = 0
  BY DEF Init
<1>2. RelayOK
  <2>1. NoLease \in Leases
    BY DEF NoLease, Leases
  <2> QED BY <1>1, <2>1 DEF Init, RelayOK
<1>3. LogScans
  BY <1>1, RelayBounds DEF Init, LogScans
<1>4. LogOrdered
  BY <1>1 DEF LogOrdered
<1> QED BY <1>2, <1>3, <1>4 DEF ScanInv

(* The relay's variables keep their types, and only what is damaged is     *)
(* quarantined.                                                            *)
LEMMA RelayStep ==
    ASSUME WorkersOK, RelayOK, [Next]_vars
    PROVE  RelayOK' /\ ((quarantined => corrupt) => (quarantined' => corrupt'))
<1>1. ASSUME NEW w \in Workers, NEW kind \in Kinds, NEW ok, NEW errs,
             Publish(w, kind, ok, errs)
      PROVE  RelayOK' /\ ((quarantined => corrupt) => (quarantined' => corrupt'))
  <2> DEFINE r == Record(w, Flushing(w, kind))
  <2>1. Lease(w) \in Leases
    BY DEF Lease, Leases, WorkersOK
  <2>2. r \in Records
    BY DEF Record, Records, Flushing, WorkersOK
  <2>3. Append(log, r) \in Seq(Records)
    BY <2>2 DEF RelayOK
  <2> HIDE DEF r
  <2>4. log' \in Seq(Records)
    BY <1>1, <2>3 DEF Publish, Appended, Refused, Broken, OpenRefused, relayVars, RelayOK, r
  <2>5. attemptMarker' \in Leases /\ currentMarker' \in Leases
    BY <1>1, <2>1 DEF Publish, Appended, Refused, Broken, OpenRefused, Opened, relayVars, RelayOK
  <2>6. torn' \in BOOLEAN /\ dir' \in BOOLEAN
    BY <1>1 DEF Publish, Appended, Refused, Broken, OpenRefused, Opened, TornAfterOpen, relayVars,
                RelayOK
  <2>7. corrupt' = corrupt /\ quarantined' \in {quarantined, quarantined \/ corrupt}
    BY <1>1 DEF Publish, Appended, Refused, Broken, OpenRefused, Opened, relayVars
  <2> QED BY <2>4, <2>5, <2>6, <2>7 DEF RelayOK
<1>2. ASSUME NEW w \in Workers, PublishStep(w)
      PROVE  RelayOK' /\ ((quarantined => corrupt) => (quarantined' => corrupt'))
  <2>1. {"Started", "Progress", wk[w].outcome} \subseteq Kinds
    BY DEF Kinds, WorkersOK
  <2> QED BY <1>1, <1>2, <2>1 DEF PublishStep, PublishStarted, PublishProgress, PublishCompleted
<1>3. ASSUME UNCHANGED relayVars
      PROVE  RelayOK' /\ ((quarantined => corrupt) => (quarantined' => corrupt'))
  BY <1>3 DEF relayVars, RelayOK
<1>4. ASSUME NEW w \in Workers,
             \/ AcquireLease(w) \/ MarkRunning(w) \/ EndRun(w) \/ SettleTask(w) \/ WorkerCrash(w)
      PROVE  UNCHANGED relayVars
  BY <1>4 DEF AcquireLease, MarkRunning, EndRun, SettleTask, WorkerCrash, relayVars
<1>5. ASSUME \/ LeaseExpires \/ Reap \/ LaunchSpawn \/ LaunchFail \/ StopMark \/ StopKill
             \/ Restart \/ LaunchStarted \/ LaunchReport \/ DrainRecord \/ Strand \/ PollEnds
             \/ StopGiveUp \/ StopSurface \/ HostCrash \/ Resumed \/ CloseOneShot
             \/ UNCHANGED vars
      PROVE  UNCHANGED relayVars
  BY <1>5 DEF LeaseExpires, Reap, LaunchSpawn, LaunchFail, StopMark, StopKill, Restart,
              LaunchStarted, LaunchReport, DrainRecord, Strand, PollEnds, StopGiveUp, StopSurface,
              HostCrash, Resumed, CloseOneShot, vars, relayVars
<1>6. ASSUME DiskFault
      PROVE  RelayOK' /\ ((quarantined => corrupt) => (quarantined' => corrupt'))
  BY <1>6 DEF DiskFault, RelayOK
<1>7. ASSUME Poll \/ DrainMore
      PROVE  RelayOK' /\ ((quarantined => corrupt) => (quarantined' => corrupt'))
  <2>1. /\ UNCHANGED <<log, torn, corrupt, dir, attemptMarker, currentMarker>>
        /\ quarantined' = quarantined \/ (quarantined' = TRUE /\ (quarantined \/ corrupt))
    BY <1>7 DEF Poll, DrainMore, ReadPage, Readable
  <2>2. quarantined' \in BOOLEAN /\ corrupt' \in BOOLEAN
    BY <2>1, Zenon DEF RelayOK
  <2>3. (quarantined => corrupt) => (quarantined' => corrupt')
    BY <2>1 DEF RelayOK
  <2> QED BY <2>1, <2>2, <2>3 DEF RelayOK
<1> QED BY <1>2, <1>3, <1>4, <1>5, <1>6, <1>7, NextSplit DEF QuietStep

(* One more frame that continues the sequence, and comes after every frame *)
(* of the file, leaves a file that passes.                                 *)
LEMMA ScanGrows ==
    ASSUME NEW r \in Records, RelayOK, LogScans, LogOrdered,
           log' = Append(log, r), AppendAdmits(r), quarantined' => corrupt',
           \A i \in DOMAIN log : \/ log[i].epoch < r.epoch
                                 \/ log[i].epoch = r.epoch /\ log[i].by = r.by
    PROVE  LogScans' /\ LogOrdered'
<1>1. log \in Seq(Records) /\ Len(log) \in Nat /\ DOMAIN log = 1..Len(log)
  BY DEF RelayOK
<1>2. Len(log') = Len(log) + 1 /\ DOMAIN log' = 1..(Len(log) + 1)
  BY <1>1
<1>3. /\ \A i \in 1..Len(log) : log'[i] = log[i]
      /\ log'[Len(log) + 1] = r
  BY <1>1
<1>4. r.seq = Len(log) + 1 /\ Len(log) + 1 <= MaxLog
  BY <1>1, RelayBounds DEF AppendAdmits
<1>5. ASSUME NEW i \in DOMAIN log'
      PROVE  /\ log'[i].seq = i
             /\ i > 1 => \/ log'[i - 1].epoch < log'[i].epoch
                         \/ log'[i - 1].epoch = log'[i].epoch /\ log'[i - 1].by = log'[i].by
  <2>1. CASE i \in 1..Len(log)
    BY <1>1, <1>3, <2>1 DEF LogScans
  <2>2. CASE i = Len(log) + 1
    <3>1. log'[i] = r /\ r.seq = i
      BY <1>3, <1>4, <2>2
    <3>2. ASSUME i > 1 PROVE i - 1 \in DOMAIN log /\ log'[i - 1] = log[i - 1]
      <4>1. i - 1 \in 1..Len(log)
        BY <1>1, <2>2, <3>2
      <4> QED BY <1>1, <1>3, <4>1
    <3> QED BY <3>1, <3>2
  <2> QED BY <1>1, <1>2, <2>1, <2>2
<1>6. LogScans'
  BY <1>2, <1>4, <1>5 DEF LogScans
<1>7. ASSUME NEW i \in DOMAIN log', NEW j \in DOMAIN log', i < j
      PROVE  \/ log'[i].epoch < log'[j].epoch
             \/ log'[i].epoch = log'[j].epoch /\ log'[i].by = log'[j].by
  <2>1. i \in 1..Len(log)
    BY <1>1, <1>2, <1>7
  <2>2. CASE j \in 1..Len(log)
    BY <1>1, <1>3, <1>7, <2>1, <2>2 DEF LogOrdered
  <2>3. CASE j = Len(log) + 1
    BY <1>1, <1>3, <2>1, <2>3
  <2> QED BY <1>1, <1>2, <2>2, <2>3
<1>8. LogOrdered'
  BY <1>7 DEF LogOrdered
<1> QED BY <1>6, <1>8

(* ScanInv is kept: a frame is appended only behind what the open admits.  *)
LEMMA ScanStep == EndInv /\ ScanInv /\ [Next]_vars => ScanInv'
<1> SUFFICES ASSUME EndInv, ScanInv, [Next]_vars PROVE ScanInv'
  OBVIOUS
<1>1. WorkersOK /\ RelayOK /\ LogScans /\ LogOrdered /\ (quarantined => corrupt)
  BY DEF EndInv, ScanInv, LogScans
<1>2. RelayOK' /\ (quarantined' => corrupt')
  BY <1>1, RelayStep
<1>3. CASE log' = log
  BY <1>1, <1>2, <1>3 DEF ScanInv, LogScans, LogOrdered
<1>4. ASSUME NEW w \in Workers, NEW kind \in {"Started", "Progress", wk[w].outcome},
             OpenAdmits(w), AppendAdmits(Record(w, Flushing(w, kind))),
             log' = Append(log, Record(w, Flushing(w, kind)))
      PROVE  ScanInv'
  <2> DEFINE r == Record(w, Flushing(w, kind))
  <2>1. r \in Records /\ r.epoch = wk[w].epoch /\ r.by = w
    BY <1>1 DEF Record, Records, Flushing, WorkersOK, Kinds
  <2>2. \A i \in DOMAIN log : \/ log[i].epoch < r.epoch
                              \/ log[i].epoch = r.epoch /\ log[i].by = r.by
    BY <1>1, <1>4, <2>1, AdmittedIsLater
  <2> HIDE DEF r
  <2> QED BY <1>1, <1>2, <1>4, <2>1, <2>2, ScanGrows DEF ScanInv, r
<1> QED BY <1>3, <1>4, LogGrows

(* ScanInv holds of every behaviour.                                       *)
LEMMA ScanHolds == Spec => []ScanInv
  BY ScanInit, ScanStep, PublishersFenced, PTL DEF Spec

(* LogScans: whatever fails and whoever takes the lease over, the frames   *)
(* in the relay file have sequences without gap or repetition, epochs that *)
(* never fall and one owner per epoch, within the size limit, and only     *)
(* damage by the disk is quarantined.                                      *)
THEOREM RelayScans == Spec => []LogScans
<1>1. ScanInv => LogScans
  BY DEF ScanInv
<1> QED BY <1>1, ScanHolds, PTL

-----------------------------------------------------------------------------
(* The frames reach the surface in order and once each.                    *)

Ids == [by : Workers \cup {Host}, seq : Nat]

SurfaceRecord == [status : {"absent", "Running"} \cup Settled, revision : Nat, source : Nat,
                  applied : Seq(Ids)]

(* A launch that failed stays failed.                                      *)
LEMMA StaysUnlaunched ==
    ASSUME EndInv, Unlaunched, [Next]_vars
    PROVE  Unlaunched'
<1>t. TaskOK /\ WorkersOK /\ LaunchFirst /\ StopMarked
  BY DEF EndInv
<1>n. Worker \in Workers
  BY DEF Workers
<1>p. \A w \in Workers : wk[w].pc \in {"none", "leased", "exited"}
  BY DEF Unlaunched
<1>s. \A w \in Workers : wk[w].pc # "none" => task.stop
  BY DEF Unlaunched
<1>1. ASSUME NEW w \in Workers, AcquireLease(w) PROVE Unlaunched'
  <2>1. w # Worker /\ task.epoch > 0 /\ ~task.live /\ ~TaskSettled /\ wk[w].pc = "none"
    BY <1>n, <1>p, <1>1 DEF AcquireLease
  <2>2. task.stop /\ launch = "fail"
    BY <1>n, <1>t, <2>1 DEF Unlaunched, LaunchFirst, TaskOK
  <2>3. /\ task' = [task EXCEPT !.epoch = @ + 1, !.owner = w, !.live = TRUE, !.touched = TRUE]
        /\ wk' = [wk EXCEPT ![w].pc = "leased", ![w].epoch = task.epoch + 1]
        /\ launch' = launch
    BY <1>1, <2>1 DEF AcquireLease, hostVars
  <2>4. task'.stop /\ \A v \in Workers : wk'[v].pc \in {"none", "leased", "exited"}
    BY <1>t, <1>p, <2>2, <2>3 DEF TaskOK, WorkersOK
  <2> QED BY <2>2, <2>3, <2>4 DEF Unlaunched
<1>2. ASSUME NEW w \in Workers, MarkRunning(w) PROVE Unlaunched'
  <2>1. task.stop
    BY <1>s, <1>2 DEF MarkRunning
  <2>2. wk' = [wk EXCEPT ![w].pc = "exited"] /\ task' = task /\ launch' = launch
    BY <1>2, <2>1 DEF MarkRunning, hostVars
  <2>3. \A v \in Workers : wk'[v].pc \in {"none", "leased", "exited"}
    BY <1>t, <1>p, <2>2 DEF WorkersOK
  <2> QED BY <2>1, <2>2, <2>3 DEF Unlaunched, TaskSettled
<1>3. ASSUME NEW w \in Workers, PublishStep(w) \/ EndRun(w) \/ SettleTask(w) PROVE Unlaunched'
  BY <1>p, <1>3 DEF PublishStep, PublishStarted, PublishProgress, PublishCompleted, EndRun,
                    SettleTask
<1>4. ASSUME NEW w \in Workers, WorkerCrash(w) PROVE Unlaunched'
  <2>1. task.stop
    BY <1>s, <1>4 DEF WorkerCrash
  <2>2. wk' = [wk EXCEPT ![w].pc = "exited"] /\ task' = task /\ launch' = launch
    BY <1>4 DEF WorkerCrash, hostVars
  <2>3. \A v \in Workers : wk'[v].pc \in {"none", "leased", "exited"}
    BY <1>t, <1>p, <2>2 DEF WorkersOK
  <2> QED BY <2>1, <2>2, <2>3 DEF Unlaunched, TaskSettled
<1>5. ASSUME LeaseExpires PROVE Unlaunched'
  BY <1>t, <1>5 DEF LeaseExpires, TaskOK, Unlaunched, TaskSettled, hostVars
<1>6. ASSUME Reap PROVE Unlaunched'
  BY <1>t, <1>6 DEF Reap, TaskOK, Unlaunched, TaskSettled, Settled
<1>7. ASSUME LaunchSpawn PROVE Unlaunched'
  BY <1>7 DEF LaunchSpawn, Unlaunched
<1>8. ASSUME LaunchFail PROVE Unlaunched'
  BY <1>t, <1>8 DEF LaunchFail, TaskOK, Unlaunched, TaskSettled, Settled
<1>9. ASSUME StopMark PROVE Unlaunched'
  <2>1. launch = "fail" /\ launch' = launch /\ wk' = wk
    BY <1>9 DEF StopMark, Unlaunched
  <2>2. task'.stop
    BY <1>t, <1>9 DEF StopMark, TaskOK
  <2> QED BY <1>p, <2>1, <2>2 DEF Unlaunched
<1>10. ASSUME StopKill PROVE Unlaunched'
  <2>1. /\ task' = [task EXCEPT !.status = "Stopped", !.pid = FALSE]
        /\ wk' = [wk EXCEPT ![Worker].pc = "exited"] /\ launch' = launch /\ task.stop
    BY <1>t, <1>10 DEF StopKill, StopMarked
  <2>2. task'.stop /\ task'.status = "Stopped"
    BY <1>t, <2>1 DEF TaskOK
  <2>3. \A v \in Workers : wk'[v].pc \in {"none", "leased", "exited"}
    BY <1>t, <1>n, <1>p, <2>1 DEF WorkersOK
  <2> QED BY <2>1, <2>2, <2>3 DEF Unlaunched, TaskSettled, Settled
<1>11. ASSUME Restart PROVE Unlaunched'
  BY <1>t, <1>11 DEF Restart, TaskOK, Unlaunched, TaskSettled, Settled
<1>12. ASSUME QuietStep \/ UNCHANGED vars PROVE Unlaunched'
  <2>1. UNCHANGED <<task, wk, launch>>
    BY <1>12 DEF Unlaunched, QuietStep, vars, hostVars, DiskFault, LaunchStarted, LaunchReport,
                 Poll, DrainRecord, DrainMore, Strand, PollEnds, StopGiveUp, StopSurface,
                 HostCrash, Resumed, CloseOneShot
  <2> QED BY <2>1 DEF Unlaunched, TaskSettled
<1> QED BY <1>1, <1>2, <1>3, <1>4, <1>5, <1>6, <1>7, <1>8, <1>9, <1>10, <1>11, <1>12, NextSplit

(* What a step may do to the surface.                                      *)
LEMMA SurfaceMoves ==
    ASSUME [Next]_vars
    PROVE  \/ UNCHANGED surface
           \/ LaunchStarted
           \/ /\ LaunchReport /\ CommitAdmits(LaunchEvent(2, "Failed"))
              /\ surface' = AfterCommit(LaunchEvent(2, "Failed"))
           \/ /\ DrainRecord /\ CommitAdmits(Head(page))
              /\ surface' = AfterCommit(Head(page))
           \/ /\ \E st \in Settled : surface' = [surface EXCEPT !.status = st, !.revision = @ + 1]
              /\ UNCHANGED log /\ actor \in {"settle", "stopped"}
<1>1. ASSUME NEW w \in Workers,
             \/ AcquireLease(w) \/ MarkRunning(w) \/ EndRun(w) \/ SettleTask(w) \/ WorkerCrash(w)
             \/ PublishStep(w)
      PROVE  UNCHANGED surface
  BY <1>1 DEF AcquireLease, MarkRunning, EndRun, SettleTask, WorkerCrash, PublishStep,
              PublishStarted, PublishProgress, PublishCompleted, Publish, hostVars
<1>2. ASSUME \/ LeaseExpires \/ Reap \/ LaunchSpawn \/ LaunchFail \/ StopMark \/ StopKill
             \/ Restart \/ DiskFault \/ Poll \/ DrainMore \/ PollEnds \/ StopGiveUp \/ HostCrash
             \/ Resumed \/ CloseOneShot \/ UNCHANGED vars
      PROVE  UNCHANGED surface
  BY <1>2 DEF LeaseExpires, Reap, LaunchSpawn, LaunchFail, StopMark, StopKill, Restart, DiskFault,
              Poll, DrainMore, PollEnds, StopGiveUp, HostCrash, Resumed, CloseOneShot, vars,
              hostVars
<1>3. ASSUME LaunchReport
      PROVE  \/ UNCHANGED surface
             \/ /\ CommitAdmits(LaunchEvent(2, "Failed"))
                /\ surface' = AfterCommit(LaunchEvent(2, "Failed"))
  BY <1>3 DEF LaunchReport
<1>4. ASSUME DrainRecord
      PROVE  \/ UNCHANGED surface
             \/ CommitAdmits(Head(page)) /\ surface' = AfterCommit(Head(page))
  BY <1>4 DEF DrainRecord
<1>5. ASSUME Strand \/ StopSurface
      PROVE  \/ UNCHANGED surface
             \/ /\ \E st \in Settled : surface' = [surface EXCEPT !.status = st, !.revision = @ + 1]
                /\ UNCHANGED log /\ actor \in {"settle", "stopped"}
  BY <1>5 DEF Strand, StopSurface, TaskSettled, Settled, relayVars
<1> QED BY <1>1, <1>2, <1>3, <1>4, <1>5, NextSplit DEF QuietStep

(* What a commit the ledger admits does: nothing, or one more applied id   *)
(* at its own sequence, at which the cursors stand then.                   *)
LEMMA CommitApplies ==
    ASSUME SurfaceOK, DeliveredInOrder, LaunchHeard,
           NEW r, r.seq \in Nat, Id(r) \in Ids,
           \/ IsDuplicate(r)
           \/ surface.status = "absent" /\ r.seq = 1
           \/ Running /\ r.seq = surface.revision + 1 /\ r.seq = surface.source + 1,
           surface' = AfterCommit(r)
    PROVE  \/ surface' = surface
           \/ /\ surface' \in SurfaceRecord
              /\ surface'.applied = Append(surface.applied, Id(r))
              /\ surface'.source = r.seq /\ surface'.revision = r.seq
              /\ r.seq = Len(surface.applied) + 1
              /\ surface'.status # "absent"
<1>1. surface.applied \in Seq(Ids)
  BY DEF SurfaceOK, Ids
<1>2. Append(surface.applied, Id(r)) \in Seq(Ids)
  BY <1>1
<1>3. CASE IsDuplicate(r)
  BY <1>3 DEF AfterCommit
<1>4. CASE ~IsDuplicate(r)
  <2>1. r.seq = Len(surface.applied) + 1
    BY <1>4 DEF LaunchHeard, DeliveredInOrder
  <2> DEFINE st == IF r.kind \in Settled THEN r.kind ELSE "Running"
  <2>2. st \in {"Running"} \cup Settled
    OBVIOUS
  <2>3. surface' = [status |-> st, revision |-> r.seq, source |-> r.seq,
                    applied |-> Append(surface.applied, Id(r))]
    BY <1>4 DEF AfterCommit
  <2> HIDE DEF st
  <2>4. st # "absent"
    BY <2>2 DEF Settled
  <2> QED BY <1>2, <2>1, <2>2, <2>3, <2>4 DEF SurfaceRecord
<1> QED BY <1>3, <1>4

(* One more applied id, that of the first event, of the frame of its       *)
(* sequence, or of a failed launch, keeps the order.                       *)
LEMMA OrderGrows ==
    ASSUME SurfaceOK, DeliveredInOrder, UNCHANGED log,
           NEW r, Id(r) \in Ids,
           surface'.applied = Append(surface.applied, Id(r)),
           surface'.source = r.seq, surface'.revision = r.seq,
           r.seq = Len(surface.applied) + 1,
           \/ r.seq = 1
           \/ r.seq \in DOMAIN log /\ log[r.seq] = r
           \/ r.seq = 2 /\ r.by = Host /\ log = <<>>
    PROVE  DeliveredInOrder'
<1> DEFINE a == surface.applied
           b == surface'.applied
<1>1. a \in Seq(Ids) /\ Len(a) \in Nat
  BY DEF SurfaceOK, Ids
<1>2. /\ Len(b) = Len(a) + 1
      /\ \A i \in 1..Len(a) : b[i] = a[i]
      /\ b[Len(a) + 1] = Id(r)
  BY <1>1
<1>3. surface.source = Len(a)
  BY DEF DeliveredInOrder
<1>4. ASSUME NEW i \in 2..surface'.source
      PROVE  \/ i \in DOMAIN log' /\ b[i] = Id(log'[i])
             \/ i = 2 /\ b[2].by = Host /\ log' = <<>>
  <2>1. CASE i \in 1..Len(a)
    <3>1. i \in 2..surface.source /\ b[i] = a[i]
      BY <1>1, <1>2, <1>3, <2>1
    <3> QED BY <3>1 DEF DeliveredInOrder
  <2>2. CASE i = Len(a) + 1
    <3>1. b[i] = Id(r) /\ i = r.seq /\ i # 1
      BY <1>1, <1>2, <2>2
    <3>2. Id(r).by = r.by
      BY DEF Id
    <3> QED BY <3>1, <3>2
  <2> QED BY <1>1, <1>4, <2>1, <2>2
<1>5. surface'.source = Len(b) /\ surface'.revision = surface'.source
  BY <1>2
<1> QED BY <1>4, <1>5 DEF DeliveredInOrder

(* A log that grows keeps the frames delivered so far where they are.      *)
LEMMA OrderKept ==
    ASSUME RelayOK, DeliveredInOrder, UNCHANGED surface,
           \/ UNCHANGED log
           \/ ~HostReported /\ \E r \in Records : log' = Append(log, r),
           SurfaceOK
    PROVE  DeliveredInOrder'
<1>1. CASE UNCHANGED log
  BY <1>1 DEF DeliveredInOrder, Running
<1>2. ASSUME ~HostReported, NEW r \in Records, log' = Append(log, r) PROVE DeliveredInOrder'
  <2>1. \A i \in DOMAIN log : i \in DOMAIN log' /\ log'[i] = log[i]
    BY <1>2 DEF RelayOK
  <2>2. ASSUME NEW i \in 2..surface.source
        PROVE  i \in DOMAIN log' /\ surface.applied[i] = Id(log'[i])
    <3>1. 2 \in 2..surface.source => 2 \in DOMAIN surface.applied
      BY DEF SurfaceOK, DeliveredInOrder
    <3>2. i \in DOMAIN log /\ surface.applied[i] = Id(log[i])
      BY <1>2, <3>1 DEF DeliveredInOrder, HostReported, SurfaceOK
    <3> QED BY <2>1, <3>2
  <2> QED BY <2>2 DEF DeliveredInOrder, Running
<1> QED BY <1>1, <1>2

(* A page is a stretch of the file from a cursor on.                       *)
LEMMA PageRead ==
    ASSUME RelayOK, LogScans, NEW n \in Nat
    PROVE  /\ PageAfter(n) \in Seq(Records)
           /\ \A i \in DOMAIN PageAfter(n) : /\ PageAfter(n)[i].seq \in DOMAIN log
                                             /\ log[PageAfter(n)[i].seq] = PageAfter(n)[i]
<1> DEFINE hi == Min({Len(log), n + PageSize})
<1>1. Len(log) \in Nat /\ DOMAIN log = 1..Len(log)
  BY DEF RelayOK
<1>2. n + PageSize \in Nat
  BY RelayBounds
<1>3. \E x \in {Len(log), n + PageSize} : \A y \in {Len(log), n + PageSize} : x =< y
  BY <1>1, <1>2
<1>4. hi \in Nat /\ hi <= Len(log)
  <2>1. hi \in {Len(log), n + PageSize} /\ \A y \in {Len(log), n + PageSize} : hi =< y
    BY <1>3 DEF Min
  <2> HIDE DEF hi
  <2> QED BY <1>1, <1>2, <2>1
<1>5. PageAfter(n) = SubSeq(log, n + 1, hi)
  BY DEF PageAfter
<1> HIDE DEF hi
<1>6. \A i \in (n + 1)..hi : i \in DOMAIN log /\ log[i] \in Records
  <2>1. \A i \in (n + 1)..hi : i \in DOMAIN log
    BY <1>1, <1>4
  <2> QED BY <2>1, FrameType
<1> DEFINE q == SubSeq(log, n + 1, hi)
<1>7. /\ q \in Seq(Records)
      /\ Len(q) = IF n + 1 <= hi THEN hi - (n + 1) + 1 ELSE 0
      /\ \A i \in 1..(hi - (n + 1) + 1) : q[i] = log[n + 1 + i - 1]
  BY <1>4, <1>6, SubSeqProperties
<1> HIDE DEF q
<1>8. ASSUME NEW i \in DOMAIN q PROVE q[i].seq \in DOMAIN log /\ log[q[i].seq] = q[i]
  <2>1. i \in 1..Len(q) /\ n + 1 <= hi
    BY <1>4, <1>7
  <2>2. n + i \in (n + 1)..hi /\ q[i] = log[n + i]
    BY <1>4, <1>7, <2>1
  <2>3. n + i \in DOMAIN log /\ log[n + i].seq = n + i
    BY <1>6, <2>2 DEF LogScans
  <2> QED BY <2>2, <2>3
<1> QED BY <1>5, <1>7, <1>8 DEF q

(* What a step may do to the page.                                         *)
LEMMA PageMoves ==
    ASSUME [Next]_vars
    PROVE  \/ UNCHANGED page
           \/ page' = <<>>
           \/ page # <<>> /\ page' = Tail(page) /\ UNCHANGED log
           \/ page' = PageAfter(surface.source) /\ UNCHANGED log
<1>1. ASSUME NEW w \in Workers,
             \/ AcquireLease(w) \/ MarkRunning(w) \/ EndRun(w) \/ SettleTask(w) \/ WorkerCrash(w)
             \/ PublishStep(w)
      PROVE  UNCHANGED page
  BY <1>1 DEF AcquireLease, MarkRunning, EndRun, SettleTask, WorkerCrash, PublishStep,
              PublishStarted, PublishProgress, PublishCompleted, Publish, hostVars
<1>2. ASSUME \/ LeaseExpires \/ Reap \/ LaunchSpawn \/ LaunchFail \/ StopMark \/ StopKill
             \/ Restart \/ DiskFault \/ PollEnds \/ StopGiveUp \/ HostCrash \/ Strand
             \/ LaunchStarted \/ LaunchReport \/ StopSurface
             \/ Resumed \/ CloseOneShot \/ UNCHANGED vars
      PROVE  UNCHANGED page \/ page' = <<>>
  BY <1>2 DEF LeaseExpires, Reap, LaunchSpawn, LaunchFail, StopMark, StopKill, Restart, DiskFault,
              PollEnds, StopGiveUp, HostCrash, Strand, LaunchStarted, LaunchReport, StopSurface,
              Resumed, CloseOneShot, vars, hostVars
<1>3. ASSUME Poll \/ DrainMore
      PROVE  \/ UNCHANGED page
             \/ page' = <<>>
             \/ page' = PageAfter(surface.source) /\ UNCHANGED log
  BY <1>3 DEF Poll, DrainMore, ReadPage
<1>4. ASSUME DrainRecord
      PROVE  \/ page' = <<>>
             \/ page # <<>> /\ page' = Tail(page) /\ UNCHANGED log
  BY <1>4 DEF DrainRecord, relayVars
<1> QED BY <1>1, <1>2, <1>3, <1>4, NextSplit DEF QuietStep

(* What a step does to the launch and the actor while the launch is new.   *)
LEMMA NewMoves ==
    ASSUME [Next]_vars, launch' = "new", launch = "new" => ~Running /\ actor = "idle"
    PROVE  launch = "new" /\ actor' = "idle"
<1>1. ASSUME NEW w \in Workers,
             \/ AcquireLease(w) \/ MarkRunning(w) \/ EndRun(w) \/ SettleTask(w) \/ WorkerCrash(w)
             \/ PublishStep(w)
      PROVE  UNCHANGED <<launch, actor>>
  BY <1>1 DEF AcquireLease, MarkRunning, EndRun, SettleTask, WorkerCrash, PublishStep,
              PublishStarted, PublishProgress, PublishCompleted, Publish, hostVars
<1>2. ASSUME LeaseExpires \/ Reap \/ DiskFault \/ Resumed \/ UNCHANGED vars
      PROVE  UNCHANGED <<launch, actor>>
  BY <1>2 DEF LeaseExpires, Reap, DiskFault, Resumed, vars, hostVars
<1>3. ASSUME LaunchStarted \/ LaunchSpawn \/ LaunchReport \/ LaunchFail PROVE FALSE
  BY <1>3 DEF LaunchStarted, LaunchSpawn, LaunchReport, LaunchFail
<1>4. ASSUME \/ Poll \/ DrainRecord \/ DrainMore \/ Strand \/ PollEnds \/ StopMark \/ StopKill
             \/ StopGiveUp \/ StopSurface \/ HostCrash \/ Restart \/ CloseOneShot
      PROVE  launch = "new" /\ actor' = "idle"
  BY <1>4 DEF Poll, DrainRecord, DrainMore, Strand, PollEnds, StopMark, StopKill, StopGiveUp,
              StopSurface, HostCrash, Restart, CloseOneShot
<1> QED BY <1>1, <1>2, <1>3, <1>4, NextSplit DEF QuietStep

(* The launch, once over, stays over.                                      *)
LEMMA DoneMoves ==
    ASSUME [Next]_vars, launch' # "done"
    PROVE  launch # "done"
<1>1. ASSUME NEW w \in Workers,
             \/ AcquireLease(w) \/ MarkRunning(w) \/ EndRun(w) \/ SettleTask(w) \/ WorkerCrash(w)
             \/ PublishStep(w)
      PROVE  UNCHANGED launch
  BY <1>1 DEF AcquireLease, MarkRunning, EndRun, SettleTask, WorkerCrash, PublishStep,
              PublishStarted, PublishProgress, PublishCompleted, Publish, hostVars
<1>2. ASSUME LaunchStarted \/ LaunchSpawn \/ LaunchReport \/ LaunchFail PROVE launch # "done"
  BY <1>2 DEF LaunchStarted, LaunchSpawn, LaunchReport, LaunchFail
<1>3. ASSUME \/ LeaseExpires \/ Reap \/ DiskFault \/ Resumed \/ UNCHANGED vars
             \/ Poll \/ DrainRecord \/ DrainMore \/ Strand \/ PollEnds \/ StopMark \/ StopKill
             \/ StopGiveUp \/ StopSurface \/ HostCrash \/ Restart \/ CloseOneShot
      PROVE  UNCHANGED launch
  BY <1>3 DEF LeaseExpires, Reap, DiskFault, Resumed, vars, hostVars, Poll, DrainRecord, DrainMore,
              Strand, PollEnds, StopMark, StopKill, StopGiveUp, StopSurface, HostCrash, Restart,
              CloseOneShot
<1> QED BY <1>1, <1>2, <1>3, NextSplit DEF QuietStep

(* DeliveryInv holds initially.                                            *)
LEMMA DeliveryInit == Init => DeliveryInv
<1> SUFFICES ASSUME Init PROVE DeliveryInv OBVIOUS
<1>1. /\ surface = [status |-> "absent", revision |-> 0, source |-> 0, applied |-> <<>>]
      /\ page = <<>> /\ log = <<>> /\ actor = "idle" /\ launch = "new"
  BY DEF Init
<1>2. <<>> \in Seq(Ids) /\ <<>> \in Seq(Records) /\ DOMAIN <<>> = {} /\ Len(<<>>) = 0
  OBVIOUS
<1>3. SurfaceOK
  BY <1>1, <1>2 DEF SurfaceOK, Ids
<1>4. DeliveredInOrder
  BY <1>1, <1>2 DEF DeliveredInOrder, Running
<1>5. PageInLog /\ HostEnded /\ LaunchHeard
  BY <1>1, <1>2 DEF PageInLog, HostEnded, HostReported, LaunchHeard
<1> QED BY <1>3, <1>4, <1>5 DEF DeliveryInv

(* DeliveryInv is kept, by the kind of step the surface takes.             *)
LEMMA DeliveryStep == EndInv /\ ScanInv /\ DeliveryInv /\ [Next]_vars => DeliveryInv'
<1> SUFFICES ASSUME EndInv, ScanInv, DeliveryInv, [Next]_vars PROVE DeliveryInv'
  OBVIOUS
<1>t. /\ WorkersOK /\ LaunchFirst /\ RelayOK /\ LogScans
      /\ SurfaceOK /\ DeliveredInOrder /\ PageInLog /\ HostEnded /\ LaunchHeard
  BY DEF EndInv, ScanInv, DeliveryInv
<1>n. Host \notin Workers
  BY RelayNames DEF Workers
<1>g. \/ log' = log
      \/ ~HostReported /\ launch = "done" /\ \E r \in Records : log' = Append(log, r)
  <2>1. ASSUME NEW w \in Workers, NEW kind \in {"Started", "Progress", wk[w].outcome},
               wk[w].pc \in Publishing, log' = Append(log, Record(w, Flushing(w, kind)))
        PROVE  ~HostReported /\ launch = "done" /\ \E r \in Records : log' = Append(log, r)
    <3>1. ~HostReported
      BY <1>t, <2>1 DEF HostEnded, Unlaunched, Publishing
    <3>2. launch = "done"
      BY <1>t, <2>1 DEF LaunchFirst, Publishing
    <3>3. Record(w, Flushing(w, kind)) \in Records
      BY <1>t DEF Record, Records, Flushing, WorkersOK, Kinds
    <3> QED BY <2>1, <3>1, <3>2, <3>3
  <2> QED BY <2>1, LogGrows
<1>p. page' \in Seq(Records) /\ PageInLog'
  <2>1. page \in Seq(Records) /\ surface.source \in Nat
    BY <1>t DEF SurfaceOK
  <2>2. CASE page' = page
    <3>1. \A i \in DOMAIN log : i \in DOMAIN log' /\ log'[i] = log[i]
      BY <1>t, <1>g DEF RelayOK
    <3> QED BY <1>t, <2>1, <2>2, <3>1 DEF PageInLog
  <2>3. CASE page' = <<>>
    BY <2>3 DEF PageInLog
  <2>4. CASE page # <<>> /\ page' = Tail(page) /\ log' = log
    <3>1. /\ Tail(page) \in Seq(Records)
          /\ \A i \in DOMAIN Tail(page) : i + 1 \in DOMAIN page /\ Tail(page)[i] = page[i + 1]
      BY <2>1, <2>4, HeadTailProperties
    <3> QED BY <1>t, <2>4, <3>1 DEF PageInLog
  <2>5. CASE page' = PageAfter(surface.source) /\ log' = log
    BY <1>t, <2>1, <2>5, PageRead DEF PageInLog
  <2> QED BY <2>2, <2>3, <2>4, <2>5, PageMoves
<1>l. /\ launch' = "new" => launch = "new" /\ surface.status = "absent" /\ actor' = "idle"
      /\ launch' # "done" => log' = <<>>
  <2>1. launch = "new" => ~Running /\ actor = "idle" /\ surface.status = "absent"
    BY <1>t DEF LaunchHeard, Running
  <2>2. launch' # "done" => log' = <<>>
    BY <1>t, <1>g, DoneMoves DEF LaunchHeard
  <2> QED BY <2>1, <2>2, NewMoves
<1>1. CASE UNCHANGED surface
  <2>1. DeliveredInOrder'
    BY <1>t, <1>g, <1>1, OrderKept
  <2>2. HostEnded'
    BY <1>t, <1>1, StaysUnlaunched DEF HostEnded, HostReported
  <2>3. LaunchHeard'
    BY <1>t, <1>l, <1>1 DEF LaunchHeard
  <2>4. SurfaceOK'
    BY <1>t, <1>p, <1>1 DEF SurfaceOK
  <2> QED BY <1>p, <2>1, <2>2, <2>3, <2>4 DEF DeliveryInv
<1>2. ASSUME NEW r, r.seq \in Nat, Id(r) \in Ids, UNCHANGED log, surface' = AfterCommit(r),
             \/ IsDuplicate(r)
             \/ surface.status = "absent" /\ r.seq = 1
             \/ Running /\ r.seq = surface.revision + 1 /\ r.seq = surface.source + 1,
             \/ r.seq = 1
             \/ r.seq \in DOMAIN log /\ log[r.seq] = r
             \/ r.seq = 2 /\ r.by = Host /\ log = <<>>,
             launch' # "new",
             r.seq = 2 /\ r.by = Host => Unlaunched'
      PROVE  DeliveryInv'
  <2>1. CASE surface' = surface
    BY <1>1, <2>1
  <2>2. CASE /\ surface' \in SurfaceRecord
             /\ surface'.applied = Append(surface.applied, Id(r))
             /\ surface'.source = r.seq /\ surface'.revision = r.seq
             /\ r.seq = Len(surface.applied) + 1
             /\ surface'.status # "absent"
    <3>1. SurfaceOK'
      BY <1>p, <2>2 DEF SurfaceOK, SurfaceRecord, Ids
    <3>2. DeliveredInOrder'
      BY <1>t, <1>2, <2>2, OrderGrows
    <3>3. LaunchHeard'
      BY <1>l, <1>2, <2>2 DEF LaunchHeard
    <3>4. HostReported' => HostReported \/ (r.seq = 2 /\ r.by = Host)
      <4>1. surface.applied \in Seq(Ids)
        BY <1>t DEF SurfaceOK, Ids
      <4>2. CASE Len(surface.applied) < 1
        BY <2>2, <4>1, <4>2 DEF HostReported
      <4>3. CASE Len(surface.applied) = 1
        BY <2>2, <4>1, <4>3 DEF HostReported, Id
      <4>4. CASE Len(surface.applied) > 1
        BY <2>2, <4>1, <4>4 DEF HostReported
      <4>5. \/ Len(surface.applied) < 1
            \/ Len(surface.applied) = 1
            \/ Len(surface.applied) > 1
        <5>1. Len(surface.applied) \in Nat
          BY <4>1
        <5>2. \A n \in Nat : n < 1 \/ n = 1 \/ n > 1
          OBVIOUS
        <5> QED BY <5>1, <5>2, Zenon
      <4> QED BY <4>2, <4>3, <4>4, <4>5, Zenon
    <3>5. HostEnded'
      BY <1>t, <1>2, <3>4, StaysUnlaunched DEF HostEnded
    <3> QED BY <1>p, <3>1, <3>2, <3>3, <3>5 DEF DeliveryInv
  <2> QED BY <1>t, <1>2, <2>1, <2>2, CommitApplies
<1>3. CASE LaunchStarted
  <2> DEFINE r == LaunchEvent(1, "Started")
  <2>1. r.seq = 1 /\ Id(r) \in Ids
    BY DEF LaunchEvent, Id, Ids
  <2>2. launch = "new" /\ launch' # "new" /\ log' = log /\ surface' \in {surface, AfterCommit(r)}
    BY <1>3 DEF LaunchStarted, relayVars
  <2>3. surface.status = "absent"
    BY <1>t, <2>2 DEF LaunchHeard
  <2> HIDE DEF r
  <2> QED BY <1>1, <1>2, <2>1, <2>2, <2>3
<1>4. CASE /\ LaunchReport /\ CommitAdmits(LaunchEvent(2, "Failed"))
           /\ surface' = AfterCommit(LaunchEvent(2, "Failed"))
  <2> DEFINE r == LaunchEvent(2, "Failed")
  <2>1. r.seq = 2 /\ r.by = Host /\ Id(r) \in Ids
    BY DEF LaunchEvent, Id, Ids
  <2>2. launch = "report" /\ launch' = "fail" /\ log' = log /\ UNCHANGED <<task, wk>>
    BY <1>4 DEF LaunchReport, relayVars
  <2>3. log = <<>>
    BY <1>t, <2>2 DEF LaunchHeard
  <2>4. Unlaunched'
    BY <1>t, <2>2 DEF LaunchFirst, Unlaunched
  <2>5. \/ IsDuplicate(r)
        \/ surface.status = "absent" /\ r.seq = 1
        \/ Running /\ r.seq = surface.revision + 1 /\ r.seq = surface.source + 1
    BY <1>4 DEF CommitAdmits
  <2>6. surface' = AfterCommit(r)
    BY <1>4
  <2> HIDE DEF r
  <2> QED BY <1>2, <2>1, <2>2, <2>3, <2>4, <2>5, <2>6
<1>5. CASE DrainRecord /\ CommitAdmits(Head(page)) /\ surface' = AfterCommit(Head(page))
  <2> DEFINE r == Head(page)
  <2>1. page # <<>> /\ actor = "drain" /\ launch' = launch /\ log' = log
    BY <1>5 DEF DrainRecord, relayVars
  <2>2. r = page[1] /\ 1 \in DOMAIN page /\ r \in Records
    BY <1>t, <2>1 DEF SurfaceOK
  <2>3. r.seq \in DOMAIN log /\ log[r.seq] = r
    BY <1>t, <2>2 DEF PageInLog
  <2>4. r.seq \in Nat /\ Id(r) \in Ids /\ r.by # Host
    BY <1>n, <2>2 DEF Records, Id, Ids
  <2>5. launch # "new"
    BY <1>t, <2>1 DEF LaunchHeard
  <2>6. \/ IsDuplicate(r)
        \/ surface.status = "absent" /\ r.seq = 1
        \/ Running /\ r.seq = surface.revision + 1 /\ r.seq = surface.source + 1
    BY <1>5 DEF CommitAdmits
  <2>7. surface' = AfterCommit(r)
    BY <1>5
  <2> HIDE DEF r
  <2> QED BY <1>2, <2>1, <2>3, <2>4, <2>5, <2>6, <2>7
<1>6. ASSUME NEW st \in Settled, surface' = [surface EXCEPT !.status = st, !.revision = @ + 1],
             UNCHANGED log, actor \in {"settle", "stopped"}
      PROVE  DeliveryInv'
  <2>1. /\ surface'.status = st /\ UNCHANGED <<surface.source, surface.applied>>
        /\ st \notin {"absent", "Running"}
    BY <1>t, <1>6 DEF SurfaceOK, Settled
  <2>2. SurfaceOK'
    <3>1. surface.revision + 1 \in Nat /\ surface \in SurfaceRecord
      BY <1>t DEF SurfaceOK, SurfaceRecord, Ids
    <3>2. surface' = [surface EXCEPT !.status = st, !.revision = surface.revision + 1]
      BY <1>6
    <3>3. surface' \in SurfaceRecord
      BY <3>1, <3>2 DEF SurfaceRecord
    <3> QED BY <1>p, <3>3 DEF SurfaceOK, SurfaceRecord, Ids
  <2>3. DeliveredInOrder'
    BY <1>t, <1>6, <2>1 DEF DeliveredInOrder, Running
  <2>4. HostEnded'
    BY <1>t, <2>1, StaysUnlaunched DEF HostEnded, HostReported
  <2>5. LaunchHeard'
    BY <1>t, <1>l, <1>6, <2>1 DEF LaunchHeard
  <2> QED BY <1>p, <2>2, <2>3, <2>4, <2>5 DEF DeliveryInv
<1> QED BY <1>1, <1>3, <1>4, <1>5, <1>6, SurfaceMoves

(* DeliveryInv holds of every behaviour.                                   *)
LEMMA DeliveryHolds == Spec => []DeliveryInv
  BY ScanHolds, DeliveryInit, DeliveryStep, PublishersFenced, PTL DEF Spec

(* DeliveredInOrder: over failed commits, restarts and takeovers, the      *)
(* surface applies the launch's event and then the frames of the relay one *)
(* by one, in their order and once each.                                   *)
THEOREM RelayDelivers == Spec => []DeliveredInOrder
<1>1. DeliveryInv => DeliveredInOrder
  BY DEF DeliveryInv
<1> QED BY <1>1, DeliveryHolds, PTL

(* TypeOK: the task record, the workers, the relay file and the child on   *)
(* the surface keep their types.                                           *)
THEOREM RelayTypes == Spec => []TypeOK
<1>1. EndInv /\ ScanInv /\ DeliveryInv => TypeOK
  BY DEF EndInv, ScanInv, DeliveryInv, TypeOK
<1> QED BY <1>1, PublishersFenced, ScanHolds, DeliveryHolds, PTL
-----------------------------------------------------------------------------
(***************************************************************************)
(* How a detached child ends: a one-shot thread closes only when its       *)
(* child's frames are delivered (ClosedDelivered), and the registry, the   *)
(* relay and the surface agree on the outcome (OutcomesAgree).             *)
(*                                                                         *)
(* CloseInv adds that a process with the lease which has not marked the    *)
(* task running works for a task that has not ended, unless it is to stop: *)
(* so a settled task stays settled.                                        *)
(* FateInv follows the leases: a process that had one after the worker     *)
(* keeps the worker from ever ending the task, so that a frame which says  *)
(* Failed and a task its worker completed exclude each other.              *)
(***************************************************************************)
(* A worker under its lease that has not marked the task running yet: the  *)
(* task has not ended, unless it is to stop.                               *)
LeasedFenced ==
    \A w \in Workers :
       wk[w].pc = "leased" /\ HoldsLease(w) /\ ~task.stop => ~TaskSettled

StopShown == task.status \in {"Stopping", "Stopped"} => task.stop

CloseInv == LeasedFenced /\ StopShown /\ ClosedDelivered

-----------------------------------------------------------------------------
(* Who had a lease.                                                        *)
Unleased == {"none", "spawned"}

LeaseHistory ==
    /\ task.owner \in Workers => task.epoch > 0
    /\ \A w \in Workers : wk[w].epoch <= task.epoch
    /\ \A w \in Workers : wk[w].pc \in Unleased => wk[w].epoch = 0
    /\ ~task.stop /\ wk[Worker].pc \in Unleased => task.epoch = 0
    /\ ~task.stop /\ (\E r \in Recoverers : wk[r].epoch > 0) => task.owner # Worker

(* The task ends after its launch, and is not completed once it is to stop.*)
TaskHistory ==
    /\ task.status = "Completed" => ~task.stop
    /\ ~task.stop /\ launch # "done" => ~TaskSettled

(* Until the launch is over there is no worker process.                    *)
Launched == launch # "done" => wk[Worker].pc = "none" /\ ~task.pid /\ ~reaper

(* The run is over, and nothing more is published.                         *)
Ended == {"settle", "exited"}

(* What a worker's last frame and its outcome say of each other.           *)
FrameHistory ==
    /\ \A w \in Workers :
          /\ wk[w].pc \notin Ended => wk[w].pending \notin {"Completed", "Failed"}
          /\ wk[w].pc = "settle" /\ wk[w].outcome = "Completed" => HasFrame("Completed")
    /\ \A i \in DOMAIN log :
          /\ wk[log[i].by].epoch > 0
          /\ log[i].kind = "Failed" => /\ wk[log[i].by].outcome = "Failed"
                                       /\ wk[log[i].by].pc \in Ended
    /\ task.status = "Completed" => HasFrame("Completed")
    /\ task.status = "Completed" /\ task.owner = Worker =>
          wk[Worker].outcome = "Completed" /\ wk[Worker].pc = "exited"

(* Why the surface shows what it shows.                                    *)
SurfaceHistory ==
    /\ surface.status = "Completed" => HasFrame("Completed")
    /\ surface.status = "Stopped" => task.stop
    /\ surface.status \in {"absent", "Failed"} /\ ~task.stop =>
          HasFrame("Failed") \/ task.status = "Failed" \/ launch # "done"
    /\ launch = "spawn" /\ ~task.stop => surface.status = "Running"

FateInv == LeaseHistory /\ TaskHistory /\ Launched /\ FrameHistory /\ SurfaceHistory

-----------------------------------------------------------------------------
(* What a step may do to the task, to a worker and to the frames.          *)

LEMMA Names == NoOwner \notin Workers /\ Worker \in Workers /\ Worker \notin Recoverers
  BY RelayNames DEF Workers

(* The steps that leave the task alone.                                    *)
LEMMA QuietTask ==
    ASSUME EndInv, QuietStep \/ UNCHANGED vars
    PROVE  UNCHANGED <<task, wk>>
  BY DEF QuietStep, vars, DiskFault, LaunchStarted, LaunchReport, Poll, DrainRecord, DrainMore,
     Strand, PollEnds, StopGiveUp, StopSurface, HostCrash, Resumed, CloseOneShot

(* A stop request is never withdrawn.                                      *)
LEMMA StopStays ==
    ASSUME EndInv, [Next]_vars, task.stop
    PROVE  task'.stop
<1>t. TaskOK
  BY DEF EndInv
<1>1. CASE \E w \in Workers : \/ AcquireLease(w) \/ MarkRunning(w) \/ SettleTask(w)
  BY <1>t, <1>1 DEF AcquireLease, MarkRunning, SettleTask, TaskOK
<1>2. CASE \E w \in Workers : PublishStep(w) \/ EndRun(w) \/ WorkerCrash(w)
  BY <1>2, PublishMoves DEF EndRun, WorkerCrash, EndInv
<1>3. CASE LeaseExpires \/ Reap \/ LaunchSpawn \/ LaunchFail \/ StopMark \/ StopKill \/ Restart
  BY <1>t, <1>3 DEF LeaseExpires, Reap, LaunchSpawn, LaunchFail, StopMark, StopKill, Restart,
     TaskOK
<1>4. CASE QuietStep \/ UNCHANGED vars
  BY <1>4, QuietTask
<1> QED BY <1>1, <1>2, <1>3, <1>4, NextSplit

(* A settled task stays as it ended, unless it is to stop.                 *)
LEMMA SettledStays ==
    ASSUME EndInv, LeasedFenced, [Next]_vars, TaskSettled, ~task.stop
    PROVE  /\ TaskSettled' /\ ~task'.stop
           /\ \/ task'.status = task.status /\ task'.owner = task.owner
              \/ launch = "fail" /\ task'.status = "Failed"
<1>t. TaskOK
  BY DEF EndInv
<1>1. ASSUME NEW w \in Workers, AcquireLease(w) PROVE task' = task
  BY <1>1 DEF AcquireLease
<1>2. ASSUME NEW w \in Workers, MarkRunning(w) PROVE task' = task
  BY <1>2 DEF MarkRunning, LeasedFenced
<1>3. ASSUME NEW w \in Workers, SettleTask(w) PROVE task' = task
  BY <1>3 DEF SettleTask
<1>4. CASE \E w \in Workers : PublishStep(w) \/ EndRun(w) \/ WorkerCrash(w)
  BY <1>4, PublishMoves DEF EndRun, WorkerCrash, EndInv, TaskSettled
<1>5. CASE LeaseExpires \/ Reap \/ LaunchSpawn \/ StopMark \/ Restart
  BY <1>t, <1>5 DEF LeaseExpires, Reap, LaunchSpawn, StopMark, Restart, TaskSettled
<1>6. CASE LaunchFail
  BY <1>t, <1>6 DEF LaunchFail, TaskOK, TaskSettled, Settled
<1>7. CASE StopKill
  BY <1>7 DEF StopKill, EndInv, StopMarked
<1>8. CASE QuietStep \/ UNCHANGED vars
  BY <1>8, QuietTask DEF TaskSettled
<1> QED BY <1>1, <1>2, <1>3, <1>4, <1>5, <1>6, <1>7, <1>8, NextSplit DEF TaskSettled

(* Frames stay where they are.                                             *)
LEMMA FramesStay ==
    ASSUME ScanInv, [Next]_vars
    PROVE  \A i \in DOMAIN log : i \in DOMAIN log' /\ log'[i] = log[i]
<1>1. CASE log' = log
  BY <1>1
<1>2. ASSUME NEW r, log' = Append(log, r)
      PROVE  \A i \in DOMAIN log : i \in DOMAIN log' /\ log'[i] = log[i]
  <2>1. log \in Seq(Records)
    BY DEF ScanInv, RelayOK
  <2>2. DOMAIN log = 1 .. Len(log) /\ Len(log) \in Nat
    BY <2>1, LenProperties
  <2> QED BY <1>2, <2>1, <2>2
<1> QED BY <1>1, <1>2, LogGrows

(* A frame is appended by a publish.                                       *)
LEMMA LogMoves ==
    ASSUME [Next]_vars
    PROVE  log' = log \/ \E w \in Workers : PublishStep(w)
<1>1. CASE \E w \in Workers : AcquireLease(w) \/ MarkRunning(w) \/ SettleTask(w)
  BY <1>1 DEF AcquireLease, MarkRunning, SettleTask, relayVars
<1>2. CASE \E w \in Workers : EndRun(w) \/ WorkerCrash(w)
  BY <1>2 DEF EndRun, WorkerCrash, relayVars
<1>3. CASE LeaseExpires \/ Reap \/ LaunchSpawn \/ LaunchFail \/ Restart \/ StopMark \/ StopKill
  BY <1>3 DEF LeaseExpires, Reap, LaunchSpawn, LaunchFail, Restart, StopMark, StopKill, relayVars
<1>4. CASE QuietStep \/ UNCHANGED vars
  BY <1>4 DEF QuietStep, vars, relayVars, DiskFault, LaunchStarted, LaunchReport, Poll,
     DrainRecord, DrainMore, Strand, PollEnds, StopGiveUp, StopSurface, HostCrash, Resumed,
     CloseOneShot
<1> QED BY <1>1, <1>2, <1>3, <1>4, NextSplit

(* Nothing is appended once the task is settled.                           *)
LEMMA EndedLog ==
    ASSUME EndInv, [Next]_vars, TaskSettled
    PROVE  log' = log
  BY LogGrows DEF EndInv, PublisherFenced

(* The source cursor never falls.                                          *)
LEMMA SourceGrows ==
    ASSUME EndInv, ScanInv, DeliveryInv, [Next]_vars
    PROVE  surface'.source >= surface.source
<1>1. surface.source \in Nat /\ surface.source = Len(surface.applied) /\ surface \in SurfaceRecord
  BY DEF DeliveryInv, SurfaceOK, DeliveredInOrder, SurfaceRecord, Ids
<1>2. CASE surface' = surface
  BY <1>1, <1>2
<1>3. ASSUME NEW r, r.seq \in Nat, Id(r) \in Ids,
             \/ IsDuplicate(r)
             \/ surface.status = "absent" /\ r.seq = 1
             \/ Running /\ r.seq = surface.revision + 1 /\ r.seq = surface.source + 1,
             surface' = AfterCommit(r)
      PROVE  surface'.source >= surface.source
  <2>1. surface' = surface \/ (surface'.source = r.seq /\ r.seq = Len(surface.applied) + 1)
    BY <1>3, CommitApplies DEF DeliveryInv
  <2> QED BY <1>1, <2>1
<1>4. CASE LaunchStarted
  <2> DEFINE r == LaunchEvent(1, "Started")
  <2>1. surface' = surface \/ surface' = AfterCommit(r)
    BY <1>4 DEF LaunchStarted
  <2>2. r.seq = 1 /\ r.seq \in Nat /\ Id(r) \in Ids
    BY DEF LaunchEvent, Id, Ids
  <2>3. surface.status = "absent"
    BY <1>4 DEF LaunchStarted, DeliveryInv, LaunchHeard
  <2> HIDE DEF r
  <2> QED BY <1>2, <1>3, <2>1, <2>2, <2>3
<1>5. CASE LaunchReport /\ CommitAdmits(LaunchEvent(2, "Failed"))
           /\ surface' = AfterCommit(LaunchEvent(2, "Failed"))
  <2> DEFINE r == LaunchEvent(2, "Failed")
  <2>1. r.seq \in Nat /\ Id(r) \in Ids
    BY DEF LaunchEvent, Id, Ids
  <2> HIDE DEF r
  <2> QED BY <1>3, <1>5, <2>1 DEF CommitAdmits, r
<1>6. CASE DrainRecord /\ CommitAdmits(Head(page)) /\ surface' = AfterCommit(Head(page))
  <2> DEFINE r == Head(page)
  <2>1. page # <<>> /\ page \in Seq(Records)
    BY <1>6 DEF DrainRecord, DeliveryInv, SurfaceOK
  <2>2. r \in Records
    BY <2>1
  <2>3. r.seq \in Nat /\ Id(r) \in Ids
    BY <2>2 DEF Records, Id, Ids
  <2> HIDE DEF r
  <2> QED BY <1>3, <1>6, <2>3 DEF CommitAdmits, r
<1>7. ASSUME NEW st \in Settled, surface' = [surface EXCEPT !.status = st, !.revision = @ + 1]
      PROVE  surface'.source >= surface.source
  BY <1>1, <1>7 DEF SurfaceRecord
<1> QED BY <1>2, <1>4, <1>5, <1>6, <1>7, SurfaceMoves

-----------------------------------------------------------------------------
(* A one-shot thread closes after its child.                               *)

(* What a publish leaves behind: its frame and the point it leads to, or   *)
(* the pending event and a failed outcome, unless the worker goes on.      *)
PublishedAs(w, kind, ok, errs) ==
    /\ \A v \in Workers : v # w => wk'[v] = wk[v]
    /\ wk'[w].epoch = wk[w].epoch
    /\ \/ /\ \E i \in DOMAIN log' : log'[i].kind = Flushing(w, kind)
          /\ wk'[w].pending = "none" /\ wk'[w].outcome = wk[w].outcome
          /\ wk'[w].pc = IF wk[w].pending = "none" THEN ok ELSE wk[w].pc
       \/ /\ wk'[w].pending = Flushing(w, kind) /\ wk'[w].pc \in errs
          /\ wk'[w].outcome = IF wk'[w].pc = wk[w].pc THEN wk[w].outcome ELSE "Failed"
    /\ \/ log' = log
       \/ log' = Append(log, Record(w, Flushing(w, kind))) /\ HoldsLease(w)

LEMMA PublishIs ==
    ASSUME WorkersOK, RelayOK, NEW w \in Workers, NEW kind, NEW ok, NEW errs,
           Publish(w, kind, ok, errs)
    PROVE  PublishedAs(w, kind, ok, errs)
<1> DEFINE K == Flushing(w, kind)
           r == Record(w, K)
<1>w. wk[w] \in WorkerRecord
  BY DEF WorkersOK, WorkerRecord
<1>l. log \in Seq(Records) /\ DOMAIN log = 1 .. Len(log) /\ Len(log) \in Nat
  BY LenProperties DEF RelayOK
<1>k. r.kind = K
  BY DEF Record
<1>1. log' = log \/ (log' = Append(log, r) /\ HoldsLease(w))
  BY DEF Publish, Appended, Refused, Broken, Opened, OpenRefused, relayVars
<1>2. CASE /\ Appended(w, r)
           /\ wk' = [wk EXCEPT ![w].next = @ + 1, ![w].pending = "none",
                               ![w].pc = IF wk[w].pending = "none" THEN ok ELSE @]
  <2> DEFINE pc == IF wk[w].pending = "none" THEN ok ELSE wk[w].pc
             n  == wk[w].next + 1
             u  == [wk[w] EXCEPT !.next = n, !.pending = "none", !.pc = pc]
  <2>1. wk' = [wk EXCEPT ![w] = u]
    BY <1>2 DEF WorkersOK
  <2> HIDE DEF pc, n
  <2>2. /\ u.epoch = wk[w].epoch /\ u.pending = "none" /\ u.outcome = wk[w].outcome
        /\ u.pc = pc
    BY <1>w DEF WorkerRecord
  <2>3. \E i \in DOMAIN log' : log'[i].kind = K
    <3>1. CASE AlreadyApplied(r) /\ log' = log
      BY <1>k, <3>1 DEF AlreadyApplied
    <3>2. CASE log' = Append(log, r)
      <4>1. Len(log) + 1 \in DOMAIN log' /\ log'[Len(log) + 1] = r
        BY <1>l, <3>2
      <4> QED BY <1>k, <4>1
    <3> QED BY <1>2, <3>1, <3>2 DEF Appended
  <2> HIDE DEF u
  <2>4. wk'[w] = u /\ \A v \in Workers : v # w => wk'[v] = wk[v]
    BY <2>1 DEF WorkersOK
  <2> QED BY <1>1, <2>2, <2>3, <2>4 DEF PublishedAs, pc
<1>3. ASSUME NEW pc \in errs,
             wk' = [wk EXCEPT ![w].pending = K, ![w].pc = pc,
                              ![w].outcome = IF pc = wk[w].pc THEN @ ELSE "Failed"]
      PROVE  PublishedAs(w, kind, ok, errs)
  <2> DEFINE o == IF pc = wk[w].pc THEN wk[w].outcome ELSE "Failed"
             u == [wk[w] EXCEPT !.pending = K, !.pc = pc, !.outcome = o]
  <2>1. wk' = [wk EXCEPT ![w] = u]
    BY <1>3 DEF WorkersOK
  <2> HIDE DEF o
  <2>2. u.epoch = wk[w].epoch /\ u.pending = K /\ u.outcome = o /\ u.pc = pc
    BY <1>w DEF WorkerRecord
  <2> HIDE DEF u
  <2>3. wk'[w] = u /\ \A v \in Workers : v # w => wk'[v] = wk[v]
    BY <2>1 DEF WorkersOK
  <2> QED BY <1>1, <1>3, <2>2, <2>3 DEF PublishedAs, o
<1> QED BY <1>2, <1>3 DEF Publish

LEMMA PublishStepIs ==
    ASSUME WorkersOK, RelayOK, NEW w \in Workers, PublishStep(w)
    PROVE  /\ UNCHANGED <<task, hostVars>>
           /\ \/ wk[w].pc = "start" /\ PublishedAs(w, "Started", "run", {"settle"})
              \/ wk[w].pc = "run" /\ PublishedAs(w, "Progress", "run", {"run", "end"})
              \/ wk[w].pc = "publish" /\ PublishedAs(w, wk[w].outcome, "settle", {"settle"})
<1>1. UNCHANGED <<task, hostVars>>
  BY PublishMoves
<1>2. CASE wk[w].pc = "start" /\ Publish(w, "Started", "run", {"settle"})
  BY <1>1, <1>2, PublishIs
<1>3. CASE wk[w].pc = "run" /\ Publish(w, "Progress", "run", {"run", "end"})
  BY <1>1, <1>3, PublishIs
<1>4. CASE wk[w].pc = "publish" /\ Publish(w, wk[w].outcome, "settle", {"settle"})
  BY <1>1, <1>4, PublishIs
<1> QED BY <1>2, <1>3, <1>4 DEF PublishStep, PublishStarted, PublishProgress, PublishCompleted

LEMMA PublishPoints ==
    ASSUME WorkersOK, RelayOK, NEW w \in Workers, PublishStep(w)
    PROVE  /\ \A v \in Workers : v # w => wk'[v] = wk[v]
           /\ wk'[w].pc \in Publishing \cup {"settle"} /\ wk'[w].epoch = wk[w].epoch
  BY PublishStepIs DEF PublishedAs, Publishing

(* The end of a run, and of a process.                                     *)
LEMMA RunEnds ==
    ASSUME WorkersOK, NEW w \in Workers, EndRun(w) \/ WorkerCrash(w)
    PROVE  /\ UNCHANGED <<task, log, hostVars>>
           /\ \A v \in Workers : v # w => wk'[v] = wk[v]
           /\ wk[w].pc # "none" /\ wk'[w].epoch = wk[w].epoch
           /\ wk'[w].pending = wk[w].pending
           /\ \/ wk[w].pc \in Publishing /\ wk'[w].pc = "publish"
              \/ wk[w].pc \in Publishing /\ wk'[w].pc = "settle" /\ wk'[w].outcome = "Failed"
              \/ wk'[w].pc = "exited" /\ wk'[w].outcome = wk[w].outcome
<1>w. wk[w] \in WorkerRecord
  BY DEF WorkersOK, WorkerRecord
<1>1. UNCHANGED <<task, log, hostVars>> /\ wk[w].pc # "none"
  BY DEF EndRun, WorkerCrash, relayVars
<1>2. CASE EndRun(w)
  <2>1. PICK outcome \in {"Completed", "Failed"}, committed \in BOOLEAN :
           wk' = [wk EXCEPT ![w].pc = IF committed THEN "publish" ELSE "settle",
                            ![w].outcome = IF committed THEN outcome ELSE "Failed"]
    BY <1>2 DEF EndRun
  <2> DEFINE pc == IF committed THEN "publish" ELSE "settle"
             o  == IF committed THEN outcome ELSE "Failed"
             u  == [wk[w] EXCEPT !.pc = pc, !.outcome = o]
  <2>2. wk' = [wk EXCEPT ![w] = u]
    BY <2>1 DEF WorkersOK
  <2>3. pc = "publish" \/ (pc = "settle" /\ o = "Failed")
    OBVIOUS
  <2> HIDE DEF pc, o
  <2>4. u.epoch = wk[w].epoch /\ u.pending = wk[w].pending /\ u.pc = pc /\ u.outcome = o
    BY <1>w DEF WorkerRecord
  <2> HIDE DEF u
  <2>5. wk'[w] = u /\ \A v \in Workers : v # w => wk'[v] = wk[v]
    BY <2>2 DEF WorkersOK
  <2>6. wk[w].pc \in Publishing
    BY <1>2 DEF EndRun, Publishing
  <2> QED BY <1>1, <2>3, <2>4, <2>5, <2>6
<1>3. CASE WorkerCrash(w)
  <2> DEFINE u  == [wk[w] EXCEPT !.pc = "exited"]
  <2>1. wk' = [wk EXCEPT ![w] = u]
    BY <1>3 DEF WorkerCrash, WorkersOK
  <2>2. /\ u.epoch = wk[w].epoch /\ u.pending = wk[w].pending /\ u.pc = "exited"
        /\ u.outcome = wk[w].outcome
    BY <1>w DEF WorkerRecord
  <2> HIDE DEF u
  <2>3. wk'[w] = u /\ \A v \in Workers : v # w => wk'[v] = wk[v]
    BY <2>1 DEF WorkersOK
  <2> QED BY <1>1, <2>2, <2>3
<1> QED BY <1>2, <1>3

LEMMA LeasedStep ==
    ASSUME EndInv, ScanInv, LeasedFenced, [Next]_vars
    PROVE  LeasedFenced'
<1>t. TaskOK /\ WorkersOK /\ LaunchFirst /\ StopMarked /\ RelayOK
  BY DEF EndInv, ScanInv
<1>1. ASSUME NEW w \in Workers, AcquireLease(w) PROVE LeasedFenced'
  BY <1>t, <1>1 DEF AcquireLease, LeasedFenced, HoldsLease, TaskSettled, TaskOK, WorkersOK
<1>2. ASSUME NEW w \in Workers, MarkRunning(w) PROVE LeasedFenced'
  BY <1>t, <1>2 DEF MarkRunning, LeasedFenced, HoldsLease, TaskSettled, Settled, TaskOK, WorkersOK
<1>3. ASSUME NEW w \in Workers, SettleTask(w) PROVE LeasedFenced'
  BY <1>t, <1>3 DEF SettleTask, LeasedFenced, HoldsLease, TaskSettled, TaskOK, WorkersOK
<1>4. ASSUME NEW w \in Workers, PublishStep(w) PROVE LeasedFenced'
  BY <1>t, <1>4, PublishMoves, PublishPoints DEF LeasedFenced, HoldsLease, TaskSettled, Publishing
<1>5. ASSUME NEW w \in Workers, EndRun(w) \/ WorkerCrash(w) PROVE LeasedFenced'
  BY <1>t, <1>5, RunEnds DEF LeasedFenced, HoldsLease, TaskSettled
<1>6. CASE LeaseExpires \/ LaunchSpawn
  BY <1>t, <1>6, Names DEF LeaseExpires, LaunchSpawn, LeasedFenced, HoldsLease, TaskSettled,
     Settled, TaskOK, WorkersOK
<1>7. CASE Reap
  BY <1>t, <1>7, Names DEF Reap, LeasedFenced, HoldsLease, TaskSettled, TaskOK
<1>8. CASE LaunchFail
  BY <1>t, <1>8 DEF LaunchFail, LaunchFirst, LeasedFenced, TaskOK
<1>9. CASE StopMark \/ StopKill
  BY <1>t, <1>9 DEF StopMark, StopKill, StopMarked, LeasedFenced, TaskOK
<1>10. CASE Restart
  BY <1>t, <1>10, Names DEF Restart, LeasedFenced, HoldsLease, TaskSettled, TaskOK
<1>11. CASE QuietStep \/ UNCHANGED vars
  BY <1>11, QuietTask DEF LeasedFenced, HoldsLease, TaskSettled
<1> QED BY <1>1, <1>2, <1>3, <1>4, <1>5, <1>6, <1>7, <1>8, <1>9, <1>10, <1>11, NextSplit

LEMMA StopShownStep ==
    ASSUME EndInv, StopShown, [Next]_vars
    PROVE  StopShown'
<1>t. TaskOK /\ WorkersOK /\ StopMarked
  BY DEF EndInv
<1>1. ASSUME NEW w \in Workers, AcquireLease(w) \/ MarkRunning(w) PROVE StopShown'
  BY <1>t, <1>1 DEF AcquireLease, MarkRunning, StopShown, TaskOK
<1>6. ASSUME NEW w \in Workers, SettleTask(w) PROVE StopShown'
  <2>1. wk[w].outcome \in {"Completed", "Failed"}
    BY <1>t DEF WorkersOK
  <2>2. task'.status \in {task.status, wk[w].outcome} /\ task'.stop = task.stop
    BY <1>t, <1>6 DEF SettleTask, TaskOK
  <2> QED BY <2>1, <2>2 DEF StopShown
<1>2. CASE \E w \in Workers : PublishStep(w) \/ EndRun(w) \/ WorkerCrash(w)
  BY <1>t, <1>2, PublishMoves DEF EndRun, WorkerCrash, StopShown
<1>3. CASE LeaseExpires \/ Reap \/ LaunchSpawn \/ LaunchFail \/ Restart
  BY <1>t, <1>3 DEF LeaseExpires, Reap, LaunchSpawn, LaunchFail, Restart, StopShown, TaskOK
<1>4. CASE StopMark \/ StopKill
  BY <1>t, <1>4 DEF StopMark, StopKill, StopMarked, StopShown, TaskOK
<1>5. CASE QuietStep \/ UNCHANGED vars
  BY <1>5, QuietTask DEF StopShown
<1> QED BY <1>1, <1>2, <1>3, <1>4, <1>5, <1>6, NextSplit

(* The thread closes once, and a binding that was taken over stays so.     *)
LEMMA HostStep ==
    ASSUME WorkersOK, [Next]_vars
    PROVE  /\ closed' = closed \/ CloseOneShot
           /\ binding' => binding
<1>1. CASE \E w \in Workers : AcquireLease(w) \/ MarkRunning(w) \/ SettleTask(w)
  BY <1>1 DEF AcquireLease, MarkRunning, SettleTask, hostVars
<1>2. CASE \E w \in Workers : PublishStep(w) \/ EndRun(w) \/ WorkerCrash(w)
  BY <1>2, PublishMoves DEF EndRun, WorkerCrash, hostVars
<1>3. CASE LeaseExpires \/ Reap \/ LaunchSpawn \/ LaunchFail \/ Restart \/ StopMark \/ StopKill
  BY <1>3 DEF LeaseExpires, Reap, LaunchSpawn, LaunchFail, Restart, StopMark, StopKill, hostVars
<1>4. CASE QuietStep \/ UNCHANGED vars
  BY <1>4 DEF QuietStep, vars, hostVars, DiskFault, LaunchStarted, LaunchReport, Poll,
     DrainRecord, DrainMore, Strand, PollEnds, StopGiveUp, StopSurface, HostCrash, Resumed,
     CloseOneShot
<1> QED BY <1>1, <1>2, <1>3, <1>4, NextSplit

LEMMA CloseInit == Init => CloseInv
  BY DEF Init, CloseInv, LeasedFenced, StopShown, ClosedDelivered

LEMMA CloseStep ==
    EndInv /\ ScanInv /\ DeliveryInv /\ CloseInv /\ [Next]_vars => CloseInv'
<1> SUFFICES ASSUME EndInv, ScanInv, DeliveryInv, CloseInv, [Next]_vars
             PROVE  CloseInv'
  OBVIOUS
<1>1. LeasedFenced' /\ StopShown'
  BY LeasedStep, StopShownStep DEF CloseInv
<1>2. /\ task.stop => task'.stop
      /\ ~binding => ~binding'
  BY StopStays, HostStep DEF EndInv
<1>3. ASSUME TaskSettled, ~task.stop, Len(log) <= surface.source
      PROVE  TaskSettled' /\ Len(log') <= surface'.source
  <2>1. TaskSettled' /\ log' = log
    BY <1>3, SettledStays, EndedLog DEF CloseInv
  <2>2. /\ surface'.source >= surface.source /\ surface.source \in Nat /\ Len(log) \in Nat
    BY SourceGrows, LenProperties DEF DeliveryInv, SurfaceOK, ScanInv, RelayOK
  <2>3. surface'.source \in Nat
    BY DeliveryStep DEF DeliveryInv, SurfaceOK
  <2> QED BY <1>3, <2>1, <2>2, <2>3
<1>4. ASSUME closed PROVE ClosedDelivered'
  BY <1>2, <1>3, <1>4 DEF CloseInv, ClosedDelivered
<1>5. ASSUME CloseOneShot PROVE ClosedDelivered'
  <2>1. ~ClosePending
    BY <1>5 DEF CloseOneShot
  <2>2. task.stop \/ ~binding \/ (TaskSettled /\ ~(Len(log) > surface.source))
    BY <2>1 DEF ClosePending, ReplayAllowed, CloseInv, StopShown
  <2>3. surface.source \in Nat /\ Len(log) \in Nat
    BY LenProperties DEF DeliveryInv, SurfaceOK, ScanInv, RelayOK
  <2> QED BY <1>2, <1>3, <2>2, <2>3 DEF ClosedDelivered
<1>6. ClosedDelivered'
  <2>1. closed' => closed \/ CloseOneShot
    BY HostStep DEF EndInv
  <2> QED BY <1>4, <1>5, <2>1 DEF ClosedDelivered, CloseInv
<1> QED BY <1>1, <1>6 DEF CloseInv

LEMMA CloseHolds == Spec => []CloseInv
  BY PublishersFenced, ScanHolds, DeliveryHolds, CloseInit, CloseStep, PTL DEF Spec

(* ClosedDelivered: a one-shot thread closes only when every frame of its  *)
(* child has reached the surface cursor, unless the child was stopped or   *)
(* resumed elsewhere (detached_relay_pending_for_close,                    *)
(* one_shot_close_ready), and nothing undoes that later.                   *)
THEOREM ClosesAfterDelivery == Spec => []ClosedDelivered
<1>1. CloseInv => ClosedDelivered
  BY DEF CloseInv
<1> QED BY <1>1, CloseHolds, PTL

-----------------------------------------------------------------------------
(* Leases.                                                                 *)

LEMMA FateInit == Init => FateInv
<1> SUFFICES ASSUME Init PROVE FateInv OBVIOUS
<1>1. LeaseHistory /\ TaskHistory /\ Launched
  BY Names DEF Init, LeaseHistory, TaskHistory, Launched, TaskSettled, Settled, Workers
<1>2. FrameHistory /\ SurfaceHistory
  BY Names DEF Init, FrameHistory, SurfaceHistory, Publishing
<1> QED BY <1>1, <1>2 DEF FateInv

(* A step that grants no lease.                                            *)
LEMMA LeaseKept ==
    ASSUME EndInv, LeaseHistory, task'.epoch = task.epoch, task.stop => task'.stop,
           task'.owner \in {task.owner, NoOwner},
           \A w \in Workers : /\ wk'[w].epoch = wk[w].epoch
                              /\ wk'[w].pc \in Unleased => wk[w].pc \in Unleased
    PROVE  LeaseHistory'
  BY Names DEF LeaseHistory, Workers

LEMMA LeaseGranted ==
    ASSUME EndInv, LeaseHistory, NEW w \in Workers, AcquireLease(w)
    PROVE  LeaseHistory'
<1>t. TaskOK /\ WorkersOK
  BY DEF EndInv
<1>1. CASE TaskSettled \/ (task.owner \notin {w, NoOwner} /\ task.live)
  <2>1. task' = task /\ \A v \in Workers : /\ wk'[v].epoch = wk[v].epoch
                                           /\ wk'[v].pc \in Unleased => wk[v].pc \in Unleased
    BY <1>t, <1>1 DEF AcquireLease, WorkersOK, Unleased
  <2> QED BY <2>1, LeaseKept
<1>2. CASE ~(TaskSettled \/ (task.owner \notin {w, NoOwner} /\ task.live))
  <2>1. /\ task'.epoch = task.epoch + 1 /\ task'.owner = w /\ task'.stop = task.stop
        /\ task.epoch \in Nat
    BY <1>t, <1>2 DEF AcquireLease, TaskOK
  <2>2. /\ wk'[w].pc = "leased" /\ wk'[w].epoch = task.epoch + 1
        /\ \A v \in Workers : wk[v].epoch \in Nat /\ (v # w => wk'[v] = wk[v])
    BY <1>t, <1>2 DEF AcquireLease, WorkersOK
  <2>3. CASE w = Worker
    <3>1. ~task.stop => task.epoch = 0
      BY <2>3 DEF AcquireLease, LeaseHistory, Unleased
    <3>2. \A r \in Recoverers : r \in Workers /\ r # w
      BY <2>3, Names DEF Workers
    <3>3. ~task.stop => \A r \in Recoverers : ~(wk'[r].epoch > 0)
      BY <2>2, <3>1, <3>2 DEF LeaseHistory
    <3> QED BY <2>1, <2>2, <2>3, <3>3 DEF LeaseHistory, Unleased
  <2>4. CASE w # Worker
    <3>1. task.epoch > 0
      BY <2>4 DEF AcquireLease
    <3>2. ~task.stop => wk[Worker].pc \notin Unleased
      BY <2>1, <3>1 DEF LeaseHistory
    <3>3. wk'[Worker] = wk[Worker]
      BY <2>2, <2>4, Names
    <3> QED BY <2>1, <2>2, <2>4, <3>2, <3>3 DEF LeaseHistory, Unleased
  <2> QED BY <2>3, <2>4
<1> QED BY <1>1, <1>2

(* Where mark_running_with_lease and the settlement leave the worker.      *)
LEMMA MarkIs ==
    ASSUME EndInv, NEW w \in Workers, MarkRunning(w)
    PROVE  /\ wk[w].pc = "leased" /\ UNCHANGED <<log, hostVars>>
           /\ \A v \in Workers : v # w => wk'[v] = wk[v]
           /\ wk'[w].epoch = wk[w].epoch /\ wk'[w].pending = wk[w].pending
           /\ wk'[w].outcome = wk[w].outcome
           /\ task'.epoch = task.epoch /\ task'.owner = task.owner /\ task'.stop = task.stop
           /\ task'.pid = task.pid
           /\ \/ /\ wk'[w].pc \in {"start", "run"} /\ task'.status = "Running"
                 /\ HoldsLease(w) /\ ~task.stop
              \/ wk'[w].pc = "exited" /\ task' = task
<1>t. TaskOK /\ WorkersOK
  BY DEF EndInv
<1>w. wk[w] \in WorkerRecord
  BY <1>t DEF WorkersOK, WorkerRecord
<1>1. wk[w].pc = "leased" /\ UNCHANGED <<log, hostVars>>
  BY DEF MarkRunning, relayVars
<1>2. CASE HoldsLease(w) /\ ~task.stop
  <2> DEFINE pc == IF w = Worker THEN "start" ELSE "run"
             n  == IF w = Worker THEN 1 ELSE Len(log) + 1
             u  == [wk[w] EXCEPT !.pc = pc, !.next = n]
  <2>1. wk' = [wk EXCEPT ![w] = u] /\ task' = [task EXCEPT !.status = "Running"]
    BY <1>t, <1>2 DEF MarkRunning, WorkersOK
  <2>2. pc \in {"start", "run"}
    OBVIOUS
  <2> HIDE DEF pc, n
  <2>3. /\ u.epoch = wk[w].epoch /\ u.pending = wk[w].pending /\ u.outcome = wk[w].outcome
        /\ u.pc = pc
    BY <1>w DEF WorkerRecord
  <2> HIDE DEF u
  <2>4. wk'[w] = u /\ \A v \in Workers : v # w => wk'[v] = wk[v]
    BY <1>t, <2>1 DEF WorkersOK
  <2>5. /\ task'.epoch = task.epoch /\ task'.owner = task.owner /\ task'.stop = task.stop
        /\ task'.pid = task.pid /\ task'.status = "Running"
    BY <1>t, <2>1 DEF TaskOK
  <2> QED BY <1>1, <1>2, <2>2, <2>3, <2>4, <2>5
<1>3. CASE ~(HoldsLease(w) /\ ~task.stop)
  <2> DEFINE u  == [wk[w] EXCEPT !.pc = "exited"]
  <2>1. wk' = [wk EXCEPT ![w] = u] /\ task' = task
    BY <1>t, <1>3 DEF MarkRunning, WorkersOK
  <2>2. /\ u.epoch = wk[w].epoch /\ u.pending = wk[w].pending /\ u.outcome = wk[w].outcome
        /\ u.pc = "exited"
    BY <1>w DEF WorkerRecord
  <2> HIDE DEF u
  <2>3. wk'[w] = u /\ \A v \in Workers : v # w => wk'[v] = wk[v]
    BY <1>t, <2>1 DEF WorkersOK
  <2> QED BY <1>1, <2>1, <2>2, <2>3
<1> QED BY <1>2, <1>3

LEMMA SettleIs ==
    ASSUME EndInv, NEW w \in Workers, SettleTask(w)
    PROVE  /\ wk[w].pc = "settle" /\ UNCHANGED <<log, hostVars>>
           /\ \A v \in Workers : v # w => wk'[v] = wk[v]
           /\ wk'[w].pc = "exited" /\ wk'[w].epoch = wk[w].epoch
           /\ wk'[w].pending = wk[w].pending /\ wk'[w].outcome = wk[w].outcome
           /\ \/ task' = task
              \/ /\ task'.epoch = task.epoch /\ task'.owner = task.owner /\ task'.stop = task.stop
                 /\ task'.pid = FALSE /\ task'.status = wk[w].outcome
                 /\ HoldsLease(w) /\ ~TaskSettled /\ ~task.stop
<1>t. TaskOK /\ WorkersOK
  BY DEF EndInv
<1>1. wk[w].pc = "settle" /\ UNCHANGED <<log, hostVars>>
  BY DEF SettleTask, relayVars
<1>2. /\ \A v \in Workers : v # w => wk'[v] = wk[v]
      /\ wk'[w].pc = "exited" /\ wk'[w].epoch = wk[w].epoch
      /\ wk'[w].pending = wk[w].pending /\ wk'[w].outcome = wk[w].outcome
  BY <1>t DEF SettleTask, WorkersOK
<1>3. CASE task' = task
  BY <1>1, <1>2, <1>3
<1>4. CASE /\ HoldsLease(w) /\ ~TaskSettled /\ ~task.stop
           /\ task' = [task EXCEPT !.status = wk[w].outcome, !.pid = FALSE]
  <2>1. /\ task'.epoch = task.epoch /\ task'.owner = task.owner /\ task'.stop = task.stop
        /\ task'.status = wk[w].outcome
    BY <1>t, <1>4 DEF TaskOK
  <2>2. task'.pid = FALSE
    BY <1>t, <1>4 DEF TaskOK
  <2> QED BY <1>1, <1>2, <1>4, <2>1, <2>2
<1> QED BY <1>3, <1>4 DEF SettleTask

LEMMA SpawnIs ==
    ASSUME EndInv, LaunchSpawn
    PROVE  /\ launch = "spawn" /\ UNCHANGED <<log, surface, actor>>
           /\ \A v \in Workers : /\ v # Worker => wk'[v] = wk[v]
                                 /\ wk'[v].epoch = wk[v].epoch
                                 /\ wk'[v].pending = wk[v].pending
                                 /\ wk'[v].outcome = wk[v].outcome
           /\ task'.epoch = task.epoch /\ task'.owner = task.owner /\ task'.stop = task.stop
           /\ \/ /\ launch' = "done" /\ wk'[Worker].pc = "spawned" /\ ~TaskSettled
                 /\ task'.status = "Running"
              \/ launch' = "report" /\ UNCHANGED <<task, wk, reaper>>
<1>t. TaskOK /\ WorkersOK
  BY DEF EndInv
<1>1. launch = "spawn" /\ UNCHANGED <<log, surface, actor>>
  BY DEF LaunchSpawn, relayVars
<1>2. CASE launch' = "report" /\ UNCHANGED <<task, wk, reaper>>
  BY <1>1, <1>2
<1>3. CASE /\ launch' = "done" /\ ~TaskSettled
           /\ task' = [task EXCEPT !.status = "Running", !.pid = TRUE, !.touched = FALSE]
           /\ wk' = [wk EXCEPT ![Worker].pc = "spawned"]
  <2>1. /\ task'.epoch = task.epoch /\ task'.owner = task.owner /\ task'.stop = task.stop
        /\ task'.status = "Running"
    BY <1>t, <1>3 DEF TaskOK
  <2>2. /\ \A v \in Workers : /\ v # Worker => wk'[v] = wk[v]
                              /\ wk'[v].epoch = wk[v].epoch
                              /\ wk'[v].pending = wk[v].pending
                              /\ wk'[v].outcome = wk[v].outcome
        /\ wk'[Worker].pc = "spawned"
    BY <1>t, <1>3, Names DEF WorkersOK
  <2> QED BY <1>1, <1>3, <2>1, <2>2
<1> QED BY <1>2, <1>3 DEF LaunchSpawn

LEMMA KillIs ==
    ASSUME EndInv, StopKill
    PROVE  /\ task.pid /\ task.stop /\ task'.stop /\ UNCHANGED <<log, surface, launch>>
           /\ task'.epoch = task.epoch /\ task'.owner = task.owner
           /\ task'.status = "Stopped"
           /\ \A v \in Workers : /\ v # Worker => wk'[v] = wk[v]
                                 /\ wk'[v].epoch = wk[v].epoch
                                 /\ wk'[v].pending = wk[v].pending
                                 /\ wk'[v].outcome = wk[v].outcome
           /\ wk'[Worker].pc = "exited"
<1>t. TaskOK /\ WorkersOK /\ StopMarked
  BY DEF EndInv
<1>1. task.pid /\ task.stop /\ UNCHANGED <<log, surface, launch>>
  BY <1>t DEF StopKill, StopMarked, relayVars
<1>2. /\ task'.epoch = task.epoch /\ task'.owner = task.owner /\ task'.status = "Stopped"
  BY <1>t DEF StopKill, TaskOK
<1>3. task'.stop
  BY <1>1, StopStays DEF Next, ActorStep
<1>4. /\ \A v \in Workers : /\ v # Worker => wk'[v] = wk[v]
                            /\ wk'[v].epoch = wk[v].epoch
                            /\ wk'[v].pending = wk[v].pending
                            /\ wk'[v].outcome = wk[v].outcome
      /\ wk'[Worker].pc = "exited"
  BY <1>t, Names DEF StopKill, WorkersOK
<1> QED BY <1>1, <1>2, <1>3, <1>4

LEMMA LeaseStep ==
    ASSUME EndInv, ScanInv, LeaseHistory, Launched, [Next]_vars
    PROVE  LeaseHistory'
<1>t. TaskOK /\ WorkersOK /\ RelayOK /\ LaunchFirst
  BY DEF EndInv, ScanInv
<1>s. task.stop => task'.stop
  BY StopStays
<1>1. ASSUME NEW w \in Workers, AcquireLease(w) PROVE LeaseHistory'
  BY <1>1, LeaseGranted
<1>2. ASSUME NEW w \in Workers, MarkRunning(w) \/ SettleTask(w) PROVE LeaseHistory'
  <2>1. /\ task'.epoch = task.epoch /\ task'.owner = task.owner
        /\ \A v \in Workers : /\ wk'[v].epoch = wk[v].epoch
                              /\ wk'[v].pc \in Unleased => wk[v].pc \in Unleased
    BY <1>2, MarkIs, SettleIs DEF Unleased
  <2> QED BY <1>s, <2>1, LeaseKept
<1>3. ASSUME NEW w \in Workers, PublishStep(w) \/ EndRun(w) \/ WorkerCrash(w)
      PROVE  LeaseHistory'
  <2>1. /\ task' = task
        /\ \A v \in Workers : /\ wk'[v].epoch = wk[v].epoch
                              /\ wk'[v].pc \in Unleased => wk[v].pc \in Unleased
    BY <1>t, <1>3, PublishStepIs, PublishPoints, RunEnds DEF Publishing, Unleased
  <2> QED BY <2>1, LeaseKept
<1>4. CASE LeaseExpires \/ Reap \/ LaunchFail \/ Restart
  <2>1. /\ task'.epoch = task.epoch /\ task'.owner \in {task.owner, NoOwner} /\ wk' = wk
    BY <1>t, <1>4 DEF LeaseExpires, Reap, LaunchFail, Restart, TaskOK
  <2> QED BY <1>s, <2>1, LeaseKept
<1>5. CASE LaunchSpawn \/ StopKill
  <2>1. /\ task'.epoch = task.epoch /\ task'.owner = task.owner
        /\ \A v \in Workers : /\ wk'[v].epoch = wk[v].epoch
                              /\ wk'[v].pc \in Unleased => wk[v].pc \in Unleased
    BY <1>5, SpawnIs, KillIs, Names DEF Launched, Unleased
  <2> QED BY <1>s, <2>1, LeaseKept
<1>6. CASE StopMark
  <2>1. task'.epoch = task.epoch + 1 /\ task'.owner = NoOwner /\ task'.stop /\ wk' = wk
        /\ task.epoch \in Nat /\ \A v \in Workers : wk[v].epoch \in Nat
    BY <1>t, <1>6 DEF StopMark, TaskOK, WorkersOK
  <2> QED BY <2>1, Names DEF LeaseHistory
<1>7. CASE QuietStep \/ UNCHANGED vars
  BY <1>7, QuietTask, LeaseKept
<1> QED BY <1>1, <1>2, <1>3, <1>4, <1>5, <1>6, <1>7, NextSplit
(* No worker process appears before the launch is over.                    *)
LEMMA LaunchedStep ==
    ASSUME EndInv, ScanInv, Launched, [Next]_vars
    PROVE  Launched'
<1>t. TaskOK /\ WorkersOK /\ RelayOK
  BY DEF EndInv, ScanInv
<1>1. ASSUME NEW w \in Workers, AcquireLease(w) PROVE Launched'
  <2>1. UNCHANGED <<launch, reaper>> /\ task'.pid = task.pid
    BY <1>t, <1>1 DEF AcquireLease, hostVars, TaskOK
  <2>2. ASSUME wk[Worker].pc = "none" PROVE wk'[Worker] = wk[Worker]
    <3>1. w # Worker
      BY <1>1, <2>2 DEF AcquireLease
    <3> QED BY <1>t, <1>1, <3>1, Names DEF AcquireLease, WorkersOK
  <2> QED BY <2>1, <2>2 DEF Launched
<1>2. ASSUME NEW w \in Workers, MarkRunning(w) PROVE Launched'
  BY <1>2, MarkIs, Names DEF Launched, hostVars
<1>3. ASSUME NEW w \in Workers, SettleTask(w) PROVE Launched'
  BY <1>3, SettleIs, Names DEF Launched, hostVars
<1>4. ASSUME NEW w \in Workers, PublishStep(w) PROVE Launched'
  BY <1>t, <1>4, PublishMoves, PublishPoints, Names DEF Launched, hostVars, Publishing
<1>5. ASSUME NEW w \in Workers, EndRun(w) \/ WorkerCrash(w) PROVE Launched'
  BY <1>t, <1>5, RunEnds, Names DEF Launched, hostVars
<1>6. CASE LeaseExpires \/ Reap \/ StopMark \/ Restart
  BY <1>t, <1>6 DEF LeaseExpires, Reap, StopMark, Restart, hostVars, Launched, TaskOK
<1>7. CASE LaunchSpawn
  BY <1>7, SpawnIs DEF Launched
<1>8. CASE LaunchFail
  BY <1>8 DEF LaunchFail, Launched
<1>9. CASE StopKill
  BY <1>9, KillIs DEF Launched
<1>10. CASE QuietStep \/ UNCHANGED vars
  <2>1. UNCHANGED <<task, wk>>
    BY <1>10, QuietTask
  <2>2. (launch' # "done" => launch # "done") /\ (reaper' => reaper)
    BY <1>10 DEF QuietStep, vars, hostVars, DiskFault, LaunchStarted, LaunchReport, Poll,
       DrainRecord, DrainMore, Strand, PollEnds, StopGiveUp, StopSurface, HostCrash, Resumed,
       CloseOneShot
  <2> QED BY <2>1, <2>2 DEF Launched
<1> QED BY <1>1, <1>2, <1>3, <1>4, <1>5, <1>6, <1>7, <1>8, <1>9, <1>10, NextSplit

-----------------------------------------------------------------------------
(* The task.                                                               *)

(* What ends the task, or completes it.                                    *)
LEMMA TaskMoves ==
    ASSUME EndInv, ScanInv, LeaseHistory, Launched, [Next]_vars
    PROVE  \/ task'.status = task.status
           \/ task'.status = "Running"
           \/ task'.status = "Stopping" /\ task'.stop
           \/ task'.status = "Stopped" /\ task'.stop
           \/ task'.status = "Failed" /\ (launch = "done" \/ launch' = "done")
           \/ \E w \in Workers : SettleTask(w) /\ task'.status = wk[w].outcome
<1>t. TaskOK /\ WorkersOK /\ RelayOK
  BY DEF EndInv, ScanInv
<1>1. CASE \E w \in Workers : AcquireLease(w) \/ MarkRunning(w)
  BY <1>t, <1>1 DEF AcquireLease, MarkRunning, TaskOK
<1>2. ASSUME NEW w \in Workers, SettleTask(w)
      PROVE  task'.status = task.status \/ task'.status = wk[w].outcome
  BY <1>2, SettleIs
<1>3. CASE \E w \in Workers : PublishStep(w) \/ EndRun(w) \/ WorkerCrash(w)
  BY <1>t, <1>3, PublishMoves, RunEnds
<1>4. CASE LeaseExpires \/ LaunchSpawn \/ LaunchFail \/ StopMark
  BY <1>t, <1>4 DEF LeaseExpires, LaunchSpawn, LaunchFail, StopMark, TaskOK
<1>5. CASE Reap
  BY <1>t, <1>5 DEF Reap, Launched, TaskOK
<1>6. CASE StopKill
  BY <1>6, KillIs
<1>7. CASE Restart
  <2>1. launch # "done" => ~(wk[Worker].epoch > 0)
    BY <1>t, Names DEF Launched, LeaseHistory, Unleased
  <2>2. task' = task \/ (wk[Worker].epoch > 0 /\ task'.status = "Failed")
    BY <1>t, <1>7 DEF Restart, TaskOK
  <2> QED BY <2>1, <2>2
<1>8. CASE QuietStep \/ UNCHANGED vars
  BY <1>8, QuietTask
<1> QED BY <1>1, <1>2, <1>3, <1>4, <1>5, <1>6, <1>7, <1>8, NextSplit

(* The launch ends with a worker, or with a failed task.                   *)
LEMMA LaunchGoesOn ==
    ASSUME EndInv, [Next]_vars, launch' # "done"
    PROVE  launch # "done"
<1>t. WorkersOK
  BY DEF EndInv
<1>1. CASE \E w \in Workers : AcquireLease(w) \/ MarkRunning(w) \/ SettleTask(w)
  BY <1>1 DEF AcquireLease, MarkRunning, SettleTask, hostVars
<1>2. CASE \E w \in Workers : PublishStep(w) \/ EndRun(w) \/ WorkerCrash(w)
  BY <1>t, <1>2, PublishMoves, RunEnds DEF hostVars
<1>3. CASE LeaseExpires \/ Reap \/ LaunchSpawn \/ LaunchFail \/ Restart \/ StopMark \/ StopKill
  BY <1>3 DEF LeaseExpires, Reap, LaunchSpawn, LaunchFail, Restart, StopMark, StopKill, hostVars
<1>4. CASE QuietStep \/ UNCHANGED vars
  BY <1>4 DEF QuietStep, vars, hostVars, DiskFault, LaunchStarted, LaunchReport, Poll,
     DrainRecord, DrainMore, Strand, PollEnds, StopGiveUp, StopSurface, HostCrash, Resumed,
     CloseOneShot
<1> QED BY <1>1, <1>2, <1>3, <1>4, NextSplit

LEMMA TaskStep ==
    ASSUME EndInv, ScanInv, CloseInv, LeaseHistory, Launched, TaskHistory, [Next]_vars
    PROVE  TaskHistory'
<1>t. TaskOK /\ WorkersOK /\ RelayOK /\ LaunchFirst
  BY DEF EndInv, ScanInv
<1>1. ASSUME task'.status = "Completed" PROVE ~task'.stop
  <2>1. CASE task.status = "Completed"
    BY <2>1, SettledStays DEF TaskHistory, CloseInv, TaskSettled, Settled
  <2>2. CASE task.status # "Completed"
    <3>1. PICK w \in Workers : SettleTask(w)
      BY <1>1, <2>2, TaskMoves
    <3> QED BY <1>1, <2>2, <3>1, SettleIs
  <2> QED BY <2>1, <2>2
<1>2. ASSUME ~task'.stop, launch' # "done", TaskSettled' PROVE FALSE
  <2>1. launch # "done" /\ ~task.stop
    BY <1>2, LaunchGoesOn, StopStays
  <2>2. ~TaskSettled
    BY <2>1 DEF TaskHistory
  <2>3. \A w \in Workers : wk[w].pc = "none"
    BY <1>t, <2>1 DEF LaunchFirst
  <2>4. \A w \in Workers : ~SettleTask(w)
    BY <2>3, SettleIs
  <2> QED BY <1>2, <2>1, <2>2, <2>4, TaskMoves DEF TaskSettled, Settled
<1> QED BY <1>1, <1>2 DEF TaskHistory
-----------------------------------------------------------------------------
(* The frames.                                                             *)

(* What a step does to a worker: nothing; its exit; the way to its run;    *)
(* a publish; or the end of its run.                                       *)
WorkerMove(v) ==
    \/ /\ wk'[v].pending = wk[v].pending /\ wk'[v].outcome = wk[v].outcome
       /\ \/ wk'[v].pc \in {wk[v].pc, "exited"}
          \/ wk[v].pc \in {"none", "spawned", "leased"} /\ wk'[v].pc \notin Ended
    \/ PublishStep(v)
    \/ /\ wk[v].pc \in Publishing /\ wk'[v].pending = wk[v].pending /\ UNCHANGED log
       /\ wk'[v].pc = "publish" \/ (wk'[v].pc = "settle" /\ wk'[v].outcome = "Failed")

LEMMA WorkerMoves ==
    ASSUME EndInv, ScanInv, Launched, [Next]_vars, NEW v \in Workers
    PROVE  /\ wk[v].epoch > 0 => wk'[v].epoch > 0
           /\ WorkerMove(v)
<1>t. TaskOK /\ WorkersOK /\ RelayOK /\ task.epoch \in Nat
  BY DEF EndInv, ScanInv, TaskOK
<1>1. ASSUME wk'[v] = wk[v] PROVE (wk[v].epoch > 0 => wk'[v].epoch > 0) /\ WorkerMove(v)
  BY <1>1 DEF WorkerMove
<1>2. CASE AcquireLease(v)
  <2>1. \/ wk' = [wk EXCEPT ![v].pc = "exited"]
        \/ wk' = [wk EXCEPT ![v].pc = "leased", ![v].epoch = task.epoch + 1]
    BY <1>2 DEF AcquireLease
  <2>2. /\ wk'[v].pending = wk[v].pending /\ wk'[v].outcome = wk[v].outcome
        /\ \/ wk'[v].pc = "exited" /\ wk'[v].epoch = wk[v].epoch
           \/ wk'[v].pc = "leased" /\ wk'[v].epoch = task.epoch + 1
    BY <1>t, <2>1 DEF WorkersOK
  <2>3. wk[v].pc \in {"none", "spawned"}
    BY <1>2 DEF AcquireLease
  <2>4. task.epoch + 1 > 0
    BY <1>t
  <2> QED BY <2>2, <2>3, <2>4 DEF WorkerMove, Ended
<1>3. CASE MarkRunning(v)
  BY <1>3, MarkIs DEF WorkerMove, Ended
<1>4. CASE SettleTask(v)
  BY <1>4, SettleIs DEF WorkerMove
<1>5. CASE PublishStep(v)
  BY <1>t, <1>5, PublishPoints DEF WorkerMove
<1>6. CASE EndRun(v) \/ WorkerCrash(v)
  BY <1>t, <1>6, RunEnds DEF WorkerMove
<1>7. ASSUME NEW w \in Workers, w # v,
             \/ AcquireLease(w) \/ MarkRunning(w) \/ PublishStep(w)
             \/ EndRun(w) \/ SettleTask(w) \/ WorkerCrash(w)
      PROVE  wk'[v] = wk[v]
  <2>1. CASE AcquireLease(w)
    BY <1>t, <1>7, <2>1 DEF AcquireLease, WorkersOK
  <2> QED BY <1>t, <1>7, <2>1, MarkIs, SettleIs, PublishPoints, RunEnds
<1>8. CASE LaunchSpawn
  <2>1. wk[Worker].pc = "none"
    BY <1>8, SpawnIs DEF Launched
  <2> QED BY <1>8, <2>1, SpawnIs DEF WorkerMove, Ended
<1>9. CASE StopKill
  BY <1>9, KillIs DEF WorkerMove
<1>10. CASE LeaseExpires \/ Reap \/ LaunchFail \/ StopMark \/ Restart
  BY <1>1, <1>10 DEF LeaseExpires, Reap, LaunchFail, StopMark, Restart
<1>11. CASE QuietStep \/ UNCHANGED vars
  BY <1>1, <1>11, QuietTask
<1>12. CASE \E w \in Workers : \/ AcquireLease(w) \/ MarkRunning(w) \/ PublishStep(w)
                               \/ EndRun(w) \/ SettleTask(w) \/ WorkerCrash(w)
  BY <1>1, <1>2, <1>3, <1>4, <1>5, <1>6, <1>7, <1>12
<1> QED BY <1>8, <1>9, <1>10, <1>11, <1>12, NextSplit

(* A publish leaves no pending end of the child with a worker that goes    *)
(* on, and its last frame with one that settles a completed task.          *)
LEMMA PublishKeeps ==
    ASSUME EndInv, ScanInv, FrameHistory, NEW w \in Workers, PublishStep(w)
    PROVE  /\ wk'[w].pc \notin Ended => wk'[w].pending \notin {"Completed", "Failed"}
           /\ wk'[w].pc = "settle" /\ wk'[w].outcome = "Completed" =>
                 \E i \in DOMAIN log' : log'[i].kind = "Completed"
           /\ \/ log' = log
              \/ \E kind : /\ log' = Append(log, Record(w, kind)) /\ HoldsLease(w)
                           /\ kind = "Failed" => wk'[w].outcome = "Failed" /\ wk'[w].pc \in Ended
<1>t. WorkersOK /\ RelayOK
  BY DEF EndInv, ScanInv
<1>p. wk[w].pending \notin {"Completed", "Failed"}
  BY <1>t, PublishMoves DEF FrameHistory, Publishing, Ended
<1>1. CASE wk[w].pc = "start" /\ PublishedAs(w, "Started", "run", {"settle"})
  BY <1>p, <1>1 DEF PublishedAs, Flushing, Ended
<1>2. CASE wk[w].pc = "run" /\ PublishedAs(w, "Progress", "run", {"run", "end"})
  BY <1>p, <1>2 DEF PublishedAs, Flushing, Ended
<1>3. CASE wk[w].pc = "publish" /\ PublishedAs(w, wk[w].outcome, "settle", {"settle"})
  BY <1>p, <1>3 DEF PublishedAs, Flushing, Ended
<1> QED BY <1>t, <1>1, <1>2, <1>3, PublishStepIs

LEMMA FrameStep ==
    ASSUME EndInv, ScanInv, CloseInv, LeaseHistory, TaskHistory, Launched, FrameHistory,
           [Next]_vars
    PROVE  FrameHistory'
<1>t. TaskOK /\ WorkersOK /\ RelayOK
  BY DEF EndInv, ScanInv
<1>f. \A kind : HasFrame(kind) => \E i \in DOMAIN log' : log'[i].kind = kind
  BY FramesStay DEF HasFrame
<1>1. ASSUME NEW w \in Workers
      PROVE  /\ wk'[w].pc \notin Ended => wk'[w].pending \notin {"Completed", "Failed"}
             /\ wk'[w].pc = "settle" /\ wk'[w].outcome = "Completed" =>
                   \E i \in DOMAIN log' : log'[i].kind = "Completed"
  <2>1. CASE PublishStep(w)
    BY <2>1, PublishKeeps
  <2>2. CASE ~PublishStep(w)
    <3>1. /\ wk[w].pc \notin Ended => wk[w].pending \notin {"Completed", "Failed"}
          /\ wk[w].pc = "settle" /\ wk[w].outcome = "Completed" => HasFrame("Completed")
      BY DEF FrameHistory
    <3>2. WorkerMove(w)
      BY WorkerMoves
    <3> QED BY <1>f, <2>2, <3>1, <3>2 DEF WorkerMove, Ended, Publishing
  <2> QED BY <2>1, <2>2
<1>2. ASSUME NEW i \in DOMAIN log
      PROVE  /\ wk'[log[i].by].epoch > 0
             /\ log[i].kind = "Failed" => /\ wk'[log[i].by].outcome = "Failed"
                                          /\ wk'[log[i].by].pc \in Ended
  <2> DEFINE v == log[i].by
  <2>1. v \in Workers
    BY <1>t, FrameType DEF Records
  <2>2. /\ wk[v].epoch > 0
        /\ log[i].kind = "Failed" => wk[v].outcome = "Failed" /\ wk[v].pc \in Ended
    BY DEF FrameHistory
  <2> HIDE DEF v
  <2>3. WorkerMove(v) /\ wk'[v].epoch > 0
    BY <2>1, <2>2, WorkerMoves
  <2>4. wk[v].pc \in Ended => ~PublishStep(v) /\ wk[v].pc \notin Publishing
    BY <1>t, <2>1, PublishMoves DEF Ended, Publishing
  <2>5. wk[v].pc \in Ended /\ wk[v].outcome = "Failed" =>
           wk'[v].outcome = "Failed" /\ wk'[v].pc \in Ended
    BY <2>3, <2>4 DEF WorkerMove, Ended
  <2> QED BY <2>2, <2>3, <2>5 DEF v
<1>3. ASSUME NEW i \in DOMAIN log'
      PROVE  /\ wk'[log'[i].by].epoch > 0
             /\ log'[i].kind = "Failed" => /\ wk'[log'[i].by].outcome = "Failed"
                                           /\ wk'[log'[i].by].pc \in Ended
  <2>1. CASE i \in DOMAIN log
    BY <1>2, <2>1, FramesStay
  <2>2. CASE i \notin DOMAIN log
    <3>1. PICK w \in Workers : PublishStep(w)
      BY <2>2, LogMoves
    <3>2. PICK kind : /\ log' = Append(log, Record(w, kind)) /\ HoldsLease(w)
                      /\ kind = "Failed" => wk'[w].outcome = "Failed" /\ wk'[w].pc \in Ended
      BY <2>2, <3>1, PublishKeeps
    <3> DEFINE r == Record(w, kind)
    <3>3. r.by = w /\ r.kind = kind
      BY DEF Record
    <3> HIDE DEF r
    <3>4. log'[i] = r
      <4>1. log \in Seq(Records) /\ DOMAIN log = 1 .. Len(log) /\ Len(log) \in Nat
        BY <1>t, LenProperties DEF RelayOK
      <4> QED BY <2>2, <3>2, <4>1 DEF r
    <3>5. wk'[w].epoch > 0
      <4>1. wk[w].epoch > 0
        BY <3>2 DEF HoldsLease, LeaseHistory
      <4> QED BY <4>1, WorkerMoves
    <3> QED BY <3>2, <3>3, <3>4, <3>5
  <2> QED BY <2>1, <2>2
<1>4. ASSUME task'.status = "Completed"
      PROVE  \E i \in DOMAIN log' : log'[i].kind = "Completed"
  <2>1. CASE task.status = "Completed"
    BY <1>f, <2>1 DEF FrameHistory
  <2>2. CASE task.status # "Completed"
    <3>1. PICK w \in Workers : SettleTask(w) /\ wk[w].outcome = "Completed"
      BY <1>4, <2>2, TaskMoves
    <3> QED BY <1>f, <3>1, SettleIs DEF FrameHistory
  <2> QED BY <2>1, <2>2
<1>5. ASSUME task'.status = "Completed", task'.owner = Worker
      PROVE  wk'[Worker].outcome = "Completed" /\ wk'[Worker].pc = "exited"
  <2>1. CASE task.status = "Completed"
    <3>1. task.owner = Worker
      BY <1>5, <2>1, SettledStays DEF TaskHistory, CloseInv, TaskSettled, Settled
    <3>2. wk[Worker].outcome = "Completed" /\ wk[Worker].pc = "exited"
      BY <2>1, <3>1 DEF FrameHistory
    <3>3. ~PublishStep(Worker)
      BY <1>t, <3>2, Names, PublishMoves DEF Publishing
    <3>4. WorkerMove(Worker)
      BY Names, WorkerMoves
    <3> QED BY <3>2, <3>3, <3>4 DEF WorkerMove, Publishing
  <2>2. CASE task.status # "Completed"
    <3>1. PICK w \in Workers : SettleTask(w) /\ wk[w].outcome = "Completed"
      BY <1>5, <2>2, TaskMoves
    <3>2. HoldsLease(w) /\ task'.owner = task.owner
      BY <1>5, <2>2, <3>1, SettleIs
    <3>3. w = Worker
      BY <1>5, <3>2 DEF HoldsLease
    <3> QED BY <3>1, <3>3, SettleIs
  <2> QED BY <2>1, <2>2
<1> QED BY <1>1, <1>3, <1>4, <1>5 DEF FrameHistory, HasFrame
-----------------------------------------------------------------------------
(* The surface.                                                            *)

(* Who changes the child on the surface, and where the launch is.          *)
LEMMA HostMoves ==
    ASSUME EndInv, [Next]_vars
    PROVE  /\ \/ UNCHANGED surface
              \/ LaunchStarted \/ LaunchReport \/ DrainRecord \/ Strand \/ StopSurface
           /\ \/ UNCHANGED launch
              \/ LaunchStarted \/ LaunchSpawn \/ LaunchReport \/ LaunchFail
<1>t. WorkersOK
  BY DEF EndInv
<1>1. CASE \E w \in Workers : AcquireLease(w) \/ MarkRunning(w) \/ SettleTask(w)
  BY <1>1 DEF AcquireLease, MarkRunning, SettleTask, hostVars
<1>2. CASE \E w \in Workers : PublishStep(w) \/ EndRun(w) \/ WorkerCrash(w)
  BY <1>t, <1>2, PublishMoves, RunEnds DEF hostVars
<1>3. CASE LeaseExpires \/ Reap \/ LaunchSpawn \/ LaunchFail \/ Restart \/ StopMark \/ StopKill
  BY <1>3 DEF LeaseExpires, Reap, LaunchSpawn, LaunchFail, Restart, StopMark, StopKill, hostVars
<1>4. CASE QuietStep \/ UNCHANGED vars
  BY <1>4 DEF QuietStep, vars, hostVars, DiskFault, LaunchStarted, LaunchReport, Poll,
     DrainRecord, DrainMore, Strand, PollEnds, StopGiveUp, StopSurface, HostCrash, Resumed,
     CloseOneShot
<1> QED BY <1>1, <1>2, <1>3, <1>4, NextSplit

(* The surface stays as it is.                                             *)
LEMMA SurfaceKept ==
    ASSUME EndInv, ScanInv, CloseInv, SurfaceHistory, [Next]_vars, UNCHANGED surface,
           ~LaunchStarted
    PROVE  SurfaceHistory'
<1>f. \A kind : HasFrame(kind) => \E i \in DOMAIN log' : log'[i].kind = kind
  BY FramesStay DEF HasFrame
<1>s. task.stop => task'.stop
  BY StopStays
<1>t. TaskOK
  BY DEF EndInv
<1>1. surface'.status = "Completed" => \E i \in DOMAIN log' : log'[i].kind = "Completed"
  BY <1>f DEF SurfaceHistory
<1>2. surface'.status = "Stopped" => task'.stop
  BY <1>s DEF SurfaceHistory
<1>3. launch' = "spawn" => launch = "spawn"
  BY HostMoves DEF LaunchSpawn, LaunchReport, LaunchFail
<1>4. ASSUME surface'.status \in {"absent", "Failed"}, ~task'.stop, launch' = "done"
      PROVE  (\E i \in DOMAIN log' : log'[i].kind = "Failed") \/ task'.status = "Failed"
  <2>1. surface.status \in {"absent", "Failed"} /\ ~task.stop
    BY <1>4, <1>s
  <2>2. CASE HasFrame("Failed")
    BY <1>f, <2>2
  <2>3. CASE task.status = "Failed"
    BY <2>1, <2>3, SettledStays DEF CloseInv, TaskSettled, Settled
  <2>4. CASE launch # "done"
    <3>1. LaunchFail \/ LaunchSpawn
      BY <1>4, <2>4, HostMoves DEF LaunchStarted, LaunchReport
    <3>2. ~LaunchSpawn
      BY <2>1 DEF LaunchSpawn, SurfaceHistory
    <3> QED BY <1>t, <3>1, <3>2 DEF LaunchFail, TaskOK
  <2> QED BY <2>1, <2>2, <2>3, <2>4 DEF SurfaceHistory
<1>5. launch' = "spawn" /\ ~task'.stop => surface'.status = "Running"
  BY <1>3, <1>s DEF SurfaceHistory
<1> QED BY <1>1, <1>2, <1>4, <1>5 DEF SurfaceHistory, HasFrame

LEMMA SurfaceStep ==
    ASSUME EndInv, ScanInv, DeliveryInv, CloseInv, TaskHistory, FrameHistory, SurfaceHistory,
           [Next]_vars
    PROVE  SurfaceHistory'
<1>t. SurfaceOK /\ LaunchHeard /\ PageInLog /\ StopMarked /\ surface \in SurfaceRecord
  BY DEF DeliveryInv, EndInv, SurfaceOK, SurfaceRecord, Ids
<1>1. CASE UNCHANGED surface /\ ~LaunchStarted
  BY <1>1, SurfaceKept
<1>2. CASE LaunchStarted
  <2>1. surface.status = "absent" /\ surface.applied = <<>>
    BY <1>t, <1>2 DEF LaunchStarted, LaunchHeard
  <2>2. ~IsDuplicate(LaunchEvent(1, "Started"))
    BY <2>1 DEF IsDuplicate
  <2>3. AfterCommit(LaunchEvent(1, "Started")).status = "Running"
    BY <2>2 DEF AfterCommit, LaunchEvent, Settled
  <2>4. /\ surface'.status \in {"absent", "Running"} /\ launch' # "done"
        /\ launch' = "spawn" => surface'.status = "Running"
    BY <1>2, <2>1, <2>3 DEF LaunchStarted
  <2> QED BY <2>4 DEF SurfaceHistory
<1>3. CASE LaunchReport /\ surface' # surface
  <2>1. /\ launch' = "fail"
        /\ surface' = AfterCommit(LaunchEvent(2, "Failed"))
    BY <1>3 DEF LaunchReport
  <2>2. surface'.status = "Failed"
    BY <1>3, <2>1 DEF AfterCommit, LaunchEvent, Settled
  <2> QED BY <2>1, <2>2 DEF SurfaceHistory
<1>4. CASE DrainRecord /\ surface' # surface
  <2> DEFINE r == Head(page)
  <2>1. /\ page # <<>> /\ surface' = AfterCommit(r) /\ UNCHANGED <<log, launch>>
    BY <1>4 DEF DrainRecord, relayVars
  <2>2. page \in Seq(Records)
    BY <1>t DEF SurfaceOK
  <2>3. r = page[1] /\ 1 \in DOMAIN page
    BY <2>1, <2>2
  <2>4. r.seq \in DOMAIN log /\ log[r.seq] = r /\ r.kind \in Kinds
    <3>1. r \in Records
      BY <2>1, <2>2
    <3>2. r.kind \in Kinds
      BY <3>1 DEF Records
    <3>3. page[1].seq \in DOMAIN log /\ log[page[1].seq] = page[1]
      BY <1>t, <2>3 DEF PageInLog
    <3> HIDE DEF r
    <3> QED BY <2>3, <3>2, <3>3
  <2>5. HasFrame(r.kind)
    BY <2>4 DEF HasFrame
  <2>6. launch = "done"
    BY <1>t, <2>4 DEF LaunchHeard
  <2> HIDE DEF r
  <2>7. surface'.status = IF r.kind \in Settled THEN r.kind ELSE "Running"
    BY <1>4, <2>1 DEF AfterCommit
  <2>8. /\ surface'.status \in {"Completed", "Failed", "Running"}
        /\ surface'.status \in {"Completed", "Failed"} => HasFrame(surface'.status)
    BY <2>4, <2>5, <2>7 DEF Kinds, Settled
  <2>9. surface'.status \in {"Completed", "Failed"} =>
           \E i \in DOMAIN log' : log'[i].kind = surface'.status
    BY <2>1, <2>8 DEF HasFrame
  <2>10. /\ surface'.status = "Completed" => \E i \in DOMAIN log' : log'[i].kind = "Completed"
         /\ surface'.status = "Failed" => \E i \in DOMAIN log' : log'[i].kind = "Failed"
    BY <2>9
  <2> QED BY <2>1, <2>6, <2>8, <2>10 DEF SurfaceHistory, HasFrame
<1>5. CASE Strand
  <2>1. /\ TaskSettled /\ UNCHANGED <<task, log, launch>>
        /\ surface' = [surface EXCEPT !.status = task.status, !.revision = @ + 1]
    BY <1>5 DEF Strand, relayVars
  <2> DEFINE n == surface.revision + 1
  <2>2. surface' = [surface EXCEPT !.status = task.status, !.revision = n]
    BY <2>1
  <2> HIDE DEF n
  <2>3. surface'.status = task.status
    BY <1>t, <2>2 DEF SurfaceRecord
  <2>4. /\ task.status = "Completed" => HasFrame("Completed")
        /\ task.status = "Stopped" => task.stop
        /\ task.status # "absent"
        /\ ~(launch = "spawn" /\ ~task.stop)
    BY <2>1 DEF FrameHistory, CloseInv, StopShown, TaskHistory, TaskSettled, Settled
  <2> QED BY <2>1, <2>3, <2>4 DEF SurfaceHistory, HasFrame
<1>6. CASE StopSurface /\ surface' # surface
  <2>1. /\ task.stop /\ UNCHANGED <<task, log, launch>>
        /\ surface' = [surface EXCEPT !.status = "Stopped", !.revision = @ + 1]
    BY <1>t, <1>6 DEF StopSurface, StopMarked, relayVars
  <2> DEFINE n == surface.revision + 1
  <2>2. surface' = [surface EXCEPT !.status = "Stopped", !.revision = n]
    BY <2>1
  <2> HIDE DEF n
  <2>3. surface'.status = "Stopped"
    BY <1>t, <2>2 DEF SurfaceRecord
  <2> QED BY <2>1, <2>3 DEF SurfaceHistory
<1> QED BY <1>1, <1>2, <1>3, <1>4, <1>5, <1>6, HostMoves

-----------------------------------------------------------------------------
(* The outcome.                                                            *)

LEMMA FateStep ==
    EndInv /\ ScanInv /\ DeliveryInv /\ CloseInv /\ FateInv /\ [Next]_vars => FateInv'
  BY LeaseStep, TaskStep, LaunchedStep, FrameStep, SurfaceStep DEF FateInv

LEMMA FateHolds == Spec => []FateInv
  BY PublishersFenced, ScanHolds, DeliveryHolds, CloseHolds, FateInit, FateStep, PTL DEF Spec

(* OutcomesAgree: a child is Completed, in the registry or on the surface, *)
(* only when the frame that says so is in the relay, and a task its worker *)
(* completed is never shown as failed, stopped or absent, whichever of the *)
(* drain, settle_stranded_detached_subagents, the launch's own report and  *)
(* a takeover by another process got to the surface first.                 *)
THEOREM OutcomeIsOne == Spec => []OutcomesAgree
<1>1. EndInv /\ ScanInv /\ DeliveryInv /\ FateInv => OutcomesAgree
  <2> SUFFICES ASSUME EndInv, ScanInv, DeliveryInv, FateInv PROVE OutcomesAgree
    OBVIOUS
  <2>1. "Completed" \in {task.status, surface.status} => HasFrame("Completed")
    BY DEF FateInv, FrameHistory, SurfaceHistory
  <2>2. ASSUME task.status = "Completed", task.owner = Worker
        PROVE  surface.status \in {"Running", "Completed"}
    <3>1. ~task.stop /\ launch = "done" /\ wk[Worker].outcome = "Completed"
      BY <2>2 DEF FateInv, TaskHistory, FrameHistory, TaskSettled, Settled
    <3>2. ~HasFrame("Failed")
      <4> SUFFICES ASSUME NEW i \in DOMAIN log, log[i].kind = "Failed" PROVE FALSE
        BY DEF HasFrame
      <4>1. log[i].by \in Workers /\ wk[log[i].by].epoch > 0 /\ wk[log[i].by].outcome = "Failed"
        BY FrameType DEF FateInv, FrameHistory, ScanInv, Records
      <4>2. log[i].by \in Recoverers
        BY <3>1, <4>1 DEF Workers
      <4> QED BY <2>2, <3>1, <4>1, <4>2 DEF FateInv, LeaseHistory
    <3>3. surface.status \in {"absent", "Running"} \cup Settled
      BY DEF DeliveryInv, SurfaceOK
    <3> QED BY <2>2, <3>1, <3>2, <3>3 DEF FateInv, SurfaceHistory, Settled
  <2> QED BY <2>1, <2>2 DEF OutcomesAgree
<1> QED BY <1>1, PublishersFenced, ScanHolds, DeliveryHolds, FateHolds, PTL
=============================================================================
