----------------------- MODULE OperationBudget_proofs -----------------------
(***************************************************************************)
(* Proofs about OperationBudget: a receipt of the child budget ledger is   *)
(* final, the ledger releases a reservation only after the journal has     *)
(* its bill, a receipt is billed once, what the controller grants fits     *)
(* the ledger, and the operation and its children never make more calls    *)
(* than its limit, whatever the number of children, the limit and the      *)
(* crashes.                                                                *)
(*                                                                         *)
(* 1. LedgerInv is inductive. Every step either leaves the parent where    *)
(* it is and only advances ledger entries (LedgerAdvances, lemma           *)
(* QuietStep), or is a step of the parent, taken one action at a time.     *)
(*                                                                         *)
(* 2. The sums of charges and of receipts over the children, by the laws   *)
(* of SumOver in Collections_proofs.                                       *)
(*                                                                         *)
(* 3. BillingInv, inductive relative to LedgerInv: usage in memory, in     *)
(* the journal and in the ledger are the same sums of receipts. Steps of   *)
(* children only lower what they are charged for (ChargesFall).            *)
(*                                                                         *)
(* 4. SpendInv, relative to both and for processes that do not exit        *)
(* inside a stop: what may still be spent, Exposure, is covered by what    *)
(* is charged.                                                             *)
(***************************************************************************)
EXTENDS OperationBudget, Collections_proofs

Entry == [state : {"absent", "open", "settled"}, spec : Nat, receipt : Nat,
          accounted : BOOLEAN, bound : BOOLEAN]

(* What a step that grants and acknowledges nothing may do to the ledger.  *)
LedgerAdvances ==
    \A c \in Child :
       /\ ledger[c].state = "settled" =>
            /\ ledger'[c].state = "settled"
            /\ ledger'[c].receipt = ledger[c].receipt
       /\ ledger'[c].accounted = ledger[c].accounted
       /\ ledger[c].state = "absent" => ledger'[c].state = "absent"

-----------------------------------------------------------------------------
(* settle writes a receipt into an open entry and leaves any other alone.  *)
LEMMA ReceiptOfEntry ==
    ASSUME NEW e \in Entry, NEW n \in Nat
    PROVE  /\ Receipt(e, n) \in Entry
           /\ e.state = "settled" => Receipt(e, n) = e
           /\ e.state = "absent" => Receipt(e, n).state = "absent"
           /\ Receipt(e, n).accounted = e.accounted
  BY DEF Receipt, Entry

(* settle on one child keeps the ledger's type and only advances it.       *)
LEMMA SettledAdvances ==
    ASSUME LedgerShape, NEW c \in Child, NEW n \in Nat,
           ledger' = Settled(c, n)
    PROVE  ledger' \in [Child -> Entry] /\ LedgerAdvances
<1>1. ledger \in [Child -> Entry]
  BY DEF LedgerShape, Entry
<1>2. Receipt(ledger[c], n) \in Entry
  BY <1>1, ReceiptOfEntry
<1>3. ledger' = [ledger EXCEPT ![c] = Receipt(ledger[c], n)]
  BY DEF Settled
<1>4. ledger' \in [Child -> Entry]
  BY <1>1, <1>2, <1>3
<1>5. ASSUME NEW d \in Child
      PROVE  /\ ledger[d].state = "settled" =>
                  /\ ledger'[d].state = "settled"
                  /\ ledger'[d].receipt = ledger[d].receipt
             /\ ledger'[d].accounted = ledger[d].accounted
             /\ ledger[d].state = "absent" => ledger'[d].state = "absent"
  <2>1. CASE d = c
    BY <1>1, <1>3, <2>1, ReceiptOfEntry
  <2>2. CASE d # c
    BY <1>1, <1>3, <2>2
  <2> QED BY <2>1, <2>2
<1> QED BY <1>4, <1>5 DEF LedgerAdvances

(* A step that leaves the parent where it is and advances the ledger keeps *)
(* the invariant: the steps of the dispatcher and of the children.         *)
LEMMA QuietStep ==
    ASSUME LedgerInv, ledger' \in [Child -> Entry], LedgerAdvances,
           spent' \in [Child -> Nat],
           UNCHANGED <<journal, parentVars>>
    PROVE  LedgerInv'
<1> USE DEF LedgerInv, parentVars, controlVars
<1>1. LedgerShape'
  BY DEF LedgerShape, Entry
<1>2. AccountedIsJournaled'
  BY DEF AccountedIsJournaled, LedgerAdvances
<1>3. TodoSettled'
  <2>1. snap.todo \subseteq Child
    BY DEF LedgerShape
  <2> QED BY <2>1 DEF TodoSettled, LedgerAdvances
<1>4. CurrentJournaled'
  BY DEF CurrentJournaled
<1>5. LeaseIsNew'
  BY DEF LeaseIsNew, LedgerAdvances
<1> QED BY <1>1, <1>2, <1>3, <1>4, <1>5

(* The same for a step that leaves ledger and spending alone.              *)
LEMMA UnchangedAdvances ==
    ASSUME LedgerInv, UNCHANGED ledger
    PROVE  ledger' \in [Child -> Entry] /\ LedgerAdvances
  BY DEF LedgerInv, LedgerShape, LedgerAdvances, Entry

-----------------------------------------------------------------------------
(* The steps of the dispatcher and of a child.                             *)
LEMMA ChildStepKeeps ==
    ASSUME LedgerInv, NEW c \in Child, ChildStep(c)
    PROVE  LedgerInv' /\ LedgerAdvances
<1> USE DEF childVars
<1>a. LedgerShape /\ spent \in [Child -> Nat] /\ 0 \in Nat
  BY DEF LedgerInv, LedgerShape
<1>b. ASSUME UNCHANGED <<ledger, spent, journal, parentVars>>
      PROVE  LedgerInv' /\ LedgerAdvances
  BY <1>a, <1>b, UnchangedAdvances, QuietStep
<1>c. ASSUME NEW n \in Nat, ledger' = Settled(c, n),
             UNCHANGED <<spent, journal, parentVars>>
      PROVE  LedgerInv' /\ LedgerAdvances
  BY <1>a, <1>c, SettledAdvances, QuietStep
<1>1. CASE AcquireQueued(c) BY <1>1, <1>b DEF AcquireQueued
<1>2. CASE DropLaunch(c) BY <1>2, <1>b DEF DropLaunch
<1>3. CASE RefundDropped(c) BY <1>3, <1>a, <1>c DEF RefundDropped
<1>4. CASE StartChild(c) BY <1>4, <1>b DEF StartChild
<1>5. CASE LaunchFails(c) BY <1>5, <1>a, <1>c DEF LaunchFails
<1>6. CASE WorkerFenced(c) BY <1>6, <1>b DEF WorkerFenced
<1>7. CASE ChildSpends(c)
  <2>1. spent' \in [Child -> Nat]
    BY <1>7, <1>a DEF ChildSpends
  <2> QED BY <1>7, <2>1, UnchangedAdvances, QuietStep DEF ChildSpends
<1>8. CASE ChildSettles(c)
  <2>1. spent[c] \in Nat
    BY <1>a
  <2> QED BY <1>8, <1>c, <2>1 DEF ChildSettles
<1>9. CASE ChildEnds(c) BY <1>9, <1>b DEF ChildEnds
<1>10. CASE ChildLost(c) BY <1>10, <1>b DEF ChildLost
<1> QED BY <1>1, <1>2, <1>3, <1>4, <1>5, <1>6, <1>7, <1>8, <1>9, <1>10
        DEF ChildStep, Dispatch

-----------------------------------------------------------------------------
(* The initial states satisfy the invariant.                               *)
LEMMA InitLedger == Init => LedgerInv
  BY LimitAssumption
     DEF Init, LedgerInv, LedgerShape, AccountedIsJournaled, TodoSettled,
         CurrentJournaled, LeaseIsNew, NoEntry, NoSnap, Idle, Kinds

(* A step of the parent that leaves ledger and journal alone keeps the     *)
(* invariant as soon as the parent's new position is in order.             *)
LEMMA ParentMoves ==
    ASSUME LedgerInv, UNCHANGED <<ledger, spent>>,
           LedgerShape', journal'.ids = journal.ids,
           TodoSettled', CurrentJournaled', LeaseIsNew'
    PROVE  LedgerInv' /\ LedgerAdvances
  BY DEF LedgerInv, AccountedIsJournaled, LedgerAdvances

(* The steps of the parent that do not write the ledger.                   *)
LEMMA ParentStepKeeps ==
    ASSUME LedgerInv,
           \/ BeginTool \/ BeginSubagent \/ BeginComplete \/ BeginCancel
           \/ ReadLedger \/ RefreshDone \/ AdmitToolCall \/ RefuseToolCall
           \/ RefuseLease \/ Submit \/ SubmitRefused \/ BindFails
           \/ StopSnapshot \/ StopAllRequested \/ StopWaited \/ StopFails
           \/ CommitTerminal \/ Crash \/ Reopen
    PROVE  LedgerInv' /\ LedgerAdvances
<1> USE DEF LedgerShape, TodoSettled, CurrentJournaled, LeaseIsNew, Kinds,
            childVars, controlVars, parentVars
<1>a. LedgerShape /\ TodoSettled /\ CurrentJournaled /\ LeaseIsNew
  BY DEF LedgerInv
<1>1. CASE BeginTool
  BY <1>1, <1>a, ParentMoves DEF BeginTool, Begin
<1>2. CASE BeginSubagent
  BY <1>2, <1>a, ParentMoves DEF BeginSubagent, Begin, Entries
<1>3. CASE BeginComplete
  BY <1>3, <1>a, ParentMoves DEF BeginComplete, Begin
<1>4. CASE BeginCancel
  BY <1>4, <1>a, ParentMoves DEF BeginCancel, Begin
<1>5. CASE ReadLedger
  BY <1>5, <1>a, ParentMoves DEF ReadLedger, Unaccounted, Entries
<1>6. CASE RefreshDone
  BY <1>6, <1>a, ParentMoves DEF RefreshDone, AfterRefresh
<1>7. CASE AdmitToolCall
  <2>1. /\ ctl' \in [usage : Nat, stopped : BOOLEAN]
        /\ journal' \in [usage : Nat, ids : SUBSET Child,
                    terminal : {"none", "completed", "cancelled", "stopped"}]
        /\ journal'.ids = journal.ids
    BY <1>7, <1>a DEF AdmitToolCall
  <2>2. /\ job' \in [kind : Kinds, child : Child \cup {0}]
        /\ pc' \in {"idle", "read"}
        /\ job'.kind = "none"
           \/ (job'.kind = "lease" /\ job'.child = job.child
               /\ job.kind = "subagent")
    BY <1>7, <1>a DEF AdmitToolCall, Idle
  <2>3. UNCHANGED <<ledger, spent, snap>>
    BY <1>7 DEF AdmitToolCall
  <2>4. LedgerShape'
    BY <1>a, <2>1, <2>2, <2>3
  <2>5. TodoSettled' /\ CurrentJournaled' /\ LeaseIsNew'
    BY <1>a, <2>2, <2>3
  <2> QED BY <2>1, <2>3, <2>4, <2>5, ParentMoves
<1>8. CASE RefuseToolCall
  BY <1>8, <1>a, ParentMoves DEF RefuseToolCall
<1>9. CASE RefuseLease
  BY <1>9, <1>a, ParentMoves DEF RefuseLease
<1>10. CASE Submit
  BY <1>10, <1>a, ParentMoves DEF Submit
<1>11. CASE SubmitRefused
  BY <1>11, <1>a, ParentMoves DEF SubmitRefused
<1>12. CASE BindFails
  BY <1>12, <1>a, ParentMoves DEF BindFails
<1>13. CASE StopSnapshot
  BY <1>13, <1>a, ParentMoves DEF StopSnapshot
<1>14. CASE StopAllRequested
  BY <1>14, <1>a, ParentMoves DEF StopAllRequested
<1>15. CASE StopWaited
  BY <1>15, <1>a, ParentMoves DEF StopWaited, NoSnap
<1>16. CASE StopFails
  BY <1>16, <1>a, ParentMoves DEF StopFails
<1>17. CASE CommitTerminal
  BY <1>17, <1>a, ParentMoves DEF CommitTerminal
<1>18. CASE Crash
  BY <1>18, <1>a, ParentMoves DEF Crash, Idle, NoSnap
<1>19. CASE Reopen
  BY <1>19, <1>a, ParentMoves DEF Reopen
<1> QED BY <1>1, <1>2, <1>3, <1>4, <1>5, <1>6, <1>7, <1>8, <1>9, <1>10,
           <1>11, <1>12, <1>13, <1>14, <1>15, <1>16, <1>17, <1>18, <1>19

-----------------------------------------------------------------------------
(* What every step does to a settled entry.                                *)
ReceiptsKept ==
    \A c \in Child : ledger[c].state = "settled" =>
       /\ ledger'[c].state = "settled"
       /\ ledger'[c].receipt = ledger[c].receipt

(* Advancing entries keeps their receipts.                                 *)
LEMMA AdvancesKeepsReceipts == LedgerAdvances => ReceiptsKept
  BY DEF LedgerAdvances, ReceiptsKept

(* The steps of the parent that write the ledger or the journal's ids.     *)
LEMMA BillReceiptKeeps ==
    ASSUME LedgerInv, BillReceipt PROVE LedgerInv' /\ ReceiptsKept
<1>a. LedgerShape /\ AccountedIsJournaled /\ TodoSettled /\ CurrentJournaled
      /\ LeaseIsNew
  BY DEF LedgerInv
<1>1. PICK c \in snap.todo :
         /\ \/ journal' = [journal EXCEPT !.usage =
                              ctl.usage + ledger[c].receipt,
                                          !.ids = @ \cup {c}]
               /\ ctl' = [ctl EXCEPT !.usage = ctl.usage + ledger[c].receipt,
                             !.stopped = @ \/ ctl.usage + ledger[c].receipt
                                               + external >= Limit]
            \/ UNCHANGED <<journal, ctl>> /\ c \in journal.ids
         /\ snap' = [snap EXCEPT !.todo = @ \ {c}, !.current = {c}]
  BY DEF BillReceipt, Unbilled
<1>2. /\ pc = "bill" /\ pc' = "ack"
      /\ UNCHANGED <<ledger, job, spent>>
  BY DEF BillReceipt, childVars
<1>3. c \in Child /\ ledger[c].state = "settled"
      /\ ledger[c].receipt \in Nat /\ ctl.usage \in Nat
  BY <1>a, <1>2 DEF LedgerShape, TodoSettled
<1>4. journal'.ids = journal.ids \cup {c}
  BY <1>1, <1>a, <1>3 DEF LedgerShape
<1>5. LedgerShape'
  <2>0. ctl.usage + ledger[c].receipt \in Nat
    BY <1>3
  <2>1. ctl' \in [usage : Nat, stopped : BOOLEAN]
    <3>1. PICK u \in Nat, b \in BOOLEAN :
             ctl' = [ctl EXCEPT !.usage = u, !.stopped = b] \/ ctl' = ctl
      BY <1>1, <2>0, Zenon
    <3> QED BY <3>1, <1>a DEF LedgerShape
  <2>2. journal' \in [usage : Nat, ids : SUBSET Child,
                    terminal : {"none", "completed", "cancelled", "stopped"}]
    <3>1. PICK u \in Nat :
             \/ journal' = [journal EXCEPT !.usage = u,
                                           !.ids = journal.ids \cup {c}]
             \/ journal' = journal
      BY <1>1, <2>0, Zenon
    <3>2. journal.ids \cup {c} \in SUBSET Child
      BY <1>3, <1>a DEF LedgerShape
    <3> QED BY <3>1, <3>2, <1>a DEF LedgerShape
  <2>3. snap' \in [todo : SUBSET Child, current : SUBSET Child,
                   victims : SUBSET Child, fresh : SUBSET Child]
    BY <1>1, <1>3, <1>a DEF LedgerShape
  <2> QED BY <2>1, <2>2, <2>3, <1>2, <1>a DEF LedgerShape
<1>6. AccountedIsJournaled'
  BY <1>2, <1>3, <1>4, <1>a DEF AccountedIsJournaled
<1>7. snap'.todo \subseteq snap.todo /\ snap'.current = {c}
  BY <1>1, <1>a DEF LedgerShape
<1>8. TodoSettled' /\ CurrentJournaled' /\ LeaseIsNew'
  BY <1>2, <1>4, <1>7, <1>a DEF TodoSettled, CurrentJournaled, LeaseIsNew
<1> QED BY <1>2, <1>5, <1>6, <1>8 DEF LedgerInv, ReceiptsKept

(* mark_receipts_accounted marks what the journal has.                     *)
LEMMA AcknowledgeKeeps ==
    ASSUME LedgerInv, Acknowledge PROVE LedgerInv' /\ ReceiptsKept
<1>a. LedgerShape /\ AccountedIsJournaled /\ TodoSettled /\ CurrentJournaled
      /\ LeaseIsNew
  BY DEF LedgerInv
<1>1. /\ pc = "ack" /\ pc' = "bill"
      /\ ledger' = [c \in Child |-> IF c \in snap.current
                      THEN [ledger[c] EXCEPT !.accounted = TRUE]
                      ELSE ledger[c]]
      /\ snap' = [snap EXCEPT !.current = {}]
      /\ UNCHANGED <<journal, job, ctl, spent>>
  BY DEF Acknowledge, controlVars, childVars
<1>2. ledger \in [Child -> Entry]
  BY <1>a DEF LedgerShape, Entry
<1>3. ASSUME NEW c \in Child
      PROVE  /\ ledger'[c] \in Entry
             /\ ledger'[c].state = ledger[c].state
             /\ ledger'[c].receipt = ledger[c].receipt
             /\ ledger'[c].accounted =>
                   ledger[c].accounted \/ c \in snap.current
  BY <1>1, <1>2 DEF Entry
<1>4. ledger' \in [Child -> Entry]
  BY <1>1, <1>3
<1>5. /\ snap' \in [todo : SUBSET Child, current : SUBSET Child,
                    victims : SUBSET Child, fresh : SUBSET Child]
      /\ snap'.todo = snap.todo
  BY <1>1, <1>a DEF LedgerShape
<1>6. LedgerShape'
  BY <1>1, <1>4, <1>5, <1>a DEF LedgerShape, Entry
<1>7. AccountedIsJournaled'
  BY <1>1, <1>3, <1>a DEF AccountedIsJournaled, CurrentJournaled
<1>8. TodoSettled' /\ CurrentJournaled'
  BY <1>1, <1>3, <1>5, <1>a DEF TodoSettled, CurrentJournaled, LedgerShape
<1>9. LeaseIsNew'
  BY <1>1, <1>3, <1>a DEF LeaseIsNew
<1> QED BY <1>3, <1>6, <1>7, <1>8, <1>9 DEF LedgerInv, ReceiptsKept

(* reserve opens an entry that was absent.                                 *)
LEMMA GrantLeaseKeeps ==
    ASSUME LedgerInv, GrantLease PROVE LedgerInv' /\ ReceiptsKept
<1>a. LedgerShape /\ AccountedIsJournaled /\ LeaseIsNew
  BY DEF LedgerInv
<1>1. PICK spec \in 1 .. Limit :
         ledger' = [ledger EXCEPT ![job.child] =
                      [NoEntry EXCEPT !.state = "open", !.spec = spec]]
  BY DEF GrantLease
<1>2. /\ pc = "lease" /\ pc' = "read"
      /\ job' = [job EXCEPT !.kind = "leased"]
      /\ UNCHANGED <<journal, snap, ctl, spent>>
  BY DEF GrantLease, controlVars, childVars
<1>3. job.child \in Child /\ ledger[job.child].state = "absent"
  BY <1>2, <1>a DEF LeaseIsNew
<1>4. job.child \notin journal.ids
  BY <1>3, <1>a DEF AccountedIsJournaled
<1>5. ledger \in [Child -> Entry]
  BY <1>a DEF LedgerShape, Entry
<1>6. spec \in Nat
  BY LimitAssumption
<1>7. [NoEntry EXCEPT !.state = "open", !.spec = spec] \in Entry
      /\ [NoEntry EXCEPT !.state = "open", !.spec = spec].accounted = FALSE
  BY <1>6 DEF NoEntry, Entry
<1>8. ledger' \in [Child -> Entry]
      /\ ledger'[job.child].accounted = FALSE
      /\ \A c \in Child : c # job.child => ledger'[c] = ledger[c]
  BY <1>1, <1>3, <1>5, <1>7
<1>9. job' \in [kind : Kinds, child : Child \cup {0}] /\ job'.kind = "leased"
  BY <1>2, <1>a DEF LedgerShape, Kinds
<1>10. LedgerShape'
  BY <1>2, <1>8, <1>9, <1>a DEF LedgerShape, Entry
<1>11. AccountedIsJournaled'
  BY <1>2, <1>4, <1>8, <1>a DEF AccountedIsJournaled
<1>12. TodoSettled' /\ CurrentJournaled' /\ LeaseIsNew'
  BY <1>2, <1>9 DEF TodoSettled, CurrentJournaled, LeaseIsNew
<1>13. ReceiptsKept
  BY <1>3, <1>8 DEF ReceiptsKept
<1> QED BY <1>10, <1>11, <1>12, <1>13 DEF LedgerInv

(* A binding, or its failure, changes no written receipt.                  *)
LEMMA BindTaskKeeps ==
    ASSUME LedgerInv, BindTask PROVE LedgerInv' /\ ReceiptsKept
<1>a. LedgerShape /\ AccountedIsJournaled /\ LeaseIsNew
  BY DEF LedgerInv
<1>1. /\ pc = "bind" /\ pc' = "refund"
      /\ ledger' = [ledger EXCEPT ![job.child].bound = TRUE]
      /\ UNCHANGED <<journal, job, snap, ctl, spent>>
  BY DEF BindTask, controlVars
<1>2. ledger \in [Child -> Entry]
  BY <1>a DEF LedgerShape, Entry
<1>3. ASSUME NEW c \in Child
      PROVE  /\ ledger'[c] \in Entry
             /\ ledger'[c].state = ledger[c].state
             /\ ledger'[c].receipt = ledger[c].receipt
             /\ ledger'[c].accounted = ledger[c].accounted
  BY <1>1, <1>2 DEF Entry
<1>4. ledger' \in [Child -> Entry]
  BY <1>1, <1>2, <1>3
<1>5. LedgerShape'
  BY <1>1, <1>4, <1>a DEF LedgerShape, Entry
<1>6. AccountedIsJournaled'
  BY <1>1, <1>3, <1>a DEF AccountedIsJournaled
<1>7. TodoSettled' /\ CurrentJournaled' /\ LeaseIsNew'
  BY <1>1, <1>3, <1>a DEF TodoSettled, CurrentJournaled, LeaseIsNew
<1> QED BY <1>3, <1>5, <1>6, <1>7 DEF LedgerInv, ReceiptsKept

(* A refund or a zero receipt of the parent; the parent's position moves.  *)
LEMMA ParentSettles ==
    ASSUME LedgerInv, NEW c \in Child \cup {0},
           ledger' = ledger \/ ledger' = Settled(c, 0),
           UNCHANGED <<journal, ctl, spent>>,
           job' \in [kind : Kinds, child : Child \cup {0}],
           snap' \in [todo : SUBSET Child, current : SUBSET Child,
                      victims : SUBSET Child, fresh : SUBSET Child],
           pc' \notin {"bill", "ack", "admit", "lease"},
           job'.kind \in {"subagent", "lease"} => job' = job
    PROVE  LedgerInv' /\ ReceiptsKept
<1>a. LedgerShape /\ AccountedIsJournaled /\ LeaseIsNew
  BY DEF LedgerInv
<1>1. ledger' \in [Child -> Entry] /\ LedgerAdvances
  <2>1. CASE ledger' = ledger
    BY <2>1, UnchangedAdvances
  <2>2. CASE ledger' = Settled(c, 0) /\ c \in Child
    BY <2>2, <1>a, SettledAdvances
  <2>3. CASE ledger' = Settled(c, 0) /\ c \notin Child
    <3>1. ledger' = ledger
      BY <2>3, <1>a DEF Settled, LedgerShape
    <3> QED BY <3>1, UnchangedAdvances
  <2> QED BY <2>1, <2>2, <2>3
<1>2. LedgerShape'
  BY <1>1, <1>a DEF LedgerShape, Entry
<1>3. AccountedIsJournaled'
  BY <1>1, <1>a DEF AccountedIsJournaled, LedgerAdvances
<1>4. TodoSettled' /\ CurrentJournaled'
  BY DEF TodoSettled, CurrentJournaled
<1>5. LeaseIsNew'
  BY <1>1, <1>a DEF LeaseIsNew, LedgerAdvances
<1> QED BY <1>1, <1>2, <1>3, <1>4, <1>5, AdvancesKeepsReceipts DEF LedgerInv

(* A lease that returns settles its own child.                             *)
LEMMA ReturnLeaseKeeps ==
    ASSUME LedgerInv, ReturnLease PROVE LedgerInv' /\ ReceiptsKept
<1>a. LedgerShape
  BY DEF LedgerInv
<1>1. /\ ledger' = ledger \/ ledger' = Settled(job.child, 0)
      /\ pc' = "read"
      /\ job' = [job EXCEPT !.kind = "returned"]
      /\ UNCHANGED <<journal, ctl, spent, snap>>
  BY DEF ReturnLease, controlVars, childVars
<1>2. job' \in [kind : Kinds, child : Child \cup {0}]
      /\ job'.kind = "returned" /\ job.child \in Child \cup {0}
  BY <1>1, <1>a DEF LedgerShape, Kinds
<1>3. snap' \in [todo : SUBSET Child, current : SUBSET Child,
                 victims : SUBSET Child, fresh : SUBSET Child]
  BY <1>1, <1>a DEF LedgerShape
<1> QED BY <1>1, <1>2, <1>3, ParentSettles

(* The stop of a child writes a receipt only where there is none.          *)
LEMMA StopChildKeeps ==
    ASSUME LedgerInv, StopChild PROVE LedgerInv' /\ ReceiptsKept
<1>a. LedgerShape
  BY DEF LedgerInv
<1>1. PICK c \in snap.todo :
         /\ ledger' = ledger \/ ledger' = Settled(c, 0)
         /\ snap' = [snap EXCEPT !.todo = @ \ {c}]
  BY DEF StopChild
<1>2. pc' = "stop" /\ UNCHANGED <<journal, job, ctl, spent>>
  BY DEF StopChild, controlVars
<1>3. c \in Child \cup {0}
      /\ job' \in [kind : Kinds, child : Child \cup {0}]
  BY <1>2, <1>a DEF LedgerShape
<1>4. snap' \in [todo : SUBSET Child, current : SUBSET Child,
                 victims : SUBSET Child, fresh : SUBSET Child]
  BY <1>1, <1>a DEF LedgerShape
<1> QED BY <1>1, <1>2, <1>3, <1>4, ParentSettles

-----------------------------------------------------------------------------
(* LedgerInv is inductive, and no step touches a written receipt.          *)
LEMMA NextKeeps ==
    ASSUME LedgerInv, [Next]_vars PROVE LedgerInv' /\ ReceiptsKept
<1>1. CASE UNCHANGED vars
  <2>1. spent' \in [Child -> Nat] /\ UNCHANGED <<ledger, journal, parentVars>>
    BY <1>1 DEF vars, childVars, LedgerInv, LedgerShape
  <2> QED BY <2>1, UnchangedAdvances, QuietStep, AdvancesKeepsReceipts
<1>2. CASE \E c \in Child : ChildStep(c)
  BY <1>2, ChildStepKeeps, AdvancesKeepsReceipts
<1>3. CASE BillReceipt BY <1>3, BillReceiptKeeps
<1>4. CASE Acknowledge BY <1>4, AcknowledgeKeeps
<1>5. CASE GrantLease BY <1>5, GrantLeaseKeeps
<1>6. CASE BindTask BY <1>6, BindTaskKeeps
<1>7. CASE ReturnLease BY <1>7, ReturnLeaseKeeps
<1>8. CASE StopChild BY <1>8, StopChildKeeps
<1>9. CASE \/ BeginTool \/ BeginSubagent \/ BeginComplete \/ BeginCancel
           \/ ReadLedger \/ RefreshDone \/ AdmitToolCall \/ RefuseToolCall
           \/ RefuseLease \/ Submit \/ SubmitRefused \/ BindFails
           \/ StopSnapshot \/ StopAllRequested \/ StopWaited \/ StopFails
           \/ CommitTerminal \/ Crash \/ Reopen
  BY <1>9, ParentStepKeeps, AdvancesKeepsReceipts
<1> QED BY <1>1, <1>2, <1>3, <1>4, <1>5, <1>6, <1>7, <1>8, <1>9
        DEF Next, Parent, Refresh, Stop

(***************************************************************************)
(* The inductive invariant holds in every reachable state.                 *)
(***************************************************************************)
THEOREM LedgerCorrect == Spec => []LedgerInv
<1>1. LedgerInv /\ [Next]_vars => LedgerInv'
  BY NextKeeps
<1> QED BY InitLedger, <1>1, PTL DEF Spec

(***************************************************************************)
(* refresh_child_budgets releases a reservation only after the journal has *)
(* its receipt, and bills only written receipts, wherever the process      *)
(* crashes and whatever children run.                                      *)
(***************************************************************************)
THEOREM BillsJournaledFirst == Spec => []AccountedIsJournaled
<1>1. LedgerInv => AccountedIsJournaled
  BY DEF LedgerInv
<1> QED BY <1>1, LedgerCorrect, PTL

(***************************************************************************)
(* A receipt written by settle, refund_unsubmitted or a stop is never      *)
(* replaced, by a late report, a retry or a new reservation.               *)
(***************************************************************************)
THEOREM ReceiptsAreFinal == Spec => ReceiptFinal
<1>1. LedgerInv /\ [Next]_vars =>
        [\A c \in Child : ledger[c].state = "settled" =>
            /\ ledger'[c].state = "settled"
            /\ ledger'[c].receipt = ledger[c].receipt]_vars
  BY NextKeeps DEF ReceiptsKept
<1> QED BY <1>1, LedgerCorrect, PTL DEF Spec, ReceiptFinal

-----------------------------------------------------------------------------
(***************************************************************************)
(* The billing invariant.                                                  *)
(***************************************************************************)
Fate == [status : {"none", "queued", "running", "stopping", "ended",
                   "indeterminate"},
         started : BOOLEAN]
LaunchState == {"none", "pending", "dropped", "executing", "settled", "lost",
                "gone"}

(* The part of the types LedgerShape leaves out.                           *)
RestOK ==
    /\ task \in [Child -> Fate]
    /\ pc \in Points
    /\ external \in Nat /\ reserved \in Nat
    /\ launch \in [Child -> LaunchState]
    /\ own \in Nat
    /\ crashes \in Nat

(* The type invariant is that of the ledger and that of the rest.          *)
LEMMA TypeParts == TypeOK <=> LedgerShape /\ RestOK
  BY DEF TypeOK, LedgerShape, RestOK, Fate, LaunchState

LEMMA TypePartsNext == TypeOK' <=> LedgerShape' /\ RestOK'
  BY DEF TypeOK, LedgerShape, RestOK, Fate, LaunchState

(* The functions that are summed, and what they are summed over.           *)
LEMMA Summands ==
    ASSUME LedgerShape
    PROVE  /\ Charge \in [Child -> Nat]
           /\ Bill \in [Child -> Nat]
           /\ Exposure \in [Child -> Nat]
           /\ [c \in Child |-> ledger[c].spec] \in [Child -> Nat]
           /\ spent \in [Child -> Nat]
           /\ \A S \in SUBSET Child : IsFiniteSet(S)
<1>1. \A S \in SUBSET Child : IsFiniteSet(S)
  BY ChildAssumption, FS_Subset
<1> QED BY <1>1 DEF LedgerShape, Charge, Bill, Exposure

(* The same after a step.                                                  *)
LEMMA SummandsNext ==
    ASSUME LedgerShape'
    PROVE  /\ Charge' \in [Child -> Nat]
           /\ Bill' \in [Child -> Nat]
           /\ Exposure' \in [Child -> Nat]
           /\ spent' \in [Child -> Nat]
  BY DEF LedgerShape, Charge, Bill, Exposure

(* What is journaled stays billed as long as usage and receipts stay.      *)
LEMMA BillStays ==
    ASSUME LedgerShape, LedgerShape', BilledOnce, AccountedIsJournaled,
           ReceiptsKept, journal'.usage = journal.usage,
           journal'.ids = journal.ids, own' = own
    PROVE  BilledOnce'
<1>1. /\ Bill \in [Child -> Nat] /\ Bill' \in [Child -> Nat]
      /\ journal.ids \in SUBSET Child /\ IsFiniteSet(journal.ids)
  <2>1. journal.ids \in SUBSET Child
    BY DEF LedgerShape
  <2> QED BY <2>1, Summands, SummandsNext
<1>2. \A c \in journal.ids : Bill'[c] = Bill[c]
  BY <1>1 DEF AccountedIsJournaled, ReceiptsKept, Bill
<1>3. SumOver(Bill', journal.ids) = SumOver(Bill, journal.ids)
  <2> DEFINE f == Bill  g == Bill'
  <2>1. /\ f \in [Child -> Nat] /\ g \in [Child -> Nat]
        /\ \A c \in journal.ids : g[c] = f[c]
    BY <1>1, <1>2
  <2> HIDE DEF f, g
  <2>2. SumOver(g, journal.ids) = SumOver(f, journal.ids)
    BY <1>1, <2>1, SumEqual
  <2> QED BY <2>2 DEF f, g
<1>4. SumOver(Bill, journal.ids)' = SumOver(Bill', journal'.ids)
  BY DEF SumOver, MapThenSumSet, MapThenFoldSet
<1> QED BY <1>3, <1>4 DEF BilledOnce
(* What a step that grants nothing may do to the ledger's charges.         *)
ChargesFall ==
    \A c \in Child :
       /\ ledger'[c].spec = ledger[c].spec
       /\ ledger'[c].receipt <= ledger'[c].spec
       /\ ledger'[c].accounted = ledger[c].accounted
       /\ ledger'[c].state = "absent" <=> ledger[c].state = "absent"
       /\ ledger[c].state = "settled" => ledger'[c].state = "settled"
       /\ Charge'[c] <= Charge[c]

(* A receipt within the reservation lowers the charge.                     *)
LEMMA SettledFalls ==
    ASSUME LedgerShape, WithinSpec, NEW c \in Child, NEW n \in Nat,
           n <= ledger[c].spec, ledger' = Settled(c, n)
    PROVE  ChargesFall /\ \A d \in Child : d # c => ledger'[d] = ledger[d]
<1>1. ledger \in [Child -> Entry]
  BY DEF LedgerShape, Entry
<1> DEFINE e == Receipt(ledger[c], n)
<1>2. /\ e \in Entry
      /\ e.spec = ledger[c].spec /\ e.accounted = ledger[c].accounted
      /\ e.receipt = n \/ e.receipt = ledger[c].receipt
      /\ e = ledger[c] \/ (e.state = "settled" /\ e.receipt = n
                           /\ ledger[c].state = "open")
  BY <1>1 DEF Receipt, Entry
<1>3. ledger' = [ledger EXCEPT ![c] = e]
  BY DEF Settled
<1> HIDE DEF e
<1>4. ledger'[c] = e /\ \A d \in Child : d # c => ledger'[d] = ledger[d]
  BY <1>1, <1>3
<1>5. ASSUME NEW d \in Child
      PROVE  /\ ledger'[d].spec = ledger[d].spec
             /\ ledger'[d].receipt <= ledger'[d].spec
             /\ ledger'[d].accounted = ledger[d].accounted
             /\ ledger'[d].state = "absent" <=> ledger[d].state = "absent"
             /\ ledger[d].state = "settled" => ledger'[d].state = "settled"
             /\ Charge'[d] <= Charge[d]
  <2>1. /\ Charge[d] = IF ledger[d].state = "settled"
                       THEN ledger[d].receipt ELSE ledger[d].spec
        /\ Charge'[d] = IF ledger'[d].state = "settled"
                        THEN ledger'[d].receipt ELSE ledger'[d].spec
    BY DEF Charge
  <2>2. ledger[d] \in Entry /\ ledger[d].receipt \in Nat /\ ledger[d].spec \in Nat
    BY <1>1 DEF Entry
  <2>3. CASE d = c
    BY <2>1, <2>2, <2>3, <1>2, <1>4 DEF WithinSpec
  <2>4. CASE d # c
    BY <2>1, <2>2, <2>4, <1>4 DEF WithinSpec
  <2> QED BY <2>3, <2>4
<1> QED BY <1>4, <1>5 DEF ChargesFall

(* A ledger that stays charges what it charged.                            *)
LEMMA UnchangedFalls ==
    ASSUME LedgerShape, WithinSpec, UNCHANGED ledger
    PROVE  ChargesFall
  BY DEF ChargesFall, WithinSpec, LedgerShape, Charge

(* A sum of charges falls with them.                                       *)
LEMMA SumFalls ==
    ASSUME LedgerShape, LedgerShape', ChargesFall,
           NEW S \in SUBSET Child
    PROVE  /\ SumOver(Charge', S) <= SumOver(Charge, S)
           /\ SumOver(Charge', S) \in Nat /\ SumOver(Charge, S) \in Nat
<1> DEFINE f == Charge  g == Charge'
<1>1. /\ f \in [Child -> Nat] /\ g \in [Child -> Nat] /\ IsFiniteSet(S)
      /\ \A c \in S : g[c] <= f[c]
  BY Summands, SummandsNext DEF ChargesFall
<1> HIDE DEF f, g
<1>2. SumOver(g, S) <= SumOver(f, S) /\ SumOver(g, S) \in Nat /\ SumOver(f, S) \in Nat
  BY <1>1, SumLeq, SumNat
<1> QED BY <1>2 DEF f, g

(* With the parent where it is, what a refresh has read stays enough.      *)
LEMMA RefreshStays ==
    ASSUME TypeOK, LedgerShape', ChargesFall, RefreshCovers,
           UNCHANGED parentVars
    PROVE  RefreshCovers'
<1>0. LedgerShape /\ RestOK
  BY TypeParts
<1>1. Unaccounted' = Unaccounted /\ Unaccounted \in SUBSET Child
  BY DEF Unaccounted, Entries, ChargesFall
<1>2. UNCHANGED <<pc, snap, reserved, external>>
  BY DEF parentVars, controlVars
<1> DEFINE S == Unaccounted \ (snap.todo \cup snap.current)
<1>3. /\ SumOver(Charge', S) <= SumOver(Charge, S)
      /\ SumOver(Charge', S) \in Nat /\ SumOver(Charge, S) \in Nat
      /\ SumOver(Charge', Unaccounted) <= SumOver(Charge, Unaccounted)
      /\ SumOver(Charge', Unaccounted) \in Nat /\ SumOver(Charge, Unaccounted) \in Nat
  <2>1. S \in SUBSET Child
    BY <1>1
  <2> HIDE DEF S
  <2> QED BY <1>0, <1>1, <2>1, SumFalls
<1>4. /\ SumOver(Charge, Unaccounted \ (snap.todo \cup snap.current))'
           = SumOver(Charge', S)
      /\ Charged' = SumOver(Charge', Unaccounted)
  BY <1>1, <1>2 DEF Charged
<1>5. reserved \in Nat /\ external \in Nat
  BY <1>0 DEF RestOK
<1>6. pc' \in {"bill", "ack"} =>
        SumOver(Charge, Unaccounted \ (snap.todo \cup snap.current))' <= reserved'
  <2>1. pc \in {"bill", "ack"} => SumOver(Charge, S) <= reserved
    BY DEF RefreshCovers
  <2> HIDE DEF S
  <2> QED BY <1>2, <1>3, <1>4, <1>5, <2>1
<1>7. pc' \in {"admit", "lease"} => Charged' <= external'
  <2>1. pc \in {"admit", "lease"} => SumOver(Charge, Unaccounted) <= external
    BY DEF RefreshCovers, Charged
  <2> QED BY <1>2, <1>3, <1>4, <1>5, <2>1
<1> QED BY <1>2, <1>6, <1>7 DEF RefreshCovers

(* The steps of the dispatcher and the children.                           *)
LEMMA QuietBilling ==
    ASSUME BillingInv, LedgerInv', ReceiptsKept, ChargesFall,
           UNCHANGED <<journal, parentVars, own, crashes>>,
           task' \in [Child -> Fate], launch' \in [Child -> LaunchState],
           \A c \in Child : spent'[c] <= ledger[c].spec
    PROVE  BillingInv'
<1>1. /\ TypeOK /\ LedgerShape /\ RestOK /\ AccountedIsJournaled
      /\ BilledOnce /\ WithinSpec /\ RefreshCovers /\ UsageTracked
  BY TypeParts DEF BillingInv, LedgerInv
<1>2. LedgerShape' /\ RestOK'
  BY <1>1 DEF LedgerInv, RestOK, parentVars, controlVars
<1>3. TypeOK'
  BY <1>2, TypePartsNext
<1>4. UsageTracked'
  BY <1>1 DEF UsageTracked, parentVars, controlVars
<1>5. BilledOnce'
  BY <1>1, <1>2, BillStays
<1>6. WithinSpec'
  BY <1>1 DEF WithinSpec, ChargesFall
<1>7. RefreshCovers'
  BY <1>1, <1>2, RefreshStays
<1> QED BY <1>3, <1>4, <1>5, <1>6, <1>7 DEF BillingInv

(* The steps of dispatcher and children.                                   *)
LEMMA ChildBilling ==
    ASSUME BillingInv, NEW c \in Child, ChildStep(c)
    PROVE  BillingInv' /\ ChargesFall
<1> USE DEF childVars
<1>a. /\ LedgerInv /\ LedgerShape /\ RestOK /\ WithinSpec
      /\ spent \in [Child -> Nat] /\ ledger[c].spec \in Nat
      /\ ledger \in [Child -> Entry]
  BY TypeParts DEF BillingInv, LedgerInv, LedgerShape, Entry
<1>b. LedgerInv' /\ ReceiptsKept
  BY <1>a, ChildStepKeeps, AdvancesKeepsReceipts
<1>c. \A d \in Child : spent[d] <= ledger[d].spec
  BY <1>a DEF WithinSpec
<1>d. /\ task \in [Child -> Fate] /\ launch \in [Child -> LaunchState]
      /\ Admitted \in Fate /\ EndedTask \in Fate
      /\ {"gone", "pending", "dropped", "executing", "settled"}
            \subseteq LaunchState
  BY <1>a DEF RestOK, Fate, LaunchState, Admitted, EndedTask
<1>e. ASSUME NEW n \in Nat, n <= ledger[c].spec,
             ledger' = Settled(c, n) \/ ledger' = ledger
      PROVE  ChargesFall
  BY <1>a, <1>e, SettledFalls, UnchangedFalls
<1>f. UNCHANGED <<journal, parentVars, own, crashes>>
  BY DEF ChildStep, Dispatch, AcquireQueued, DropLaunch, RefundDropped,
         StartChild, LaunchFails, WorkerFenced, ChildSpends, ChildSettles,
         ChildEnds, ChildLost
<1>g. ChargesFall
  <2>1. /\ 0 \in Nat /\ 0 <= ledger[c].spec
        /\ spent[c] \in Nat /\ spent[c] <= ledger[c].spec
    BY <1>a, <1>c
  <2>2. ledger' = ledger \/ ledger' = Settled(c, 0)
        \/ ledger' = Settled(c, spent[c])
    BY DEF ChildStep, Dispatch, AcquireQueued, DropLaunch, RefundDropped,
           StartChild, LaunchFails, WorkerFenced, ChildSpends, ChildSettles,
           ChildEnds, ChildLost
  <2> QED BY <1>e, <2>1, <2>2
<1>h. launch' \in [Child -> LaunchState]
  <2>1. \E v \in LaunchState :
           launch' = launch \/ launch' = [launch EXCEPT ![c] = v]
    BY <1>d DEF ChildStep, Dispatch, AcquireQueued, DropLaunch, RefundDropped,
         StartChild, LaunchFails, WorkerFenced, ChildSpends, ChildSettles,
         ChildEnds, ChildLost
  <2> QED BY <1>d, <2>1
<1>i. task' \in [Child -> Fate]
  <2>1. \E v \in Fate : task' = task \/ task' = [task EXCEPT ![c] = v]
    <3>1. CASE ChildLost(c)
      BY <3>1 DEF ChildLost, Fate
    <3>2. CASE ~ChildLost(c)
      BY <1>d, <3>2 DEF ChildStep, Dispatch, AcquireQueued, DropLaunch,
           RefundDropped, StartChild, LaunchFails, WorkerFenced, ChildSpends,
           ChildSettles, ChildEnds, CancelledBeforeDispatch
    <3> QED BY <3>1, <3>2
  <2> QED BY <1>d, <2>1
<1>j. \A d \in Child : spent'[d] <= ledger[d].spec
  <2>1. spent' = spent \/ (spent' = [spent EXCEPT ![c] = @ + 1]
                           /\ spent[c] < ledger[c].spec)
    BY DEF ChildStep, Dispatch, AcquireQueued, DropLaunch, RefundDropped,
         StartChild, LaunchFails, WorkerFenced, ChildSpends, ChildSettles,
         ChildEnds, ChildLost
  <2> QED BY <1>a, <1>c, <2>1
<1> QED BY <1>b, <1>f, <1>g, <1>h, <1>i, <1>j, QuietBilling
-----------------------------------------------------------------------------
(* A step of the parent outside a refresh.                                 *)
LEMMA ParentBilling ==
    ASSUME BillingInv, LedgerInv', RestOK', ReceiptsKept, WithinSpec',
           UsageTracked',
           journal'.usage = journal.usage, journal'.ids = journal.ids,
           own' = own, snap'.current = snap.current \/ snap'.current = {},
           pc # "ack", pc' \notin {"bill", "ack", "admit", "lease"}
    PROVE  BillingInv'
<1>1. /\ LedgerShape /\ AccountedIsJournaled /\ BilledOnce
      /\ RefreshCovers /\ LedgerShape'
  BY DEF BillingInv, LedgerInv
<1>2. TypeOK'
  BY <1>1, TypePartsNext
<1>3. BilledOnce'
  BY <1>1, BillStays
<1>4. RefreshCovers'
  BY <1>1 DEF RefreshCovers
<1> QED BY <1>2, <1>3, <1>4 DEF BillingInv

(* The steps of the parent that leave the ledger alone.                    *)
LEMMA ParentQuietBilling ==
    ASSUME BillingInv,
           \/ BeginTool \/ BeginSubagent \/ BeginComplete \/ BeginCancel
           \/ RefuseToolCall
           \/ RefuseLease \/ Submit \/ SubmitRefused \/ BindFails
           \/ StopSnapshot \/ StopAllRequested \/ StopWaited \/ StopFails
           \/ CommitTerminal \/ Crash \/ Reopen
    PROVE  BillingInv'
<1> USE DEF childVars, controlVars, Points, Fate, LaunchState, RestOK
<1>a. LedgerInv /\ LedgerShape /\ RestOK /\ WithinSpec /\ UsageTracked
  BY TypeParts DEF BillingInv, LedgerInv
<1>b. LedgerInv' /\ ReceiptsKept
  BY <1>a, ParentStepKeeps, AdvancesKeepsReceipts
<1>c. /\ Admitted \in Fate /\ EndedTask \in Fate
      /\ [status |-> "queued", started |-> FALSE] \in Fate
      /\ [status |-> "ended", started |-> TRUE] \in Fate
      /\ [status |-> "indeterminate", started |-> TRUE] \in Fate
  BY DEF Admitted, EndedTask
<1>d. UNCHANGED <<ledger, spent, own>>
  BY DEF BeginTool, BeginSubagent, BeginComplete, BeginCancel, Begin,
         RefuseToolCall, RefuseLease, Submit, SubmitRefused, BindFails,
         StopSnapshot, StopAllRequested, StopWaited, StopFails,
         CommitTerminal, Crash, Reopen
<1>e. WithinSpec'
  BY <1>a, <1>d DEF WithinSpec
<1>f. journal'.usage = journal.usage /\ journal'.ids = journal.ids
  <2>1. CASE CommitTerminal
    <3>1. \E t : journal' = [journal EXCEPT !.terminal = t]
      BY <2>1 DEF CommitTerminal
    <3> QED BY <3>1, <1>a DEF LedgerShape
  <2>2. CASE ~CommitTerminal
    BY <2>2 DEF BeginTool, BeginSubagent, BeginComplete, BeginCancel, Begin,
         RefuseToolCall, RefuseLease, Submit, SubmitRefused, BindFails,
         StopSnapshot, StopAllRequested, StopWaited, StopFails, Crash, Reopen
  <2> QED BY <2>1, <2>2
<1>g. snap'.current = snap.current \/ snap'.current = {}
  <2>1. CASE StopSnapshot
    <3>1. \E a, b, f : snap' = [snap EXCEPT !.todo = a, !.victims = b,
                                            !.fresh = f]
      BY <2>1 DEF StopSnapshot
    <3> QED BY <3>1, <1>a DEF LedgerShape
  <2>2. CASE ~StopSnapshot
    BY <2>2 DEF BeginTool, BeginSubagent, BeginComplete, BeginCancel, Begin,
         RefuseToolCall, RefuseLease, Submit, SubmitRefused, BindFails,
         StopAllRequested, StopWaited, StopFails, CommitTerminal, Crash,
         Reopen, NoSnap
  <2> QED BY <2>1, <2>2
<1>h. pc' \notin {"bill", "ack", "admit", "lease"} /\ pc' \in Points
  BY DEF BeginTool, BeginSubagent, BeginComplete, BeginCancel, Begin,
         RefuseToolCall, RefuseLease, Submit, SubmitRefused, BindFails,
         StopSnapshot, StopAllRequested, StopWaited, StopFails,
         CommitTerminal, Crash, Reopen
<1>i. UsageTracked'
  BY <1>a, <1>f DEF BeginTool, BeginSubagent, BeginComplete, BeginCancel,
         Begin, RefuseToolCall, RefuseLease, Submit, SubmitRefused, BindFails,
         StopSnapshot, StopAllRequested, StopWaited, StopFails,
         CommitTerminal, Crash, Reopen, LedgerShape, UsageTracked
<1>j. task' \in [Child -> Fate]
  <2>1. CASE Submit
    BY <2>1, <1>a, <1>c DEF Submit
  <2>2. CASE BindFails
    BY <2>2, <1>a, <1>c DEF BindFails
  <2>3. CASE Reopen
    BY <2>3, <1>a, <1>c DEF Reopen
  <2>5. CASE StopFails
    <3>1. PICK c \in snap.todo : StopRequested(c)
      BY <2>5 DEF StopFails
    <3>2. [status |-> "stopping", started |-> TRUE] \in Fate
      OBVIOUS
    <3> QED BY <3>1, <3>2, <1>a, <1>c DEF StopRequested
  <2>4. CASE ~Submit /\ ~BindFails /\ ~Reopen /\ ~StopFails
    BY <2>4, <1>a DEF BeginTool, BeginSubagent, BeginComplete, BeginCancel,
         Begin, RefuseToolCall, RefuseLease, SubmitRefused,
         StopSnapshot, StopAllRequested, StopWaited, CommitTerminal, Crash
  <2> QED BY <2>1, <2>2, <2>3, <2>4, <2>5
<1>k. launch' \in [Child -> LaunchState]
  <2>1. CASE Crash
    BY <2>1, <1>a DEF Crash
  <2>2. CASE Reopen
    BY <2>2, <1>a DEF Reopen
  <2>4. CASE StopFails
    <3>1. PICK c \in snap.todo : StopRequested(c)
      BY <2>4 DEF StopFails
    <3> QED BY <3>1, <1>a DEF StopRequested
  <2>3. CASE ~Crash /\ ~Reopen /\ ~StopFails
    BY <2>3, <1>a DEF BeginTool, BeginSubagent, BeginComplete, BeginCancel,
         Begin, RefuseToolCall, RefuseLease, Submit, SubmitRefused, BindFails,
         StopSnapshot, StopAllRequested, StopWaited, CommitTerminal
  <2> QED BY <2>1, <2>2, <2>3, <2>4
<1>l. external' \in Nat /\ reserved' \in Nat /\ crashes' \in Nat
  BY <1>a DEF BeginTool, BeginSubagent, BeginComplete, BeginCancel, Begin,
         RefuseToolCall, RefuseLease, Submit, SubmitRefused, BindFails,
         StopSnapshot, StopAllRequested, StopWaited, StopFails,
         CommitTerminal, Crash, Reopen
<1>m. RestOK'
  BY <1>a, <1>d, <1>h, <1>j, <1>k, <1>l
<1>n. CASE pc # "ack"
  BY <1>b, <1>d, <1>e, <1>f, <1>g, <1>h, <1>i, <1>m, <1>n, ParentBilling
<1>o. CASE pc = "ack"
  <2>1. Crash
    BY <1>o DEF BeginTool, BeginSubagent, BeginComplete, BeginCancel, Begin,
         RefuseToolCall, RefuseLease, Submit, SubmitRefused, BindFails,
         StopSnapshot, StopAllRequested, StopWaited, StopFails,
         CommitTerminal, Reopen
  <2>2. snap'.current = {}
    BY <2>1 DEF Crash, NoSnap
  <2>3. LedgerShape' /\ AccountedIsJournaled /\ BilledOnce
    BY <1>b DEF BillingInv, LedgerInv
  <2>4. BilledOnce'
    BY <1>a, <1>b, <1>d, <1>f, <2>3, BillStays
  <2>5. RefreshCovers'
    BY <1>h, <2>2 DEF RefreshCovers
  <2> QED BY <1>b, <1>e, <1>i, <1>m, <2>3, <2>4, <2>5, TypePartsNext
          DEF BillingInv
<1> QED BY <1>n, <1>o

(* The steps of the parent that settle, bind or grant.                     *)
LEMMA WriteBilling ==
    ASSUME BillingInv, GrantLease \/ BindTask \/ ReturnLease \/ StopChild
    PROVE  BillingInv'
<1>a. /\ LedgerInv /\ LedgerShape /\ RestOK /\ WithinSpec /\ UsageTracked
      /\ LeaseIsNew /\ ledger \in [Child -> Entry]
      /\ spent \in [Child -> Nat]
  BY TypeParts DEF BillingInv, LedgerInv, LedgerShape, Entry
<1>b. LedgerInv' /\ ReceiptsKept
  BY <1>a, GrantLeaseKeeps, BindTaskKeeps, ReturnLeaseKeeps, StopChildKeeps
<1>c. /\ UNCHANGED <<journal, own, crashes, ctl, external, reserved, spent>>
      /\ snap'.current = snap.current
      /\ pc # "ack" /\ pc # "down"
      /\ pc' \notin {"bill", "ack", "admit", "lease"} /\ pc' \in Points
  <2>1. CASE GrantLease
    BY <2>1 DEF GrantLease, controlVars, childVars, Points
  <2>2. CASE BindTask
    BY <2>2 DEF BindTask, controlVars, childVars, Points
  <2>3. CASE ReturnLease
    BY <2>3 DEF ReturnLease, controlVars, childVars, Points
  <2>4. CASE StopChild
    BY <2>4, <1>a DEF StopChild, controlVars, childVars, Points, LedgerShape
  <2> QED BY <2>1, <2>2, <2>3, <2>4
<1>d. UsageTracked'
  BY <1>a, <1>c DEF UsageTracked
<1>e. RestOK'
  <2>1. task' \in [Child -> Fate] /\ launch' \in [Child -> LaunchState]
    <3>1. CASE GrantLease
      BY <3>1, <1>a DEF GrantLease, childVars, RestOK
    <3>2. CASE BindTask
      BY <3>2, <1>a DEF BindTask, childVars, RestOK, LaunchState
    <3>3. CASE ReturnLease
      BY <3>3, <1>a DEF ReturnLease, childVars, RestOK
    <3>4. CASE StopChild
      <4>1. PICK c \in snap.todo : StopRequested(c)
        BY <3>4 DEF StopChild
      <4>2. /\ EndedTask \in Fate
            /\ [status |-> "stopping", started |-> TRUE] \in Fate
            /\ "gone" \in LaunchState
        BY DEF EndedTask, Fate, LaunchState
      <4> QED BY <4>1, <4>2, <1>a DEF StopRequested, RestOK
    <3> QED BY <3>1, <3>2, <3>3, <3>4
  <2> QED BY <2>1, <1>a, <1>c DEF RestOK
<1>f. WithinSpec'
  <2>1. CASE GrantLease
    <3>1. PICK spec \in 1 .. Limit :
             ledger' = [ledger EXCEPT ![job.child] =
                          [NoEntry EXCEPT !.state = "open", !.spec = spec]]
      BY <2>1 DEF GrantLease
    <3>2. job.child \in Child /\ ledger[job.child].state = "absent"
      BY <2>1, <1>a DEF GrantLease, LeaseIsNew
    <3> DEFINE e == [NoEntry EXCEPT !.state = "open", !.spec = spec]
    <3>3. spec \in Nat /\ e.spec = spec /\ e.receipt = 0 /\ e.state = "open"
      BY LimitAssumption DEF NoEntry
    <3> HIDE DEF e
    <3>4. ledger'[job.child] = e
          /\ \A c \in Child : c # job.child => ledger'[c] = ledger[c]
      BY <3>1, <3>2, <1>a DEF e
    <3>5. spent[job.child] <= 0 /\ spent[job.child] \in Nat
      BY <3>2, <1>a DEF WithinSpec
    <3> QED BY <3>2, <3>3, <3>4, <3>5, <1>a, <1>c DEF WithinSpec
  <2>2. CASE BindTask
    <3>1. ledger' = [ledger EXCEPT ![job.child].bound = TRUE]
      BY <2>2 DEF BindTask
    <3>2. ASSUME NEW c \in Child
          PROVE  /\ ledger'[c].state = ledger[c].state
                 /\ ledger'[c].receipt = ledger[c].receipt
                 /\ ledger'[c].spec = ledger[c].spec
      BY <3>1, <1>a DEF Entry
    <3> QED BY <3>2, <1>a, <1>c DEF WithinSpec
  <2>3. ASSUME NEW c \in Child \cup {0},
               ledger' = ledger \/ ledger' = Settled(c, 0)
        PROVE  WithinSpec'
    <3>1. CASE ledger' = ledger
      BY <3>1, <1>a, <1>c DEF WithinSpec
    <3>2. CASE ledger' = Settled(c, 0) /\ c \in Child
      <4>1. ledger[c].spec \in Nat /\ 0 <= ledger[c].spec
        BY <3>2, <1>a DEF Entry
      <4>2. ChargesFall
        BY <3>2, <4>1, <1>a, SettledFalls
      <4> QED BY <4>2, <1>a, <1>c DEF WithinSpec, ChargesFall
    <3>3. CASE ledger' = Settled(c, 0) /\ c \notin Child
      <4>1. ledger' = ledger
        BY <3>3, <1>a DEF Settled
      <4> QED BY <4>1, <1>a, <1>c DEF WithinSpec
    <3> QED BY <2>3, <3>1, <3>2, <3>3
  <2>4. CASE ReturnLease
    <3>1. job.child \in Child \cup {0}
      BY <1>a DEF LedgerShape
    <3> QED BY <2>3, <2>4, <3>1 DEF ReturnLease
  <2>5. CASE StopChild
    <3>1. PICK c \in snap.todo : ledger' = ledger \/ ledger' = Settled(c, 0)
      BY <2>5 DEF StopChild
    <3>2. c \in Child \cup {0}
      BY <1>a DEF LedgerShape
    <3> QED BY <2>3, <3>1, <3>2
  <2> QED BY <2>1, <2>2, <2>4, <2>5
<1> QED BY <1>b, <1>c, <1>d, <1>e, <1>f, ParentBilling
-----------------------------------------------------------------------------
(* refresh_child_budgets and the admission of a tool call.                 *)

(* ReadLedger adds up the open reservations it has seen.                   *)
LEMMA ReadBilling ==
    ASSUME BillingInv, ReadLedger PROVE BillingInv'
<1>a. /\ LedgerInv /\ LedgerShape /\ RestOK /\ WithinSpec /\ UsageTracked
      /\ BilledOnce /\ AccountedIsJournaled /\ RefreshCovers
  BY TypeParts DEF BillingInv, LedgerInv
<1>b. LedgerInv' /\ ReceiptsKept
  BY <1>a, ParentStepKeeps, AdvancesKeepsReceipts
<1> DEFINE O == {c \in Unaccounted : ledger[c].state = "open"}
           spec == [c \in Child |-> ledger[c].spec]
<1>1. /\ pc = "read" /\ pc' = "bill" /\ external' = 0
      /\ reserved' = SumOver(spec, O)
      /\ snap' = [snap EXCEPT
                    !.todo = {c \in Unaccounted : ledger[c].state = "settled"}]
      /\ UNCHANGED <<journal, ledger, task, ctl, launch, spent, own, crashes>>
  BY DEF ReadLedger, Reserved, childVars
<1>2. O \in SUBSET Child /\ IsFiniteSet(O)
      /\ Charge \in [Child -> Nat] /\ spec \in [Child -> Nat]
  <2>1. O \in SUBSET Child
    BY DEF Unaccounted, Entries
  <2> HIDE DEF O
  <2> QED BY <2>1, <1>a, Summands
<1>3. \A c \in O : spec[c] = Charge[c]
  BY <1>2 DEF Charge
<1>4. SumOver(spec, O) = SumOver(Charge, O) /\ SumOver(spec, O) \in Nat
  <2> HIDE DEF O, spec
  <2> QED BY <1>2, <1>3, SumEqual, SumNat
<1>5. /\ snap'.todo = {c \in Unaccounted : ledger[c].state = "settled"}
      /\ snap'.current = {}
  BY <1>1, <1>a DEF LedgerShape, RefreshCovers
<1>6. Unaccounted' \ (snap'.todo \cup snap'.current) = O /\ Charge' = Charge
  BY <1>1, <1>5, <1>a DEF Unaccounted, Entries, LedgerShape, Charge
<1>7. RefreshCovers'
  <2>1. SumOver(Charge, Unaccounted \ (snap.todo \cup snap.current))'
          = SumOver(Charge, O)
    BY <1>6
  <2> HIDE DEF O, spec
  <2> QED BY <1>1, <1>4, <1>5, <2>1 DEF RefreshCovers
<1>8. RestOK'
  <2> HIDE DEF O, spec
  <2> QED BY <1>1, <1>4, <1>a DEF RestOK, Points
<1>9. LedgerShape'
  BY <1>b DEF LedgerInv
<1>10. TypeOK' /\ BilledOnce'
  BY <1>a, <1>b, <1>1, <1>8, <1>9, TypePartsNext, BillStays
<1>11. UsageTracked' /\ WithinSpec'
  BY <1>1, <1>a DEF UsageTracked, WithinSpec
<1> QED BY <1>b, <1>7, <1>10, <1>11 DEF BillingInv

(* BillReceipt adds a receipt to the usage and to the accounting ids.      *)
LEMMA BillBilling ==
    ASSUME BillingInv, BillReceipt PROVE BillingInv'
<1>a. /\ LedgerInv /\ LedgerShape /\ RestOK /\ WithinSpec /\ UsageTracked
      /\ BilledOnce /\ AccountedIsJournaled /\ RefreshCovers /\ TodoSettled
  BY TypeParts DEF BillingInv, LedgerInv
<1>b. LedgerInv' /\ ReceiptsKept
  BY <1>a, BillReceiptKeeps
<1>1. PICK c \in snap.todo :
         /\ \/ /\ c \notin journal.ids
               /\ journal' = [journal EXCEPT !.usage =
                                 ctl.usage + ledger[c].receipt,
                                             !.ids = @ \cup {c}]
               /\ \E b : ctl' = [ctl EXCEPT
                             !.usage = ctl.usage + ledger[c].receipt,
                             !.stopped = b]
            \/ UNCHANGED <<journal, ctl>>
         /\ snap' = [snap EXCEPT !.todo = @ \ {c}, !.current = {c}]
  BY DEF BillReceipt, Unbilled
<1>2. /\ pc = "bill" /\ pc' = "ack"
      /\ UNCHANGED <<ledger, task, external, reserved, launch, spent, own,
                     crashes>>
  BY DEF BillReceipt, childVars
<1>3. /\ c \in Child /\ ledger[c].receipt \in Nat
      /\ journal.ids \in SUBSET Child /\ journal.usage \in Nat /\ own \in Nat
      /\ ctl.usage = journal.usage
  BY <1>a, <1>2 DEF LedgerShape, RestOK, UsageTracked
<1>4. UNCHANGED <<Bill, Charge, Unaccounted>>
  BY <1>2 DEF Bill, Charge, Unaccounted, Entries
<1>5. BilledOnce' /\ UsageTracked'
  <2>1. CASE UNCHANGED <<journal, ctl>>
    BY <2>1, <1>2, <1>4, <1>a DEF BilledOnce, UsageTracked
  <2>2. CASE ~UNCHANGED <<journal, ctl>>
    <3>1. /\ c \notin journal.ids
          /\ journal'.usage = journal.usage + ledger[c].receipt
          /\ journal'.ids = journal.ids \cup {c}
          /\ ctl'.usage = journal.usage + ledger[c].receipt
      <4>0. journal \in [usage : Nat, ids : SUBSET Child,
                    terminal : {"none", "completed", "cancelled", "stopped"}]
            /\ ctl \in [usage : Nat, stopped : BOOLEAN]
        BY <1>a DEF LedgerShape
      <4> DEFINE u == ctl.usage + ledger[c].receipt
      <4>1. /\ c \notin journal.ids
            /\ journal' = [journal EXCEPT !.usage = u, !.ids = @ \cup {c}]
            /\ \E b : ctl' = [ctl EXCEPT !.usage = u, !.stopped = b]
        BY <1>1, <2>2
      <4>2. u = journal.usage + ledger[c].receipt
        BY <1>3
      <4> HIDE DEF u
      <4>3. journal'.usage = u /\ journal'.ids = journal.ids \cup {c}
        BY <4>0, <4>1
      <4>4. ctl'.usage = u
        BY <4>0, <4>1
      <4> QED BY <4>1, <4>2, <4>3, <4>4
    <3> DEFINE T == journal.ids \cup {c}
    <3>2. /\ T \in SUBSET Child /\ c \in T /\ T \ {c} = journal.ids
          /\ Bill \in [Child -> Nat] /\ IsFiniteSet(T)
      <4>1. T \in SUBSET Child
        BY <1>3
      <4> QED BY <4>1, <1>3, <1>a, <3>1, Summands
    <3> HIDE DEF T
    <3>3. SumOver(Bill, T) = Bill[c] + SumOver(Bill, T \ {c})
      BY <3>2, SumRemove
    <3>4. SumOver(Bill, T \ {c}) \in Nat
      BY <3>2, <1>3, <1>a, Summands, SumNat
    <3>5. Bill[c] = ledger[c].receipt
      BY <1>3 DEF Bill
    <3>6. journal.usage = own + SumOver(Bill, T \ {c})
      BY <1>a, <3>2 DEF BilledOnce
    <3>7. journal'.usage = own' + SumOver(Bill, T)
      BY <1>2, <1>3, <3>1, <3>3, <3>4, <3>5, <3>6
    <3>8. SumOver(Bill, journal.ids)' = SumOver(Bill, T)
      BY <1>4, <3>1 DEF T
    <3> QED BY <3>1, <3>7, <3>8 DEF BilledOnce, UsageTracked
  <2> QED BY <2>1, <2>2
<1>6. RefreshCovers'
  <2>1. snap.current = {} /\ snap'.current = {c}
        /\ snap'.todo = snap.todo \ {c}
    BY <1>1, <1>2, <1>a DEF RefreshCovers, LedgerShape
  <2>2. snap'.todo \cup snap'.current = snap.todo \cup snap.current
    BY <2>1
  <2>3. SumOver(Charge, Unaccounted \ (snap.todo \cup snap.current))'
          = SumOver(Charge, Unaccounted \ (snap.todo \cup snap.current))
    BY <1>4, <2>2
  <2> QED BY <1>2, <1>a, <2>3 DEF RefreshCovers
<1>7. RestOK' /\ WithinSpec'
  BY <1>2, <1>a DEF RestOK, WithinSpec, Points
<1> QED BY <1>b, <1>5, <1>6, <1>7, TypePartsNext DEF BillingInv, LedgerInv

(* Acknowledge releases what has been billed.                              *)
LEMMA AcknowledgeBilling ==
    ASSUME BillingInv, Acknowledge PROVE BillingInv'
<1>a. /\ LedgerInv /\ LedgerShape /\ RestOK /\ WithinSpec /\ UsageTracked
      /\ BilledOnce /\ AccountedIsJournaled /\ RefreshCovers
      /\ ledger \in [Child -> Entry]
  BY TypeParts DEF BillingInv, LedgerInv, LedgerShape, Entry
<1>b. LedgerInv' /\ ReceiptsKept
  BY <1>a, AcknowledgeKeeps
<1>1. /\ pc = "ack" /\ pc' = "bill"
      /\ ledger' = [c \in Child |-> IF c \in snap.current
                      THEN [ledger[c] EXCEPT !.accounted = TRUE]
                      ELSE ledger[c]]
      /\ snap' = [snap EXCEPT !.current = {}]
      /\ UNCHANGED <<journal, task, ctl, external, reserved, launch, spent,
                     own, crashes>>
  BY DEF Acknowledge, controlVars, childVars
<1>2. ASSUME NEW c \in Child
      PROVE  /\ ledger'[c].state = ledger[c].state
             /\ ledger'[c].receipt = ledger[c].receipt
             /\ ledger'[c].spec = ledger[c].spec
             /\ ledger'[c].accounted = (ledger[c].accounted
                                        \/ c \in snap.current)
  <2>1. ledger[c] \in Entry
    BY <1>a
  <2>2. CASE c \in snap.current
    BY <1>1, <2>1, <2>2 DEF Entry
  <2>3. CASE c \notin snap.current
    <3>1. ledger'[c] = ledger[c]
      BY <1>1, <2>3
    <3> QED BY <3>1, <2>3, <2>1, Zenon DEF Entry
  <2> QED BY <2>2, <2>3
<1>3. snap'.todo = snap.todo /\ snap'.current = {}
  BY <1>1, <1>a DEF LedgerShape
<1>4. Charge' = Charge
  BY <1>2 DEF Charge
<1>5. Unaccounted' = Unaccounted \ snap.current
  BY <1>2 DEF Unaccounted, Entries
<1>6. Unaccounted' \ (snap'.todo \cup snap'.current)
        = Unaccounted \ (snap.todo \cup snap.current)
  BY <1>3, <1>5
<1>7. RefreshCovers'
  <2>1. SumOver(Charge, Unaccounted \ (snap.todo \cup snap.current))'
          = SumOver(Charge, Unaccounted \ (snap.todo \cup snap.current))
    BY <1>4, <1>6
  <2> QED BY <1>1, <1>3, <1>a, <2>1 DEF RefreshCovers
<1>8. RestOK' /\ WithinSpec' /\ UsageTracked'
  BY <1>1, <1>2, <1>a DEF RestOK, WithinSpec, UsageTracked, Points
<1>9. BilledOnce'
  BY <1>1, <1>a, <1>b, BillStays DEF LedgerInv
<1> QED BY <1>b, <1>7, <1>8, <1>9, TypePartsNext DEF BillingInv, LedgerInv

(* RefreshDone installs reservations that cover every charge.              *)
LEMMA DoneBilling ==
    ASSUME BillingInv, RefreshDone PROVE BillingInv'
<1>a. /\ LedgerInv /\ LedgerShape /\ RestOK /\ WithinSpec /\ UsageTracked
      /\ BilledOnce /\ AccountedIsJournaled /\ RefreshCovers
  BY TypeParts DEF BillingInv, LedgerInv
<1>b. LedgerInv' /\ ReceiptsKept
  BY <1>a, ParentStepKeeps, AdvancesKeepsReceipts
<1>1. /\ pc = "bill" /\ snap.todo = {} /\ external' = reserved
      /\ pc' \in {"admit", "lease", "submit", "idle", "commit"}
      /\ UNCHANGED <<journal, ledger, task, snap, ctl, reserved, launch,
                     spent, own, crashes>>
  BY DEF RefreshDone, InstalledReservations, AfterRefresh, childVars
<1>2. snap.current = {}
      /\ SumOver(Charge, Unaccounted \ (snap.todo \cup snap.current)) <= reserved
  BY <1>1, <1>a DEF RefreshCovers
<1>3. Unaccounted \ (snap.todo \cup snap.current) = Unaccounted
  BY <1>1, <1>2
<1>4. Charged <= reserved
  BY <1>2, <1>3 DEF Charged
<1>5. Charged' = Charged
  BY <1>1 DEF Charged, Charge, Unaccounted, Entries
<1>6. RefreshCovers'
  BY <1>1, <1>2, <1>4, <1>5 DEF RefreshCovers
<1>7. RestOK' /\ WithinSpec' /\ UsageTracked'
  BY <1>1, <1>a DEF RestOK, WithinSpec, UsageTracked, Points
<1>8. BilledOnce'
  BY <1>1, <1>a, <1>b, BillStays DEF LedgerInv
<1> QED BY <1>b, <1>6, <1>7, <1>8, TypePartsNext DEF BillingInv, LedgerInv

(* An admitted tool call is one call of the parent's own.                  *)
LEMMA AdmitBilling ==
    ASSUME BillingInv, AdmitToolCall PROVE BillingInv'
<1>a. /\ LedgerInv /\ LedgerShape /\ RestOK /\ WithinSpec /\ UsageTracked
      /\ BilledOnce /\ RefreshCovers
  BY TypeParts DEF BillingInv, LedgerInv
<1>b. LedgerInv'
  BY <1>a, ParentStepKeeps
<1>1. /\ pc = "admit" /\ pc' \in {"idle", "read"} /\ own' = own + 1
      /\ ctl' = [ctl EXCEPT !.usage = @ + 1]
      /\ journal' = [journal EXCEPT !.usage = ctl.usage + 1]
      /\ UNCHANGED <<ledger, task, snap, external, reserved, launch, spent,
                     crashes>>
  BY DEF AdmitToolCall, childVars
<1>2. /\ ctl'.usage = ctl.usage + 1 /\ journal'.usage = ctl.usage + 1
      /\ journal'.ids = journal.ids /\ ctl.usage = journal.usage
      /\ journal.usage \in Nat /\ own \in Nat
      /\ journal.ids \in SUBSET Child
  BY <1>1, <1>a DEF LedgerShape, UsageTracked, RestOK
<1>3. SumOver(Bill, journal.ids) \in Nat
  BY <1>2, <1>a, Summands, SumNat
<1>4. SumOver(Bill, journal.ids)' = SumOver(Bill, journal.ids)
  BY <1>1, <1>2 DEF Bill
<1>5. BilledOnce'
  BY <1>1, <1>2, <1>3, <1>4, <1>a DEF BilledOnce
<1>6. RefreshCovers'
  BY <1>1, <1>a DEF RefreshCovers
<1>7. RestOK' /\ WithinSpec' /\ UsageTracked'
  BY <1>1, <1>2, <1>a DEF RestOK, WithinSpec, UsageTracked, Points
<1> QED BY <1>b, <1>5, <1>6, <1>7, TypePartsNext DEF BillingInv, LedgerInv

(* BillingInv is inductive.                                                *)
LEMMA InitBilling == Init => BillingInv
<1> SUFFICES ASSUME Init PROVE BillingInv
  OBVIOUS
<1>1. LedgerInv /\ LedgerShape
  BY InitLedger DEF LedgerInv
<1>2. RestOK
  BY DEF Init, RestOK, Fate, LaunchState, Points, NoTask
<1>3. UsageTracked /\ WithinSpec /\ RefreshCovers
  BY DEF Init, UsageTracked, WithinSpec, RefreshCovers, NoEntry, NoSnap
<1>4. BilledOnce
  BY SumEmpty DEF Init, BilledOnce
<1> QED BY <1>1, <1>2, <1>3, <1>4, TypeParts DEF BillingInv

(* BillingInv is inductive, relative to LedgerInv.                         *)
LEMMA NextBilling ==
    ASSUME BillingInv, [Next]_vars PROVE BillingInv'
<1>1. CASE UNCHANGED vars
  <2>a. /\ LedgerInv /\ LedgerShape /\ RestOK /\ WithinSpec
    BY TypeParts DEF BillingInv, LedgerInv
  <2>1. LedgerInv' /\ ReceiptsKept
    BY <1>1, <2>a, NextKeeps
  <2>2. UNCHANGED <<journal, parentVars, own, crashes, ledger, task, launch,
                    spent>>
    BY <1>1 DEF vars, childVars
  <2>3. ChargesFall
    BY <2>a, <2>2, UnchangedFalls
  <2> QED BY <2>a, <2>1, <2>2, <2>3, QuietBilling DEF RestOK, WithinSpec
<1>2. CASE \E c \in Child : ChildStep(c)
  BY <1>2, ChildBilling
<1>3. CASE BillReceipt BY <1>3, BillBilling
<1>4. CASE Acknowledge BY <1>4, AcknowledgeBilling
<1>5. CASE ReadLedger BY <1>5, ReadBilling
<1>6. CASE RefreshDone BY <1>6, DoneBilling
<1>7. CASE AdmitToolCall BY <1>7, AdmitBilling
<1>8. CASE GrantLease \/ BindTask \/ ReturnLease \/ StopChild
  BY <1>8, WriteBilling
<1>9. CASE \/ BeginTool \/ BeginSubagent \/ BeginComplete \/ BeginCancel
           \/ RefuseToolCall
           \/ RefuseLease \/ Submit \/ SubmitRefused \/ BindFails
           \/ StopSnapshot \/ StopAllRequested \/ StopWaited \/ StopFails
           \/ CommitTerminal \/ Crash \/ Reopen
  BY <1>9, ParentQuietBilling
<1> QED BY <1>1, <1>2, <1>3, <1>4, <1>5, <1>6, <1>7, <1>8, <1>9
        DEF Next, Parent, Refresh, Stop

(***************************************************************************)
(* Type correctness of the whole component.                                *)
(***************************************************************************)
THEOREM BudgetTypes == Spec => []TypeOK
<1>1. BillingInv /\ [Next]_vars => BillingInv'
  BY NextBilling
<1>2. BillingInv => TypeOK
  BY DEF BillingInv
<1> QED BY InitBilling, <1>1, <1>2, PTL DEF Spec

(***************************************************************************)
(* The journal's usage is the parent's own calls plus every journaled      *)
(* receipt exactly once, wherever the process crashes between journaling a *)
(* receipt and acknowledging it to the ledger.                             *)
(***************************************************************************)
THEOREM BillsOnce == Spec => []BilledOnce
<1>1. BillingInv /\ [Next]_vars => BillingInv'
  BY NextBilling
<1>2. BillingInv => BilledOnce
  BY DEF BillingInv
<1> QED BY InitBilling, <1>1, <1>2, PTL DEF Spec

(* A share is never more than what it is taken from.                       *)
LEMMA DivWithin ==
    ASSUME NEW x \in Nat, NEW n \in Nat \ {0}
    PROVE  x \div n \in Nat /\ x \div n <= x
  OBVIOUS

(* The share the controller offers a child fits what is left.              *)
LEMMA ShareFits ==
    ASSUME ctl.usage \in Nat, external \in Nat, NEW n \in 1 .. MaxSiblings,
           Share(n) > 0
    PROVE  ctl.usage + external + Share(n) <= Limit /\ Share(n) \in Nat
<1> DEFINE t == (Limit + 9) \div 10
           X == Minus(Minus(Minus(Limit, ctl.usage), external), t)
<1>1. n \in Nat \ {0} /\ Limit \in Nat
  BY BoundsAssumption, LimitAssumption
<1>2. t \in Nat
  BY <1>1
<1> HIDE DEF t
<1>3. X \in Nat /\ (X > 0 => ctl.usage + external + X <= Limit)
  BY <1>1, <1>2 DEF Minus
<1>4. Share(n) = X \div n
  BY DEF Share, t
<1> HIDE DEF X
<1>5. Share(n) \in Nat /\ Share(n) <= X
  BY <1>1, <1>3, <1>4, DivWithin
<1> QED BY <1>1, <1>3, <1>5

(***************************************************************************)
(* A lease the controller offers is one the ledger accepts: whatever the   *)
(* children have settled since the refresh, the durable charge is covered  *)
(* by the reservations the refresh installed.                              *)
(***************************************************************************)
THEOREM GrantsFit == Spec => []GrantFits
<1>1. BillingInv /\ [Next]_vars => BillingInv'
  BY NextBilling
<1>2. BillingInv => GrantFits
  <2> SUFFICES ASSUME BillingInv, pc = "lease", NEW n \in 1 .. MaxSiblings,
                      Share(n) > 0
               PROVE  ctl.usage + Charged + Share(n) <= Limit
    BY DEF GrantFits
  <2>1. LedgerShape /\ RestOK /\ RefreshCovers
    BY TypeParts DEF BillingInv, LedgerInv
  <2>2. ctl.usage \in Nat /\ external \in Nat /\ Limit \in Nat
    BY <2>1, LimitAssumption DEF LedgerShape, RestOK
  <2>3. Charged \in Nat
    <3>1. Unaccounted \in SUBSET Child
      BY DEF Unaccounted, Entries
    <3> QED BY <3>1, <2>1, Summands, SumNat DEF Charged
  <2>4. Charged <= external
    BY <2>1 DEF RefreshCovers
  <2>5. ctl.usage + external + Share(n) <= Limit /\ Share(n) \in Nat
    BY <2>2, ShareFits
  <2> QED BY <2>2, <2>3, <2>4, <2>5
<1> QED BY InitBilling, <1>1, <1>2, PTL DEF Spec
-----------------------------------------------------------------------------
(***************************************************************************)
(* The spending invariant.                                                 *)
(***************************************************************************)

(* What a child may still spend does not grow: neither does the sum.       *)
LEMMA ExposureStays ==
    ASSUME LedgerShape, LedgerShape', own \in Nat, own' = own,
           ExposureFits, \A c \in Child : Exposure'[c] <= Exposure[c]
    PROVE  ExposureFits'
<1> DEFINE f == Exposure  g == Exposure'
<1>1. /\ f \in [Child -> Nat] /\ g \in [Child -> Nat] /\ IsFiniteSet(Child)
      /\ \A c \in Child : g[c] <= f[c]
  BY Summands, SummandsNext
<1>2. own + SumOver(f, Child) <= Limit
  BY DEF ExposureFits
<1> HIDE DEF f, g
<1>3. SumOver(g, Child) <= SumOver(f, Child) /\ SumOver(g, Child) \in Nat
      /\ SumOver(f, Child) \in Nat
  BY <1>1, SumLeq, SumNat
<1>4. own + SumOver(g, Child) <= Limit
  BY <1>2, <1>3, LimitAssumption
<1> QED BY <1>4 DEF g, ExposureFits

(* Before the stop, what the parent and its children may spend in all is   *)
(* covered by the journal's usage and the ledger's charge.                 *)
LEMMA ExposureCharged ==
    ASSUME BillingInv, AbsentUnused, Honest, ~Stopping
    PROVE  own + SumOver(Exposure, Child) <= journal.usage + Charged
<1>a. /\ LedgerShape /\ RestOK /\ WithinSpec /\ BilledOnce
      /\ AccountedIsJournaled
  BY TypeParts DEF BillingInv, LedgerInv
<1>b. /\ Exposure \in [Child -> Nat] /\ Bill \in [Child -> Nat]
      /\ Charge \in [Child -> Nat]
      /\ \A S \in SUBSET Child : IsFiniteSet(S)
      /\ journal.ids \in SUBSET Child /\ own \in Nat
      /\ Unaccounted \in SUBSET Child
  BY <1>a, Summands DEF LedgerShape, RestOK, Unaccounted, Entries
<1>c. ASSUME NEW c \in Child
      PROVE  /\ ledger[c].state \in {"absent", "open", "settled"}
             /\ ledger[c].spec \in Nat /\ spent[c] \in Nat
             /\ spent[c] <= ledger[c].spec
             /\ ledger[c].state = "absent" => ledger[c].spec = 0
             /\ HonestAt(c)
  BY <1>a DEF LedgerShape, WithinSpec, Honest
<1> DEFINE A == journal.ids
           B == Child \ A
           U == B \cap Entries
           V == B \ Entries
<1>1. \A c \in A : Exposure[c] = Bill[c]
  BY <1>a, <1>b, <1>c DEF Exposure, Bill, AccountedIsJournaled, HonestAt
<1>2. \A c \in U : Exposure[c] <= Charge[c]
  BY <1>c DEF Exposure, Charge, Entries, HonestAt
<1>3. \A c \in V : Exposure[c] = 0
  BY <1>c DEF Exposure, Entries, AbsentUnused
<1>4. U \in SUBSET Unaccounted
  BY <1>a DEF Unaccounted, Entries, AccountedIsJournaled
<1>5. /\ A \in SUBSET Child /\ B \in SUBSET Child /\ U \in SUBSET Child
      /\ V \in SUBSET Child /\ Child \cap A = A
  BY <1>b
<1> DEFINE f == Exposure
<1>6. /\ f \in [Child -> Nat]
      /\ \A c \in A : f[c] = Bill[c]
      /\ \A c \in U : f[c] <= Charge[c]
      /\ \A c \in V : f[c] = 0
  BY <1>b, <1>1, <1>2, <1>3
<1>7. /\ IsFiniteSet(Child) /\ IsFiniteSet(A) /\ IsFiniteSet(B)
      /\ IsFiniteSet(U) /\ IsFiniteSet(V) /\ IsFiniteSet(Unaccounted)
  BY <1>b, <1>5
<1>8. SumOver(f, Child) = SumOver(f, A) + SumOver(f, B)
  <2>1. SumOver(f, Child) = SumOver(f, Child \cap A) + SumOver(f, Child \ A)
    <3>1. f \in [Child -> Nat] /\ Child \in SUBSET Child /\ IsFiniteSet(Child)
      BY <1>6, <1>7
    <3> HIDE DEF f, A, B, U, V
    <3>2. \A W : SumOver(f, Child) = SumOver(f, Child \cap W) + SumOver(f, Child \ W)
      BY <3>1, SumSplit
    <3> QED BY <3>2
  <2> QED BY <2>1, <1>5
<1>9. SumOver(f, B) = SumOver(f, U) + SumOver(f, V)
  <2>1. SumOver(f, B) = SumOver(f, B \cap Entries) + SumOver(f, B \ Entries)
    <3>1. f \in [Child -> Nat] /\ B \in SUBSET Child /\ IsFiniteSet(B)
      BY <1>5, <1>6, <1>7
    <3> HIDE DEF f, A, B, U, V
    <3>2. \A W : SumOver(f, B) = SumOver(f, B \cap W) + SumOver(f, B \ W)
      BY <3>1, SumSplit
    <3> QED BY <3>2
  <2> QED BY <2>1
<1> HIDE DEF f, A, B, U, V
<1>10. SumOver(f, A) = SumOver(Bill, A)
  BY <1>b, <1>5, <1>6, <1>7, SumEqual
<1>11. SumOver(f, V) = 0
  BY <1>5, <1>6, <1>7, SumZero
<1>12. SumOver(f, U) <= SumOver(Charge, Unaccounted)
  BY <1>b, <1>4, <1>6, <1>7, SumMono
<1>13. /\ SumOver(f, U) \in Nat /\ SumOver(f, A) \in Nat
       /\ SumOver(Charge, Unaccounted) \in Nat
  BY <1>b, <1>5, <1>6, <1>7, SumNat
<1>14. journal.usage = own + SumOver(Bill, A)
  BY <1>a DEF BilledOnce, A
<1>15. own + SumOver(f, Child) <= journal.usage + SumOver(Charge, Unaccounted)
  BY <1>b, <1>8, <1>9, <1>10, <1>11, <1>12, <1>13, <1>14
<1> QED BY <1>15 DEF f, Charged

(* Where a child stands, if it is not another child's step.                *)
SameChild(d) ==
    /\ ledger'[d] = ledger[d] /\ launch'[d] = launch[d]
    /\ task'[d] = task[d] /\ spent'[d] = spent[d]

(* A child nothing is changed of stays honest.                             *)
LEMMA SameChildKeeps ==
    ASSUME NEW d \in Child, SameChild(d)
    PROVE  Exposure'[d] = Exposure[d] /\ (HonestAt(d) => HonestAt(d)')
  BY DEF SameChild, Exposure, HonestAt

(* A step of a child touches that child only, and its launch is alive.     *)
LEMMA ChildLocal ==
    ASSUME TypeOK, NEW c \in Child, ChildStep(c)
    PROVE  /\ launch[c] \notin {"none", "gone", "lost"}
           /\ \A d \in Child : d # c => SameChild(d)
           /\ ledger'[c] \in Entry /\ ledger'[c].bound = ledger[c].bound
           /\ UNCHANGED <<journal, parentVars, own>>
<1>1. launch[c] \notin {"none", "gone", "lost"}
  BY DEF ChildStep, Dispatch, AcquireQueued, DropLaunch, RefundDropped,
         StartChild, LaunchFails, WorkerFenced, ChildSpends, ChildSettles,
         ChildEnds, ChildLost, UnstartedDropped
<1>2. UNCHANGED <<journal, parentVars, own>>
  BY DEF ChildStep, Dispatch, AcquireQueued, DropLaunch, RefundDropped,
         StartChild, LaunchFails, WorkerFenced, ChildSpends, ChildSettles,
         ChildEnds, ChildLost
<1>3. /\ ledger \in [Child -> Entry] /\ spent \in [Child -> Nat]
      /\ launch \in [Child -> LaunchState] /\ task \in [Child -> Fate]
  BY TypeParts DEF LedgerShape, RestOK, Entry
<1>4. \E e, l, t, s :
         /\ ledger' = ledger \/ ledger' = [ledger EXCEPT ![c] = e]
         /\ launch' = launch \/ launch' = [launch EXCEPT ![c] = l]
         /\ task' = task \/ task' = [task EXCEPT ![c] = t]
         /\ spent' = spent \/ spent' = [spent EXCEPT ![c] = s]
  <2>1. \E e : ledger' = ledger \/ ledger' = [ledger EXCEPT ![c] = e]
    BY DEF ChildStep, Dispatch, AcquireQueued, DropLaunch, RefundDropped,
         StartChild, LaunchFails, WorkerFenced, ChildSpends, ChildSettles,
         ChildEnds, ChildLost, Settled
  <2>2. \E l : launch' = launch \/ launch' = [launch EXCEPT ![c] = l]
    BY DEF ChildStep, Dispatch, AcquireQueued, DropLaunch, RefundDropped,
         StartChild, LaunchFails, WorkerFenced, ChildSpends, ChildSettles,
         ChildEnds, ChildLost, childVars
  <2>3. \E t : task' = task \/ task' = [task EXCEPT ![c] = t]
    BY DEF ChildStep, Dispatch, AcquireQueued, DropLaunch, RefundDropped,
         StartChild, LaunchFails, WorkerFenced, ChildSpends, ChildSettles,
         ChildEnds, ChildLost, CancelledBeforeDispatch
  <2>4. \E s : spent' = spent \/ spent' = [spent EXCEPT ![c] = s]
    BY DEF ChildStep, Dispatch, AcquireQueued, DropLaunch, RefundDropped,
         StartChild, LaunchFails, WorkerFenced, ChildSpends, ChildSettles,
         ChildEnds, ChildLost, childVars
  <2> QED BY <2>1, <2>2, <2>3, <2>4
<1>5. \A d \in Child : d # c => SameChild(d)
  BY <1>3, <1>4 DEF SameChild
<1>6. ledger'[c] \in Entry /\ ledger'[c].bound = ledger[c].bound
  <2>1. \E n \in Nat : ledger' = ledger \/ ledger' = Settled(c, n)
    BY <1>3 DEF ChildStep, Dispatch, AcquireQueued, DropLaunch,
         RefundDropped, StartChild, LaunchFails, WorkerFenced, ChildSpends,
         ChildSettles, ChildEnds, ChildLost
  <2>2. PICK n \in Nat : ledger' = ledger \/ ledger' = Settled(c, n)
    BY <2>1
  <2>3. Receipt(ledger[c], n) \in Entry
        /\ Receipt(ledger[c], n).bound = ledger[c].bound
    BY <1>3 DEF Receipt, Entry
  <2> QED BY <1>3, <2>2, <2>3 DEF Settled
<1> QED BY <1>1, <1>2, <1>5, <1>6
(* What a child's step does to its own exposure and its own bill.          *)
LEMMA ChildOwn ==
    ASSUME TypeOK, WithinSpec, AbsentUnused, NEW c \in Child, ChildStep(c)
    PROVE  /\ Exposure'[c] <= Exposure[c]
           /\ HonestAt(c) => HonestAt(c)'
           /\ task'[c].status \in Active => task[c].status \in Active
           /\ launch'[c] # "lost"
<1>a. /\ ledger \in [Child -> Entry] /\ spent \in [Child -> Nat]
      /\ launch \in [Child -> LaunchState] /\ task \in [Child -> Fate]
  BY TypeParts DEF LedgerShape, RestOK, Entry
<1>b. /\ ledger[c] \in Entry /\ spent[c] \in Nat
      /\ ledger[c].spec \in Nat /\ ledger[c].receipt \in Nat
      /\ ledger[c].state \in {"absent", "open", "settled"}
      /\ spent[c] <= ledger[c].spec
      /\ ledger[c].state = "absent" => launch[c] \in {"none", "gone"}
  BY <1>a DEF Entry, WithinSpec, AbsentUnused
<1>c. /\ Exposure[c] = IF ledger[c].state = "open"
                          \/ launch[c] \in {"pending", "executing"}
                       THEN ledger[c].spec ELSE spent[c]
      /\ Exposure'[c] = IF ledger'[c].state = "open"
                           \/ launch'[c] \in {"pending", "executing"}
                        THEN ledger'[c].spec ELSE spent'[c]
  BY DEF Exposure
<1>d. ASSUME NEW n \in Nat, ledger' = Settled(c, n)
      PROVE  /\ ledger[c].state = "open" =>
                  /\ ledger'[c].state = "settled" /\ ledger'[c].receipt = n
                  /\ ledger'[c].spec = ledger[c].spec
             /\ ledger[c].state # "open" => ledger'[c] = ledger[c]
  <2>1. ledger'[c] = Receipt(ledger[c], n)
    BY <1>a, <1>d DEF Settled
  <2> QED BY <2>1, <1>b DEF Receipt, Entry
<1> USE DEF HonestAt, Active, childVars
<1>1. CASE AcquireQueued(c)
  <2>1. /\ launch[c] = "pending" /\ task[c].status = "queued"
        /\ task'[c] = Admitted
        /\ UNCHANGED <<ledger, launch, spent>>
    BY <1>1, <1>a DEF AcquireQueued
  <2> QED BY <2>1, <1>b, <1>c DEF Admitted
<1>2. CASE DropLaunch(c)
  <2>1. /\ launch[c] = "pending" /\ launch'[c] = "dropped"
        /\ task'[c] = EndedTask
        /\ UNCHANGED <<ledger, spent>>
    BY <1>2, <1>a DEF DropLaunch, CancelledBeforeDispatch
  <2> QED BY <2>1, <1>b, <1>c DEF EndedTask
<1>3. CASE RefundDropped(c)
  <2>1. /\ launch[c] = "dropped" /\ launch'[c] = "gone"
        /\ ledger' = Settled(c, 0)
        /\ UNCHANGED <<task, spent>>
    BY <1>3, <1>a DEF RefundDropped, UnstartedDropped
  <2> QED BY <2>1, <1>b, <1>c, <1>d
<1>4. CASE StartChild(c)
  <2>1. /\ launch[c] = "pending" /\ launch'[c] = "executing"
        /\ UNCHANGED <<task, ledger, spent>>
    BY <1>4, <1>a DEF StartChild
  <2> QED BY <2>1, <1>b, <1>c
<1>5. CASE LaunchFails(c)
  <2>1. /\ launch[c] = "pending" /\ launch'[c] = "gone"
        /\ ledger' = Settled(c, 0) /\ task'[c] = EndedTask
        /\ UNCHANGED <<spent>>
    BY <1>5, <1>a DEF LaunchFails
  <2> QED BY <2>1, <1>b, <1>c, <1>d DEF EndedTask
<1>6. CASE WorkerFenced(c)
  <2>1. /\ launch[c] = "pending" /\ launch'[c] = "gone"
        /\ task'[c] = EndedTask
        /\ UNCHANGED <<ledger, spent>>
    BY <1>6, <1>a DEF WorkerFenced
  <2> QED BY <2>1, <1>b, <1>c DEF EndedTask
<1>7. CASE ChildSpends(c)
  <2>1. launch[c] = "executing" /\ UNCHANGED <<ledger, task, launch>>
    BY <1>7 DEF ChildSpends
  <2> QED BY <2>1, <1>b, <1>c
<1>8. CASE ChildSettles(c)
  <2>1. /\ launch[c] = "executing" /\ launch'[c] = "settled"
        /\ ledger' = Settled(c, spent[c])
        /\ UNCHANGED <<task, spent>>
    BY <1>8, <1>a DEF ChildSettles
  <2> QED BY <2>1, <1>b, <1>c, <1>d
<1>9. CASE ChildEnds(c)
  <2>1. /\ launch[c] = "settled" /\ launch'[c] = "gone"
        /\ task'[c] = EndedTask
        /\ UNCHANGED <<ledger, spent>>
    BY <1>9, <1>a DEF ChildEnds
  <2> QED BY <2>1, <1>b, <1>c DEF EndedTask
<1>10. CASE ChildLost(c)
  <2>1. /\ launch[c] = "executing" /\ launch'[c] = "gone"
        /\ task'[c].status \in {"ended", "indeterminate"}
        /\ UNCHANGED <<ledger, spent>>
    BY <1>10, <1>a DEF ChildLost
  <2> QED BY <2>1, <1>b, <1>c
<1> QED BY <1>1, <1>2, <1>3, <1>4, <1>5, <1>6, <1>7, <1>8, <1>9, <1>10
        DEF ChildStep, Dispatch

(* The steps of dispatcher and children.                                   *)
LEMMA ChildSpending ==
    ASSUME SpendInv, NEW c \in Child, ChildStep(c) PROVE SpendInv'
<1>a. /\ BillingInv /\ TypeOK /\ LedgerShape /\ RestOK /\ WithinSpec
      /\ ExposureFits /\ StopIsLast /\ LeaseHeld /\ AbsentUnused
      /\ LostIsOver /\ Honest
  BY TypeParts DEF SpendInv, BillingInv, LedgerInv
<1>b. BillingInv' /\ ChargesFall /\ LedgerShape'
  BY <1>a, ChildBilling DEF BillingInv, LedgerInv
<1>c. /\ launch[c] \notin {"none", "gone", "lost"}
      /\ \A d \in Child : d # c => SameChild(d)
      /\ ledger'[c].bound = ledger[c].bound
      /\ UNCHANGED <<journal, parentVars, own>>
  BY <1>a, ChildLocal
<1>d. /\ Exposure'[c] <= Exposure[c]
      /\ HonestAt(c) => HonestAt(c)'
      /\ task'[c].status \in Active => task[c].status \in Active
      /\ launch'[c] # "lost"
  BY <1>a, ChildOwn
<1>e. UNCHANGED <<pc, job, journal>>
  BY <1>c DEF parentVars
<1>1. ExposureFits'
  <2>1. own \in Nat /\ own' = own
    BY <1>a, <1>c DEF RestOK
  <2>2. \A d \in Child : Exposure'[d] <= Exposure[d]
    <3> TAKE d \in Child
    <3>1. Exposure[d] \in Nat
      BY <1>a, Summands
    <3> QED BY <3>1, <1>c, <1>d, SameChildKeeps
  <2> QED BY <2>1, <2>2, <1>a, <1>b, ExposureStays
<1>2. StopIsLast'
  BY <1>a, <1>e DEF StopIsLast
<1>3. LeaseHeld'
  <2>1. pc' \in {"submit", "bind", "refund"} => job'.kind = "leased"
    BY <1>a, <1>e DEF LeaseHeld
  <2>2. ASSUME job.kind = "leased"
        PROVE  /\ job.child \in Child
               /\ pc \in {"read", "bill", "ack", "submit", "bind", "refund"}
               /\ pc # "refund" => ~ledger'[job.child].bound
               /\ ~ledger'[job.child].bound =>
                    /\ ledger'[job.child].state = "open"
                    /\ launch'[job.child] \in {"none", "gone"}
                    /\ spent'[job.child] = 0
                    /\ pc # "bind" => task'[job.child].status \notin Active
    BY <2>2, <1>a, <1>c DEF LeaseHeld, SameChild
  <2> QED BY <2>1, <2>2, <1>e DEF LeaseHeld
<1>4. AbsentUnused'
  <2> SUFFICES ASSUME NEW d \in Child, ledger'[d].state = "absent"
               PROVE  launch'[d] \in {"none", "gone"}
                      /\ task'[d].status = "none"
    BY DEF AbsentUnused
  <2>1. ledger[d].state = "absent"
    BY <1>b DEF ChargesFall
  <2>2. d # c
    BY <2>1, <1>a, <1>c DEF AbsentUnused
  <2> QED BY <2>1, <2>2, <1>a, <1>c DEF AbsentUnused, SameChild
<1>5. LostIsOver'
  BY <1>a, <1>c, <1>d, <1>e DEF LostIsOver, SameChild
<1>6. Honest'
  <2>1. Stopping' = Stopping
    BY <1>e DEF Stopping
  <2>2. ASSUME ~Stopping, NEW d \in Child PROVE HonestAt(d)'
    <3>1. HonestAt(d)
      BY <1>a, <2>2 DEF Honest
    <3> QED BY <3>1, <1>c, <1>d, SameChildKeeps
  <2> QED BY <2>1, <2>2 DEF Honest
<1> QED BY <1>b, <1>1, <1>2, <1>3, <1>4, <1>5, <1>6 DEF SpendInv
(* A step of the parent that exposes no child further.                     *)
LEMMA ParentSpending ==
    ASSUME SpendInv, BillingInv', own' = own, StopIsLast', LeaseHeld',
           AbsentUnused', LostIsOver',
           \A d \in Child : Exposure'[d] <= Exposure[d],
           Stopping' \/ ~Stopping,
           \/ Stopping'
           \/ \A d \in Child : HonestAt(d) => HonestAt(d)'
    PROVE  SpendInv'
<1>a. LedgerShape /\ RestOK /\ ExposureFits /\ Honest /\ LedgerShape'
  BY TypeParts DEF SpendInv, BillingInv, LedgerInv
<1>1. ExposureFits'
  BY <1>a, ExposureStays DEF RestOK
<1>2. Honest'
  BY <1>a DEF Honest
<1> QED BY <1>1, <1>2 DEF SpendInv

(* One that leaves every child where it is.                                *)
LEMMA ParentStill ==
    ASSUME SpendInv, BillingInv', own' = own, StopIsLast', LeaseHeld',
           UNCHANGED <<ledger, launch, task, spent>>,
           Stopping' \/ ~Stopping, pc # "down"
    PROVE  SpendInv'
<1>a. /\ LedgerShape /\ AbsentUnused /\ LostIsOver
  BY DEF SpendInv, BillingInv, LedgerInv
<1>1. AbsentUnused' /\ LostIsOver'
  BY <1>a DEF AbsentUnused, LostIsOver
<1>2. \A d \in Child : Exposure'[d] <= Exposure[d]
  <2> TAKE d \in Child
  <2>1. Exposure[d] \in Nat /\ SameChild(d)
    BY <1>a, Summands DEF SameChild
  <2> QED BY <2>1, SameChildKeeps
<1>3. \A d \in Child : HonestAt(d) => HonestAt(d)'
  BY SameChildKeeps DEF SameChild
<1> QED BY <1>1, <1>2, <1>3, ParentSpending

(* The parent's steps that touch neither ledger nor children.              *)
LEMMA ParentStillSteps ==
    ASSUME SpendInv, BillingInv',
           \/ BeginTool \/ BeginSubagent \/ BeginComplete \/ BeginCancel
           \/ ReadLedger \/ BillReceipt \/ RefreshDone
           \/ RefuseToolCall \/ RefuseLease \/ SubmitRefused
           \/ StopSnapshot \/ StopAllRequested \/ StopWaited
           \/ CommitTerminal
    PROVE  SpendInv'
<1> USE DEF childVars, controlVars, StopIsLast, LeaseHeld, Stopping
<1>a. /\ LedgerShape /\ LeaseIsNew /\ StopIsLast /\ LeaseHeld
      /\ journal \in [usage : Nat, ids : SUBSET Child,
                    terminal : {"none", "completed", "cancelled", "stopped"}]
      /\ job \in [kind : Kinds, child : Child \cup {0}]
  BY DEF SpendInv, BillingInv, LedgerInv, LedgerShape
<1>b. UNCHANGED <<ledger, launch, task, spent, own>> /\ pc # "down"
  BY DEF BeginTool, BeginSubagent, BeginComplete, BeginCancel, Begin,
         ReadLedger, BillReceipt, RefreshDone, RefuseToolCall, RefuseLease,
         SubmitRefused, StopSnapshot, StopAllRequested, StopWaited,
         CommitTerminal
<1>c. ASSUME StopIsLast', LeaseHeld', Stopping' \/ ~Stopping
      PROVE  SpendInv'
  BY <1>b, <1>c, ParentStill
<1>1. CASE BeginTool BY <1>1, <1>a, <1>b, <1>c DEF BeginTool, Begin
<1>2. CASE BeginSubagent BY <1>2, <1>a, <1>b, <1>c DEF BeginSubagent, Begin
<1>3. CASE BeginComplete BY <1>3, <1>a, <1>b, <1>c DEF BeginComplete, Begin
<1>4. CASE BeginCancel BY <1>4, <1>a, <1>b, <1>c DEF BeginCancel, Begin
<1>5. CASE ReadLedger BY <1>5, <1>a, <1>b, <1>c DEF ReadLedger
<1>6. CASE BillReceipt
  <2>1. pc = "bill" /\ pc' = "ack" /\ job' = job
    BY <1>6 DEF BillReceipt
  <2>2. journal'.terminal = journal.terminal
    BY <1>6, <1>a DEF BillReceipt
  <2> QED BY <2>1, <2>2, <1>a, <1>b, <1>c
<1>7. CASE RefreshDone
  BY <1>7, <1>a, <1>b, <1>c DEF RefreshDone, AfterRefresh
<1>8. CASE RefuseToolCall
  <2>1. /\ pc = "admit" /\ pc' = "snapshot" /\ journal' = journal
        /\ job'.kind = "budget"
    BY <1>8, <1>a DEF RefuseToolCall
  <2> QED BY <2>1, <1>a, <1>b, <1>c
<1>9. CASE RefuseLease
  <2>1. /\ pc = "lease" /\ pc' = "snapshot" /\ journal' = journal
        /\ job'.kind = "budget"
    BY <1>9, <1>a DEF RefuseLease
  <2> QED BY <2>1, <1>a, <1>b, <1>c
<1>10. CASE SubmitRefused BY <1>10, <1>a, <1>b, <1>c DEF SubmitRefused
<1>11. CASE StopSnapshot BY <1>11, <1>a, <1>b, <1>c DEF StopSnapshot
<1>12. CASE StopAllRequested
  BY <1>12, <1>a, <1>b, <1>c DEF StopAllRequested
<1>13. CASE StopWaited BY <1>13, <1>a, <1>b, <1>c DEF StopWaited
<1>14. CASE CommitTerminal
  <2>1. /\ pc = "commit" /\ pc' = "idle" /\ job' = job
        /\ journal'.terminal # "none"
    <3>1. \E t \in {"completed", "cancelled", "stopped"} :
             journal' = [journal EXCEPT !.terminal = t]
      BY <1>14 DEF CommitTerminal
    <3> QED BY <1>14, <3>1, <1>a DEF CommitTerminal
  <2> QED BY <2>1, <1>a, <1>b, <1>c
<1> QED BY <1>1, <1>2, <1>3, <1>4, <1>5, <1>6, <1>7, <1>8, <1>9, <1>10,
           <1>11, <1>12, <1>13, <1>14

(* Acknowledge changes nothing an exposure or a bill depends on.           *)
LEMMA AcknowledgeSpending ==
    ASSUME SpendInv, BillingInv', Acknowledge PROVE SpendInv'
<1>a. /\ LedgerShape /\ StopIsLast /\ LeaseHeld /\ AbsentUnused /\ LostIsOver
      /\ ledger \in [Child -> Entry]
  BY DEF SpendInv, BillingInv, LedgerInv, LedgerShape, Entry
<1>1. /\ pc = "ack" /\ pc' = "bill"
      /\ ledger' = [c \in Child |-> IF c \in snap.current
                      THEN [ledger[c] EXCEPT !.accounted = TRUE]
                      ELSE ledger[c]]
      /\ UNCHANGED <<journal, job, task, launch, spent, own>>
  BY DEF Acknowledge, childVars
<1>2. ASSUME NEW c \in Child
      PROVE  /\ ledger'[c].state = ledger[c].state
             /\ ledger'[c].receipt = ledger[c].receipt
             /\ ledger'[c].spec = ledger[c].spec
             /\ ledger'[c].bound = ledger[c].bound
  BY <1>1, <1>a DEF Entry
<1>3. StopIsLast' /\ AbsentUnused' /\ LostIsOver'
  BY <1>1, <1>2, <1>a DEF StopIsLast, AbsentUnused, LostIsOver
<1>4. LeaseHeld'
  BY <1>1, <1>2, <1>a DEF LeaseHeld
<1>5. \A d \in Child : Exposure'[d] <= Exposure[d]
  <2> TAKE d \in Child
  <2>1. Exposure[d] \in Nat
    BY <1>a, Summands
  <2>2. Exposure'[d] = Exposure[d]
    BY <1>1, <1>2 DEF Exposure
  <2> QED BY <2>1, <2>2
<1>6. \A d \in Child : HonestAt(d) => HonestAt(d)'
  BY <1>1, <1>2 DEF HonestAt
<1>7. Stopping' \/ ~Stopping
  BY <1>1 DEF Stopping
<1> QED BY <1>1, <1>3, <1>4, <1>5, <1>6, <1>7, ParentSpending

(* An admitted call fits beside everything the children may still spend.   *)
LEMMA AdmitSpending ==
    ASSUME SpendInv, BillingInv', AdmitToolCall PROVE SpendInv'
<1>a. /\ BillingInv /\ LedgerShape /\ RestOK /\ UsageTracked /\ RefreshCovers
      /\ StopIsLast /\ LeaseHeld /\ AbsentUnused /\ LostIsOver /\ Honest
      /\ LeaseIsNew /\ LedgerShape'
  BY TypeParts DEF SpendInv, BillingInv, LedgerInv
<1>1. /\ pc = "admit" /\ pc' \in {"idle", "read"} /\ own' = own + 1
      /\ ctl.usage + external < Limit
      /\ journal'.terminal = journal.terminal
      /\ job'.kind \in {"none", "lease"}
      /\ UNCHANGED <<ledger, task, launch, spent>>
  <2>1. ~(ctl.usage + external >= Limit)
    BY DEF AdmitToolCall, Exhausted
  <2>2. ctl.usage \in Nat /\ external \in Nat /\ Limit \in Nat
    BY <1>a, LimitAssumption DEF LedgerShape, RestOK
  <2>3. ctl.usage + external < Limit
    BY <2>1, <2>2
  <2>4. journal'.terminal = journal.terminal
    BY <1>a DEF AdmitToolCall, LedgerShape
  <2>5. job'.kind \in {"none", "lease"}
    BY <1>a DEF AdmitToolCall, LedgerShape, Idle
  <2> QED BY <2>3, <2>4, <2>5 DEF AdmitToolCall, childVars
<1>2. job.kind \in {"tool", "subagent"} /\ journal.terminal = "none"
  BY <1>1, <1>a DEF LeaseIsNew, StopIsLast
<1>3. ~Stopping /\ ~Stopping'
  BY <1>1, <1>2 DEF Stopping
<1>4. StopIsLast' /\ LeaseHeld'
  BY <1>1, <1>2 DEF StopIsLast, LeaseHeld
<1>5. AbsentUnused' /\ LostIsOver'
  BY <1>1, <1>a DEF AbsentUnused, LostIsOver
<1>6. Honest'
  BY <1>1, <1>3, <1>a, SameChildKeeps DEF Honest, SameChild
<1>7. own + SumOver(Exposure, Child) <= journal.usage + Charged
  BY <1>a, <1>3, ExposureCharged
<1>8. Charged <= external /\ ctl.usage = journal.usage
  BY <1>1, <1>a DEF RefreshCovers, UsageTracked
<1>9. /\ own \in Nat /\ SumOver(Exposure, Child) \in Nat /\ Charged \in Nat
      /\ external \in Nat /\ journal.usage \in Nat /\ Limit \in Nat
  <2>1. Unaccounted \in SUBSET Child /\ Child \in SUBSET Child
    BY DEF Unaccounted, Entries
  <2>2. SumOver(Exposure, Child) \in Nat /\ SumOver(Charge, Unaccounted) \in Nat
    BY <2>1, <1>a, Summands, SumNat
  <2> QED BY <2>2, <1>a, LimitAssumption DEF RestOK, LedgerShape, Charged
<1>10. SumOver(Exposure, Child)' = SumOver(Exposure, Child)
  BY <1>1 DEF Exposure
<1>11. ExposureFits'
  BY <1>1, <1>7, <1>8, <1>9, <1>10 DEF ExposureFits
<1> QED BY <1>4, <1>5, <1>6, <1>11 DEF SpendInv

(* A granted lease fits beside them too.                                   *)
LEMMA GrantSpending ==
    ASSUME SpendInv, BillingInv', GrantLease PROVE SpendInv'
<1>a. /\ BillingInv /\ LedgerShape /\ RestOK /\ UsageTracked /\ WithinSpec
      /\ StopIsLast /\ LeaseHeld /\ AbsentUnused /\ LostIsOver /\ Honest
      /\ LeaseIsNew /\ LedgerShape' /\ ledger \in [Child -> Entry]
      /\ ExposureFits
  BY TypeParts DEF SpendInv, BillingInv, LedgerInv, LedgerShape, Entry
<1>1. PICK spec \in 1 .. Limit :
         /\ ctl.usage + Charged + spec <= Limit
         /\ ledger' = [ledger EXCEPT ![job.child] =
                         [NoEntry EXCEPT !.state = "open", !.spec = spec]]
  BY DEF GrantLease
<1>2. /\ pc = "lease" /\ pc' = "read"
      /\ job' = [job EXCEPT !.kind = "leased"]
      /\ UNCHANGED <<journal, task, launch, spent, own>>
  BY DEF GrantLease, childVars
<1>3. /\ job.kind = "lease" /\ job.child \in Child
      /\ ledger[job.child].state = "absent" /\ journal.terminal = "none"
  BY <1>2, <1>a DEF LeaseIsNew, StopIsLast
<1> DEFINE j == job.child
           e == [NoEntry EXCEPT !.state = "open", !.spec = spec]
<1>4. /\ spec \in Nat /\ e.spec = spec /\ e.state = "open"
      /\ e.bound = FALSE
  BY LimitAssumption DEF NoEntry
<1>5. /\ ledger'[j] = e
      /\ \A c \in Child : c # j => ledger'[c] = ledger[c]
  BY <1>1, <1>3, <1>a
<1> HIDE DEF e
<1>6. job'.child = j /\ job'.kind = "leased"
  BY <1>2, <1>a DEF LedgerShape
<1>7. /\ launch[j] \in {"none", "gone"} /\ task[j].status = "none"
      /\ spent[j] = 0 /\ Exposure[j] = 0
  <2>1. spent[j] \in Nat /\ spent[j] <= 0
    BY <1>3, <1>a DEF WithinSpec, LedgerShape
  <2> QED BY <1>3, <1>a, <2>1 DEF AbsentUnused, Exposure
<1>8. StopIsLast' /\ LostIsOver' /\ AbsentUnused'
  BY <1>2, <1>3, <1>4, <1>5, <1>6, <1>a
     DEF StopIsLast, LostIsOver, AbsentUnused
<1>9. LeaseHeld'
  BY <1>2, <1>3, <1>4, <1>5, <1>6, <1>7 DEF LeaseHeld, Active
<1>10. ~Stopping /\ ~Stopping'
  BY <1>2, <1>3, <1>6 DEF Stopping
<1>11. Honest'
  <2>1. ASSUME NEW d \in Child PROVE HonestAt(d)'
    <3>1. CASE d = j
      BY <3>1, <1>2, <1>4, <1>5, <1>7 DEF HonestAt, Active
    <3>2. CASE d # j
      BY <3>2, <1>2, <1>5, <1>10, <1>a, SameChildKeeps DEF Honest, SameChild
    <3> QED BY <3>1, <3>2
  <2> QED BY <2>1 DEF Honest
<1>12. /\ Exposure'[j] = spec
       /\ \A d \in Child : d # j => Exposure'[d] = Exposure[d]
  BY <1>2, <1>3, <1>4, <1>5 DEF Exposure
<1>13. ExposureFits'
  <2> DEFINE f == Exposure  g == Exposure'  R == Child \ {j}
  <2>1. /\ f \in [Child -> Nat] /\ g \in [Child -> Nat]
        /\ IsFiniteSet(Child) /\ IsFiniteSet(R)
        /\ R \in SUBSET Child /\ Child \in SUBSET Child /\ j \in Child
        /\ f[j] = 0 /\ g[j] = spec
        /\ \A d \in R : g[d] = f[d]
    <3>1. R \in SUBSET Child
      OBVIOUS
    <3> QED BY <3>1, <1>3, <1>7, <1>12, <1>a, Summands, SummandsNext
  <2>2. SumOver(f, Child) = f[j] + SumOver(f, R) /\ SumOver(g, Child) = g[j] + SumOver(g, R)
    <3> HIDE DEF f, g, j
    <3> QED BY <2>1, SumRemove
  <2>3. own + SumOver(f, Child) <= journal.usage + Charged
    BY <1>a, <1>10, ExposureCharged
  <2> HIDE DEF f, g, R, j
  <2>4. SumOver(g, R) = SumOver(f, R) /\ SumOver(f, R) \in Nat
    BY <2>1, SumEqual, SumNat
  <2>5. /\ journal.usage = ctl.usage /\ journal.usage \in Nat
        /\ own \in Nat /\ Limit \in Nat
    BY <1>2, <1>a, LimitAssumption DEF UsageTracked, LedgerShape, RestOK
  <2>6. Charged \in Nat
    <3>1. Unaccounted \in SUBSET Child
      BY DEF Unaccounted, Entries
    <3> QED BY <3>1, <1>a, Summands, SumNat DEF Charged
  <2>7. own + SumOver(g, Child) <= Limit
    BY <1>1, <1>4, <2>1, <2>2, <2>3, <2>4, <2>5, <2>6
  <2> QED BY <2>7, <1>2 DEF ExposureFits, g
<1> QED BY <1>8, <1>9, <1>11, <1>13 DEF SpendInv
(* The steps that submit, bind and return a lease.                         *)
LEMMA LeaseSpending ==
    ASSUME SpendInv, BillingInv',
           Submit \/ BindTask \/ BindFails \/ ReturnLease
    PROVE  SpendInv'
<1>a. /\ LedgerShape /\ RestOK /\ WithinSpec
      /\ StopIsLast /\ LeaseHeld /\ AbsentUnused /\ LostIsOver /\ Honest
      /\ ledger \in [Child -> Entry] /\ launch \in [Child -> LaunchState]
      /\ task \in [Child -> Fate]
  BY TypeParts DEF SpendInv, BillingInv, LedgerInv, LedgerShape, Entry, RestOK
<1> DEFINE j == job.child
<1>1. /\ pc \in {"submit", "bind", "refund"} /\ job.kind = "leased"
      /\ j \in Child /\ journal.terminal = "none"
      /\ UNCHANGED <<journal, own, spent>>
  BY <1>a DEF Submit, BindTask, BindFails, ReturnLease, childVars,
              StopIsLast, LeaseHeld
<1>2. /\ ~ledger[j].bound \/ pc = "refund"
      /\ ~ledger[j].bound =>
           /\ ledger[j].state = "open"
           /\ launch[j] \in {"none", "gone"}
           /\ spent[j] = 0
           /\ pc # "bind" => task[j].status \notin Active
  BY <1>1, <1>a DEF LeaseHeld
<1>3. ~Stopping
  BY <1>1 DEF Stopping
<1>4. ledger[j] \in Entry /\ spent[j] \in Nat /\ spent[j] <= ledger[j].spec
  BY <1>1, <1>a DEF WithinSpec, LedgerShape
<1>5. ASSUME \A d \in Child : d # j => SameChild(d),
             Exposure'[j] <= Exposure[j],
             \A d \in Child : d = j => HonestAt(d)',
             ledger'[j].state # "absent", launch'[j] # "lost",
             StopIsLast', LeaseHeld'
      PROVE  SpendInv'
  <2>1. AbsentUnused' /\ LostIsOver'
    <3>1. pc # "down"
      BY <1>1
    <3> QED BY <3>1, <1>5, <1>a DEF AbsentUnused, LostIsOver, SameChild
  <2>2. \A d \in Child : Exposure'[d] <= Exposure[d]
    <3> TAKE d \in Child
    <3>1. Exposure[d] \in Nat
      BY <1>a, Summands
    <3> QED BY <3>1, <1>5, SameChildKeeps
  <2>3. \A d \in Child : HonestAt(d) => HonestAt(d)'
    BY <1>5, SameChildKeeps
  <2> QED BY <2>1, <2>2, <2>3, <1>1, <1>3, <1>5, ParentSpending
<1>6. /\ Exposure[j] = IF ledger[j].state = "open"
                          \/ launch[j] \in {"pending", "executing"}
                       THEN ledger[j].spec ELSE spent[j]
      /\ Exposure'[j] = IF ledger'[j].state = "open"
                           \/ launch'[j] \in {"pending", "executing"}
                        THEN ledger'[j].spec ELSE spent'[j]
      /\ Exposure[j] \in Nat
  BY <1>1, <1>a, Summands DEF Exposure
<1>7. CASE Submit
  <2>1. /\ pc = "submit" /\ pc' = "bind" /\ UNCHANGED <<job, ledger, launch>>
        /\ \A d \in Child : d # j => task'[d] = task[d]
    BY <1>7, <1>a DEF Submit, childVars
  <2>2. \A d \in Child : d # j => SameChild(d)
    BY <2>1, <1>1 DEF SameChild
  <2>3. Exposure'[j] <= Exposure[j]
    BY <2>1, <1>1, <1>6
  <2>4. \A d \in Child : d = j => HonestAt(d)'
    BY <2>1, <1>1, <1>2 DEF HonestAt
  <2>5. StopIsLast' /\ LeaseHeld'
    BY <2>1, <1>1, <1>2 DEF StopIsLast, LeaseHeld
  <2>6. ledger'[j].state # "absent" /\ launch'[j] # "lost"
    BY <2>1, <1>2
  <2> QED BY <2>2, <2>3, <2>4, <2>5, <2>6, <1>5
<1>8. CASE BindTask
  <2>1. /\ pc = "bind" /\ pc' = "refund" /\ UNCHANGED <<job, task>>
        /\ ledger' = [ledger EXCEPT ![j].bound = TRUE]
        /\ launch' = [launch EXCEPT ![j] = "pending"]
    BY <1>8 DEF BindTask
  <2>2. /\ ledger'[j].state = ledger[j].state
        /\ ledger'[j].spec = ledger[j].spec
        /\ ledger'[j].bound = TRUE /\ launch'[j] = "pending"
        /\ \A d \in Child : d # j => ledger'[d] = ledger[d]
                                     /\ launch'[d] = launch[d]
    BY <2>1, <1>1, <1>4, <1>a DEF Entry
  <2>3. \A d \in Child : d # j => SameChild(d)
    BY <2>1, <2>2, <1>1 DEF SameChild
  <2>4. Exposure'[j] <= Exposure[j]
    BY <2>1, <2>2, <1>1, <1>2, <1>6
  <2>5. \A d \in Child : d = j => HonestAt(d)'
    BY <2>1, <2>2, <1>1, <1>2 DEF HonestAt
  <2>6. StopIsLast' /\ LeaseHeld'
    BY <2>1, <2>2, <1>1 DEF StopIsLast, LeaseHeld
  <2>7. ledger'[j].state # "absent" /\ launch'[j] # "lost"
    BY <2>1, <2>2, <1>2
  <2> QED BY <2>3, <2>4, <2>5, <2>6, <2>7, <1>5
<1>9. CASE BindFails
  <2>1. /\ pc = "bind" /\ pc' = "refund" /\ UNCHANGED <<job, ledger, launch>>
        /\ task'[j] = EndedTask
        /\ \A d \in Child : d # j => task'[d] = task[d]
    BY <1>9, <1>1, <1>a DEF BindFails, childVars
  <2>2. \A d \in Child : d # j => SameChild(d)
    BY <2>1, <1>1 DEF SameChild
  <2>3. Exposure'[j] <= Exposure[j]
    BY <2>1, <1>1, <1>6
  <2>4. \A d \in Child : d = j => HonestAt(d)'
    BY <2>1, <1>1, <1>2 DEF HonestAt, EndedTask, Active
  <2>5. StopIsLast' /\ LeaseHeld'
    BY <2>1, <1>1, <1>2 DEF StopIsLast, LeaseHeld, EndedTask, Active
  <2>6. ledger'[j].state # "absent" /\ launch'[j] # "lost"
    BY <2>1, <1>2
  <2> QED BY <2>2, <2>3, <2>4, <2>5, <2>6, <1>5
<1>10. CASE ReturnLease
  <2>1. /\ pc = "refund" /\ pc' = "read" /\ UNCHANGED <<task, launch>>
        /\ job' = [job EXCEPT !.kind = "returned"]
        /\ ledger' = IF ledger[j].bound THEN ledger ELSE Settled(j, 0)
    BY <1>10 DEF ReturnLease, childVars
  <2>2. job'.kind = "returned"
    BY <2>1, <1>a DEF LedgerShape
  <2>3. StopIsLast' /\ LeaseHeld'
    BY <2>1, <2>2, <1>1 DEF StopIsLast, LeaseHeld
  <2>4. CASE ledger[j].bound
    <3>1. ledger' = ledger
      BY <2>1, <2>4
    <3>2. Stopping' \/ ~Stopping
      BY <1>3
    <3> QED BY <2>1, <2>3, <3>1, <3>2, <1>1, ParentStill
  <2>5. CASE ~ledger[j].bound
    <3>1. ledger'[j] = Receipt(ledger[j], 0)
          /\ \A d \in Child : d # j => ledger'[d] = ledger[d]
      BY <2>1, <2>5, <1>1, <1>a DEF Settled
    <3>2. ledger'[j].state = "settled" /\ ledger'[j].receipt = 0
      BY <3>1, <2>5, <1>2, <1>4 DEF Receipt, Entry
    <3>3. \A d \in Child : d # j => SameChild(d)
      BY <2>1, <3>1, <1>1 DEF SameChild
    <3>4. Exposure'[j] <= Exposure[j]
      <4>1. ledger[j].spec \in Nat
        BY <1>4 DEF Entry
      <4> QED BY <2>1, <2>5, <3>2, <4>1, <1>1, <1>2, <1>4, <1>6
    <3>5. \A d \in Child : d = j => HonestAt(d)'
      BY <2>1, <2>5, <3>2, <1>1, <1>2 DEF HonestAt
    <3>6. launch'[j] # "lost"
      BY <2>1, <2>5, <1>2
    <3> QED BY <2>3, <3>2, <3>3, <3>4, <3>5, <3>6, <1>5
  <2> QED BY <2>4, <2>5
<1> QED BY <1>7, <1>8, <1>9, <1>10

(* The stop of the children only takes exposure back.                      *)
LEMMA StopSpending ==
    ASSUME SpendInv, BillingInv', StopChild \/ StopFails PROVE SpendInv'
<1>a. /\ LedgerShape /\ RestOK /\ WithinSpec
      /\ StopIsLast /\ LeaseHeld /\ AbsentUnused /\ LostIsOver
      /\ ledger \in [Child -> Entry] /\ launch \in [Child -> LaunchState]
      /\ task \in [Child -> Fate]
  BY TypeParts DEF SpendInv, BillingInv, LedgerInv, LedgerShape, Entry, RestOK
<1>1. PICK c \in snap.todo :
         /\ StopRequested(c)
         /\ ledger' = ledger \/ ledger' = Settled(c, 0)
  BY DEF StopChild, StopFails
<1>2. /\ pc = "stop" /\ pc' \in {"stop", "failed"}
      /\ UNCHANGED <<journal, job, spent, own>>
  BY DEF StopChild, StopFails
<1>3. c \in Child /\ job.kind \in {"cancel", "budget"}
      /\ journal.terminal = "none"
  BY <1>2, <1>a DEF StopIsLast, LedgerShape
<1>4. Stopping /\ Stopping' /\ StopIsLast' /\ LeaseHeld'
  BY <1>2, <1>3 DEF Stopping, StopIsLast, LeaseHeld
<1>5. /\ ledger[c] \in Entry /\ ledger[c].spec \in Nat /\ spent[c] \in Nat
      /\ spent[c] <= ledger[c].spec
  BY <1>3, <1>a DEF WithinSpec, LedgerShape, Entry
<1>6. /\ \A d \in Child : d # c => SameChild(d)
      /\ \/ launch'[c] = launch[c] /\ task'[c] = task[c]
         \/ task[c].status \in Active /\ launch'[c] \in {launch[c], "gone"}
  BY <1>1, <1>2, <1>3, <1>a DEF StopRequested, SameChild, Settled
<1>7. /\ ledger'[c].spec = ledger[c].spec
      /\ ledger'[c].state = "absent" <=> ledger[c].state = "absent"
      /\ ledger'[c].state = "open" => ledger[c].state = "open"
  <2>1. ledger'[c] = ledger[c] \/ ledger'[c] = Receipt(ledger[c], 0)
    BY <1>1, <1>3, <1>a DEF Settled
  <2> QED BY <2>1, <1>5 DEF Receipt, Entry
<1>8. AbsentUnused' /\ LostIsOver'
  <2>1. ledger'[c].state = "absent" =>
           launch'[c] \in {"none", "gone"} /\ task'[c].status = "none"
    BY <1>3, <1>6, <1>7, <1>a DEF AbsentUnused, Active
  <2>2. launch'[c] = "lost" => task'[c].status \notin Active
    BY <1>2, <1>3, <1>6, <1>a DEF LostIsOver
  <2> QED BY <2>1, <2>2, <1>2, <1>6, <1>a
          DEF AbsentUnused, LostIsOver, SameChild
<1>9. \A d \in Child : Exposure'[d] <= Exposure[d]
  <2> TAKE d \in Child
  <2>1. Exposure[d] \in Nat
    BY <1>a, Summands
  <2>2. CASE d # c
    BY <2>1, <2>2, <1>6, SameChildKeeps
  <2>3. Exposure'[c] <= Exposure[c]
    <3>1. /\ Exposure[c] = IF ledger[c].state = "open"
                              \/ launch[c] \in {"pending", "executing"}
                           THEN ledger[c].spec ELSE spent[c]
          /\ Exposure'[c] = IF ledger'[c].state = "open"
                               \/ launch'[c] \in {"pending", "executing"}
                            THEN ledger'[c].spec ELSE spent'[c]
      BY <1>3 DEF Exposure
    <3> QED BY <3>1, <1>2, <1>5, <1>6, <1>7
  <2> QED BY <2>2, <2>3
<1> QED BY <1>2, <1>4, <1>8, <1>9, ParentSpending

(* A crash takes the threads with it; only detached workers run on.        *)
LEMMA CrashSpending ==
    ASSUME CrashInStop = FALSE, SpendInv, BillingInv', Crash PROVE SpendInv'
<1>a. /\ LedgerShape /\ RestOK /\ WithinSpec
      /\ StopIsLast /\ AbsentUnused /\ LostIsOver
      /\ ledger \in [Child -> Entry] /\ launch \in [Child -> LaunchState]
  BY TypeParts DEF SpendInv, BillingInv, LedgerInv, LedgerShape, Entry, RestOK
<1>1. /\ pc # "down" /\ pc' = "down" /\ journal.terminal = "none"
      /\ job.kind \notin {"cancel", "budget"} /\ job'.kind = "none"
      /\ UNCHANGED <<journal, ledger, task, spent, own>>
  BY DEF Crash, ProcessUp, Idle
<1>2. ASSUME NEW d \in Child
      PROVE  \/ /\ launch[d] \in {"executing", "settled"}
                /\ launch'[d] \in {launch[d], "lost"}
             \/ /\ launch[d] \notin {"executing", "settled"}
                /\ launch'[d] = "gone"
  BY DEF Crash
<1>3. ~Stopping /\ StopIsLast' /\ LeaseHeld' /\ LostIsOver'
  BY <1>1 DEF Stopping, StopIsLast, LeaseHeld, LostIsOver
<1>4. AbsentUnused'
  BY <1>1, <1>2, <1>a DEF AbsentUnused
<1>5. \A d \in Child : Exposure'[d] <= Exposure[d]
  <2> TAKE d \in Child
  <2>1. /\ Exposure[d] = IF ledger[d].state = "open"
                            \/ launch[d] \in {"pending", "executing"}
                         THEN ledger[d].spec ELSE spent[d]
        /\ Exposure'[d] = IF ledger'[d].state = "open"
                             \/ launch'[d] \in {"pending", "executing"}
                          THEN ledger'[d].spec ELSE spent'[d]
    BY DEF Exposure
  <2>2. /\ ledger[d].spec \in Nat /\ spent[d] \in Nat
        /\ spent[d] <= ledger[d].spec
    BY <1>a DEF WithinSpec, LedgerShape, Entry
  <2> QED BY <2>1, <2>2, <1>1, <1>2
<1>6. \A d \in Child : HonestAt(d) => HonestAt(d)'
  <2> TAKE d \in Child
  <2>1. launch[d] = "lost" => task[d].status \notin Active
    BY <1>1, <1>a DEF LostIsOver
  <2>2. launch[d] \in LaunchState
    BY <1>a
  <2> QED BY <2>1, <2>2, <1>1, <1>2 DEF HonestAt, LaunchState
<1> QED BY <1>1, <1>3, <1>4, <1>5, <1>6, ParentSpending

(* A reopened session queues again what never started.                     *)
LEMMA ReopenSpending ==
    ASSUME SpendInv, BillingInv', Reopen PROVE SpendInv'
<1>a. /\ LedgerShape /\ RestOK /\ WithinSpec
      /\ StopIsLast /\ AbsentUnused /\ LostIsOver /\ Honest
      /\ ledger \in [Child -> Entry] /\ launch \in [Child -> LaunchState]
  BY TypeParts DEF SpendInv, BillingInv, LedgerInv, LedgerShape, Entry, RestOK
<1>1. /\ pc = "down" /\ pc' = "idle"
      /\ UNCHANGED <<journal, job, ledger, spent, own>>
  BY DEF Reopen
<1>2. job.kind = "none" /\ journal.terminal = "none"
  BY <1>1, <1>a DEF StopIsLast
<1>3. ~Stopping /\ StopIsLast' /\ LeaseHeld'
  BY <1>1, <1>2 DEF Stopping, StopIsLast, LeaseHeld
<1>4. ASSUME NEW d \in Child
      PROVE  \/ /\ Requeued(d) /\ launch'[d] = "pending"
                /\ task'[d].status = "queued"
             \/ /\ ~Requeued(d) /\ Interrupted(d) /\ launch'[d] = launch[d]
                /\ task'[d].status \in {"ended", "indeterminate"}
             \/ /\ ~Interrupted(d) /\ launch'[d] = launch[d]
                /\ task'[d] = task[d]
  <2>1. launch'[d] = IF Requeued(d) THEN "pending" ELSE launch[d]
    BY DEF Reopen
  <2>2. task'[d] =
          IF Requeued(d) THEN [status |-> "queued", started |-> FALSE]
          ELSE IF Interrupted(d)
          THEN [status |-> IF d \in Detached THEN "ended"
                           ELSE "indeterminate",
                started |-> TRUE]
          ELSE task[d]
    BY DEF Reopen
  <2>3. CASE Requeued(d)
    <3>1. Interrupted(d)
      BY <2>3 DEF Requeued
    <3> QED BY <2>1, <2>2, <2>3, <3>1
  <2>4. CASE ~Requeued(d) /\ Interrupted(d)
    BY <2>1, <2>2, <2>4
  <2>5. CASE ~Interrupted(d)
    <3>1. ~Requeued(d)
      BY <2>5 DEF Requeued
    <3> QED BY <2>1, <2>2, <2>5, <3>1
  <2> QED BY <2>3, <2>4, <2>5
<1>5. ASSUME NEW d \in Child, Requeued(d)
      PROVE  ledger[d].state = "open" /\ spent[d] = 0
  BY <1>3, <1>5, <1>a DEF Requeued, Interrupted, Honest, HonestAt
<1>6. AbsentUnused'
  BY <1>1, <1>4, <1>a DEF AbsentUnused, Requeued, Interrupted, Active
<1>7. LostIsOver'
  BY <1>1, <1>4 DEF LostIsOver, Requeued, Interrupted, Active
<1>8. \A d \in Child : Exposure'[d] <= Exposure[d]
  <2> TAKE d \in Child
  <2>1. /\ Exposure[d] = IF ledger[d].state = "open"
                            \/ launch[d] \in {"pending", "executing"}
                         THEN ledger[d].spec ELSE spent[d]
        /\ Exposure'[d] = IF ledger'[d].state = "open"
                             \/ launch'[d] \in {"pending", "executing"}
                          THEN ledger'[d].spec ELSE spent'[d]
    BY DEF Exposure
  <2>2. Exposure[d] \in Nat
    BY <1>a, Summands
  <2> QED BY <2>1, <2>2, <1>1, <1>4, <1>5
<1>9. \A d \in Child : HonestAt(d) => HonestAt(d)'
  <2> TAKE d \in Child
  <2>1. CASE Requeued(d)
    <3>1. /\ launch'[d] = "pending"
          /\ ledger'[d].state = "open" /\ spent'[d] = 0
      BY <2>1, <1>1, <1>4, <1>5 DEF Requeued
    <3> QED BY <3>1 DEF HonestAt
  <2>2. CASE ~Requeued(d) /\ Interrupted(d)
    BY <2>2, <1>1, <1>4 DEF HonestAt, Active
  <2>3. CASE ~Interrupted(d)
    <3>1. launch'[d] = launch[d] /\ task'[d] = task[d]
      BY <2>3, <1>4 DEF Requeued
    <3> QED BY <3>1, <1>1 DEF HonestAt
  <2> QED BY <2>1, <2>2, <2>3
<1> QED BY <1>1, <1>3, <1>6, <1>7, <1>8, <1>9, ParentSpending

(* It holds in the beginning.                                              *)
LEMMA InitSpending == Init => SpendInv
<1> SUFFICES ASSUME Init PROVE SpendInv
  OBVIOUS
<1>1. BillingInv /\ LedgerShape
  BY InitBilling DEF BillingInv, LedgerInv
<1>2. StopIsLast /\ LeaseHeld /\ AbsentUnused /\ LostIsOver /\ Honest
  BY DEF Init, StopIsLast, LeaseHeld, AbsentUnused, LostIsOver, Honest,
         HonestAt, Idle, NoEntry, NoTask, Active
<1>3. SumOver(Exposure, Child) = 0
  <2>1. \A c \in Child : Exposure[c] = 0
    BY DEF Init, Exposure, NoEntry
  <2>2. Exposure \in [Child -> Nat] /\ Child \in SUBSET Child
        /\ IsFiniteSet(Child)
    BY <1>1, Summands
  <2> QED BY <2>1, <2>2, SumZero
<1>4. ExposureFits
  BY <1>3, LimitAssumption DEF Init, ExposureFits
<1> QED BY <1>1, <1>2, <1>4 DEF SpendInv

(* SpendInv is inductive, relative to the other two.                       *)
LEMMA NextSpending ==
    ASSUME CrashInStop = FALSE, SpendInv, [Next]_vars PROVE SpendInv'
<1>a. BillingInv
  BY DEF SpendInv
<1>b. BillingInv'
  BY <1>a, NextBilling
<1>1. CASE UNCHANGED vars
  <2>1. UNCHANGED <<journal, pc, job, ledger, task, launch, spent, own>>
    BY <1>1 DEF vars, parentVars, childVars
  <2>2. /\ ExposureFits /\ StopIsLast /\ LeaseHeld /\ AbsentUnused
        /\ LostIsOver /\ Honest
    BY DEF SpendInv
  <2>3. StopIsLast' /\ LeaseHeld' /\ AbsentUnused' /\ LostIsOver'
    BY <2>1, <2>2 DEF StopIsLast, LeaseHeld, AbsentUnused, LostIsOver
  <2>4. Honest'
    BY <2>1, <2>2, SameChildKeeps DEF Honest, Stopping, SameChild
  <2>5. ExposureFits'
    BY <2>1, <2>2 DEF ExposureFits, Exposure
  <2> QED BY <1>b, <2>3, <2>4, <2>5 DEF SpendInv
<1>2. CASE \E c \in Child : ChildStep(c)
  BY <1>2, ChildSpending
<1>3. CASE Acknowledge BY <1>3, <1>b, AcknowledgeSpending
<1>4. CASE AdmitToolCall BY <1>4, <1>b, AdmitSpending
<1>5. CASE GrantLease BY <1>5, <1>b, GrantSpending
<1>6. CASE Submit \/ BindTask \/ BindFails \/ ReturnLease
  BY <1>6, <1>b, LeaseSpending
<1>7. CASE StopChild \/ StopFails BY <1>7, <1>b, StopSpending
<1>8. CASE Crash BY <1>8, <1>b, CrashSpending
<1>9. CASE Reopen BY <1>9, <1>b, ReopenSpending
<1>10. CASE \/ BeginTool \/ BeginSubagent \/ BeginComplete \/ BeginCancel
            \/ ReadLedger \/ BillReceipt \/ RefreshDone
            \/ RefuseToolCall \/ RefuseLease \/ SubmitRefused
            \/ StopSnapshot \/ StopAllRequested \/ StopWaited
            \/ CommitTerminal
  BY <1>10, <1>b, ParentStillSteps
<1> QED BY <1>1, <1>2, <1>3, <1>4, <1>5, <1>6, <1>7, <1>8, <1>9, <1>10
        DEF Next, Parent, Refresh, Stop

(* What has been spent is within the exposure.                             *)
LEMMA SpentWithin ==
    ASSUME SpendInv PROVE NeverOverspent
<1>a. LedgerShape /\ RestOK /\ WithinSpec /\ ExposureFits
  BY TypeParts DEF SpendInv, BillingInv, LedgerInv
<1>1. /\ Exposure \in [Child -> Nat] /\ spent \in [Child -> Nat]
      /\ Child \in SUBSET Child /\ IsFiniteSet(Child) /\ own \in Nat
  BY <1>a, Summands DEF RestOK
<1>2. \A c \in Child : spent[c] <= Exposure[c]
  BY <1>1, <1>a DEF Exposure, WithinSpec
<1>3. SumOver(spent, Child) <= SumOver(Exposure, Child)
      /\ SumOver(spent, Child) \in Nat /\ SumOver(Exposure, Child) \in Nat
  BY <1>1, <1>2, SumLeq, SumNat
<1> QED BY <1>1, <1>3, <1>a, LimitAssumption DEF ExposureFits, NeverOverspent

(***************************************************************************)
(* The parent and all of its children together never make more tool calls  *)
(* than the operation allows, for every limit, number of children and      *)
(* number of crashes, as long as the process does not die inside           *)
(* settle_children_for_stop.  (There a queued child that was already given *)
(* a zero receipt is queued again by the next session.)                    *)
(***************************************************************************)
THEOREM NeverOverspends ==
    ASSUME CrashInStop = FALSE PROVE Spec => []NeverOverspent
<1>1. SpendInv /\ [Next]_vars => SpendInv'
  BY NextSpending
<1>2. SpendInv => NeverOverspent
  BY SpentWithin
<1> QED BY InitSpending, <1>1, <1>2, PTL DEF Spec
=============================================================================
