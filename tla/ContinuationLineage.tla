------------------------ MODULE ContinuationLineage ------------------------
(***************************************************************************)
(* What the continuation coordinator promises of one lineage, with the     *)
(* revisions, leases, clocks, retries and failed writes left out: a        *)
(* sequence of attempts, each granted to at most one execution owner under *)
(* a fresh epoch; checkpoints saved one after the other and only while an  *)
(* owner executes; a lost lineage (unknown effects) never opened again.    *)
(***************************************************************************)
EXTENDS Integers

CONSTANTS Owners, NoOwner

VARIABLES phase,    \* "none", "ready", "owned", "parked", "settled", "lost"
          attempt,  \* number of the current attempt
          holder,   \* the owner executing it
          epoch,    \* grants so far
          saved     \* sequence number of the last checkpoint

lineageVars == <<phase, attempt, holder, epoch, saved>>

Init == /\ phase = "none"
        /\ attempt = 0
        /\ holder = NoOwner
        /\ epoch = 0
        /\ saved = -1

Open == /\ phase = "none"
        /\ phase' = "ready"
        /\ attempt' = 1
        /\ UNCHANGED <<holder, epoch, saved>>

Grant(o) == /\ phase = "ready"
            /\ phase' = "owned"
            /\ holder' = o
            /\ epoch' = epoch + 1
            /\ UNCHANGED <<attempt, saved>>

Save == /\ phase = "owned"
        /\ saved' = saved + 1
        /\ UNCHANGED <<phase, attempt, holder, epoch>>

Settle == /\ \/ phase = "ready" /\ phase' = "settled"
             \/ phase = "owned" /\ phase' \in {"settled", "lost"}
          /\ holder' = NoOwner
          /\ UNCHANGED <<attempt, epoch, saved>>

Park == /\ phase = "owned"
        /\ saved >= 0
        /\ phase' = "parked"
        /\ holder' = NoOwner
        /\ UNCHANGED <<attempt, epoch, saved>>

Reopen == /\ phase \in {"owned", "parked", "settled"}
          /\ saved >= 0
          /\ phase' = "ready"
          /\ attempt' = attempt + 1
          /\ holder' = NoOwner
          /\ UNCHANGED <<epoch, saved>>

Next == \/ Open \/ Save \/ Settle \/ Park \/ Reopen
        \/ \E o \in Owners : Grant(o)

Spec == Init /\ [][Next]_lineageVars
=============================================================================
