---------------------------- MODULE PublishedLog ----------------------------
(***************************************************************************)
(* What a thread's surface promises the clients that watch it, whatever    *)
(* crashes, restarts, faults and slow readers lie between: there is one    *)
(* history of batches that only grows, and what a client has seen is       *)
(* always a beginning of it that never gets shorter.                       *)
(***************************************************************************)
EXTENDS Sequences, SequencesExt

CONSTANTS Clients, Batches

VARIABLES
    history,   \* the batches committed so far
    seen       \* seen[c]: the batches client c has seen

Init == /\ history = << >>
        /\ seen = [c \in Clients |-> << >>]

\* A batch is committed.
Publish == /\ \E b \in Batches : history' = Append(history, b)
           /\ UNCHANGED seen

\* A client learns of more of the history.
Learn(c) == /\ \E n \in 0..Len(history) :
                   /\ n > Len(seen[c])
                   /\ seen' = [seen EXCEPT ![c] = SubSeq(history, 1, n)]
            /\ IsPrefix(seen[c], seen'[c])
            /\ UNCHANGED history

Next == Publish \/ \E c \in Clients : Learn(c)

Spec == Init /\ [][Next]_<<history, seen>>
=============================================================================
