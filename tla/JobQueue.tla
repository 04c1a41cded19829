------------------------------ MODULE JobQueue ------------------------------
(***************************************************************************)
(* What the job scheduler's queue promises its callers: a bounded first-in *)
(* first-out queue that never has two entries under one key, be they       *)
(* waiting or handed out.                                                  *)
(***************************************************************************)
EXTENDS Naturals, Sequences

CONSTANTS
    Jobs,
    Keys,
    KeyOf,    \* the key a job is known by: not always the job's alone
    Capacity  \* the channel's buffer (_queueSize)

VARIABLES
    pending,  \* the jobs waiting, oldest first
    held      \* the jobs handed to the scheduler and not yet given back

Waiting(j) == \E i \in 1..Len(pending) : pending[i] = j

\* A job of the same key is in the queue or handed out.
Known(j) == \E k \in Jobs : KeyOf[k] = KeyOf[j] /\ (Waiting(k) \/ k \in held)

Init == pending = <<>> /\ held = {}

Add(j) ==
    /\ ~Known(j)
    /\ Len(pending) < Capacity
    /\ pending' = Append(pending, j)
    /\ UNCHANGED held

Take ==
    /\ pending # <<>>
    /\ pending' = Tail(pending)
    /\ held' = held \cup {Head(pending)}

Done(j) ==
    /\ j \in held
    /\ held' = held \ {j}
    /\ UNCHANGED pending

Next == Take \/ \E j \in Jobs : Add(j) \/ Done(j)

Spec == Init /\ [][Next]_<<pending, held>>

=============================================================================
