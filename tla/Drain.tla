-------------------------------- MODULE Drain --------------------------------
(***************************************************************************)
(* What cascadedelete promises of a child of a pipeline, whatever its kind:*)
(* its work begins under the drain finalizer, which is there before the    *)
(* child is deleted or never; the child is let go of only when its work is *)
(* over or 24 hours have passed; it is marked immutable when it is over,   *)
(* or in the write that lets go of it; and the token that counts it among  *)
(* the active drains is put on it in its drain and goes with the finalizer.*)
(***************************************************************************)
EXTENDS Naturals

VARIABLES
    fin,      \* the drain finalizer
    ts,       \* the deletionTimestamp
    imm,      \* the Immutable annotation
    counted,  \* the drain-counted token
    over,     \* DrainState.IsTerminal
    working,  \* what the kind has in the workflow engine is at work
    expired   \* CascadeDrainTimeout has passed

vars == <<fin, ts, imm, counted, over, working, expired>>

Init ==
    /\ fin = FALSE /\ ts = FALSE /\ imm = FALSE /\ counted = FALSE
    /\ over = FALSE /\ working = FALSE /\ expired = FALSE

EnsureDrainFinalizer ==
    /\ ~fin /\ ~ts /\ ~imm
    /\ fin' = TRUE
    /\ UNCHANGED <<ts, imm, counted, over, working, expired>>

\* The controller of the kind, its workflow engine and its users.
Work ==
    /\ over' \in BOOLEAN
    /\ working' \in BOOLEAN
    /\ ~working /\ working' => fin
    /\ UNCHANGED <<fin, ts, imm, counted, expired>>

\* A child that is over is marked for the ingester to evict.
MarkImmutable ==
    /\ ~imm /\ ~ts
    /\ over
    /\ imm' = TRUE
    /\ UNCHANGED <<fin, ts, counted, over, working, expired>>

\* Garbage collection of the pipeline's children.
Delete ==
    /\ ~ts
    /\ ts' = TRUE
    /\ UNCHANGED <<fin, imm, counted, over, working, expired>>

Timeout ==
    /\ ts /\ ~expired
    /\ expired' = TRUE
    /\ UNCHANGED <<fin, ts, imm, counted, over, working>>

\* The cancellation is asked for and the drain is counted.  Work may be over by now.
RequestCancel ==
    /\ ts /\ fin /\ ~counted
    /\ counted' = TRUE
    /\ UNCHANGED <<fin, ts, imm, over, working, expired>>

CompleteDrain ==
    /\ ts /\ fin
    /\ over \/ expired
    /\ fin' = FALSE
    /\ imm' = TRUE
    /\ counted' = FALSE
    /\ UNCHANGED <<ts, over, working, expired>>

Next ==
    \/ EnsureDrainFinalizer \/ Work \/ MarkImmutable
    \/ Delete \/ Timeout
    \/ RequestCancel \/ CompleteDrain

Spec == Init /\ [][Next]_vars

\* A child bears the token of the gauge of active drains only while it drains: none is let
\* go of that is still counted.
CountedInDrain == counted => ts /\ fin

\* Whoever lets go of a child, by taking its finalizer away or by marking it for the
\* ingester to evict, does so when its work is over, or when its 24 hours have passed.
LetGoIsOver == [][(fin /\ ~fin') \/ (~imm /\ imm') => over \/ expired]_vars

=============================================================================
