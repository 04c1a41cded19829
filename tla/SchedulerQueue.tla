--------------------------- MODULE SchedulerQueue ---------------------------
(***************************************************************************)
(* channelQueue, the queue between the job controllers and the scheduler,  *)
(* at the grain of its mutex and its channel: the controllers' Enqueue on  *)
(* one side, the scheduler's loop on the other.                            *)
(*                                                                         *)
(* A step that only the holder of the mutex can see, between Lock and      *)
(* Unlock, is one action with them.  Add is not one action: it holds the   *)
(* mutex while it waits for room in the channel, and Get takes from the    *)
(* channel before it takes the mutex.                                      *)
(***************************************************************************)
EXTENDS Naturals, Sequences

CONSTANTS
    Jobs,
    Keys,
    KeyOf,        \* getKey: namespace, name and generation run together, so that
                  \* two jobs may have one key
    Capacity,     \* the channel's buffer, _queueSize
    Reconcilers,  \* workers of the job controllers
    NoOne,        \* nobody has the mutex
    NoJob

ASSUME QueueAssumption ==
    /\ KeyOf \in [Jobs -> Keys]
    /\ Capacity \in Nat \ {0}
    /\ NoOne \notin Reconcilers
    /\ NoJob \notin Jobs

VARIABLES
    q,           \* the channel
    dirty,       \* keys added and not yet taken
    processing,  \* keys taken and not yet done
    mutex,       \* the reconciler that has it across a step
    call,        \* the Enqueue each reconciler is in
    loop         \* the scheduler's loop

vars == <<q, dirty, processing, mutex, call, loop>>

Call == [pc : {"idle"}, job : {NoJob}]
    \cup [pc : {"add", "send", "sent", "length"}, job : Jobs]

Loop == [pc : {"length", "get"}, job : {NoJob}] \cup [pc : {"taken", "assign"}, job : Jobs]

TypeOK ==
    /\ q \in Seq(Jobs) /\ Len(q) <= Capacity
    /\ dirty \subseteq Keys
    /\ processing \subseteq Keys
    /\ mutex \in Reconcilers \cup {NoOne}
    /\ call \in [Reconcilers -> Call]
    /\ loop \in Loop

Init ==
    /\ q = <<>>
    /\ dirty = {}
    /\ processing = {}
    /\ mutex = NoOne
    /\ call = [r \in Reconcilers |-> [pc |-> "idle", job |-> NoJob]]
    /\ loop = [pc |-> "length", job |-> NoJob]

Free == mutex = NoOne

Calling(r, pc) == call[r].pc = pc
Go(r, pc) == call' = [call EXCEPT ![r].pc = pc]
Return(r) == call' = [call EXCEPT ![r] = [pc |-> "idle", job |-> NoJob]]

-----------------------------------------------------------------------------
(* Scheduler.Enqueue and channelQueue.Add.                                 *)

Enqueue(r, j) ==
    /\ Calling(r, "idle")
    /\ call' = [call EXCEPT ![r] = [pc |-> "add", job |-> j]]
    /\ UNCHANGED <<q, dirty, processing, mutex, loop>>

\* Variant: only the jobs waiting are looked at.
SeenDirty(j) == KeyOf[j] \in dirty

Seen(j) == KeyOf[j] \in dirty \cup processing

AddRefused(r) ==
    /\ Calling(r, "add") /\ Free
    /\ Seen(call[r].job)
    /\ Return(r)
    /\ UNCHANGED <<q, dirty, processing, mutex, loop>>

AddAdmitted(r) ==
    /\ Calling(r, "add") /\ Free
    /\ ~Seen(call[r].job)
    /\ mutex' = r
    /\ Go(r, "send")
    /\ UNCHANGED <<q, dirty, processing, loop>>

\* Variant: a slice that grows in place of the channel.
AddSendUnbounded(r) ==
    /\ Calling(r, "send")
    /\ q' = Append(q, call[r].job)
    /\ Go(r, "sent")
    /\ UNCHANGED <<dirty, processing, mutex, loop>>

\* The send and the mark are two steps: a Get may take the job in between.
AddSend(r) ==
    /\ Calling(r, "send")
    /\ Len(q) < Capacity
    /\ q' = Append(q, call[r].job)
    /\ Go(r, "sent")
    /\ UNCHANGED <<dirty, processing, mutex, loop>>

AddMark(r) ==
    /\ Calling(r, "sent")
    /\ dirty' = dirty \cup {KeyOf[call[r].job]}
    /\ mutex' = NoOne
    /\ Return(r)
    /\ UNCHANGED <<q, processing, loop>>

\* Variant: Add waits for room without a deadline.
AddNeverTimesOut(r) == FALSE /\ UNCHANGED vars

\* The second that _enqueueTimeOut allows began before the mutex was taken: it
\* may be over when the channel still has room.
AddTimeout(r) ==
    /\ Calling(r, "send")
    /\ mutex' = NoOne
    /\ Go(r, "length")
    /\ UNCHANGED <<q, dirty, processing, loop>>

\* The error names the queue's length.
EnqueueFailed(r) ==
    /\ Calling(r, "length") /\ Free
    /\ Return(r)
    /\ UNCHANGED <<q, dirty, processing, mutex, loop>>

-----------------------------------------------------------------------------
(* scheduleJobsForever, channelQueue.Get and channelQueue.Done.            *)

LoopGo(pc, j) == loop' = [pc |-> pc, job |-> j]

LoopLength ==
    /\ loop.pc = "length" /\ Free
    /\ LoopGo("get", NoJob)
    /\ UNCHANGED <<q, dirty, processing, mutex, call>>

GetReceive ==
    /\ loop.pc = "get"
    /\ q # <<>>
    /\ q' = Tail(q)
    /\ LoopGo("taken", Head(q))
    /\ UNCHANGED <<dirty, processing, mutex, call>>

\* A minute with nothing to receive.
GetTimeout ==
    /\ loop.pc = "get"
    /\ q = <<>>
    /\ LoopGo("length", NoJob)
    /\ UNCHANGED <<q, dirty, processing, mutex, call>>

\* Variant: Get does its bookkeeping without the mutex.
GetMarkUnlocked ==
    /\ loop.pc = "taken"
    /\ dirty' = dirty \ {KeyOf[loop.job]}
    /\ processing' = processing \cup {KeyOf[loop.job]}
    /\ LoopGo("assign", loop.job)
    /\ UNCHANGED <<q, mutex, call>>

\* Variant: the key leaves dirty and does not enter processing.
GetMarkLoses ==
    /\ loop.pc = "taken" /\ Free
    /\ dirty' = dirty \ {KeyOf[loop.job]}
    /\ LoopGo("assign", loop.job)
    /\ UNCHANGED <<q, processing, mutex, call>>

GetMark ==
    /\ loop.pc = "taken" /\ Free
    /\ dirty' = dirty \ {KeyOf[loop.job]}
    /\ processing' = processing \cup {KeyOf[loop.job]}
    /\ LoopGo("assign", loop.job)
    /\ UNCHANGED <<q, mutex, call>>

\* Done is deferred: it runs however the assignment ends.
LoopDone ==
    /\ loop.pc = "assign" /\ Free
    /\ processing' = processing \ {KeyOf[loop.job]}
    /\ LoopGo("length", NoJob)
    /\ UNCHANGED <<q, dirty, mutex, call>>

-----------------------------------------------------------------------------
AddStep(r) ==
    \/ AddRefused(r)
    \/ AddAdmitted(r)
    \/ AddSend(r)
    \/ AddMark(r)
    \/ AddTimeout(r)
    \/ EnqueueFailed(r)

LoopStep ==
    \/ LoopLength
    \/ GetReceive
    \/ GetTimeout
    \/ GetMark
    \/ LoopDone

Next ==
    \/ LoopStep
    \/ \E r \in Reconcilers : AddStep(r) \/ \E j \in Jobs : Enqueue(r, j)

Spec == Init /\ [][Next]_vars

\* Go hands a contended mutex to whoever waits for it longest, so a wait for it
\* ends; a reconciler whose deadline passes while it waits for room gives up.
\* Nothing obliges a controller to enqueue.
Fairness ==
    /\ SF_vars(LoopLength) /\ SF_vars(GetMark) /\ SF_vars(LoopDone)
    /\ WF_vars(GetReceive)
    /\ \A r \in Reconcilers :
        /\ SF_vars(AddRefused(r)) /\ SF_vars(AddAdmitted(r)) /\ SF_vars(EnqueueFailed(r))
        /\ WF_vars(AddTimeout(r)) /\ WF_vars(AddMark(r))

FairSpec == Spec /\ Fairness

-----------------------------------------------------------------------------
(* What holds.                                                             *)

InChannel(j) == \E i \in 1..Len(q) : q[i] = j
Taken(j) == loop.pc \in {"taken", "assign"} /\ loop.job = j

Held == {j \in Jobs : Taken(j)}

\* A job added and not marked yet is in the channel, or taken from it, under a
\* key that dirty lacks: its reconciler still has the mutex.
OneOfAKey ==
    /\ \A i, k \in 1..Len(q) : KeyOf[q[i]] = KeyOf[q[k]] => i = k
    /\ \A i \in 1..Len(q), j \in Held : KeyOf[q[i]] # KeyOf[j]

\* A key is refused only while a job of that key is in the channel or with the
\* scheduler: a key left behind would keep its job out until a restart.
RefusedWhileInside ==
    \A k \in dirty \cup processing :
        \E j \in Jobs : KeyOf[j] = k /\ (InChannel(j) \/ Taken(j))

\* How the two sets follow the jobs, for whoever does not have the mutex.
Unmarked(j) == \E r \in Reconcilers : Calling(r, "sent") /\ call[r].job = j

Books ==
    /\ \A r \in Reconcilers : mutex = r <=> call[r].pc \in {"send", "sent"}
    /\ \A r \in Reconcilers : mutex = r => ~Seen(call[r].job)
    /\ \A r \in Reconcilers : Calling(r, "sent") =>
        InChannel(call[r].job) \/ (loop.pc = "taken" /\ loop.job = call[r].job)
    /\ \A i \in 1..Len(q) : KeyOf[q[i]] \in dirty \/ Unmarked(q[i])
    /\ loop.pc = "taken" => KeyOf[loop.job] \in dirty \/ Unmarked(loop.job)
    /\ \A k \in dirty : \/ \E i \in 1..Len(q) : KeyOf[q[i]] = k
                        \/ loop.pc = "taken" /\ KeyOf[loop.job] = k
    /\ processing = IF loop.pc = "assign" THEN {KeyOf[loop.job]} ELSE {}

\* Seen from outside it is a bounded queue without two entries of a key.
Queue == INSTANCE JobQueue WITH pending <- q, held <- Held
IsJobQueue == Queue!Spec

\* An Enqueue returns, also when the channel is full and the scheduler waits
\* for the very mutex Add keeps.
EnqueueReturns ==
    \A r \in Reconcilers : ~Calling(r, "idle") ~> Calling(r, "idle")

\* Every job in the channel is handed to the scheduler, in spite of the
\* reconcilers contending for the mutex and the channel.
AddedIsAssigned ==
    \A j \in Jobs : InChannel(j) ~> loop.pc = "assign" /\ loop.job = j

=============================================================================
