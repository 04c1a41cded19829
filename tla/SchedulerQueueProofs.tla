------------------------ MODULE SchedulerQueueProofs ------------------------
(***************************************************************************)
(* The scheduler's queue keeps its promise for any jobs, keys, number of   *)
(* reconcilers and capacity.                                               *)
(***************************************************************************)
EXTENDS SchedulerQueue, TLAPS

-----------------------------------------------------------------------------
(* Types.                                                                  *)

LEMMA CallType ==
    ASSUME TypeOK, NEW r \in Reconcilers
    PROVE  /\ call[r] \in Call
           /\ call[r].pc # "idle" => call[r].job \in Jobs
BY DEF TypeOK, Call

LEMMA LoopType ==
    ASSUME TypeOK
    PROVE  loop.pc \in {"taken", "assign"} => loop.job \in Jobs
BY DEF TypeOK, Loop

LEMMA GoType ==
    ASSUME TypeOK, NEW r \in Reconcilers, call[r].pc # "idle",
           NEW pc \in {"add", "send", "sent", "length"}, Go(r, pc)
    PROVE  call' \in [Reconcilers -> Call]
<1>1. call[r].job \in Jobs
  BY CallType
<1>2. [call[r] EXCEPT !.pc = pc] = [pc |-> pc, job |-> call[r].job]
  BY CallType DEF Call
<1>3. [call[r] EXCEPT !.pc = pc] \in Call
  BY <1>1, <1>2 DEF Call
<1> QED BY <1>3 DEF TypeOK, Go

LEMMA ReturnType ==
    ASSUME TypeOK, NEW r \in Reconcilers, Return(r)
    PROVE  call' \in [Reconcilers -> Call]
BY DEF TypeOK, Return, Call

LEMMA KeyType ==
    ASSUME NEW j \in Jobs
    PROVE  KeyOf[j] \in Keys
BY QueueAssumption

LEMMA TailFacts ==
    ASSUME NEW S, NEW s \in Seq(S), s # <<>>
    PROVE  /\ Len(s) \in Nat \ {0}
           /\ Head(s) = s[1] /\ Head(s) \in S
           /\ Tail(s) \in Seq(S)
           /\ Len(Tail(s)) = Len(s) - 1
           /\ \A i \in 1..Len(Tail(s)) : Tail(s)[i] = s[i + 1]
OBVIOUS

LEMMA AppendFacts ==
    ASSUME NEW S, NEW s \in Seq(S), NEW e \in S
    PROVE  /\ Append(s, e) \in Seq(S)
           /\ Len(Append(s, e)) = Len(s) + 1
           /\ \A i \in 1..Len(s) : Append(s, e)[i] = s[i]
           /\ Append(s, e)[Len(s) + 1] = e
OBVIOUS

LEMMA TypeStep ==
    ASSUME TypeOK, [Next]_vars
    PROVE  TypeOK'
<1> USE DEF TypeOK
<1>1. ASSUME NEW r \in Reconcilers, NEW j \in Jobs, Enqueue(r, j)
      PROVE  TypeOK'
  BY <1>1 DEF Enqueue, Call
<1>2. ASSUME NEW r \in Reconcilers, AddRefused(r)
      PROVE  TypeOK'
  BY <1>2, ReturnType DEF AddRefused
<1>3. ASSUME NEW r \in Reconcilers, AddAdmitted(r)
      PROVE  TypeOK'
  BY <1>3, GoType DEF AddAdmitted, Calling
<1>4. ASSUME NEW r \in Reconcilers, AddSend(r)
      PROVE  TypeOK'
  <2>1. call' \in [Reconcilers -> Call]
    BY <1>4, GoType DEF AddSend, Calling
  <2>2. call[r].job \in Jobs
    BY <1>4, CallType DEF AddSend, Calling
  <2>3. q' \in Seq(Jobs) /\ Len(q') = Len(q) + 1
    BY <1>4, <2>2, AppendFacts DEF AddSend
  <2>4. Len(q') <= Capacity
    BY <1>4, <2>3, QueueAssumption DEF AddSend
  <2> QED BY <1>4, <2>1, <2>3, <2>4 DEF AddSend
<1>5. ASSUME NEW r \in Reconcilers, AddMark(r)
      PROVE  TypeOK'
  <2>1. KeyOf[call[r].job] \in Keys
    BY <1>5, CallType, KeyType DEF AddMark, Calling
  <2> QED BY <1>5, <2>1, ReturnType DEF AddMark
<1>6. ASSUME NEW r \in Reconcilers, AddTimeout(r)
      PROVE  TypeOK'
  BY <1>6, GoType DEF AddTimeout, Calling
<1>7. ASSUME NEW r \in Reconcilers, EnqueueFailed(r)
      PROVE  TypeOK'
  BY <1>7, ReturnType DEF EnqueueFailed
<1>8. CASE LoopLength
  BY <1>8 DEF LoopLength, LoopGo, Loop
<1>9. CASE GetReceive
  <2>1. q' \in Seq(Jobs) /\ Len(q') = Len(q) - 1 /\ Head(q) \in Jobs /\ Len(q) \in Nat
    BY <1>9, TailFacts DEF GetReceive
  <2>2. Len(q') <= Capacity
    BY <2>1, QueueAssumption
  <2>3. loop' \in Loop
    BY <1>9, <2>1 DEF GetReceive, LoopGo, Loop
  <2> QED BY <1>9, <2>1, <2>2, <2>3 DEF GetReceive
<1>10. CASE GetTimeout
  BY <1>10 DEF GetTimeout, LoopGo, Loop
<1>11. CASE GetMark
  <2>1. loop.job \in Jobs
    BY <1>11, LoopType DEF GetMark
  <2>2. KeyOf[loop.job] \in Keys
    BY <2>1, KeyType
  <2>3. loop' \in Loop
    BY <1>11, <2>1 DEF GetMark, LoopGo, Loop
  <2> QED BY <1>11, <2>2, <2>3 DEF GetMark
<1>12. CASE LoopDone
  BY <1>12 DEF LoopDone, LoopGo, Loop
<1>13. CASE UNCHANGED vars
  BY <1>13 DEF vars
<1> QED
  BY <1>1, <1>2, <1>3, <1>4, <1>5, <1>6, <1>7, <1>8, <1>9, <1>10, <1>11, <1>12, <1>13
  DEF Next, AddStep, LoopStep

\* The channel never holds more than its buffer, and every call and the loop
\* are at a step of the code with the job that step needs.
THEOREM TypeCorrect == Spec => []TypeOK
<1>1. Init => TypeOK
  BY QueueAssumption DEF Init, TypeOK, Call, Loop
<1>2. TypeOK /\ [Next]_vars => TypeOK'
  BY TypeStep
<1> QED BY <1>1, <1>2, PTL DEF Spec

-----------------------------------------------------------------------------
(* The two sets follow the jobs.                                           *)

IInv == TypeOK /\ OneOfAKey /\ Books

\* A step of one reconciler that moves no job.
LEMMA CallStep ==
    ASSUME IInv, NEW r \in Reconcilers,
           UNCHANGED <<q, dirty, processing, loop>>,
           call[r].pc # "sent", call'[r].pc # "sent",
           \A s \in Reconcilers \ {r} : call'[s] = call[s] /\ (mutex' = s <=> mutex = s),
           mutex' = r <=> call'[r].pc = "send",
           mutex' = r => ~Seen(call'[r].job)
    PROVE  OneOfAKey' /\ Books'
<1>1. \A j \in Jobs : Taken(j)' <=> Taken(j)
  BY DEF Taken
<1>2. OneOfAKey'
  BY <1>1 DEF IInv, OneOfAKey, Held
<1>3. \A j : Unmarked(j)' <=> Unmarked(j)
  BY DEF Unmarked, Calling
<1>6. \A s \in Reconcilers : mutex' = s <=> call'[s].pc \in {"send", "sent"}
  BY DEF IInv, Books
<1>7. (\A s \in Reconcilers : mutex = s => ~Seen(call[s].job))'
  BY DEF IInv, Books, Seen
<1>8. (\A s \in Reconcilers : Calling(s, "sent") =>
        InChannel(call[s].job) \/ (loop.pc = "taken" /\ loop.job = call[s].job))'
  BY DEF IInv, Books, Calling, InChannel
<1>9. (\A i \in 1..Len(q) : KeyOf[q[i]] \in dirty \/ Unmarked(q[i]))'
  BY <1>3 DEF IInv, Books, Unmarked, Calling
<1>10. (loop.pc = "taken" => KeyOf[loop.job] \in dirty \/ Unmarked(loop.job))'
  BY <1>3 DEF IInv, Books, Unmarked, Calling
<1>11. (/\ \A k \in dirty : \/ \E i \in 1..Len(q) : KeyOf[q[i]] = k
                            \/ loop.pc = "taken" /\ KeyOf[loop.job] = k
        /\ processing = IF loop.pc = "assign" THEN {KeyOf[loop.job]} ELSE {})'
  BY DEF IInv, Books
<1> QED BY <1>2, <1>6, <1>7, <1>8, <1>9, <1>10, <1>11 DEF Books

\* Nobody waits unmarked while the mutex is free, and at most one with it.
LEMMA OneUnmarked ==
    ASSUME IInv
    PROVE  /\ Free => \A j : ~Unmarked(j)
           /\ \A r \in Reconcilers : Calling(r, "sent") =>
                \A j : Unmarked(j) => j = call[r].job
           /\ \A r \in Reconcilers : Calling(r, "send") => \A j : ~Unmarked(j)
<1>1. \A r \in Reconcilers : Calling(r, "sent") => mutex = r
  BY DEF IInv, Books, Calling
<1>2. NoOne \notin Reconcilers
  BY QueueAssumption
<1> QED BY <1>1, <1>2 DEF Free, Unmarked, Calling, IInv, Books

\* The loop between two jobs.
LEMMA IdleLoopStep ==
    ASSUME IInv, LoopLength \/ GetTimeout
    PROVE  OneOfAKey' /\ Books'
<1>1. /\ UNCHANGED <<q, dirty, processing, mutex, call>>
      /\ loop.pc \notin {"taken", "assign"} /\ loop'.pc \notin {"taken", "assign"}
  BY DEF LoopLength, GetTimeout, LoopGo
<1>2. OneOfAKey'
  BY <1>1 DEF IInv, OneOfAKey, Held, Taken
<1>3. Books'
  BY <1>1 DEF IInv, Books, Seen, Calling, InChannel, Unmarked
<1> QED BY <1>2, <1>3

LEMMA AddSendStep ==
    ASSUME IInv, NEW r \in Reconcilers, AddSend(r)
    PROVE  OneOfAKey' /\ Books'
<1> DEFINE j == call[r].job
<1>1. /\ mutex = r /\ call[r].pc = "send" /\ j \in Jobs /\ ~Seen(j)
      /\ UNCHANGED <<dirty, processing, mutex, loop>>
  BY CallType DEF AddSend, Calling, IInv, Books
<1>2. /\ q \in Seq(Jobs) /\ Len(q) \in Nat /\ Len(q') = Len(q) + 1
      /\ \A i \in 1..Len(q) : q'[i] = q[i]
      /\ q'[Len(q) + 1] = j
  BY <1>1, AppendFacts DEF AddSend, IInv, TypeOK
<1>3. \A i \in 1..Len(q') : i \in 1..Len(q) \/ i = Len(q) + 1
  BY <1>2
<1>4. /\ call'[r].pc = "sent" /\ call'[r].job = j
      /\ \A s \in Reconcilers \ {r} : call'[s] = call[s]
  BY DEF AddSend, Go, IInv, TypeOK, Call
<1>5. \A k : ~Unmarked(k)
  BY <1>1, OneUnmarked DEF Calling
<1>6. \A i \in 1..Len(q) : KeyOf[q[i]] \in dirty /\ KeyOf[q[i]] # KeyOf[j]
  BY <1>1, <1>5 DEF IInv, Books, Seen
<1>7. \A k \in Held : KeyOf[k] # KeyOf[j]
  BY <1>1, <1>5 DEF IInv, Books, Seen, Held, Taken
<1>8. OneOfAKey'
  <2>1. (\A i, k \in 1..Len(q) : KeyOf[q[i]] = KeyOf[q[k]] => i = k)'
    BY <1>2, <1>3, <1>6 DEF IInv, OneOfAKey
  <2>2. Held' = Held
    BY <1>1 DEF Held, Taken
  <2>3. (\A i \in 1..Len(q), k \in Held : KeyOf[q[i]] # KeyOf[k])'
    BY <1>2, <1>3, <1>7, <2>2 DEF IInv, OneOfAKey
  <2> QED BY <2>1, <2>3 DEF OneOfAKey
<1>9. Books'
  <2>1. (\A s \in Reconcilers : mutex = s <=> call[s].pc \in {"send", "sent"})'
    BY <1>1, <1>4 DEF IInv, Books
  <2>2. (\A s \in Reconcilers : mutex = s => ~Seen(call[s].job))'
    BY <1>1, <1>4 DEF Seen
  <2>3. (\A s \in Reconcilers : Calling(s, "sent") =>
            InChannel(call[s].job) \/ (loop.pc = "taken" /\ loop.job = call[s].job))'
    BY <1>1, <1>2, <1>4 DEF IInv, Books, Calling, InChannel
  <2>4. (\A i \in 1..Len(q) : KeyOf[q[i]] \in dirty \/ Unmarked(q[i]))'
    BY <1>1, <1>2, <1>3, <1>4, <1>6 DEF Unmarked, Calling
  <2>5. (loop.pc = "taken" => KeyOf[loop.job] \in dirty \/ Unmarked(loop.job))'
    BY <1>1, <1>5 DEF IInv, Books
  <2>6. (\A k \in dirty : \/ \E i \in 1..Len(q) : KeyOf[q[i]] = k
                          \/ loop.pc = "taken" /\ KeyOf[loop.job] = k)'
    BY <1>1, <1>2 DEF IInv, Books
  <2>7. (processing = IF loop.pc = "assign" THEN {KeyOf[loop.job]} ELSE {})'
    BY <1>1 DEF IInv, Books
  <2> QED BY <2>1, <2>2, <2>3, <2>4, <2>5, <2>6, <2>7 DEF Books
<1> QED BY <1>8, <1>9

LEMMA AddMarkStep ==
    ASSUME IInv, NEW r \in Reconcilers, AddMark(r)
    PROVE  OneOfAKey' /\ Books'
<1> DEFINE j == call[r].job
<1>1. /\ mutex = r /\ call[r].pc = "sent" /\ mutex' = NoOne
      /\ dirty' = dirty \cup {KeyOf[j]}
      /\ UNCHANGED <<q, processing, loop>>
  BY DEF AddMark, Calling, IInv, Books
<1>2. /\ call'[r].pc = "idle"
      /\ \A s \in Reconcilers \ {r} : call'[s] = call[s] /\ call[s].pc \notin {"send", "sent"}
  BY <1>1 DEF AddMark, Return, IInv, TypeOK, Call, Books
<1>3. \A k : Unmarked(k) => k = j
  BY <1>1, OneUnmarked DEF Calling
<1>4. InChannel(j) \/ (loop.pc = "taken" /\ loop.job = j)
  BY <1>1 DEF IInv, Books, Calling
<1>5. OneOfAKey'
  BY <1>1 DEF IInv, OneOfAKey, Held, Taken
<1>6. Books'
  <2>1. (\A s \in Reconcilers : mutex = s <=> call[s].pc \in {"send", "sent"})'
    BY <1>1, <1>2, QueueAssumption
  <2>2. (\A s \in Reconcilers : mutex = s => ~Seen(call[s].job))'
    BY <1>1, QueueAssumption
  <2>3. (\A s \in Reconcilers : Calling(s, "sent") =>
            InChannel(call[s].job) \/ (loop.pc = "taken" /\ loop.job = call[s].job))'
    BY <1>2 DEF Calling
  <2>4. (\A i \in 1..Len(q) : KeyOf[q[i]] \in dirty \/ Unmarked(q[i]))'
    BY <1>1, <1>3 DEF IInv, Books
  <2>5. (loop.pc = "taken" => KeyOf[loop.job] \in dirty \/ Unmarked(loop.job))'
    BY <1>1, <1>3 DEF IInv, Books
  <2>6. (\A k \in dirty : \/ \E i \in 1..Len(q) : KeyOf[q[i]] = k
                          \/ loop.pc = "taken" /\ KeyOf[loop.job] = k)'
    BY <1>1, <1>4 DEF IInv, Books, InChannel
  <2>7. (processing = IF loop.pc = "assign" THEN {KeyOf[loop.job]} ELSE {})'
    BY <1>1 DEF IInv, Books
  <2> QED BY <2>1, <2>2, <2>3, <2>4, <2>5, <2>6, <2>7 DEF Books
<1> QED BY <1>5, <1>6

LEMMA GetReceiveStep ==
    ASSUME IInv, GetReceive
    PROVE  OneOfAKey' /\ Books'
<1> DEFINE j == Head(q)
<1>1. /\ loop.pc = "get" /\ loop'.pc = "taken" /\ loop'.job = j
      /\ UNCHANGED <<dirty, processing, mutex, call>>
  BY DEF GetReceive, LoopGo
<1>2. /\ q \in Seq(Jobs) /\ Len(q) \in Nat \ {0} /\ Len(q') = Len(q) - 1
      /\ j = q[1] /\ j \in Jobs
      /\ \A i \in 1..Len(q') : q'[i] = q[i + 1]
  BY TailFacts DEF GetReceive, IInv, TypeOK
<1>3. \A i \in 1..Len(q') : i + 1 \in 1..Len(q) /\ i + 1 # 1
  BY <1>2
<1>4. \A i \in 1..Len(q) : i = 1 \/ (i - 1 \in 1..Len(q') /\ q'[i - 1] = q[i])
  BY <1>2
<1>5. 1 \in 1..Len(q)
  BY <1>2
<1>6. OneOfAKey'
  <2>1. (\A i, k \in 1..Len(q) : KeyOf[q[i]] = KeyOf[q[k]] => i = k)'
    <3> SUFFICES ASSUME NEW i \in 1..Len(q'), NEW k \in 1..Len(q'),
                        KeyOf[q'[i]] = KeyOf[q'[k]]
                 PROVE  i = k
      OBVIOUS
    <3>1. i + 1 = k + 1
      BY <1>2, <1>3 DEF IInv, OneOfAKey
    <3> QED BY <3>1, <1>2
  <2>2. \A i \in 1..Len(q') : KeyOf[q'[i]] # KeyOf[j]
    <3> TAKE i \in 1..Len(q')
    <3>1. q'[i] = q[i + 1] /\ i + 1 \in 1..Len(q) /\ i + 1 # 1
      BY <1>2, <1>3
    <3> QED BY <3>1, <1>2, <1>5 DEF IInv, OneOfAKey
  <2>3. Held' = {j}
    BY <1>1, <1>2 DEF Held, Taken
  <2> QED BY <2>1, <2>2, <2>3 DEF OneOfAKey
<1>7. Books'
  <2>1. (\A s \in Reconcilers : mutex = s <=> call[s].pc \in {"send", "sent"})'
    BY <1>1 DEF IInv, Books
  <2>2. (\A s \in Reconcilers : mutex = s => ~Seen(call[s].job))'
    BY <1>1 DEF IInv, Books, Seen
  <2>3. (\A s \in Reconcilers : Calling(s, "sent") =>
            InChannel(call[s].job) \/ (loop.pc = "taken" /\ loop.job = call[s].job))'
    <3> SUFFICES ASSUME NEW s \in Reconcilers, call[s].pc = "sent"
                 PROVE  (\E i \in 1..Len(q') : q'[i] = call[s].job) \/ call[s].job = j
      BY <1>1 DEF Calling, InChannel
    <3>1. PICK i \in 1..Len(q) : q[i] = call[s].job
      BY <1>1 DEF IInv, Books, Calling, InChannel
    <3> QED BY <3>1, <1>2, <1>4
  <2>4. \A k : Unmarked(k)' <=> Unmarked(k)
    BY <1>1 DEF Unmarked, Calling
  <2>5. \A i \in 1..Len(q) : KeyOf[q[i]] \in dirty \/ Unmarked(q[i])
    BY DEF IInv, Books
  <2>6. (\A i \in 1..Len(q) : KeyOf[q[i]] \in dirty \/ Unmarked(q[i]))'
    BY <1>1, <1>2, <1>3, <2>5 DEF Unmarked, Calling
  <2>7. (loop.pc = "taken" => KeyOf[loop.job] \in dirty \/ Unmarked(loop.job))'
    BY <1>1, <1>2, <1>5, <2>5 DEF Unmarked, Calling
  <2>8. (\A k \in dirty : \/ \E i \in 1..Len(q) : KeyOf[q[i]] = k
                          \/ loop.pc = "taken" /\ KeyOf[loop.job] = k)'
    <3> SUFFICES ASSUME NEW k \in dirty
                 PROVE  (\E i \in 1..Len(q') : KeyOf[q'[i]] = k) \/ KeyOf[j] = k
      BY <1>1
    <3>1. PICK i \in 1..Len(q) : KeyOf[q[i]] = k
      BY <1>1 DEF IInv, Books
    <3> QED BY <3>1, <1>2, <1>4
  <2>9. (processing = IF loop.pc = "assign" THEN {KeyOf[loop.job]} ELSE {})'
    BY <1>1 DEF IInv, Books
  <2> QED BY <2>1, <2>2, <2>3, <2>6, <2>7, <2>8, <2>9 DEF Books
<1> QED BY <1>6, <1>7

LEMMA GetMarkStep ==
    ASSUME IInv, GetMark
    PROVE  OneOfAKey' /\ Books'
<1> DEFINE j == loop.job
<1>1. /\ loop.pc = "taken" /\ loop'.pc = "assign" /\ loop'.job = j /\ j \in Jobs
      /\ mutex = NoOne
      /\ dirty' = dirty \ {KeyOf[j]}
      /\ processing' = processing \cup {KeyOf[j]}
      /\ UNCHANGED <<q, mutex, call>>
  BY LoopType DEF GetMark, LoopGo, Free, IInv
<1>2. processing = {}
  BY <1>1 DEF IInv, Books
<1>3. \A s \in Reconcilers : call[s].pc \notin {"send", "sent"} /\ mutex # s
  BY <1>1, QueueAssumption DEF IInv, Books
<1>4. j \in Held
  BY <1>1 DEF Held, Taken
<1>5. \A i \in 1..Len(q) : KeyOf[q[i]] \in dirty /\ KeyOf[q[i]] # KeyOf[j]
  BY <1>3, <1>4 DEF IInv, Books, OneOfAKey, Unmarked, Calling
<1>6. OneOfAKey'
  BY <1>1 DEF IInv, OneOfAKey, Held, Taken
<1>7. Books'
  <2>1. (\A s \in Reconcilers : mutex = s <=> call[s].pc \in {"send", "sent"})'
    BY <1>1 DEF IInv, Books
  <2>2. (\A s \in Reconcilers : mutex = s => ~Seen(call[s].job))'
    BY <1>1, <1>3
  <2>3. (\A s \in Reconcilers : Calling(s, "sent") =>
            InChannel(call[s].job) \/ (loop.pc = "taken" /\ loop.job = call[s].job))'
    BY <1>1, <1>3 DEF Calling
  <2>4. (\A i \in 1..Len(q) : KeyOf[q[i]] \in dirty \/ Unmarked(q[i]))'
    BY <1>1, <1>5
  <2>5. (loop.pc = "taken" => KeyOf[loop.job] \in dirty \/ Unmarked(loop.job))'
    BY <1>1
  <2>6. (\A k \in dirty : \/ \E i \in 1..Len(q) : KeyOf[q[i]] = k
                          \/ loop.pc = "taken" /\ KeyOf[loop.job] = k)'
    BY <1>1 DEF IInv, Books
  <2>7. (processing = IF loop.pc = "assign" THEN {KeyOf[loop.job]} ELSE {})'
    BY <1>1, <1>2
  <2> QED BY <2>1, <2>2, <2>3, <2>4, <2>5, <2>6, <2>7 DEF Books
<1> QED BY <1>6, <1>7

LEMMA LoopDoneStep ==
    ASSUME IInv, LoopDone
    PROVE  OneOfAKey' /\ Books'
<1>1. /\ loop.pc = "assign" /\ loop'.pc = "length"
      /\ mutex = NoOne
      /\ processing' = processing \ {KeyOf[loop.job]}
      /\ UNCHANGED <<q, dirty, mutex, call>>
  BY DEF LoopDone, LoopGo, Free
<1>2. processing' = {}
  BY <1>1 DEF IInv, Books
<1>3. \A s \in Reconcilers : call[s].pc \notin {"send", "sent"} /\ mutex # s
  BY <1>1, QueueAssumption DEF IInv, Books
<1>4. OneOfAKey'
  BY <1>1 DEF IInv, OneOfAKey, Held, Taken
<1>5. Books'
  BY <1>1, <1>2, <1>3 DEF IInv, Books, Unmarked, Calling
<1> QED BY <1>4, <1>5

LEMMA IInvStep ==
    ASSUME IInv, [Next]_vars
    PROVE  IInv'
<1>1. TypeOK'
  BY TypeStep DEF IInv
<1>2. ASSUME NEW r \in Reconcilers, NEW j \in Jobs, Enqueue(r, j)
      PROVE  OneOfAKey' /\ Books'
  BY <1>2, CallStep, QueueAssumption DEF Enqueue, Calling, IInv, TypeOK, Call, Books
<1>3. ASSUME NEW r \in Reconcilers, AddRefused(r) \/ EnqueueFailed(r)
      PROVE  OneOfAKey' /\ Books'
  BY <1>3, CallStep, QueueAssumption DEF AddRefused, EnqueueFailed, Return, Calling, Free, IInv, TypeOK, Call
<1>4. ASSUME NEW r \in Reconcilers, AddAdmitted(r)
      PROVE  OneOfAKey' /\ Books'
  BY <1>4, CallStep, QueueAssumption DEF AddAdmitted, Go, Calling, Free, IInv, TypeOK, Call
<1>5. ASSUME NEW r \in Reconcilers, AddTimeout(r)
      PROVE  OneOfAKey' /\ Books'
  BY <1>5, CallStep, QueueAssumption DEF AddTimeout, Go, Calling, IInv, TypeOK, Call, Books
<1>6. ASSUME UNCHANGED vars
      PROVE  OneOfAKey' /\ Books'
  <2>1. OneOfAKey'
    BY <1>6 DEF vars, IInv, OneOfAKey, Held, Taken
  <2>2. Books'
    BY <1>6 DEF vars, IInv, Books, Seen, Calling, InChannel, Unmarked
  <2> QED BY <2>1, <2>2
<1>7. OneOfAKey' /\ Books'
  BY <1>2, <1>3, <1>4, <1>5, <1>6, IdleLoopStep, AddSendStep, AddMarkStep,
     GetReceiveStep, GetMarkStep, LoopDoneStep
  DEF Next, AddStep, LoopStep
<1> QED BY <1>1, <1>7 DEF IInv

LEMMA IInvHolds == Spec => []IInv
<1>1. Init => IInv
  BY QueueAssumption DEF Init, IInv, TypeOK, Call, Loop, OneOfAKey, Held, Taken, Books, Calling
<1>2. IInv /\ [Next]_vars => IInv'
  BY IInvStep
<1> QED BY <1>1, <1>2, PTL DEF Spec

\* Two entries of one key are never in the channel or with the scheduler.
THEOREM NoKeyTwice == Spec => []OneOfAKey
<1>1. IInv => OneOfAKey
  BY DEF IInv
<1> QED BY <1>1, IInvHolds, PTL

\* No key is left behind in dirty or in processing: Add refuses a job only for
\* one that is on its way to the scheduler or with it.
THEOREM NoRefusalForEver == Spec => []RefusedWhileInside
<1>1. IInv => RefusedWhileInside
  <2> SUFFICES ASSUME IInv, NEW k \in dirty \cup processing
               PROVE  \E j \in Jobs : KeyOf[j] = k /\ (InChannel(j) \/ Taken(j))
    BY DEF RefusedWhileInside
  <2>1. q \in Seq(Jobs) /\ \A i \in 1..Len(q) : q[i] \in Jobs
    BY DEF IInv, TypeOK
  <2>2. CASE k \in dirty
    BY <2>1, <2>2, LoopType DEF IInv, Books, InChannel, Taken
  <2>3. CASE k \in processing
    BY <2>3, LoopType DEF IInv, Books, Taken
  <2> QED BY <2>2, <2>3
<1> QED BY <1>1, IInvHolds, PTL

-----------------------------------------------------------------------------
(* The refinement of JobQueue.                                             *)

LEMMA AddSendAdds ==
    ASSUME IInv, NEW r \in Reconcilers, AddSend(r)
    PROVE  Queue!Add(call[r].job)
<1> DEFINE j == call[r].job
<1>1. /\ mutex = r /\ ~Seen(j) /\ j \in Jobs
      /\ Len(q) < Capacity /\ q' = Append(q, j) /\ loop' = loop
  BY CallType DEF AddSend, Calling, IInv, Books
<1>2. \A k : ~Unmarked(k)
  BY OneUnmarked DEF AddSend, Calling
<1>3. \A i \in 1..Len(q) : KeyOf[q[i]] # KeyOf[j]
  BY <1>1, <1>2 DEF IInv, Books, Seen
<1>4. \A k \in Held : KeyOf[k] # KeyOf[j]
  BY <1>1, <1>2 DEF IInv, Books, Seen, Held, Taken
<1>5. ~Queue!Known(j)
  BY <1>3, <1>4 DEF Queue!Known, Queue!Waiting
<1>6. Held' = Held
  BY <1>1 DEF Held, Taken
<1> QED BY <1>1, <1>5, <1>6 DEF Queue!Add

LEMMA GetReceiveTakes ==
    ASSUME IInv, GetReceive
    PROVE  Queue!Take
<1>1. /\ q # <<>> /\ q' = Tail(q)
      /\ loop.pc = "get" /\ loop'.pc = "taken" /\ loop'.job = Head(q)
  BY DEF GetReceive, LoopGo
<1>2. Head(q) \in Jobs
  BY <1>1, TailFacts DEF IInv, TypeOK
<1>3. Held = {} /\ Held' = {Head(q)}
  BY <1>1, <1>2 DEF Held, Taken
<1> QED BY <1>1, <1>3 DEF Queue!Take

LEMMA LoopDoneFinishes ==
    ASSUME IInv, LoopDone
    PROVE  loop.job \in Jobs /\ Queue!Done(loop.job)
<1>1. loop.pc = "assign" /\ loop'.pc = "length" /\ q' = q /\ loop.job \in Jobs
  BY LoopType DEF LoopDone, LoopGo, IInv
<1>2. Held = {loop.job} /\ Held' = {}
  BY <1>1 DEF Held, Taken
<1> QED BY <1>1, <1>2 DEF Queue!Done

LEMMA OthersStutter ==
    ASSUME IInv,
           \/ LoopLength \/ GetTimeout \/ GetMark \/ UNCHANGED vars
           \/ \E r \in Reconcilers :
                \/ AddRefused(r) \/ AddAdmitted(r) \/ AddMark(r) \/ AddTimeout(r)
                \/ EnqueueFailed(r)
                \/ \E j \in Jobs : Enqueue(r, j)
    PROVE  UNCHANGED <<q, Held>>
<1>1. q' = q
  BY DEF LoopLength, GetTimeout, GetMark, AddRefused, AddAdmitted, AddMark, AddTimeout,
         EnqueueFailed, Enqueue, vars
<1>2. \A j : Taken(j)' <=> Taken(j)
  <2>1. CASE loop' = loop
    BY <2>1 DEF Taken
  <2>2. CASE LoopLength \/ GetTimeout
    BY <2>2 DEF LoopLength, GetTimeout, LoopGo, Taken
  <2>3. CASE GetMark
    BY <2>3 DEF GetMark, LoopGo, Taken
  <2> QED
    BY <2>1, <2>2, <2>3
    DEF AddRefused, AddAdmitted, AddMark, AddTimeout, EnqueueFailed, Enqueue, vars
<1> QED BY <1>1, <1>2 DEF Held

\* The queue, read as its channel and the one job the scheduler has, is a
\* bounded first-in first-out queue that admits no key twice.
THEOREM QueueRefinement == Spec => IsJobQueue
<1>1. Init => Queue!Init
  BY DEF Init, Queue!Init, Held, Taken
<1>2. IInv /\ [Next]_vars => [Queue!Next]_<<q, Held>>
  <2> SUFFICES ASSUME IInv, [Next]_vars
               PROVE  Queue!Next \/ UNCHANGED <<q, Held>>
    OBVIOUS
  <2>1. ASSUME NEW r \in Reconcilers, AddSend(r)
        PROVE  Queue!Next
    BY <2>1, AddSendAdds, CallType DEF Queue!Next, AddSend, Calling, IInv
  <2>2. CASE GetReceive
    BY <2>2, GetReceiveTakes DEF Queue!Next
  <2>3. CASE LoopDone
    BY <2>3, LoopDoneFinishes DEF Queue!Next
  <2> QED BY <2>1, <2>2, <2>3, OthersStutter DEF Next, AddStep, LoopStep
<1> QED BY <1>1, <1>2, IInvHolds, PTL DEF Spec, IsJobQueue, Queue!Spec

=============================================================================
