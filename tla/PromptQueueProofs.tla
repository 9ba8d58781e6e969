-------------------------- MODULE PromptQueueProofs --------------------------
(***************************************************************************)
(* Proofs about PromptQueue, for any number of chats, prompts and threads, *)
(* any capacity and any number of store failures.                          *)
(***************************************************************************)
EXTENDS PromptQueue, TLAPS

USE QueueAssumption DEF QueueAssumption

LEMMA ThreadTyped ==
  ASSUME NEW th \in ThreadState,
         NEW place \in {"idle", "claim", "run", "finish", "fail", "cleanup"},
         NEW j \in Job, NEW t \in Text \cup {NoText}, NEW b \in BOOLEAN
  PROVE  /\ [th EXCEPT !.at = place] \in ThreadState
         /\ [th EXCEPT !.stopped = b] \in ThreadState
         /\ [th EXCEPT !.failure = b] \in ThreadState
         /\ [th EXCEPT !.at = place, !.job = j, !.text = t, !.stopped = b] \in ThreadState
BY DEF ThreadState

LEMMA IdleTyped ==
  /\ Idle \in ThreadState
  /\ \A c \in Chat \cup {NoChat} : Spawned(c) \in ThreadState
BY DEF Idle, Spawned, ThreadState

LEMMA BecomesTyped ==
  ASSUME TypeOK, NEW w \in Worker, NEW th \in ThreadState, Becomes(w, th)
  PROVE  thread' \in [Worker -> ThreadState]
BY DEF TypeOK, Becomes

LEMMA AtTyped ==
  ASSUME TypeOK, NEW w \in Worker,
         NEW place \in {"idle", "claim", "run", "finish", "fail", "cleanup"}
  PROVE  At(w, place) \in ThreadState
<1>1. thread[w] \in ThreadState
  BY DEF TypeOK
<1>2. QED
  BY <1>1 DEF At, ThreadState

LEMMA SpawnTyped ==
  ASSUME TypeOK, NEW c \in Chat, NEW p \in [Chat -> BOOLEAN],
         Kick(c, p) \/ KickFails(c, p)
  PROVE  /\ paused' \in [Chat -> BOOLEAN]
         /\ active' \in [Chat -> Worker \cup {NoWorker}]
         /\ thread' \in [Worker -> ThreadState]
         /\ faults' \in 0 .. MaxFaults
<1>1. paused' \in [Chat -> BOOLEAN]
  BY DEF Kick, KickFails
<1>2. /\ active' \in [Chat -> Worker \cup {NoWorker}]
      /\ thread' \in [Worker -> ThreadState]
  <2>1. CASE UNCHANGED <<active, thread>>
    BY <2>1 DEF TypeOK
  <2>2. ASSUME NEW w \in Worker,
               active' = [active EXCEPT ![c] = w] /\ Becomes(w, Spawned(c))
        PROVE  /\ active' \in [Chat -> Worker \cup {NoWorker}]
               /\ thread' \in [Worker -> ThreadState]
    <3>1. active' \in [Chat -> Worker \cup {NoWorker}]
      BY <2>2 DEF TypeOK
    <3>2. QED
      BY <2>2, <3>1, IdleTyped, BecomesTyped
  <2>3. QED
    BY <2>1, <2>2 DEF Kick, KickFails
<1>3. faults' \in 0 .. MaxFaults
  BY DEF Kick, KickFails, TypeOK, Fault
<1>4. QED
  BY <1>1, <1>2, <1>3

\* Every value the daemon and its store hold is of the kind the code declares.
THEOREM Typed == Spec => []TypeOK
<1>1. Init => TypeOK
  BY DEF Init, TypeOK, ThreadState, Idle, Status
<1>2. ASSUME TypeOK, [Next]_vars
      PROVE  TypeOK'
  <2> USE <1>2 DEF TypeOK, rows, memory
  <2>1. ASSUME NEW j \in Job, NEW t \in Text, Enqueue(j, t)
        PROVE  TypeOK'
    <3>1. ChatOf[j] \in Chat
      OBVIOUS
    <3>2. /\ status' \in [Job -> Status]
          /\ payload' \in [Job -> Text \cup {NoText}]
          /\ seq' \in [Job -> Nat]
          /\ nextSeq' \in Nat \ {0}
      BY <2>1 DEF Enqueue, InsertRow, KnownRow, Status
    <3>3. /\ paused' \in [Chat -> BOOLEAN]
          /\ active' \in [Chat -> Worker \cup {NoWorker}]
          /\ thread' \in [Worker -> ThreadState]
          /\ faults' \in 0 .. MaxFaults
      BY <2>1, <3>1, SpawnTyped DEF Enqueue
    <3>4. QED
      BY <2>1, <3>2, <3>3 DEF Enqueue
  <2>2. ASSUME NEW j \in Job, NEW t \in Text, Prompt(j, t)
        PROVE  TypeOK'
    <3> DEFINE c == ChatOf[j]
               p == IF Items(c) = {} THEN [paused EXCEPT ![c] = FALSE] ELSE paused
    <3>1. c \in Chat /\ p \in [Chat -> BOOLEAN]
      OBVIOUS
    <3>2. /\ status' \in [Job -> Status]
          /\ payload' \in [Job -> Text \cup {NoText}]
          /\ seq' \in [Job -> Nat]
          /\ nextSeq' \in Nat \ {0}
      BY <2>2 DEF Prompt, InsertRow, Status
    <3>3. Kick(c, p) \/ KickFails(c, p)
      BY <2>2 DEF Prompt
    <3>4. /\ paused' \in [Chat -> BOOLEAN]
          /\ active' \in [Chat -> Worker \cup {NoWorker}]
          /\ thread' \in [Worker -> ThreadState]
          /\ faults' \in 0 .. MaxFaults
      <4> HIDE DEF p
      <4> QED BY <3>1, <3>3, SpawnTyped
    <3>5. QED
      BY <2>2, <3>2, <3>4 DEF Prompt
  <2>3. ASSUME NEW c \in Chat, Resume(c)
        PROVE  TypeOK'
    <3> DEFINE p == [paused EXCEPT ![c] = FALSE]
    <3>1. p \in [Chat -> BOOLEAN] /\ (Kick(c, p) \/ KickFails(c, p))
      BY <2>3 DEF Resume
    <3>2. /\ paused' \in [Chat -> BOOLEAN]
          /\ active' \in [Chat -> Worker \cup {NoWorker}]
          /\ thread' \in [Worker -> ThreadState]
          /\ faults' \in 0 .. MaxFaults
      <4> HIDE DEF p
      <4> QED BY <3>1, SpawnTyped
    <3>3. QED
      BY <2>3, <3>2 DEF Resume
  <2>4. ASSUME NEW c \in Chat, PromptRefused(c) \/ HoldQueue(c)
        PROVE  TypeOK'
    BY <2>4 DEF PromptRefused, HoldQueue, QueuedJobs, JobsOf
  <2>5. ASSUME NEW c \in Chat, Cancel(c) \/ BeginDelete(c)
        PROVE  TypeOK'
    <3>1. thread' \in [Worker -> ThreadState]
      <4>1. \A w \in Worker : thread[w] \in ThreadState /\ Signalled(w) \in ThreadState
        <5>1. ASSUME NEW w \in Worker
              PROVE  thread[w] \in ThreadState /\ Signalled(w) \in ThreadState
          <6>1. thread[w] \in ThreadState
            OBVIOUS
          <6>2. QED
            BY <6>1 DEF Signalled, ThreadState
        <5>2. QED
          BY <5>1
      <4>2. QED
        BY <2>5, <4>1 DEF Cancel, BeginDelete, SignalStop
    <3>2. (PauseRow(c) /\ UNCHANGED faults) \/ (Fault /\ UNCHANGED paused)
      BY <2>5 DEF Cancel, BeginDelete, SignalStop
    <3>3. paused' \in [Chat -> BOOLEAN]
      BY <3>2 DEF PauseRow
    <3>4. faults' \in 0 .. MaxFaults
      BY <3>2 DEF Fault
    <3>5. QED
      BY <2>5, <3>1, <3>3, <3>4 DEF Cancel, BeginDelete, SignalStop, QueuedJobs, JobsOf
  <2>6. ASSUME NEW c \in Chat, FinishDelete(c) \/ DropEmpty(c)
        PROVE  TypeOK'
    BY <2>6 DEF FinishDelete, DropEmpty, DropChat, Status
  <2>7. ASSUME NEW j \in Job, Remove(j)
        PROVE  TypeOK'
    BY <2>7 DEF Remove, Status
  <2>8. ASSUME NEW j \in Job, NEW t \in Text, Edit(j, t)
        PROVE  TypeOK'
    BY <2>8 DEF Edit
  <2>9. ASSUME NEW w \in Worker, Claim(w)
        PROVE  TypeOK'
    <3>1. CASE UNCHANGED <<status, faults>> /\ Leave(w)
      BY <2>9, <3>1, IdleTyped, BecomesTyped DEF Claim, Leave
    <3>2. ASSUME NEW j \in Job, ClaimJob(w, j)
          PROVE  TypeOK'
      <4>1. thread' \in [Worker -> ThreadState]
        <5>1. Loaded(w, j) \in ThreadState
          <6>1. thread[w] \in ThreadState /\ payload[j] \in Text \cup {NoText}
            OBVIOUS
          <6>2. QED
            BY <6>1 DEF Loaded, ThreadState
        <5>2. QED
          BY <3>2, <5>1, BecomesTyped DEF ClaimJob
      <4>2. QED
        BY <2>9, <3>2, <4>1 DEF Claim, ClaimJob, Status
    <3>3. CASE Fault /\ Becomes(w, At(w, "fail")) /\ UNCHANGED <<status, active>>
      <4>1. thread' \in [Worker -> ThreadState]
        BY <3>3, AtTyped, BecomesTyped
      <4>2. QED
        BY <2>9, <3>3, <4>1 DEF Claim, Fault
    <3>4. QED
      BY <2>9, <3>1, <3>2, <3>3 DEF Claim
  <2>10. ASSUME NEW w \in Worker, NEW bad \in BOOLEAN, Return(w, bad)
         PROVE  TypeOK'
    <3>1. (thread[w].stopped \/ bad) \in BOOLEAN
      OBVIOUS
    <3>2. thread' \in [Worker -> ThreadState]
      <4> DEFINE f == thread[w].stopped \/ bad
      <4>1. Becomes(w, [At(w, "finish") EXCEPT !.failure = f])
        BY <2>10 DEF Return
      <4> HIDE DEF f
      <4>2. At(w, "finish") \in ThreadState
        BY AtTyped
      <4>3. [At(w, "finish") EXCEPT !.failure = f] \in ThreadState
        BY <3>1, <4>2 DEF ThreadState, f
      <4>4. QED
        BY <4>1, <4>3, BecomesTyped
    <3>3. QED
      BY <2>10, <3>2 DEF Return, QueuedJobs, JobsOf
  <2>11. ASSUME NEW w \in Worker, Finish(w)
         PROVE  TypeOK'
    <3>1. CASE Settle(w)
      <4>1. thread' \in [Worker -> ThreadState]
        <5> DEFINE th == [Spawned(thread[w].chat) EXCEPT !.stopped = thread[w].stopped]
        <5>1. thread[w] \in ThreadState
          OBVIOUS
        <5>2. Spawned(thread[w].chat) \in ThreadState /\ thread[w].stopped \in BOOLEAN
          BY <5>1, IdleTyped DEF ThreadState
        <5>3. th \in ThreadState
          BY <5>2 DEF ThreadState
        <5>4. Becomes(w, th)
          BY <3>1 DEF Settle
        <5>5. QED
          BY <5>3, <5>4, BecomesTyped
      <4>2. /\ status' \in [Job -> Status]
            /\ payload' \in [Job -> Text \cup {NoText}]
        BY <3>1 DEF Settle, FinishJob, Status
      <4>3. /\ paused' \in [Chat -> BOOLEAN]
            /\ waiters' \subseteq Job
            /\ faults' \in 0 .. MaxFaults
        BY <3>1 DEF Settle
      <4>4. QED
        BY <2>11, <4>1, <4>2, <4>3 DEF Finish
    <3>2. CASE SettleFails(w)
      <4>1. thread' \in [Worker -> ThreadState]
        BY <3>2, AtTyped, BecomesTyped DEF SettleFails
      <4>2. faults' \in 0 .. MaxFaults
        BY <3>2 DEF SettleFails, Fault
      <4>3. /\ status' \in [Job -> Status]
            /\ payload' \in [Job -> Text \cup {NoText}]
        BY <3>2 DEF SettleFails, FinishJob, Status
      <4>4. /\ paused' \in [Chat -> BOOLEAN]
            /\ waiters' \subseteq Job
        BY <3>2 DEF SettleFails
      <4>5. QED
        BY <2>11, <4>1, <4>2, <4>3, <4>4 DEF Finish
    <3>3. QED
      BY <2>11, <3>1, <3>2 DEF Finish
  <2>12. ASSUME NEW w \in Worker, FailPause(w)
         PROVE  TypeOK'
    <3>1. thread' \in [Worker -> ThreadState]
      BY <2>12, AtTyped, BecomesTyped DEF FailPause
    <3>2. \/ PauseRow(thread[w].chat) /\ UNCHANGED faults
          \/ Fault /\ UNCHANGED paused
      BY <2>12 DEF FailPause
    <3>3. paused' \in [Chat -> BOOLEAN]
      BY <3>2 DEF PauseRow
    <3>4. faults' \in 0 .. MaxFaults
      BY <3>2 DEF Fault
    <3>5. QED
      BY <2>12, <3>1, <3>3, <3>4 DEF FailPause
  <2>13. ASSUME NEW w \in Worker, FailCleanup(w)
         PROVE  TypeOK'
    <3>1. /\ active' \in [Chat -> Worker \cup {NoWorker}]
          /\ thread' \in [Worker -> ThreadState]
      BY <2>13, IdleTyped, BecomesTyped DEF FailCleanup, Leave
    <3>2. /\ status' \in [Job -> Status]
          /\ waiters' \subseteq Job
      BY <2>13 DEF FailCleanup, Status
    <3>3. faults' \in 0 .. MaxFaults
      BY <2>13 DEF FailCleanup, Fault
    <3>4. QED
      BY <2>13, <3>1, <3>2, <3>3 DEF FailCleanup
  <2>14. CASE Crash
    BY <2>14 DEF Crash, ThreadState, Idle
  <2>15. CASE RecoverPause \/ RecoverInterrupt
    BY <2>15 DEF RecoverPause, RecoverInterrupt, Status
  <2>16. CASE UNCHANGED vars
    BY <2>16 DEF vars
  <2>17. QED
    BY <2>1, <2>2, <2>3, <2>4, <2>5, <2>6, <2>7, <2>8, <2>9, <2>10, <2>11, <2>12, <2>13,
       <2>14, <2>15, <2>16 DEF Next, WorkerStep, ChatStep, JobStep
<1>3. QED
  BY <1>1, <1>2, PTL DEF Spec

------------------------------------------------------------------------------
(* Who owns a chat. *)

\* A thread that has no job says so, and a job is of the chat the thread serves.
ThreadsOK ==
  \A w \in Worker :
    /\ thread[w].at = "idle" => thread[w] = Idle
    /\ thread[w].at = "claim" => thread[w].job = NoJob
    /\ Executing(w) => thread[w].job \in Job
    /\ thread[w].job \in Job => ChatOf[thread[w].job] = thread[w].chat

\* Until recovery is over nothing runs.
DownIsEmpty ==
  mode # "up" => waiters = {} /\ \A w \in Worker : thread[w] = Idle

GoneIsAbsent == \A j \in Job : ChatOf[j] \notin chats => status[j] = "absent"

OwnInv == SoleWorker /\ ThreadsOK /\ DownIsEmpty /\ GoneIsAbsent

\* Whatever the kick decides, ownership and the threads' shape survive it.
LEMMA KickOwns ==
  ASSUME TypeOK, SoleWorker, ThreadsOK, NEW c \in Chat, NEW p \in [Chat -> BOOLEAN],
         Kick(c, p) \/ KickFails(c, p)
  PROVE  SoleWorker' /\ ThreadsOK'
<1>1. CASE UNCHANGED <<active, thread>>
  BY <1>1 DEF SoleWorker, ThreadsOK, Executing
<1>2. ASSUME NEW w \in Worker, active[c] = NoWorker, thread[w] = Idle,
             active' = [active EXCEPT ![c] = w], Becomes(w, Spawned(c))
      PROVE  SoleWorker' /\ ThreadsOK'
  <2>1. /\ Spawned(c).at = "claim" /\ Spawned(c).chat = c /\ Spawned(c).job = NoJob
        /\ Idle.at = "idle"
    BY DEF Spawned, Idle
  <2>2. /\ thread'[w] = Spawned(c)
        /\ \A v \in Worker \ {w} : thread'[v] = thread[v]
        /\ active'[c] = w
        /\ \A d \in Chat \ {c} : active'[d] = active[d]
    BY <1>2 DEF TypeOK, Becomes
  <2>3. SoleWorker'
    BY <1>2, <2>1, <2>2 DEF SoleWorker, TypeOK
  <2>4. ThreadsOK'
    BY <1>2, <2>1, <2>2 DEF ThreadsOK, Executing
  <2>5. QED
    BY <2>3, <2>4
<1>3. QED
  BY <1>1, <1>2 DEF Kick, KickFails

\* A thread that moves on in the service of its chat.
LEMMA MoveOwns ==
  ASSUME TypeOK, SoleWorker, ThreadsOK, NEW w \in Worker, NEW th,
         thread[w].at # "idle", UNCHANGED active, Becomes(w, th),
         th.at # "idle", th.chat = thread[w].chat,
         th.at = "claim" => th.job = NoJob,
         th.at \in {"run", "finish"} => th.job \in Job,
         th.job \in Job => ChatOf[th.job] = th.chat
  PROVE  SoleWorker' /\ ThreadsOK'
<1>1. /\ thread'[w] = th
      /\ \A v \in Worker \ {w} : thread'[v] = thread[v]
  BY DEF TypeOK, Becomes
<1>2. SoleWorker'
  BY <1>1 DEF SoleWorker, TypeOK
<1>3. ThreadsOK'
  BY <1>1 DEF ThreadsOK, Executing
<1>4. QED
  BY <1>2, <1>3

\* A thread that leaves.
LEMMA LeaveOwns ==
  ASSUME TypeOK, SoleWorker, ThreadsOK, NEW w \in Worker,
         thread[w].at # "idle", Leave(w)
  PROVE  SoleWorker' /\ ThreadsOK'
<1>1. /\ thread'[w] = Idle
      /\ \A v \in Worker \ {w} : thread'[v] = thread[v]
      /\ active'[thread[w].chat] = NoWorker
      /\ \A d \in Chat \ {thread[w].chat} : active'[d] = active[d]
  BY DEF TypeOK, Becomes, Leave, SoleWorker
<1>2. Idle.at = "idle" /\ Idle.job = NoJob
  BY DEF Idle
<1>3. SoleWorker'
  BY <1>1, <1>2 DEF SoleWorker, TypeOK
<1>4. ThreadsOK'
  BY <1>1, <1>2 DEF ThreadsOK, Executing
<1>5. QED
  BY <1>3, <1>4

LEMMA OwnStep ==
  ASSUME TypeOK, OwnInv, [Next]_vars
  PROVE  OwnInv'
<1> USE DEF OwnInv, rows, memory
<1>0. Idle.at = "idle" /\ Idle.job = NoJob
  BY DEF Idle
<1>1. ASSUME NEW j \in Job, NEW t \in Text, Enqueue(j, t)
      PROVE  OwnInv'
  <2>1. SoleWorker' /\ ThreadsOK'
    BY <1>1, KickOwns DEF Enqueue, TypeOK
  <2>2. DownIsEmpty' /\ GoneIsAbsent'
    BY <1>1 DEF Enqueue, DownIsEmpty, GoneIsAbsent, InsertRow, KnownRow, TypeOK
  <2>3. QED
    BY <2>1, <2>2
<1>2. ASSUME NEW j \in Job, NEW t \in Text, Prompt(j, t)
      PROVE  OwnInv'
  <2> DEFINE c == ChatOf[j]
             p == IF Items(c) = {} THEN [paused EXCEPT ![c] = FALSE] ELSE paused
  <2>1. SoleWorker' /\ ThreadsOK'
    <3>1. c \in Chat /\ p \in [Chat -> BOOLEAN]
      BY DEF TypeOK
    <3>2. Kick(c, p) \/ KickFails(c, p)
      BY <1>2 DEF Prompt
    <3> HIDE DEF p
    <3>3. QED
      BY <3>1, <3>2, KickOwns
  <2>2. DownIsEmpty' /\ GoneIsAbsent'
    BY <1>2 DEF Prompt, DownIsEmpty, GoneIsAbsent, InsertRow, TypeOK
  <2>3. QED
    BY <2>1, <2>2
<1>3. ASSUME NEW c \in Chat, Resume(c)
      PROVE  OwnInv'
  <2> DEFINE p == [paused EXCEPT ![c] = FALSE]
  <2>1. SoleWorker' /\ ThreadsOK'
    <3>1. p \in [Chat -> BOOLEAN]
      BY DEF TypeOK
    <3>2. Kick(c, p) \/ KickFails(c, p)
      BY <1>3 DEF Resume
    <3> HIDE DEF p
    <3>3. QED
      BY <3>1, <3>2, KickOwns
  <2>2. DownIsEmpty' /\ GoneIsAbsent'
    BY <1>3 DEF Resume, DownIsEmpty, GoneIsAbsent
  <2>3. QED
    BY <2>1, <2>2
<1>4. ASSUME UNCHANGED <<active, thread, mode, waiters, chats, status>>
      PROVE  OwnInv'
  BY <1>4 DEF SoleWorker, ThreadsOK, Executing, DownIsEmpty, GoneIsAbsent
<1>5. ASSUME NEW c \in Chat, SignalStop(c)
      PROVE  OwnInv'
  <2>1. ASSUME NEW w \in Worker
        PROVE  /\ thread'[w].at = thread[w].at
               /\ thread'[w].chat = thread[w].chat
               /\ thread'[w].job = thread[w].job
               /\ thread'[w] # thread[w] => active[c] = w
    <3>1. thread'[w] = IF active[c] = w THEN Signalled(w) ELSE thread[w]
      BY <1>5 DEF SignalStop
    <3>2. thread[w] \in ThreadState
      BY DEF TypeOK
    <3>3. QED
      BY <3>1, <3>2 DEF Signalled, ThreadState
  <2>2. UNCHANGED <<active, mode, waiters, chats, status>> /\ mode = "up"
    BY <1>5 DEF SignalStop
  <2>3. SoleWorker'
    BY <2>1, <2>2 DEF SoleWorker, TypeOK
  <2>4. ThreadsOK'
    BY <2>1, <2>2, <1>0 DEF ThreadsOK, Executing, SoleWorker
  <2>5. QED
    BY <2>2, <2>3, <2>4 DEF DownIsEmpty, GoneIsAbsent
<1>6. ASSUME NEW c \in Chat, DropChat(c), mode = "up"
      PROVE  OwnInv'
  <2>1. GoneIsAbsent'
    BY <1>6 DEF DropChat, GoneIsAbsent, TypeOK
  <2>2. QED
    BY <1>6, <2>1 DEF DropChat, SoleWorker, ThreadsOK, Executing, DownIsEmpty
<1>7. ASSUME NEW j \in Job, Remove(j)
      PROVE  OwnInv'
  BY <1>7 DEF Remove, SoleWorker, ThreadsOK, Executing, DownIsEmpty, GoneIsAbsent, TypeOK
<1>8. ASSUME NEW w \in Worker, thread[w].at # "idle"
      PROVE  mode = "up"
  BY <1>8, <1>0 DEF DownIsEmpty
<1>9. ASSUME NEW w \in Worker, Claim(w)
      PROVE  OwnInv'
  <2>1. mode' = "up" /\ thread[w].at = "claim"
    BY <1>9, <1>8 DEF Claim
  <2>2. SoleWorker' /\ ThreadsOK'
    <3>1. CASE Leave(w)
      BY <2>1, <3>1, LeaveOwns
    <3>2. ASSUME NEW j \in Job, ClaimJob(w, j)
          PROVE  SoleWorker' /\ ThreadsOK'
      <4>1. /\ Loaded(w, j).at = "run" /\ Loaded(w, j).job = j
            /\ Loaded(w, j).chat = thread[w].chat
        <5>1. thread[w] \in ThreadState
          BY DEF TypeOK
        <5>2. QED
          BY <5>1 DEF Loaded, ThreadState
      <4>2. QED
        BY <2>1, <3>2, <4>1, MoveOwns DEF ClaimJob
    <3>3. CASE Becomes(w, At(w, "fail")) /\ UNCHANGED active
      <4>1. /\ At(w, "fail").at = "fail" /\ At(w, "fail").job = thread[w].job
            /\ At(w, "fail").chat = thread[w].chat
        <5>1. thread[w] \in ThreadState
          BY DEF TypeOK
        <5>2. QED
          BY <5>1 DEF At, ThreadState
      <4>2. QED
        BY <2>1, <3>3, <4>1, MoveOwns DEF ThreadsOK
    <3>4. QED
      BY <1>9, <3>1, <3>2, <3>3 DEF Claim
  <2>3. GoneIsAbsent'
    BY <1>9 DEF Claim, ClaimJob, IsNext, GoneIsAbsent, TypeOK
  <2>4. QED
    BY <2>1, <2>2, <2>3 DEF DownIsEmpty
<1>10. ASSUME NEW w \in Worker, NEW bad \in BOOLEAN, Return(w, bad)
       PROVE  OwnInv'
  <2> DEFINE f == thread[w].stopped \/ bad
             th == [At(w, "finish") EXCEPT !.failure = f]
  <2>1. mode' = "up" /\ thread[w].at = "run"
    BY <1>10, <1>8 DEF Return
  <2>2. th.at = "finish" /\ th.job = thread[w].job /\ th.chat = thread[w].chat
    <3>1. thread[w] \in ThreadState
      BY DEF TypeOK
    <3> HIDE DEF f
    <3>2. QED
      BY <3>1 DEF At, ThreadState
  <2>3. Becomes(w, th) /\ UNCHANGED <<active, chats, status>>
    BY <1>10 DEF Return
  <2> HIDE DEF th
  <2>4. SoleWorker' /\ ThreadsOK'
    BY <2>1, <2>2, <2>3, MoveOwns DEF ThreadsOK, Executing
  <2>5. QED
    BY <2>1, <2>3, <2>4 DEF DownIsEmpty, GoneIsAbsent
<1>11. ASSUME NEW w \in Worker, Finish(w)
       PROVE  OwnInv'
  <2>1. mode' = "up" /\ thread[w].at = "finish" /\ UNCHANGED <<active, chats>>
    BY <1>11, <1>8 DEF Finish
  <2>2. GoneIsAbsent'
    BY <1>11 DEF Finish, Settle, SettleFails, FinishJob, GoneIsAbsent, TypeOK
  <2>3. SoleWorker' /\ ThreadsOK'
    <3>1. CASE Settle(w)
      <4> DEFINE th == [Spawned(thread[w].chat) EXCEPT !.stopped = thread[w].stopped]
      <4>1. th.at = "claim" /\ th.job = NoJob /\ th.chat = thread[w].chat
        BY DEF Spawned, Idle
      <4>2. Becomes(w, th)
        BY <3>1 DEF Settle
      <4> HIDE DEF th
      <4>3. QED
        BY <2>1, <4>1, <4>2, MoveOwns
    <3>2. CASE SettleFails(w)
      <4>1. /\ At(w, "fail").at = "fail" /\ At(w, "fail").job = thread[w].job
            /\ At(w, "fail").chat = thread[w].chat
        <5>1. thread[w] \in ThreadState
          BY DEF TypeOK
        <5>2. QED
          BY <5>1 DEF At, ThreadState
      <4>2. QED
        BY <2>1, <3>2, <4>1, MoveOwns DEF ThreadsOK, SettleFails
    <3>3. QED
      BY <1>11, <3>1, <3>2 DEF Finish
  <2>4. QED
    BY <2>1, <2>2, <2>3 DEF DownIsEmpty
<1>12. ASSUME NEW w \in Worker, FailPause(w)
       PROVE  OwnInv'
  <2>1. /\ mode' = "up" /\ thread[w].at = "fail"
        /\ UNCHANGED <<active, chats, status>> /\ Becomes(w, At(w, "cleanup"))
    BY <1>12, <1>8 DEF FailPause
  <2>2. /\ At(w, "cleanup").at = "cleanup" /\ At(w, "cleanup").job = thread[w].job
        /\ At(w, "cleanup").chat = thread[w].chat
    <3>1. thread[w] \in ThreadState
      BY DEF TypeOK
    <3>2. QED
      BY <3>1 DEF At, ThreadState
  <2>3. SoleWorker' /\ ThreadsOK'
    BY <2>1, <2>2, MoveOwns DEF ThreadsOK
  <2>4. QED
    BY <2>1, <2>3 DEF DownIsEmpty, GoneIsAbsent
<1>13. ASSUME NEW w \in Worker, FailCleanup(w)
       PROVE  OwnInv'
  <2>1. mode' = "up" /\ thread[w].at = "cleanup" /\ Leave(w) /\ UNCHANGED chats
    BY <1>13, <1>8 DEF FailCleanup
  <2>2. GoneIsAbsent'
    BY <1>13 DEF FailCleanup, GoneIsAbsent, TypeOK
  <2>3. QED
    BY <2>1, <2>2, LeaveOwns DEF DownIsEmpty
<1>14. CASE Crash
  BY <1>14, <1>0 DEF Crash, SoleWorker, ThreadsOK, Executing, DownIsEmpty, GoneIsAbsent
<1>15. CASE RecoverPause \/ RecoverInterrupt
  BY <1>15 DEF RecoverPause, RecoverInterrupt, SoleWorker, ThreadsOK, Executing,
               DownIsEmpty, GoneIsAbsent, TypeOK
<1>16. QED
  BY <1>1, <1>2, <1>3, <1>4, <1>5, <1>6, <1>7, <1>9, <1>10, <1>11, <1>12, <1>13, <1>14, <1>15
     DEF Next, WorkerStep, ChatStep, JobStep, PromptRefused, HoldQueue, Edit, Cancel,
         BeginDelete, FinishDelete, DropEmpty, vars

\* A chat never has two workers, and never a registered worker that is not
\* there, whatever the callers, the store and the restarts do.
THEOREM OneWorkerPerChat == Spec => []SoleWorker
<1>1. Init => OwnInv
  BY DEF Init, OwnInv, SoleWorker, ThreadsOK, Executing, DownIsEmpty, GoneIsAbsent, Idle
<1>2. TypeOK /\ OwnInv /\ [Next]_vars => OwnInv'
  BY OwnStep
<1>3. OwnInv => SoleWorker
  BY DEF OwnInv
<1>4. QED
  BY <1>1, <1>2, <1>3, Typed, PTL DEF Spec
------------------------------------------------------------------------------
(* What is running, what is held, who waits. *)

\* A worker gives up only when the store has failed or the chat is gone.
FailedForAReason ==
  \A w \in Worker : thread[w].at \in {"fail", "cleanup"} =>
    faults >= 1 \/ thread[w].chat \notin chats

\* A held job stands still: its queue is paused, or the worker that found out
\* why it must stop has yet to pause it.
Stopping(w) == \/ thread[w].at = "finish" /\ thread[w].failure
               \/ thread[w].at = "fail"

HeldStandsStill ==
  /\ \A j \in held : ChatOf[j] \in chats => status[j] # "absent"
  /\ mode = "up" /\ faults <= 1 =>
       \A j \in held : status[j] = "queued" =>
         \/ paused[ChatOf[j]]
         \/ \E w \in Worker : thread[w].chat = ChatOf[j] /\ Stopping(w)
  /\ mode = "recovering" =>
       \A j \in Job : status[j] \in {"queued", "running"} => paused[ChatOf[j]]

\* A kick changes one idle thread at most, and counts a store failure at most.
LEMMA KickThreads ==
  ASSUME TypeOK, NEW c \in Chat, NEW p \in [Chat -> BOOLEAN],
         Kick(c, p) \/ KickFails(c, p)
  PROVE  /\ \A v \in Worker : \/ thread'[v] = thread[v]
                              \/ thread[v] = Idle /\ thread'[v] = Spawned(c)
         /\ faults' >= faults
         /\ \A d \in Chat : p[d] => paused'[d]
<1>1. faults' >= faults
  BY DEF Kick, KickFails, Fault, TypeOK
<1>2. \A d \in Chat : p[d] => paused'[d]
  BY DEF Kick, KickFails
<1>3. ASSUME thread' = thread
      PROVE  \A v \in Worker : \/ thread'[v] = thread[v]
                               \/ thread[v] = Idle /\ thread'[v] = Spawned(c)
  BY <1>3
<1>4. ASSUME NEW w \in Worker, thread[w] = Idle, Becomes(w, Spawned(c))
      PROVE  \A v \in Worker : \/ thread'[v] = thread[v]
                               \/ thread[v] = Idle /\ thread'[v] = Spawned(c)
  <2>1. thread'[w] = Spawned(c) /\ \A v \in Worker \ {w} : thread'[v] = thread[v]
    BY <1>4 DEF TypeOK, Becomes
  <2>2. QED
    BY <1>4, <2>1
<1>5. \/ thread' = thread
      \/ \E w \in Worker : thread[w] = Idle /\ Becomes(w, Spawned(c))
  BY DEF Kick, KickFails
<1>6. QED
  BY <1>1, <1>2, <1>3, <1>4, <1>5

\* The fields a worker's step sets, and those it keeps.
LEMMA Fields ==
  ASSUME TypeOK, NEW w \in Worker
  PROVE  /\ \A place : /\ At(w, place).at = place
                       /\ At(w, place).job = thread[w].job
                       /\ At(w, place).chat = thread[w].chat
                       /\ At(w, place).text = thread[w].text
                       /\ At(w, place).failure = thread[w].failure
         /\ \A j \in Job : /\ Loaded(w, j).at = "run"
                           /\ Loaded(w, j).job = j
                           /\ Loaded(w, j).chat = thread[w].chat
                           /\ Loaded(w, j).text = payload[j]
<1>1. thread[w] \in ThreadState
  BY DEF TypeOK
<1>2. QED
  BY <1>1 DEF At, Loaded, ThreadState

LEMMA IdleFields ==
  /\ Idle.at = "idle" /\ Idle.job = NoJob
  /\ \A c : Spawned(c).at = "claim" /\ Spawned(c).job = NoJob /\ Spawned(c).chat = c
BY DEF Idle, Spawned

LEMMA BecomesOnly ==
  ASSUME TypeOK, NEW w \in Worker, NEW th, Becomes(w, th)
  PROVE  /\ thread'[w] = th
         /\ \A v \in Worker \ {w} : thread'[v] = thread[v]
BY DEF TypeOK, Becomes

RunInv == RunningIsOwned /\ FailedForAReason /\ SentAsShown

\* Steps that leave the working threads, the running jobs and their payloads alone.
LEMMA RunFrame ==
  ASSUME TypeOK, OwnInv, RunInv,
         \A v \in Worker : \/ /\ thread'[v].at = thread[v].at
                              /\ thread'[v].job = thread[v].job
                              /\ thread'[v].chat = thread[v].chat
                              /\ thread'[v].text = thread[v].text
                           \/ thread[v].at = "idle" /\ thread'[v].at = "claim",
         faults' \in Nat, faults' >= faults,
         chats' \subseteq chats,
         mode' = mode,
         \A j \in Job : ChatOf[j] \in chats' /\ status[j] = "running"
                          => status'[j] = "running" /\ payload'[j] = payload[j],
         \A j \in Job : status'[j] = "running" => status[j] = "running"
  PROVE  RunInv'
<1>1. RunningIsOwned'
  BY DEF RunInv, RunningIsOwned, Executing, OwnInv, ThreadsOK, TypeOK, DownIsEmpty
<1>2. FailedForAReason'
  BY DEF RunInv, FailedForAReason, TypeOK
<1>3. SentAsShown'
  BY DEF RunInv, SentAsShown, RunningIsOwned, Executing, OwnInv, ThreadsOK
<1>4. QED
  BY <1>1, <1>2, <1>3 DEF RunInv

LEMMA RunStep ==
  ASSUME TypeOK, TypeOK', OwnInv, OwnInv', RunInv, [Next]_vars
  PROVE  RunInv'
<1> USE DEF rows, memory
<1>0. faults \in Nat /\ faults' \in Nat
  BY DEF TypeOK
<1>1. ASSUME NEW j \in Job, NEW t \in Text, Enqueue(j, t)
      PROVE  RunInv'
  <2>1. Kick(ChatOf[j], paused) \/ KickFails(ChatOf[j], paused)
    BY <1>1 DEF Enqueue
  <2>2. ChatOf[j] \in Chat /\ paused \in [Chat -> BOOLEAN]
    BY DEF TypeOK
  <2>3. \A k \in Job : /\ status[k] = "running" => status'[k] = "running" /\ payload'[k] = payload[k]
                       /\ status'[k] = "running" => status[k] = "running"
    BY <1>1 DEF Enqueue, InsertRow, KnownRow, TypeOK
  <2>4. chats' = chats /\ mode' = mode
    BY <1>1 DEF Enqueue
  <2>5. QED
    BY <1>0, <2>1, <2>2, <2>3, <2>4, KickThreads, IdleFields, RunFrame
<1>2. ASSUME NEW j \in Job, NEW t \in Text, Prompt(j, t)
      PROVE  RunInv'
  <2> DEFINE c == ChatOf[j]
             p == IF Items(c) = {} THEN [paused EXCEPT ![c] = FALSE] ELSE paused
  <2>1. Kick(c, p) \/ KickFails(c, p)
    BY <1>2 DEF Prompt
  <2>2. c \in Chat /\ p \in [Chat -> BOOLEAN]
    BY DEF TypeOK
  <2>3. \A k \in Job : /\ status[k] = "running" => status'[k] = "running" /\ payload'[k] = payload[k]
                       /\ status'[k] = "running" => status[k] = "running"
    BY <1>2 DEF Prompt, InsertRow, TypeOK
  <2>4. chats' = chats /\ mode' = mode
    BY <1>2 DEF Prompt
  <2> HIDE DEF p
  <2>5. QED
    BY <1>0, <2>1, <2>2, <2>3, <2>4, KickThreads, IdleFields, RunFrame
<1>3. ASSUME NEW c \in Chat, Resume(c)
      PROVE  RunInv'
  <2> DEFINE p == [paused EXCEPT ![c] = FALSE]
  <2>1. Kick(c, p) \/ KickFails(c, p)
    BY <1>3 DEF Resume
  <2>2. p \in [Chat -> BOOLEAN]
    BY DEF TypeOK
  <2>3. UNCHANGED <<chats, mode, status, payload>>
    BY <1>3 DEF Resume
  <2> HIDE DEF p
  <2>4. QED
    BY <1>0, <2>1, <2>2, <2>3, KickThreads, IdleFields, RunFrame
<1>4. ASSUME UNCHANGED <<chats, mode, status, payload, thread, faults>>
      PROVE  RunInv'
  <2>1. \A v \in Worker : thread'[v] = thread[v]
    BY <1>4
  <2>2. UNCHANGED <<chats, mode, status, payload, faults>>
    BY <1>4
  <2>3. QED
    BY <1>0, <2>1, <2>2, RunFrame
<1>5. ASSUME NEW c \in Chat, SignalStop(c)
      PROVE  RunInv'
  <2>1. ASSUME NEW w \in Worker
        PROVE  /\ thread'[w].at = thread[w].at
               /\ thread'[w].chat = thread[w].chat
               /\ thread'[w].job = thread[w].job
               /\ thread'[w].text = thread[w].text
    <3>1. thread'[w] = IF active[c] = w THEN Signalled(w) ELSE thread[w]
      BY <1>5 DEF SignalStop
    <3>2. thread[w] \in ThreadState
      BY DEF TypeOK
    <3>3. QED
      BY <3>1, <3>2 DEF Signalled, ThreadState
  <2>2. /\ chats' \subseteq chats /\ mode' = mode /\ faults' >= faults
        /\ status' = status /\ payload' = payload
    BY <1>0, <1>5 DEF SignalStop, Fault
  <2>3. QED
    BY <1>0, <2>1, <2>2, RunFrame
<1>6. ASSUME NEW c \in Chat, DropChat(c)
      PROVE  RunInv'
  <2>1. \A j \in Job :
          /\ ChatOf[j] \in chats' /\ status[j] = "running"
               => status'[j] = "running" /\ payload'[j] = payload[j]
          /\ status'[j] = "running" => status[j] = "running"
    BY <1>6 DEF DropChat, TypeOK
  <2>2. /\ chats' \subseteq chats /\ mode' = mode /\ faults' >= faults
        /\ \A v \in Worker : thread'[v] = thread[v]
    BY <1>0, <1>6 DEF DropChat
  <2>3. QED
    BY <1>0, <2>1, <2>2, RunFrame
<1>7. ASSUME NEW j \in Job, Remove(j)
      PROVE  RunInv'
  <2>1. \A k \in Job : /\ status[k] = "running" => status'[k] = "running" /\ payload'[k] = payload[k]
                       /\ status'[k] = "running" => status[k] = "running"
    BY <1>7 DEF Remove, TypeOK
  <2>2. /\ chats' \subseteq chats /\ mode' = mode /\ faults' >= faults
        /\ \A v \in Worker : thread'[v] = thread[v]
    BY <1>0, <1>7 DEF Remove
  <2>3. QED
    BY <1>0, <2>1, <2>2, RunFrame
<1>8. ASSUME NEW j \in Job, NEW t \in Text, Edit(j, t)
      PROVE  RunInv'
  <2>1. \A k \in Job : status[k] = "running" => payload'[k] = payload[k]
    BY <1>8 DEF Edit, TypeOK
  <2>2. /\ chats' \subseteq chats /\ mode' = mode /\ faults' >= faults /\ status' = status
        /\ \A v \in Worker : thread'[v] = thread[v]
    BY <1>0, <1>8 DEF Edit
  <2>3. QED
    BY <1>0, <2>1, <2>2, RunFrame
<1>9. ASSUME NEW w \in Worker, Claim(w)
      PROVE  RunInv'
  <2>0. thread[w].at = "claim" /\ thread[w].job = NoJob /\ UNCHANGED <<chats, mode, payload>>
    BY <1>9 DEF Claim, OwnInv, ThreadsOK
  <2>1. CASE Leave(w) /\ UNCHANGED <<status, faults>>
    <3>1. thread'[w] = Idle /\ \A v \in Worker \ {w} : thread'[v] = thread[v]
      BY <2>1, BecomesOnly DEF Leave
    <3>2. QED
      BY <2>0, <2>1, <3>1, IdleFields
         DEF RunInv, RunningIsOwned, FailedForAReason, SentAsShown, Executing
  <2>2. ASSUME NEW j \in Job, ClaimJob(w, j)
        PROVE  RunInv'
    <3>1. /\ thread'[w] = Loaded(w, j) /\ \A v \in Worker \ {w} : thread'[v] = thread[v]
          /\ thread[w].chat = ChatOf[j] /\ status[j] = "queued"
          /\ status'[j] = "running" /\ \A k \in Job \ {j} : status'[k] = status[k]
          /\ faults' = faults
      BY <2>2, BecomesOnly DEF ClaimJob, IsNext, TypeOK
    <3>2. QED
      BY <2>0, <3>1, Fields
         DEF RunInv, RunningIsOwned, FailedForAReason, SentAsShown, Executing, OwnInv, ThreadsOK
  <2>3. CASE Fault /\ Becomes(w, At(w, "fail")) /\ UNCHANGED status
    <3>1. /\ thread'[w] = At(w, "fail") /\ \A v \in Worker \ {w} : thread'[v] = thread[v]
          /\ faults' = faults + 1
      BY <2>3, BecomesOnly DEF Fault
    <3>2. QED
      BY <1>0, <2>0, <2>3, <3>1, Fields
         DEF RunInv, RunningIsOwned, FailedForAReason, SentAsShown, Executing
  <2>4. QED
    BY <1>9, <2>1, <2>2, <2>3 DEF Claim
<1>10. ASSUME NEW w \in Worker, NEW bad \in BOOLEAN, Return(w, bad)
       PROVE  RunInv'
  <2> DEFINE f == thread[w].stopped \/ bad
             th == [At(w, "finish") EXCEPT !.failure = f]
  <2>1. /\ th.at = "finish" /\ th.job = thread[w].job /\ th.chat = thread[w].chat
    <3>1. thread[w] \in ThreadState
      BY DEF TypeOK
    <3> HIDE DEF f
    <3>2. QED
      BY <3>1 DEF At, ThreadState
  <2>2. /\ thread[w].at = "run" /\ Becomes(w, th)
        /\ UNCHANGED <<chats, status, payload, mode, faults>>
    BY <1>10 DEF Return
  <2> HIDE DEF th
  <2>3. thread'[w] = th /\ \A v \in Worker \ {w} : thread'[v] = thread[v]
    BY <2>2, BecomesOnly
  <2>4. QED
    BY <2>1, <2>2, <2>3 DEF RunInv, RunningIsOwned, FailedForAReason, SentAsShown, Executing
<1>11. ASSUME NEW w \in Worker, Finish(w)
       PROVE  RunInv'
  <2> DEFINE j == thread[w].job  c == thread[w].chat
  <2>1. /\ thread[w].at = "finish" /\ j \in Job /\ ChatOf[j] = c
        /\ UNCHANGED <<chats, mode>>
    BY <1>11 DEF Finish, OwnInv, ThreadsOK, Executing
  <2>2. \A k \in Job \ {j} : status'[k] = status[k] /\ payload'[k] = payload[k]
    BY <1>11 DEF Finish, Settle, SettleFails, FinishJob, TypeOK
  <2>3. \A v \in Worker \ {w} : thread[v].at # "idle" => thread[v].job # j
    BY <2>1 DEF OwnInv, SoleWorker, ThreadsOK
  <2>4. /\ \A v \in Worker \ {w} : thread'[v] = thread[v]
        /\ \/ thread'[w].at = "claim"
           \/ thread'[w].at = "fail" /\ thread'[w].job = j /\ thread'[w].chat = c
    <3>1. CASE Settle(w)
      <4> DEFINE th == [Spawned(thread[w].chat) EXCEPT !.stopped = thread[w].stopped]
      <4>1. th.at = "claim"
        BY DEF Spawned, Idle
      <4>2. Becomes(w, th)
        BY <3>1 DEF Settle
      <4> HIDE DEF th
      <4>3. QED
        BY <4>1, <4>2, BecomesOnly
    <3>2. CASE SettleFails(w)
      BY <3>2, Fields, BecomesOnly DEF SettleFails
    <3>3. QED
      BY <1>11, <3>1, <3>2 DEF Finish
  <2>5. faults' >= faults /\ (thread'[w].at = "fail" => faults' >= 1 \/ c \notin chats)
    <3>1. CASE Settle(w)
      <4> DEFINE th == [Spawned(thread[w].chat) EXCEPT !.stopped = thread[w].stopped]
      <4>1. th.at = "claim"
        BY DEF Spawned, Idle
      <4>2. Becomes(w, th)
        BY <3>1 DEF Settle
      <4> HIDE DEF th
      <4>3. thread'[w].at = "claim"
        BY <4>1, <4>2, BecomesOnly
      <4>4. QED
        BY <1>0, <3>1, <4>3 DEF Settle
    <3>2. CASE SettleFails(w)
      BY <1>0, <3>2 DEF SettleFails, Fault
    <3>3. QED
      BY <1>11, <3>1, <3>2 DEF Finish
  <2>6. thread'[w].at = "claim" => status'[j] # "running"
    <3>1. CASE Settle(w)
      <4>1. ASSUME NEW s \in {"removed", "failed", "done"}, FinishJob(j, s)
            PROVE  status'[j] # "running"
        BY <2>1, <4>1 DEF FinishJob, TypeOK
      <4>2. \E s \in {"removed", "failed", "done"} : FinishJob(j, s)
        BY <3>1 DEF Settle
      <4>3. QED
        BY <4>1, <4>2
    <3>2. CASE SettleFails(w)
      BY <3>2, Fields, BecomesOnly DEF SettleFails
    <3>3. QED
      BY <1>11, <3>1, <3>2 DEF Finish
  <2> HIDE DEF j, c
  <2>7. RunningIsOwned'
    BY <1>0, <2>1, <2>2, <2>3, <2>4, <2>5, <2>6
       DEF RunInv, RunningIsOwned, Executing, OwnInv, ThreadsOK, j, c
  <2>8. FailedForAReason'
    BY <1>0, <2>1, <2>4, <2>5 DEF RunInv, FailedForAReason, c
  <2>9. SentAsShown'
    BY <2>1, <2>2, <2>3, <2>4 DEF RunInv, SentAsShown, OwnInv, ThreadsOK, Executing
  <2>10. QED
    BY <2>7, <2>8, <2>9 DEF RunInv
<1>12. ASSUME NEW w \in Worker, FailPause(w)
       PROVE  RunInv'
  <2>1. /\ thread[w].at = "fail" /\ UNCHANGED <<chats, status, payload, mode>>
        /\ thread'[w] = At(w, "cleanup")
        /\ \A v \in Worker \ {w} : thread'[v] = thread[v]
        /\ faults' >= faults
    BY <1>0, <1>12, BecomesOnly DEF FailPause, Fault
  <2>2. QED
    BY <1>0, <2>1, Fields DEF RunInv, RunningIsOwned, FailedForAReason, SentAsShown, Executing
<1>13. ASSUME NEW w \in Worker, FailCleanup(w)
       PROVE  RunInv'
  <2> DEFINE c == thread[w].chat
  <2>1. /\ thread[w].at = "cleanup" /\ UNCHANGED <<chats, payload, mode>>
        /\ thread'[w] = Idle /\ \A v \in Worker \ {w} : thread'[v] = thread[v]
    BY <1>13, BecomesOnly DEF FailCleanup, Leave
  <2>2. \A v \in Worker \ {w} : thread[v].at # "idle" => thread[v].chat # c
    BY <2>1 DEF OwnInv, SoleWorker
  <2>3. /\ faults' >= faults
        /\ \A k \in Job : /\ ChatOf[k] # c => status'[k] = status[k]
                          /\ status'[k] = "running" => status[k] = "running"
    BY <1>0, <1>13 DEF FailCleanup, Fault, TypeOK
  <2>4. faults' <= 1 => \A k \in Job : ChatOf[k] = c => status'[k] # "running"
    <3>1. CASE c \notin chats
      BY <2>1, <2>3, <3>1 DEF OwnInv, GoneIsAbsent
    <3>2. CASE c \in chats
      <4>1. faults >= 1
        BY <2>1, <3>2 DEF RunInv, FailedForAReason
      <4>2. QED
        BY <1>0, <1>13, <4>1 DEF FailCleanup, Fault, TypeOK
    <3>3. QED
      BY <3>1, <3>2
  <2> HIDE DEF c
  <2>5. RunningIsOwned'
    <3>1. ASSUME NEW v \in Worker, Executing(v)', thread'[v].chat \in chats'
          PROVE  status'[thread'[v].job] = "running"
      BY <2>1, <2>2, <2>3, <3>1, IdleFields
         DEF RunInv, RunningIsOwned, Executing, OwnInv, ThreadsOK
    <3>2. ASSUME mode' = "up", faults' <= 1, NEW k \in Job, status'[k] = "running"
          PROVE  \E v \in Worker : thread'[v].job = k /\ thread'[v].at # "idle"
      <4>1. ChatOf[k] # c /\ status[k] = "running" /\ faults <= 1 /\ mode = "up"
        BY <1>0, <2>1, <2>3, <2>4, <3>2
      <4>2. PICK v \in Worker : thread[v].job = k /\ thread[v].at # "idle"
        BY <4>1 DEF RunInv, RunningIsOwned
      <4>3. v # w
        BY <4>1, <4>2 DEF OwnInv, ThreadsOK, c
      <4>4. QED
        BY <2>1, <4>2, <4>3
    <3>3. QED
      BY <3>1, <3>2 DEF RunningIsOwned
  <2>6. FailedForAReason'
    BY <1>0, <2>1, <2>3, IdleFields DEF RunInv, FailedForAReason
  <2>7. SentAsShown'
    BY <2>1, IdleFields DEF RunInv, SentAsShown
  <2>8. QED
    BY <2>5, <2>6, <2>7 DEF RunInv
<1>14. CASE Crash
  BY <1>14, IdleFields DEF Crash, RunInv, RunningIsOwned, FailedForAReason, SentAsShown, Executing
<1>15. CASE RecoverPause
  BY <1>15, IdleFields DEF RecoverPause, RunInv, RunningIsOwned, FailedForAReason, SentAsShown,
                           Executing, OwnInv, DownIsEmpty
<1>16. CASE RecoverInterrupt
  BY <1>16, IdleFields DEF RecoverInterrupt, RunInv, RunningIsOwned, FailedForAReason,
                           SentAsShown, Executing, OwnInv, DownIsEmpty, TypeOK
<1>17. QED
  BY <1>1, <1>2, <1>3, <1>4, <1>5, <1>6, <1>7, <1>8, <1>9, <1>10, <1>11, <1>12, <1>13, <1>14,
     <1>15, <1>16
     DEF Next, WorkerStep, ChatStep, JobStep, PromptRefused, HoldQueue, Cancel,
         BeginDelete, FinishDelete, DropEmpty, vars

\* A job is marked running exactly while a worker has it, as long as the store
\* has not failed twice; and what the agent was sent is what the queue shows.
THEOREM RunningJobsAreOwned == Spec => [](RunningIsOwned /\ SentAsShown)
<1>1. Init => OwnInv /\ RunInv
  BY IdleFields DEF Init, OwnInv, SoleWorker, ThreadsOK, Executing, DownIsEmpty, GoneIsAbsent,
                    RunInv, RunningIsOwned, FailedForAReason, SentAsShown
<1>2. TypeOK /\ TypeOK' /\ OwnInv /\ RunInv /\ [Next]_vars => OwnInv' /\ RunInv'
  BY OwnStep, RunStep
<1>3. RunInv => RunningIsOwned /\ SentAsShown
  BY DEF RunInv
<1>4. QED
  BY <1>1, <1>2, <1>3, Typed, PTL DEF Spec

\* A running job is in one pair of hands: those of the one worker its chat has
\* (prompt_queue.rs:1, fail_worker).
THEOREM JobsRunInOneHand == Spec => []RunsInOneHand
<1>1. SoleWorker /\ RunningIsOwned => RunsInOneHand
  BY DEF RunsInOneHand
<1>2. QED
  BY <1>1, OneWorkerPerChat, RunningJobsAreOwned, PTL

------------------------------------------------------------------------------
(* What is held stays with the queue. *)

HeldInv == HeldStandsStill /\ HeldUntilResumed

\* Steps of the callers: no thread but a new one moves, what they hold is in a
\* queue they pause, and what was held waits in a queue that stays paused.
LEMMA HeldFrame ==
  ASSUME TypeOK, OwnInv, RunInv, HeldInv,
         mode = "up", mode' = mode, faults' \in Nat, faults' >= faults, chats' \subseteq chats,
         \A v \in Worker : \/ /\ thread'[v].at = thread[v].at
                              /\ thread'[v].job = thread[v].job
                              /\ thread'[v].chat = thread[v].chat
                              /\ thread'[v].failure = thread[v].failure
                           \/ thread[v].at = "idle" /\ thread'[v].at = "claim",
         \A j \in Job : ChatOf[j] \in chats' /\ status[j] # "absent" => status'[j] # "absent",
         \A j \in held' : \/ j \in held
                           \/ /\ status[j] = "queued" /\ status'[j] = "queued"
                              /\ paused'[ChatOf[j]],
         \A j \in held : j \in held' /\ status'[j] = "queued" =>
           status[j] = "queued" /\ (paused[ChatOf[j]] => paused'[ChatOf[j]])
  PROVE  HeldInv'
<1>1. faults \in Nat /\ held \subseteq Job
  BY DEF TypeOK
<1>2. \A j \in held' : ChatOf[j] \in chats' => status'[j] # "absent"
  BY <1>1 DEF HeldInv, HeldStandsStill
<1>3. ASSUME faults' <= 1, NEW j \in held', status'[j] = "queued", ~paused'[ChatOf[j]]
      PROVE  \E w \in Worker : thread'[w].chat = ChatOf[j] /\ Stopping(w)'
  <2>1. j \in held /\ status[j] = "queued" /\ ~paused[ChatOf[j]] /\ faults <= 1
    BY <1>1, <1>3
  <2>2. PICK w \in Worker : thread[w].chat = ChatOf[j] /\ Stopping(w)
    BY <2>1 DEF HeldInv, HeldStandsStill
  <2>3. QED
    BY <2>2 DEF Stopping
<1>4. ASSUME faults' <= 1, NEW w \in Worker, thread'[w].at = "run", thread'[w].job \in held'
      PROVE  FALSE
  <2>1. thread[w].at = "run" /\ thread'[w].job = thread[w].job /\ faults <= 1
    BY <1>1, <1>4
  <2>2. thread[w].job \in Job /\ thread[w].job \notin held
    BY <2>1 DEF HeldInv, HeldUntilResumed, OwnInv, ThreadsOK, Executing
  <2>3. status[thread[w].job] # "queued"
    BY <2>1, <2>2
       DEF RunInv, RunningIsOwned, OwnInv, ThreadsOK, GoneIsAbsent, Executing
  <2>4. QED
    BY <1>4, <2>1, <2>2, <2>3
<1>5. QED
  BY <1>2, <1>3, <1>4 DEF HeldInv, HeldStandsStill, HeldUntilResumed

LEMMA HeldStep ==
  ASSUME TypeOK, TypeOK', OwnInv, OwnInv', RunInv, HeldInv, [Next]_vars
  PROVE  HeldInv'
<1> USE DEF rows, memory
<1>0. /\ faults \in Nat /\ faults' \in Nat /\ held \subseteq Job /\ held' \subseteq Job
      /\ status \in [Job -> Status]
  BY DEF TypeOK
<1>1. ASSUME NEW j \in Job, NEW t \in Text, Enqueue(j, t)
      PROVE  HeldInv'
  <2>1. Kick(ChatOf[j], paused) \/ KickFails(ChatOf[j], paused)
    BY <1>1 DEF Enqueue
  <2>2. ChatOf[j] \in Chat /\ paused \in [Chat -> BOOLEAN]
    BY DEF TypeOK
  <2>3. \A k \in Job : /\ status[k] # "absent" => status'[k] = status[k]
                       /\ k \in held => status'[k] = status[k]
    BY <1>1 DEF Enqueue, InsertRow, KnownRow, TypeOK, HeldInv, HeldStandsStill
  <2>4. chats' = chats /\ mode' = mode /\ mode = "up" /\ held' = held
    BY <1>1 DEF Enqueue
  <2>5. /\ \A v \in Worker : thread'[v] = thread[v] \/ (thread[v] = Idle /\ thread'[v] = Spawned(ChatOf[j]))
        /\ faults' >= faults
        /\ \A d \in Chat : paused[d] => paused'[d]
    BY <2>1, <2>2, KickThreads
  <2>6. QED
    BY <1>0, <2>3, <2>4, <2>5, IdleFields, HeldFrame
<1>2. ASSUME NEW j \in Job, NEW t \in Text, Prompt(j, t)
      PROVE  HeldInv'
  <2> DEFINE c == ChatOf[j]
             p == IF Items(c) = {} THEN [paused EXCEPT ![c] = FALSE] ELSE paused
  <2>1. Kick(c, p) \/ KickFails(c, p)
    BY <1>2 DEF Prompt
  <2>2. c \in Chat /\ p \in [Chat -> BOOLEAN]
    BY DEF TypeOK
  <2>3. \A k \in Job : /\ status[k] # "absent" => status'[k] = status[k]
                       /\ k \in held => status'[k] = status[k]
    BY <1>2 DEF Prompt, InsertRow, TypeOK, HeldInv, HeldStandsStill
  <2>4. chats' = chats /\ mode' = mode /\ mode = "up" /\ held' = held
    BY <1>2 DEF Prompt
  <2>5. \A k \in Job : status[k] = "queued" /\ paused[ChatOf[k]] => p[ChatOf[k]]
    BY DEF TypeOK, Items, JobsOf, OpenStatus
  <2> HIDE DEF p
  <2>6. /\ \A v \in Worker : thread'[v] = thread[v] \/ (thread[v] = Idle /\ thread'[v] = Spawned(c))
        /\ faults' >= faults
        /\ \A d \in Chat : p[d] => paused'[d]
    BY <2>1, <2>2, KickThreads
  <2>7. QED
    BY <1>0, <2>3, <2>4, <2>5, <2>6, IdleFields, HeldFrame
<1>3. ASSUME NEW c \in Chat, Resume(c)
      PROVE  HeldInv'
  <2> DEFINE p == [paused EXCEPT ![c] = FALSE]
  <2>1. Kick(c, p) \/ KickFails(c, p)
    BY <1>3 DEF Resume
  <2>2. p \in [Chat -> BOOLEAN] /\ \A d \in Chat \ {c} : p[d] = paused[d]
    BY DEF TypeOK
  <2>3. UNCHANGED <<chats, mode, status>> /\ mode = "up" /\ held' = held \ JobsOf(c)
    BY <1>3 DEF Resume
  <2> HIDE DEF p
  <2>4. /\ \A v \in Worker : thread'[v] = thread[v] \/ (thread[v] = Idle /\ thread'[v] = Spawned(c))
        /\ faults' >= faults
        /\ \A d \in Chat : p[d] => paused'[d]
    BY <2>1, <2>2, KickThreads
  <2>5. QED
    BY <1>0, <2>2, <2>3, <2>4, IdleFields, HeldFrame DEF JobsOf
<1>4. ASSUME NEW c \in Chat, PromptRefused(c)
      PROVE  HeldInv'
  <2>1. \A k \in Job : status[k] = "queued" /\ paused[ChatOf[k]] => paused'[ChatOf[k]]
    BY <1>4 DEF PromptRefused, TypeOK, Items, JobsOf, OpenStatus
  <2>2. /\ UNCHANGED <<chats, mode, status, held, faults>> /\ mode = "up"
        /\ \A v \in Worker : thread'[v] = thread[v]
    BY <1>4 DEF PromptRefused
  <2>3. QED
    BY <1>0, <2>1, <2>2, HeldFrame
<1>5. ASSUME NEW c \in Chat, HoldQueue(c)
      PROVE  HeldInv'
  <2>1. \A k \in Job : /\ paused[ChatOf[k]] => paused'[ChatOf[k]]
                       /\ k \in QueuedJobs(c) => status[k] = "queued" /\ paused'[ChatOf[k]]
    BY <1>5 DEF HoldQueue, TypeOK, QueuedJobs, JobsOf
  <2>2. /\ UNCHANGED <<chats, mode, status, faults>> /\ mode = "up"
        /\ held' = held \cup QueuedJobs(c)
        /\ \A v \in Worker : thread'[v] = thread[v]
    BY <1>5 DEF HoldQueue
  <2>3. QED
    BY <1>0, <2>1, <2>2, HeldFrame DEF QueuedJobs, JobsOf
<1>6. ASSUME NEW c \in Chat, SignalStop(c)
      PROVE  HeldInv'
  <2>1. ASSUME NEW w \in Worker
        PROVE  /\ thread'[w].at = thread[w].at
               /\ thread'[w].chat = thread[w].chat
               /\ thread'[w].job = thread[w].job
               /\ thread'[w].failure = thread[w].failure
    <3>1. thread'[w] = IF active[c] = w THEN Signalled(w) ELSE thread[w]
      BY <1>6 DEF SignalStop
    <3>2. thread[w] \in ThreadState
      BY DEF TypeOK
    <3>3. QED
      BY <3>1, <3>2 DEF Signalled, ThreadState
  <2>2. /\ UNCHANGED <<chats, mode, status>> /\ mode = "up" /\ faults' >= faults
    BY <1>0, <1>6 DEF SignalStop, Fault
  <2>3. \A k \in Job : /\ paused[ChatOf[k]] => paused'[ChatOf[k]]
                       /\ k \in held' => k \in held \/ (status[k] = "queued" /\ paused'[ChatOf[k]])
    <3>1. CASE PauseRow(c) /\ held' = held \cup QueuedJobs(c)
      <4>1. \A k \in QueuedJobs(c) : c \in chats
        BY DEF QueuedJobs, JobsOf, OwnInv, GoneIsAbsent
      <4>2. QED
        BY <3>1, <4>1 DEF PauseRow, TypeOK, QueuedJobs, JobsOf
    <3>2. CASE UNCHANGED <<paused, held>>
      BY <3>2
    <3>3. QED
      BY <1>6, <3>1, <3>2 DEF SignalStop
  <2>4. QED
    BY <1>0, <2>1, <2>2, <2>3, HeldFrame
<1>7. ASSUME NEW c \in Chat, DropChat(c), mode = "up"
      PROVE  HeldInv'
  <2>1. \A j \in Job : /\ ChatOf[j] \in chats' => status'[j] = status[j]
                       /\ status'[j] = "queued" => /\ status[j] = "queued"
                                                   /\ paused'[ChatOf[j]] = paused[ChatOf[j]]
    BY <1>7 DEF DropChat, TypeOK
  <2>2. /\ chats' \subseteq chats /\ mode' = mode /\ faults' = faults /\ held' = held
        /\ \A v \in Worker : thread'[v] = thread[v]
    BY <1>7 DEF DropChat
  <2>3. QED
    BY <1>0, <1>7, <2>1, <2>2, HeldFrame
<1>8. ASSUME NEW j \in Job, Remove(j)
      PROVE  HeldInv'
  <2>1. \A k \in Job : /\ status[k] # "absent" => status'[k] # "absent"
                       /\ status'[k] = "queued" => status[k] = "queued"
    BY <1>8 DEF Remove, TypeOK
  <2>2. /\ UNCHANGED <<chats, mode, faults, held, paused>> /\ mode = "up"
        /\ \A v \in Worker : thread'[v] = thread[v]
    BY <1>8 DEF Remove
  <2>3. QED
    BY <1>0, <2>1, <2>2, HeldFrame
<1>9. ASSUME NEW j \in Job, NEW t \in Text, Edit(j, t)
      PROVE  HeldInv'
  <2>1. /\ UNCHANGED <<chats, mode, faults, held, paused, status>> /\ mode = "up"
        /\ \A v \in Worker : thread'[v] = thread[v]
    BY <1>9 DEF Edit
  <2>2. QED
    BY <1>0, <2>1, HeldFrame
<1>10. ASSUME NEW w \in Worker, thread[w].at # "idle"
       PROVE  mode = "up"
  BY <1>10, IdleFields DEF OwnInv, DownIsEmpty
<1>11. ASSUME NEW w \in Worker, Claim(w)
       PROVE  HeldInv'
  <2>1. /\ thread[w].at = "claim" /\ mode = "up" /\ ~Stopping(w)
        /\ UNCHANGED <<chats, mode, paused, held>>
    BY <1>10, <1>11 DEF Claim, Stopping
  <2>2. CASE Leave(w) /\ UNCHANGED <<status, faults>>
    <3>1. thread'[w] = Idle /\ \A v \in Worker \ {w} : thread'[v] = thread[v]
      BY <2>2, BecomesOnly DEF Leave
    <3>2. QED
      BY <2>1, <2>2, <3>1, IdleFields DEF HeldInv, HeldStandsStill, HeldUntilResumed, Stopping
  <2>3. ASSUME NEW j \in Job, ClaimJob(w, j), ~paused[thread[w].chat]
        PROVE  HeldInv'
    <3>1. /\ thread'[w] = Loaded(w, j) /\ \A v \in Worker \ {w} : thread'[v] = thread[v]
          /\ thread[w].chat = ChatOf[j] /\ status[j] = "queued"
          /\ status'[j] = "running" /\ \A k \in Job \ {j} : status'[k] = status[k]
          /\ faults' = faults
      BY <2>3, BecomesOnly DEF ClaimJob, IsNext, TypeOK
    <3>2. \A v \in Worker : Stopping(v) => thread[v].chat # ChatOf[j]
      BY <2>1, <3>1 DEF OwnInv, SoleWorker, Stopping
    <3>3. faults <= 1 => j \notin held
      BY <2>1, <2>3, <3>1, <3>2 DEF HeldInv, HeldStandsStill
    <3>4. HeldUntilResumed'
      BY <2>1, <3>1, <3>3, Fields DEF HeldInv, HeldUntilResumed
    <3>5. HeldStandsStill'
      BY <1>0, <2>1, <3>1 DEF HeldInv, HeldStandsStill, Stopping
    <3>6. QED
      BY <3>4, <3>5 DEF HeldInv
  <2>4. CASE Fault /\ Becomes(w, At(w, "fail")) /\ UNCHANGED status
    <3>1. /\ thread'[w] = At(w, "fail") /\ \A v \in Worker \ {w} : thread'[v] = thread[v]
          /\ faults' = faults + 1
      BY <2>4, BecomesOnly DEF Fault
    <3>2. QED
      BY <1>0, <2>1, <2>4, <3>1, Fields
         DEF HeldInv, HeldStandsStill, HeldUntilResumed, Stopping
  <2>5. QED
    BY <1>11, <2>2, <2>3, <2>4 DEF Claim
<1>12. ASSUME NEW w \in Worker, NEW bad \in BOOLEAN, Return(w, bad)
       PROVE  HeldInv'
  <2> DEFINE f == thread[w].stopped \/ bad
             th == [At(w, "finish") EXCEPT !.failure = f]
  <2>1. /\ th.at = "finish" /\ th.failure = f /\ th.chat = thread[w].chat
    <3>1. thread[w] \in ThreadState
      BY DEF TypeOK
    <3> HIDE DEF f
    <3>2. QED
      BY <3>1 DEF At, ThreadState
  <2>2. /\ thread[w].at = "run" /\ Becomes(w, th)
        /\ UNCHANGED <<chats, status, paused, mode, faults>>
        /\ held' = IF f THEN held \cup QueuedJobs(thread[w].chat) ELSE held
    BY <1>12 DEF Return
  <2> HIDE DEF th, f
  <2>3. thread'[w] = th /\ \A v \in Worker \ {w} : thread'[v] = thread[v]
    BY <2>2, BecomesOnly
  <2>4. mode = "up" /\ ~Stopping(w)
    BY <1>10, <2>2 DEF Stopping
  <2>5. f => Stopping(w)'
    BY <2>1, <2>3 DEF Stopping
  <2>6. HeldStandsStill'
    BY <2>1, <2>2, <2>3, <2>4, <2>5
       DEF HeldInv, HeldStandsStill, Stopping, QueuedJobs, JobsOf
  <2>7. HeldUntilResumed'
    <3> SUFFICES ASSUME faults <= 1, NEW v \in Worker, thread'[v].at = "run"
                 PROVE  thread'[v].job \notin held'
      BY <2>2 DEF HeldUntilResumed
    <3>1. v # w /\ thread'[v] = thread[v]
      BY <2>1, <2>3
    <3>2. thread[v].job \in Job /\ thread[v].job \notin held
      BY <3>1 DEF HeldInv, HeldUntilResumed, OwnInv, ThreadsOK, Executing
    <3>3. status[thread[v].job] # "queued"
      BY <3>1, <3>2 DEF RunInv, RunningIsOwned, OwnInv, ThreadsOK, GoneIsAbsent, Executing
    <3>4. QED
      BY <2>2, <3>1, <3>2, <3>3 DEF QueuedJobs
  <2>8. QED
    BY <2>6, <2>7 DEF HeldInv
<1>13. ASSUME NEW w \in Worker, Finish(w)
       PROVE  HeldInv'
  <2> DEFINE j == thread[w].job  c == thread[w].chat
  <2>1. /\ thread[w].at = "finish" /\ mode = "up" /\ j \in Job /\ ChatOf[j] = c
        /\ UNCHANGED <<chats, mode, held>>
    BY <1>10, <1>13 DEF Finish, OwnInv, ThreadsOK, Executing
  <2>2. /\ \A k \in Job : status'[k] # status[k] =>
             status'[k] \in {"removed", "failed", "done"} /\ status[k] # "absent"
        /\ \A d \in Chat : paused[d] => paused'[d]
    BY <1>13 DEF Finish, Settle, SettleFails, FinishJob, TypeOK
  <2>3. faults' >= faults
    BY <1>0, <1>13 DEF Finish, Settle, SettleFails, Fault
  <2>4. CASE Settle(w)
    <3> DEFINE th == [Spawned(thread[w].chat) EXCEPT !.stopped = thread[w].stopped]
    <3>1. th.at = "claim"
      BY DEF Spawned, Idle
    <3>2. Becomes(w, th)
      BY <2>4 DEF Settle
    <3> HIDE DEF th
    <3>3. thread'[w].at = "claim" /\ \A v \in Worker \ {w} : thread'[v] = thread[v]
      BY <3>1, <3>2, BecomesOnly
    <3>4. Stopping(w) => paused'[c]
      BY <2>1, <2>4 DEF Settle, Stopping, TypeOK
    <3>5. HeldStandsStill'
      <4>1. \A k \in held' : ChatOf[k] \in chats' => status'[k] # "absent"
        BY <1>0, <2>1, <2>2 DEF HeldInv, HeldStandsStill
      <4>2. ASSUME faults' <= 1, NEW k \in held', status'[k] = "queued", ~paused'[ChatOf[k]]
            PROVE  \E v \in Worker : thread'[v].chat = ChatOf[k] /\ Stopping(v)'
        <5>1. k \in held /\ k \in Job /\ status[k] = "queued" /\ ~paused[ChatOf[k]] /\ faults <= 1
          BY <1>0, <2>1, <2>2, <2>3, <4>2
        <5>2. PICK v \in Worker : thread[v].chat = ChatOf[k] /\ Stopping(v)
          BY <2>1, <5>1 DEF HeldInv, HeldStandsStill
        <5>3. v # w
          BY <3>4, <4>2, <5>2
        <5>4. QED
          BY <3>3, <5>2, <5>3 DEF Stopping
      <4>3. QED
        BY <2>1, <4>1, <4>2 DEF HeldStandsStill
    <3>6. HeldUntilResumed'
      BY <1>0, <2>1, <2>3, <3>3 DEF HeldInv, HeldUntilResumed
    <3>7. QED
      BY <3>5, <3>6 DEF HeldInv
  <2>5. CASE SettleFails(w)
    <3>1. thread'[w] = At(w, "fail") /\ \A v \in Worker \ {w} : thread'[v] = thread[v]
      BY <2>5, BecomesOnly DEF SettleFails
    <3>2. \A v \in Worker : /\ thread'[v].chat = thread[v].chat
                            /\ Stopping(v) => Stopping(v)'
      BY <3>1, Fields DEF Stopping
    <3>3. HeldUntilResumed'
      BY <1>0, <2>1, <2>3, <3>1, Fields DEF HeldInv, HeldUntilResumed
    <3>4. HeldStandsStill'
      <4>1. \A k \in held' : ChatOf[k] \in chats' => status'[k] # "absent"
        BY <1>0, <2>1, <2>2 DEF HeldInv, HeldStandsStill
      <4>2. ASSUME faults' <= 1, NEW k \in held', status'[k] = "queued", ~paused'[ChatOf[k]]
            PROVE  \E v \in Worker : thread'[v].chat = ChatOf[k] /\ Stopping(v)'
        <5>1. k \in held /\ k \in Job /\ status[k] = "queued" /\ ~paused[ChatOf[k]] /\ faults <= 1
          BY <1>0, <2>1, <2>2, <2>3, <4>2
        <5>2. PICK v \in Worker : thread[v].chat = ChatOf[k] /\ Stopping(v)
          BY <2>1, <5>1 DEF HeldInv, HeldStandsStill
        <5>3. QED
          BY <3>2, <5>2
      <4>3. QED
        BY <2>1, <4>1, <4>2 DEF HeldStandsStill
    <3>5. QED
      BY <3>3, <3>4 DEF HeldInv
  <2>6. QED
    BY <1>13, <2>4, <2>5 DEF Finish
<1>14. ASSUME NEW w \in Worker, FailPause(w)
       PROVE  HeldInv'
  <2> DEFINE c == thread[w].chat
  <2>1. /\ thread[w].at = "fail" /\ mode = "up" /\ c \in Chat
        /\ UNCHANGED <<chats, status, mode, held>>
        /\ thread'[w] = At(w, "cleanup")
        /\ \A v \in Worker \ {w} : thread'[v] = thread[v]
        /\ faults' >= faults
    BY <1>0, <1>10, <1>14, BecomesOnly DEF FailPause, Fault, OwnInv, SoleWorker
  <2>2. \A d \in Chat : paused[d] => paused'[d]
    BY <1>14 DEF FailPause, PauseRow, TypeOK
  <2>3. faults' <= 1 => c \notin chats \/ paused'[c]
    <3>1. CASE PauseRow(c)
      BY <3>1, <2>1 DEF PauseRow, TypeOK
    <3>2. CASE Fault
      BY <1>0, <2>1, <3>2 DEF Fault, RunInv, FailedForAReason
    <3>3. QED
      BY <1>14, <3>1, <3>2 DEF FailPause
  <2> HIDE DEF c
  <2>4. HeldUntilResumed'
    BY <1>0, <2>1, Fields DEF HeldInv, HeldUntilResumed
  <2>5. HeldStandsStill'
    <3>1. \A k \in held' : ChatOf[k] \in chats' => status'[k] # "absent"
      BY <2>1 DEF HeldInv, HeldStandsStill
    <3>2. ASSUME faults' <= 1, NEW k \in held', status'[k] = "queued", ~paused'[ChatOf[k]]
          PROVE  \E v \in Worker : thread'[v].chat = ChatOf[k] /\ Stopping(v)'
      <4>1. k \in held /\ k \in Job /\ status[k] = "queued" /\ ~paused[ChatOf[k]] /\ faults <= 1
        BY <1>0, <2>1, <2>2, <3>2
      <4>2. PICK v \in Worker : thread[v].chat = ChatOf[k] /\ Stopping(v)
        BY <2>1, <4>1 DEF HeldInv, HeldStandsStill
      <4>3. ChatOf[k] \in chats
        BY <4>1 DEF OwnInv, GoneIsAbsent
      <4>4. v # w
        BY <2>3, <3>2, <4>2, <4>3 DEF c
      <4>5. QED
        BY <2>1, <4>2, <4>4 DEF Stopping
    <3>3. QED
      BY <2>1, <3>1, <3>2 DEF HeldStandsStill
  <2>6. QED
    BY <2>4, <2>5 DEF HeldInv
<1>15. ASSUME NEW w \in Worker, FailCleanup(w)
       PROVE  HeldInv'
  <2>1. /\ thread[w].at = "cleanup" /\ mode = "up" /\ UNCHANGED <<chats, paused, mode, held>>
        /\ thread'[w] = Idle /\ \A v \in Worker \ {w} : thread'[v] = thread[v]
    BY <1>10, <1>15, BecomesOnly DEF FailCleanup, Leave
  <2>2. /\ faults' >= faults
        /\ \A k \in Job : status'[k] = status[k] \/ status'[k] = "failed"
    BY <1>0, <1>15 DEF FailCleanup, Fault, TypeOK
  <2>3. HeldUntilResumed'
    BY <1>0, <2>1, <2>2, IdleFields DEF HeldInv, HeldUntilResumed
  <2>4. HeldStandsStill'
    BY <1>0, <2>1, <2>2, IdleFields DEF HeldInv, HeldStandsStill, Stopping
  <2>5. QED
    BY <2>3, <2>4 DEF HeldInv
<1>16. CASE Crash
  BY <1>0, <1>16, IdleFields DEF Crash, HeldInv, HeldStandsStill, HeldUntilResumed
<1>17. CASE RecoverPause
  <2>1. \A j \in Job : status[j] \in {"queued", "running"} => paused'[ChatOf[j]]
    BY <1>17 DEF RecoverPause, TypeOK, JobsOf
  <2>2. QED
    BY <1>0, <1>17, <2>1 DEF RecoverPause, HeldInv, HeldStandsStill, HeldUntilResumed
<1>18. CASE RecoverInterrupt
  BY <1>0, <1>18 DEF RecoverInterrupt, HeldInv, HeldStandsStill, HeldUntilResumed, TypeOK
<1>19. CASE UNCHANGED vars
  BY <1>19 DEF vars, HeldInv, HeldStandsStill, HeldUntilResumed, Stopping
<1>20. QED
  BY <1>1, <1>2, <1>3, <1>4, <1>5, <1>6, <1>7, <1>8, <1>9, <1>11, <1>12, <1>13, <1>14,
     <1>15, <1>16, <1>17, <1>18, <1>19
     DEF Next, WorkerStep, ChatStep, JobStep, Cancel, BeginDelete, FinishDelete, DropEmpty

\* What waited when its chat stopped, for whatever reason, is not sent until the
\* user resumes the queue; a write of the store that fails on the way does not
\* change that: between the failure of a turn and the pause that follows from
\* it the only worker of the chat is the one that is about to pause.
THEOREM HeldWorkWaits == Spec => []HeldUntilResumed
<1>1. Init => OwnInv /\ RunInv /\ HeldInv
  BY IdleFields DEF Init, OwnInv, SoleWorker, ThreadsOK, Executing, DownIsEmpty, GoneIsAbsent,
                    RunInv, RunningIsOwned, FailedForAReason, SentAsShown,
                    HeldInv, HeldStandsStill, HeldUntilResumed
<1>2. TypeOK /\ TypeOK' /\ OwnInv /\ RunInv /\ HeldInv /\ [Next]_vars
        => OwnInv' /\ RunInv' /\ HeldInv'
  BY OwnStep, RunStep, HeldStep
<1>3. HeldInv => HeldUntilResumed
  BY DEF HeldInv
<1>4. QED
  BY <1>1, <1>2, <1>3, Typed, PTL DEF Spec

------------------------------------------------------------------------------
(* The queue implements OrderedDelivery. *)

PhaseInv == TypeOK /\ OwnInv /\ RunInv

\* A row that is neither waiting nor new makes its job closed when nobody has it.
LEMMA PhaseIs ==
  ASSUME NEW j \in Job
  PROVE  /\ (\E w \in Worker : Executing(w) /\ thread[w].job = j) => PhaseOf(j) = "running"
         /\ ~(\E w \in Worker : Executing(w) /\ thread[w].job = j) =>
              /\ status[j] = "queued" => PhaseOf(j) = "waiting"
              /\ status[j] = "absent" /\ ChatOf[j] \in chats => PhaseOf(j) = "new"
              /\ status[j] = "absent" /\ ChatOf[j] \notin chats => PhaseOf(j) = "closed"
              /\ status[j] \notin {"queued", "absent"} => PhaseOf(j) = "closed"
BY DEF PhaseOf

LEMMA PhaseIsNext ==
  ASSUME NEW j \in Job
  PROVE  /\ (\E w \in Worker : Executing(w)' /\ thread'[w].job = j) => PhaseOf(j)' = "running"
         /\ ~(\E w \in Worker : Executing(w)' /\ thread'[w].job = j) =>
              /\ status'[j] = "queued" => PhaseOf(j)' = "waiting"
              /\ status'[j] = "absent" /\ ChatOf[j] \in chats' => PhaseOf(j)' = "new"
              /\ status'[j] = "absent" /\ ChatOf[j] \notin chats' => PhaseOf(j)' = "closed"
              /\ status'[j] \notin {"queued", "absent"} => PhaseOf(j)' = "closed"
BY DEF PhaseOf

\* Phases that stay or close make a step of OrderedDelivery.
LEMMA Closing ==
  ASSUME UNCHANGED <<seq, nextSeq>>, \A j \in Job : PhaseOf(j)' \in {PhaseOf(j), "closed"}
  PROVE  Delivery!Next
<1> DEFINE S == {j \in Job : PhaseOf(j)' = "closed"}
<1>1. S \in SUBSET Job
  OBVIOUS
<1>2. [j \in Job |-> PhaseOf(j)]' = [j \in Job |-> IF j \in S THEN "closed" ELSE [k \in Job |-> PhaseOf(k)][j]]
  OBVIOUS
<1>3. Delivery!Close(S)
  BY <1>2 DEF Delivery!Close
<1>4. QED
  BY <1>1, <1>3 DEF Delivery!Next

\* A step that begins no execution, and after which a job that is no longer
\* executed, or whose row has changed, is neither waiting nor new.
LEMMA PhaseFrame ==
  ASSUME UNCHANGED <<seq, nextSeq>>,
         \A v \in Worker : Executing(v)' => Executing(v) /\ thread'[v].job = thread[v].job,
         \A v \in Worker : Executing(v) /\ ~Executing(v)' =>
           \/ status'[thread[v].job] \notin {"queued", "absent"}
           \/ /\ status'[thread[v].job] = "absent"
              /\ ChatOf[thread[v].job] \notin chats',
         \A j \in Job : \/ status'[j] \notin {"queued", "absent"}
                        \/ status'[j] = "absent" /\ ChatOf[j] \notin chats'
                        \/ status'[j] = status[j] /\ (ChatOf[j] \in chats' <=> ChatOf[j] \in chats)
  PROVE  Delivery!Next
<1> SUFFICES ASSUME NEW j \in Job PROVE PhaseOf(j)' \in {PhaseOf(j), "closed"}
  BY Closing
<1>1. CASE \E w \in Worker : Executing(w)' /\ thread'[w].job = j
  BY <1>1, PhaseIs, PhaseIsNext
<1>2. CASE /\ ~\E w \in Worker : Executing(w)' /\ thread'[w].job = j
           /\ \E w \in Worker : Executing(w) /\ thread[w].job = j
  <2>1. PICK w \in Worker : Executing(w) /\ thread[w].job = j
    BY <1>2
  <2>2. ~Executing(w)'
    BY <1>2, <2>1
  <2>3. QED
    BY <1>2, <2>1, <2>2, PhaseIsNext
<1>3. CASE /\ ~\E w \in Worker : Executing(w)' /\ thread'[w].job = j
           /\ ~\E w \in Worker : Executing(w) /\ thread[w].job = j
  BY <1>3, PhaseIs, PhaseIsNext DEF PhaseOf
<1>4. QED
  BY <1>1, <1>2, <1>3

\* A new row is an accepted prompt.
LEMMA Accepting ==
  ASSUME PhaseInv, NEW j \in Job, NEW t \in Text, InsertRow(j, t), chats' = chats,
         \A v \in Worker : thread'[v] = thread[v] \/ (thread[v].at = "idle" /\ thread'[v].at = "claim")
  PROVE  Delivery!Next
<1> DEFINE phase == [k \in Job |-> PhaseOf(k)]
<1>1. \A v \in Worker : /\ Executing(v)' <=> Executing(v)
                        /\ Executing(v) => thread'[v].job = thread[v].job
  BY DEF Executing
<1>2. /\ status[j] = "absent" /\ ChatOf[j] \in chats /\ status'[j] = "queued"
      /\ \A k \in Job \ {j} : status'[k] = status[k]
      /\ seq' = [seq EXCEPT ![j] = nextSeq] /\ nextSeq' = nextSeq + 1
  BY DEF InsertRow, PhaseInv, TypeOK
<1>3. \A v \in Worker : Executing(v) => thread[v].job # j
  BY <1>2 DEF PhaseInv, RunInv, RunningIsOwned, OwnInv, ThreadsOK
<1>4. PhaseOf(j) = "new" /\ PhaseOf(j)' = "waiting"
  BY <1>1, <1>2, <1>3, PhaseIs, PhaseIsNext
<1>5. ASSUME NEW k \in Job \ {j} PROVE PhaseOf(k)' = PhaseOf(k)
  BY <1>1, <1>2 DEF PhaseOf
<1>6. phase' = [phase EXCEPT ![j] = "waiting"]
  BY <1>4, <1>5
<1>7. Delivery!Accept(j)
  BY <1>2, <1>4, <1>6 DEF Delivery!Accept
<1>8. QED
  BY <1>7 DEF Delivery!Next

\* A claimed row is a started prompt: the worker is the only one of its chat,
\* and the row the oldest that waits.
LEMMA Starting ==
  ASSUME PhaseInv, NEW w \in Worker, NEW j \in Job, thread[w].at = "claim", ClaimJob(w, j),
         UNCHANGED <<chats, seq, nextSeq>>
  PROVE  Delivery!Next
<1> DEFINE phase == [k \in Job |-> PhaseOf(k)]
<1>1. /\ thread'[w] = Loaded(w, j) /\ \A v \in Worker \ {w} : thread'[v] = thread[v]
      /\ thread[w].chat = ChatOf[j] /\ status[j] = "queued"
      /\ status'[j] = "running" /\ \A k \in Job \ {j} : status'[k] = status[k]
  BY BecomesOnly DEF ClaimJob, IsNext, PhaseInv, TypeOK
<1>2. Loaded(w, j).at = "run" /\ Loaded(w, j).job = j
  BY Fields DEF PhaseInv
<1>3. \A v \in Worker : Executing(v) => v # w /\ ChatOf[thread[v].job] # ChatOf[j]
  BY <1>1 DEF PhaseInv, OwnInv, SoleWorker, ThreadsOK, Executing
<1>4. PhaseOf(j) = "waiting"
  BY <1>1, <1>3, PhaseIs
<1>5. PhaseOf(j)' = "running"
  BY <1>1, <1>2, PhaseIsNext DEF Executing
<1>6. ASSUME NEW k \in Job \ {j} PROVE PhaseOf(k)' = PhaseOf(k)
  <2>1. (\E v \in Worker : Executing(v)' /\ thread'[v].job = k)
          <=> (\E v \in Worker : Executing(v) /\ thread[v].job = k)
    BY <1>1, <1>2, <1>3 DEF Executing
  <2>2. QED
    BY <1>1, <2>1 DEF PhaseOf
<1>7. \A k \in Job : ChatOf[k] = ChatOf[j] =>
        PhaseOf(k) # "running" /\ (PhaseOf(k) = "waiting" => status[k] = "queued")
  BY <1>3 DEF PhaseOf
<1>8. \A k \in Job : ChatOf[k] = ChatOf[j] /\ status[k] = "queued" => seq[j] <= seq[k]
  BY DEF ClaimJob, IsNext, QueuedJobs, JobsOf
<1>9. phase' = [phase EXCEPT ![j] = "running"]
  BY <1>5, <1>6
<1>10. Delivery!Start(j)
  BY <1>4, <1>7, <1>8, <1>9 DEF Delivery!Start, Delivery!Rivals
<1>11. QED
  BY <1>10 DEF Delivery!Next

LEMMA DeliveryStep ==
  ASSUME PhaseInv, PhaseInv', [Next]_vars
  PROVE  [Delivery!Next]_(Delivery!vars)
<1> USE DEF rows, memory
<1>1. ASSUME NEW j \in Job, NEW t \in Text, Enqueue(j, t)
      PROVE  Delivery!Next
  <2>1. Kick(ChatOf[j], paused) \/ KickFails(ChatOf[j], paused)
    BY <1>1 DEF Enqueue
  <2>2. ChatOf[j] \in Chat /\ paused \in [Chat -> BOOLEAN]
    BY DEF PhaseInv, TypeOK
  <2>3. \A v \in Worker : thread'[v] = thread[v] \/ (thread[v].at = "idle" /\ thread'[v].at = "claim")
    BY <2>1, <2>2, KickThreads, IdleFields DEF PhaseInv
  <2>4. CASE InsertRow(j, t)
    BY <1>1, <2>3, <2>4, Accepting DEF Enqueue
  <2>5. CASE KnownRow(j, t)
    BY <1>1, <2>3, <2>5, PhaseFrame DEF Enqueue, KnownRow, Executing
  <2>6. QED
    BY <1>1, <2>4, <2>5 DEF Enqueue
<1>2. ASSUME NEW j \in Job, NEW t \in Text, Prompt(j, t)
      PROVE  Delivery!Next
  <2> DEFINE c == ChatOf[j]
             p == IF Items(c) = {} THEN [paused EXCEPT ![c] = FALSE] ELSE paused
  <2>1. Kick(c, p) \/ KickFails(c, p)
    BY <1>2 DEF Prompt
  <2>2. c \in Chat /\ p \in [Chat -> BOOLEAN]
    BY DEF PhaseInv, TypeOK
  <2> HIDE DEF p
  <2>3. \A v \in Worker : thread'[v] = thread[v] \/ (thread[v].at = "idle" /\ thread'[v].at = "claim")
    BY <2>1, <2>2, KickThreads, IdleFields DEF PhaseInv
  <2>4. QED
    BY <1>2, <2>3, Accepting DEF Prompt
<1>3. ASSUME NEW c \in Chat, Resume(c)
      PROVE  Delivery!Next
  <2> DEFINE p == [paused EXCEPT ![c] = FALSE]
  <2>1. Kick(c, p) \/ KickFails(c, p)
    BY <1>3 DEF Resume
  <2>2. p \in [Chat -> BOOLEAN]
    BY DEF PhaseInv, TypeOK
  <2> HIDE DEF p
  <2>3. \A v \in Worker : thread'[v] = thread[v] \/ (thread[v].at = "idle" /\ thread'[v].at = "claim")
    BY <2>1, <2>2, KickThreads, IdleFields DEF PhaseInv
  <2>4. QED
    BY <1>3, <2>3, PhaseFrame DEF Resume, Executing
<1>4. ASSUME UNCHANGED <<seq, nextSeq, chats, thread, status>>
      PROVE  Delivery!Next
  BY <1>4, PhaseFrame DEF Executing
<1>5. ASSUME NEW c \in Chat, SignalStop(c)
      PROVE  Delivery!Next
  <2>1. ASSUME NEW w \in Worker
        PROVE  thread'[w].at = thread[w].at /\ thread'[w].job = thread[w].job
    <3>1. thread'[w] = IF active[c] = w THEN Signalled(w) ELSE thread[w]
      BY <1>5 DEF SignalStop
    <3>2. thread[w] \in ThreadState
      BY DEF PhaseInv, TypeOK
    <3>3. QED
      BY <3>1, <3>2 DEF Signalled, ThreadState
  <2>2. UNCHANGED <<seq, nextSeq, chats, status>>
    BY <1>5 DEF SignalStop
  <2>3. QED
    BY <2>1, <2>2, PhaseFrame DEF Executing
<1>6. ASSUME NEW c \in Chat, DropChat(c)
      PROVE  Delivery!Next
  <2>1. /\ UNCHANGED <<seq, nextSeq, thread>> /\ chats' = chats \ {c}
        /\ \A j \in Job : status'[j] = IF ChatOf[j] = c THEN "absent" ELSE status[j]
    BY <1>6 DEF DropChat
  <2>2. QED
    BY <2>1, PhaseFrame DEF Executing
<1>7. ASSUME NEW j \in Job, Remove(j)
      PROVE  Delivery!Next
  <2>1. /\ UNCHANGED <<seq, nextSeq, thread, chats>> /\ status'[j] = "removed"
        /\ \A k \in Job \ {j} : status'[k] = status[k]
    BY <1>7 DEF Remove, PhaseInv, TypeOK
  <2>2. QED
    BY <2>1, PhaseFrame DEF Executing
<1>8. ASSUME NEW w \in Worker, Claim(w)
      PROVE  Delivery!Next
  <2>1. thread[w].at = "claim" /\ UNCHANGED <<chats, seq, nextSeq>>
    BY <1>8 DEF Claim
  <2>2. ASSUME status' = status, thread'[w].at \notin {"run", "finish"},
               \A v \in Worker \ {w} : thread'[v] = thread[v]
        PROVE  Delivery!Next
    BY <2>1, <2>2, PhaseFrame DEF Executing
  <2>3. CASE Leave(w) /\ UNCHANGED status
    BY <2>2, <2>3, BecomesOnly, IdleFields DEF Leave, PhaseInv
  <2>4. CASE Becomes(w, At(w, "fail")) /\ UNCHANGED status
    BY <2>2, <2>4, BecomesOnly, Fields DEF PhaseInv
  <2>5. QED
    BY <1>8, <2>1, <2>3, <2>4, Starting DEF Claim
<1>9. ASSUME NEW w \in Worker, NEW bad \in BOOLEAN, Return(w, bad)
      PROVE  Delivery!Next
  <2> DEFINE f == thread[w].stopped \/ bad
             th == [At(w, "finish") EXCEPT !.failure = f]
  <2>1. th.at = "finish" /\ th.job = thread[w].job
    <3>1. thread[w] \in ThreadState
      BY DEF PhaseInv, TypeOK
    <3> HIDE DEF f
    <3>2. QED
      BY <3>1 DEF At, ThreadState
  <2>2. /\ thread[w].at = "run" /\ Becomes(w, th)
        /\ UNCHANGED <<chats, status, seq, nextSeq>>
    BY <1>9 DEF Return
  <2> HIDE DEF th
  <2>3. thread'[w] = th /\ \A v \in Worker \ {w} : thread'[v] = thread[v]
    BY <2>2, BecomesOnly DEF PhaseInv
  <2>4. QED
    BY <2>1, <2>2, <2>3, PhaseFrame DEF Executing
<1>10. ASSUME NEW w \in Worker, Finish(w)
       PROVE  Delivery!Next
  <2> DEFINE j == thread[w].job
  <2>1. /\ thread[w].at = "finish" /\ Executing(w) /\ j \in Job /\ ChatOf[j] = thread[w].chat
        /\ UNCHANGED <<chats, seq, nextSeq>>
    BY <1>10 DEF Finish, PhaseInv, OwnInv, ThreadsOK, Executing
  <2>2. status[j] = "running" \/ (status[j] = "absent" /\ ChatOf[j] \notin chats)
    BY <2>1 DEF PhaseInv, RunInv, RunningIsOwned, OwnInv, GoneIsAbsent
  <2>3. \A k \in Job : \/ status'[k] = status[k]
                       \/ status'[k] \in {"removed", "failed", "done"}
    BY <1>10, <2>1 DEF Finish, Settle, SettleFails, FinishJob, PhaseInv, TypeOK
  <2>4. /\ thread'[w].at \in {"claim", "fail"}
        /\ \A v \in Worker \ {w} : thread'[v] = thread[v]
    <3>1. CASE Settle(w)
      <4> DEFINE th == [Spawned(thread[w].chat) EXCEPT !.stopped = thread[w].stopped]
      <4>1. th.at = "claim"
        BY DEF Spawned, Idle
      <4>2. Becomes(w, th)
        BY <3>1 DEF Settle
      <4> HIDE DEF th
      <4>3. QED
        BY <4>1, <4>2, BecomesOnly DEF PhaseInv
    <3>2. CASE SettleFails(w)
      BY <3>2, Fields, BecomesOnly DEF SettleFails, PhaseInv
    <3>3. QED
      BY <1>10, <3>1, <3>2 DEF Finish
  <2> HIDE DEF j
  <2>5. status'[j] \notin {"queued", "absent"} \/ (status'[j] = "absent" /\ ChatOf[j] \notin chats')
    BY <2>1, <2>2, <2>3
  <2>6. QED
    BY <2>1, <2>3, <2>4, <2>5, PhaseFrame DEF Executing, j
<1>11. ASSUME NEW w \in Worker, FailPause(w)
       PROVE  Delivery!Next
  <2>1. /\ thread[w].at = "fail" /\ thread'[w] = At(w, "cleanup")
        /\ \A v \in Worker \ {w} : thread'[v] = thread[v]
        /\ UNCHANGED <<chats, status, seq, nextSeq>>
    BY <1>11, BecomesOnly DEF FailPause, PhaseInv
  <2>2. QED
    BY <2>1, Fields, PhaseFrame DEF Executing, PhaseInv
<1>12. ASSUME NEW w \in Worker, FailCleanup(w)
       PROVE  Delivery!Next
  <2>1. /\ thread[w].at = "cleanup" /\ thread'[w] = Idle
        /\ \A v \in Worker \ {w} : thread'[v] = thread[v]
        /\ UNCHANGED <<chats, seq, nextSeq>>
        /\ \A k \in Job : status'[k] = status[k] \/ status'[k] = "failed"
    BY <1>12, BecomesOnly DEF FailCleanup, Leave, PhaseInv, TypeOK
  <2>2. QED
    BY <2>1, IdleFields, PhaseFrame DEF Executing
<1>13. CASE Crash
  <2>1. /\ UNCHANGED <<seq, nextSeq, chats, status>>
        /\ \A v \in Worker : ~Executing(v)'
    BY <1>13, IdleFields DEF Crash, Executing
  <2>2. \A v \in Worker : Executing(v) =>
          \/ status[thread[v].job] = "running"
          \/ status[thread[v].job] = "absent" /\ ChatOf[thread[v].job] \notin chats
    BY DEF PhaseInv, RunInv, RunningIsOwned, OwnInv, ThreadsOK, GoneIsAbsent
  <2>3. QED
    BY <2>1, <2>2, PhaseFrame
<1>14. CASE RecoverPause
  BY <1>4, <1>14 DEF RecoverPause
<1>15. CASE RecoverInterrupt
  <2>1. /\ UNCHANGED <<seq, nextSeq, chats, thread>>
        /\ \A k \in Job : status'[k] = status[k] \/ status'[k] = "interrupted"
    BY <1>15 DEF RecoverInterrupt, PhaseInv, TypeOK
  <2>2. QED
    BY <2>1, PhaseFrame DEF Executing
<1>16. CASE UNCHANGED vars
  BY <1>4, <1>16 DEF vars
<1>17. QED
  BY <1>1, <1>2, <1>3, <1>4, <1>5, <1>6, <1>7, <1>8, <1>9, <1>10, <1>11, <1>12, <1>13, <1>14,
     <1>15, <1>16
     DEF Next, WorkerStep, ChatStep, JobStep, PromptRefused, HoldQueue, Edit, Cancel,
         BeginDelete, FinishDelete, DropEmpty

\* Every behaviour of the daemon's queue, with its threads, its store, its
\* failures and its crashes, is one of OrderedDelivery: the prompts of a chat
\* are sent one at a time, in the order of their acceptance, and none twice.
THEOREM PromptsGoInOrder == Spec => DeliversInOrder
<1>1. Init => PhaseInv
  BY IdleFields DEF Init, PhaseInv, OwnInv, SoleWorker, ThreadsOK, Executing, DownIsEmpty,
                    GoneIsAbsent, RunInv, RunningIsOwned, FailedForAReason, SentAsShown,
                    TypeOK, ThreadState, Idle, Status
<1>2. PhaseInv /\ TypeOK' /\ [Next]_vars => PhaseInv'
  BY OwnStep, RunStep DEF PhaseInv
<1>3. Init => Delivery!Init
  BY IdleFields DEF Init, Delivery!Init, PhaseOf, Executing
<1>4. PhaseInv /\ PhaseInv' /\ [Next]_vars => [Delivery!Next]_(Delivery!vars)
  BY DeliveryStep
<1>5. QED
  BY <1>1, <1>2, <1>3, <1>4, Typed, PTL DEF Spec, DeliversInOrder, Delivery!Spec
==============================================================================
