----------------------------- MODULE PromptQueue -----------------------------
(***************************************************************************)
(* The durable per-chat prompt queue of the daemon:                        *)
(* crates/daemon/src/service/prompt_queue.rs over the tables of            *)
(* crates/daemon/src/store/prompt_queue.rs, with the RPC handlers that     *)
(* call it, the deletion of chats under it, and the recovery at startup.   *)
(*                                                                         *)
(* Every section the code runs under the `workers` mutex is one action;    *)
(* what it does outside the mutex (executing a prompt, reading the stop    *)
(* flag, the first half of fail_worker) is an action of its own. Each      *)
(* statement of the store commits by itself, so a section whose n-th       *)
(* statement fails leaves the first n - 1 done: that is a disjunct too.    *)
(***************************************************************************)
EXTENDS Naturals, FiniteSets

CONSTANTS Chat,       \* chat ids (UUIDs: never reused)
          Job,        \* request ids of prompts
          ChatOf,     \* the chat of each prompt
          Text,       \* what a prompt may say
          Worker,     \* names for the worker threads
          MaxOpen,    \* jobs a chat may hold (16 in the code)
          MaxFaults,  \* store failures considered
          NoText, NoJob, NoChat, NoWorker

ASSUME QueueAssumption ==
  /\ ChatOf \in [Job -> Chat]
  /\ MaxOpen \in Nat \ {0}
  /\ MaxFaults \in Nat
  /\ NoText \notin Text /\ NoJob \notin Job
  /\ NoChat \notin Chat /\ NoWorker \notin Worker

VARIABLES
  \* rows of the store
  chats,     \* chats that exist
  paused,    \* prompt_queue_state.paused, FALSE where there is no row
  status,    \* prompt_jobs.status, "absent" where there is no row
  payload,   \* prompt_jobs.payload_json: what the agent would be sent
  seq,       \* prompt_jobs.sequence, kept here for rows that are gone
  nextSeq,   \* the AUTOINCREMENT counter behind it
  \* the daemon's memory
  mode,      \* "up", or how far a restart has come
  active,    \* Workers.active: the worker that owns each chat
  thread,    \* the worker threads
  waiters,   \* Workers.waiters: jobs whose caller blocks in recv
  deleting,  \* delete_chat calls between their two halves
  \* kept for the properties only
  held,      \* jobs that were waiting when their chat stopped
  faults     \* store failures so far

rows == <<chats, paused, status, payload, seq, nextSeq>>
memory == <<mode, active, thread, waiters, deleting>>
vars == <<rows, memory, held, faults>>

Status == {"absent", "queued", "running", "failed", "interrupted", "done", "removed"}
OpenStatus == {"queued", "running", "failed", "interrupted"}
Idle == [at |-> "idle", chat |-> NoChat, job |-> NoJob, text |-> NoText,
         stopped |-> FALSE, failure |-> FALSE]

\* A thread kick has just spawned, about to take the mutex.
Spawned(c) == [Idle EXCEPT !.at = "claim", !.chat = c]

At(w, place) == [thread[w] EXCEPT !.at = place]
Becomes(w, th) == thread' = [thread EXCEPT ![w] = th]

JobsOf(c) == {j \in Job : ChatOf[j] = c}
QueuedJobs(c) == {j \in JobsOf(c) : status[j] = "queued"}

\* The items prompt_queue lists for a chat.
Items(c) == {j \in JobsOf(c) : status[j] \in OpenStatus}

Fault == faults < MaxFaults /\ faults' = faults + 1

\* pause_prompt_queue with a reason. A chat that is gone can have no row.
PauseRow(c) == paused' = IF c \in chats THEN [paused EXCEPT ![c] = TRUE] ELSE paused

Init == /\ chats = Chat
        /\ paused = [c \in Chat |-> FALSE]
        /\ status = [j \in Job |-> "absent"]
        /\ payload = [j \in Job |-> NoText]
        /\ seq = [j \in Job |-> 0]
        /\ nextSeq = 1
        /\ mode = "up"
        /\ active = [c \in Chat |-> NoWorker]
        /\ thread = [w \in Worker |-> Idle]
        /\ waiters = {}
        /\ deleting = {}
        /\ held = {}
        /\ faults = 0

------------------------------------------------------------------------------
(* Starting a worker. p stands for the pause flags as the statements before *)
(* the kick have left them.                                                 *)

\* Mutant of Kick: it looks only at the pause flag.
KickUnowned(c, p) ==
  /\ paused' = p
  /\ UNCHANGED faults
  /\ \/ p[c] /\ UNCHANGED <<active, thread>>
     \/ ~p[c] /\ \E w \in Worker : /\ thread[w] = Idle
                                   /\ active' = [active EXCEPT ![c] = w]
                                   /\ Becomes(w, Spawned(c))

\* Mutant of Kick: a queue in which prompts wait is taken to have its worker.
KickFirst(c, p) ==
  /\ paused' = p
  /\ UNCHANGED faults
  /\ \/ /\ active[c] # NoWorker \/ p[c] \/ QueuedJobs(c) # {}
        /\ UNCHANGED <<active, thread>>
     \/ /\ active[c] = NoWorker /\ ~p[c] /\ QueuedJobs(c) = {}
        /\ \E w \in Worker :
             /\ thread[w] = Idle
             /\ active' = [active EXCEPT ![c] = w]
             /\ Becomes(w, Spawned(c))

\* kick returns Ok: there is a worker already, or the queue is paused, or a
\* thread was spawned.
Kick(c, p) ==
  /\ paused' = p
  /\ UNCHANGED faults
  /\ \/ /\ active[c] # NoWorker \/ p[c]
        /\ UNCHANGED <<active, thread>>
     \/ /\ active[c] = NoWorker /\ ~p[c]
        /\ \E w \in Worker :
             /\ thread[w] = Idle
             /\ active' = [active EXCEPT ![c] = w]
             /\ Becomes(w, Spawned(c))

\* kick returns an error: no thread could be spawned, and the queue is paused
\* unless that write fails too; or the pause flag could not be read.
KickFails(c, p) ==
  /\ active[c] = NoWorker
  /\ UNCHANGED <<active, thread>>
  /\ \/ ~p[c] /\ paused' = [p EXCEPT ![c] = TRUE] /\ UNCHANGED faults
     \/ Fault /\ paused' = p

------------------------------------------------------------------------------
(* The RPCs. *)

\* insert_prompt_job of an id that has no row.
InsertRow(j, t) ==
  /\ ChatOf[j] \in chats
  /\ status[j] = "absent"
  /\ Cardinality(Items(ChatOf[j])) < MaxOpen
  /\ status' = [status EXCEPT ![j] = "queued"]
  /\ payload' = [payload EXCEPT ![j] = t]
  /\ seq' = [seq EXCEPT ![j] = nextSeq]
  /\ nextSeq' = nextSeq + 1

\* Mutant of KnownRow: a retry of a job that is done queues it again.
KnownRowReplays(j, t) ==
  /\ status[j] # "absent"
  /\ payload[j] \in {t, NoText}
  /\ status' = [status EXCEPT ![j] = IF @ = "done" THEN "queued" ELSE @]
  /\ payload' = [payload EXCEPT ![j] = t]
  /\ UNCHANGED <<seq, nextSeq>>

\* insert_prompt_job of an id it already knows: a retry, accepted and ignored.
KnownRow(j, t) ==
  /\ status[j] # "absent"
  /\ payload[j] \in {t, NoText}
  /\ UNCHANGED <<status, payload, seq, nextSeq>>

Enqueue(j, t) ==
  /\ mode = "up"
  /\ InsertRow(j, t) \/ KnownRow(j, t)
  /\ Kick(ChatOf[j], paused) \/ KickFails(ChatOf[j], paused)
  /\ UNCHANGED <<chats, mode, waiters, deleting, held>>

\* The blocking prompt RPC, under a fresh id. It resumes an empty queue.
Prompt(j, t) ==
  LET c == ChatOf[j]
      p == IF Items(c) = {} THEN [paused EXCEPT ![c] = FALSE] ELSE paused
  IN  /\ mode = "up"
      /\ seq[j] = 0
      /\ ~(paused[c] /\ Items(c) # {})
      /\ InsertRow(j, t)
      /\ \/ Kick(c, p) /\ waiters' = waiters \cup {j}
         \/ KickFails(c, p) /\ UNCHANGED waiters
      /\ UNCHANGED <<chats, mode, deleting, held>>

\* A prompt insert_prompt_job refuses has resumed the empty queue by then.
PromptRefused(c) ==
  /\ mode = "up" /\ c \in chats /\ Items(c) = {}
  /\ paused' = [paused EXCEPT ![c] = FALSE]
  /\ UNCHANGED <<chats, status, payload, seq, nextSeq, memory, held, faults>>

Resume(c) ==
  LET p == [paused EXCEPT ![c] = FALSE]
  IN  /\ mode = "up" /\ c \in chats
      /\ Kick(c, p) \/ KickFails(c, p)
      /\ held' = held \ JobsOf(c)
      /\ UNCHANGED <<chats, status, payload, seq, nextSeq, mode, waiters, deleting>>

\* update "pause": what runs goes on, nothing more starts.
HoldQueue(c) ==
  /\ mode = "up" /\ c \in chats
  /\ paused' = [paused EXCEPT ![c] = TRUE]
  /\ held' = held \cup QueuedJobs(c)
  /\ UNCHANGED <<chats, status, payload, seq, nextSeq, memory, faults>>

Remove(j) ==
  /\ mode = "up"
  /\ status[j] \in {"queued", "failed", "interrupted"}
  /\ status' = [status EXCEPT ![j] = "removed"]
  /\ payload' = [payload EXCEPT ![j] = NoText]
  /\ waiters' = waiters \ {j}
  /\ UNCHANGED <<chats, paused, seq, nextSeq, mode, active, thread, deleting, held, faults>>

Edit(j, t) ==
  /\ mode = "up"
  /\ status[j] = "queued"
  /\ payload' = [payload EXCEPT ![j] = t]
  /\ UNCHANGED <<chats, paused, status, seq, nextSeq, memory, held, faults>>

Signalled(w) == [thread[w] EXCEPT !.stopped = TRUE]

\* PromptQueue::pause: raise the stop flag of the chat's worker, then pause,
\* which fails for a chat that is gone, and may fail for others.
SignalStop(c) ==
  /\ mode = "up"
  /\ thread' = [w \in Worker |-> IF active[c] = w THEN Signalled(w) ELSE thread[w]]
  /\ \/ /\ PauseRow(c)
        /\ held' = held \cup QueuedJobs(c)
        /\ UNCHANGED faults
     \/ Fault /\ UNCHANGED <<paused, held>>
  /\ UNCHANGED <<chats, status, payload, seq, nextSeq, mode, active, waiters>>

\* The cancel RPC. What it does to the agent is the executor's affair.
Cancel(c) == SignalStop(c) /\ UNCHANGED deleting

\* The delete_chat RPC pauses the queue ...
BeginDelete(c) == /\ SignalStop(c)
                  /\ c \in chats /\ paused'[c]
                  /\ deleting' = deleting \cup {c}

\* A chat row goes, and its queue rows with it (ON DELETE CASCADE).
DropChat(c) ==
  /\ chats' = chats \ {c}
  /\ paused' = [paused EXCEPT ![c] = FALSE]
  /\ status' = [j \in Job |-> IF ChatOf[j] = c THEN "absent" ELSE status[j]]
  /\ payload' = [j \in Job |-> IF ChatOf[j] = c THEN NoText ELSE payload[j]]
  /\ deleting' = deleting \ {c}
  /\ UNCHANGED <<seq, nextSeq, mode, active, thread, waiters, held, faults>>

\* ... and deletes the chat when the turn that runs has let it.
FinishDelete(c) == mode = "up" /\ c \in deleting \cap chats /\ DropChat(c)

\* After a failed prompt call, and at startup, a chat without messages and
\* without open jobs is deleted. Messages are not modelled: any chat may lack them.
DropEmpty(c) == mode = "up" /\ c \in chats /\ Items(c) = {} /\ DropChat(c)

------------------------------------------------------------------------------
(* The worker thread. *)

\* The thread leaves its loop, having given up the chat.
Leave(w) == /\ active' = [active EXCEPT ![thread[w].chat] = NoWorker]
            /\ Becomes(w, Idle)

\* claim_prompt_job: the queued row with the lowest sequence.
IsNext(j) == /\ status[j] = "queued"
             /\ \A k \in QueuedJobs(ChatOf[j]) : seq[j] <= seq[k]

Loaded(w, j) == [thread[w] EXCEPT !.at = "run", !.job = j, !.text = payload[j],
                                  !.stopped = FALSE]

ClaimJob(w, j) ==
  /\ ChatOf[j] = thread[w].chat
  /\ IsNext(j)
  /\ status' = [status EXCEPT ![j] = "running"]
  /\ Becomes(w, Loaded(w, j))
  /\ UNCHANGED <<active, faults>>

Claim(w) ==
  /\ thread[w].at = "claim"
  /\ \/ /\ paused[thread[w].chat] \/ QueuedJobs(thread[w].chat) = {}
        /\ Leave(w) /\ UNCHANGED <<status, faults>>
     \/ /\ ~paused[thread[w].chat]
        /\ \E j \in Job : ClaimJob(w, j)
     \/ /\ Fault
        /\ Becomes(w, At(w, "fail")) /\ UNCHANGED <<status, active>>
  /\ UNCHANGED <<chats, paused, payload, seq, nextSeq, mode, waiters, deleting, held>>

\* The executor returns; the worker then reads its stop flag. bad: an error, or
\* a turn that did not end by itself.
Return(w, bad) ==
  LET failure == thread[w].stopped \/ bad
  IN  /\ thread[w].at = "run"
      /\ Becomes(w, [At(w, "finish") EXCEPT !.failure = failure])
      /\ held' = IF failure THEN held \cup QueuedJobs(thread[w].chat) ELSE held
      /\ UNCHANGED <<rows, mode, active, waiters, deleting, faults>>

\* finish_prompt_job: an UPDATE, which finds no row when the chat is gone.
FinishJob(j, s) ==
  IF status[j] = "absent" THEN UNCHANGED <<status, payload>>
  ELSE /\ status' = [status EXCEPT ![j] = s]
       /\ payload' = IF s = "failed" THEN payload ELSE [payload EXCEPT ![j] = NoText]

\* The locked section that settles a job, all its statements succeeding. A
\* job somebody waits for leaves no failed row behind.
Settle(w) ==
  LET j == thread[w].job  c == thread[w].chat
  IN  /\ IF thread[w].failure
         THEN /\ c \in chats
              /\ paused' = [paused EXCEPT ![c] = TRUE]
              /\ FinishJob(j, IF j \in waiters THEN "removed" ELSE "failed")
         ELSE UNCHANGED paused /\ FinishJob(j, "done")
      /\ waiters' = waiters \ {j}
      /\ Becomes(w, [Spawned(c) EXCEPT !.stopped = thread[w].stopped])
      /\ UNCHANGED faults

\* The same section when a statement fails: the UPDATE; the pause, as it must
\* for a chat that is gone (the row would have no chat); the removal.
SettleFails(w) ==
  LET j == thread[w].job  c == thread[w].chat
  IN  /\ \/ Fault /\ UNCHANGED <<status, payload, paused, waiters>>
         \/ /\ thread[w].failure
            /\ IF c \in chats THEN Fault ELSE UNCHANGED faults
            /\ FinishJob(j, "failed")
            /\ UNCHANGED <<paused, waiters>>
         \/ /\ thread[w].failure /\ c \in chats /\ j \in waiters
            /\ Fault
            /\ FinishJob(j, "failed")
            /\ paused' = [paused EXCEPT ![c] = TRUE]
            /\ waiters' = waiters \ {j}
      /\ Becomes(w, At(w, "fail"))

Finish(w) ==
  /\ thread[w].at = "finish"
  /\ Settle(w) \/ SettleFails(w)
  /\ UNCHANGED <<chats, seq, nextSeq, mode, active, deleting, held>>

\* fail_worker, before it takes the mutex. The pause may fail, unnoticed.
FailPause(w) ==
  LET c == thread[w].chat
  IN  /\ thread[w].at = "fail"
      /\ \/ PauseRow(c) /\ UNCHANGED faults
         \/ Fault /\ UNCHANGED paused
      /\ Becomes(w, At(w, "cleanup"))
      /\ UNCHANGED <<chats, status, payload, seq, nextSeq, mode, active, waiters, deleting, held>>

\* fail_worker, under the mutex: running jobs of the chat become failed (or
\* that write fails, unnoticed), and the callers of listed jobs are told (or
\* the list cannot be read, and nobody is).
FailCleanup(w) ==
  LET c == thread[w].chat
  IN  /\ thread[w].at = "cleanup"
      /\ \/ /\ status' = [j \in Job |-> IF ChatOf[j] = c /\ status[j] = "running"
                                       THEN "failed" ELSE status[j]]
            /\ waiters' = waiters \ Items(c)
            /\ UNCHANGED faults
         \/ Fault /\ waiters' = waiters \ Items(c) /\ UNCHANGED status
         \/ Fault /\ UNCHANGED <<waiters, status>>
      /\ Leave(w)
      /\ UNCHANGED <<chats, paused, payload, seq, nextSeq, mode, deleting, held>>

------------------------------------------------------------------------------
(* Crash and restart. *)

\* The process ends at any point; callers lose their connection.
Crash ==
  /\ mode' = "down"
  /\ active' = [c \in Chat |-> NoWorker]
  /\ thread' = [w \in Worker |-> Idle]
  /\ waiters' = {}
  /\ deleting' = {}
  /\ held' = held \cup {j \in Job : status[j] = "queued"}
  /\ UNCHANGED <<rows, faults>>

\* Mutant of RecoverPause: only chats with a turn that was cut off are paused.
RecoverPauseRunning ==
  /\ mode = "down"
  /\ mode' = "recovering"
  /\ paused' = [c \in Chat |-> paused[c] \/ \E j \in JobsOf(c) : status[j] = "running"]
  /\ UNCHANGED <<chats, status, payload, seq, nextSeq, active, thread, waiters, deleting,
                 held, faults>>

\* recover_prompt_queues, first statement: chats with work left are paused.
RecoverPause ==
  /\ mode = "down"
  /\ mode' = "recovering"
  /\ paused' = [c \in Chat |-> \/ paused[c]
                               \/ \E j \in JobsOf(c) : status[j] \in {"queued", "running"}]
  /\ UNCHANGED <<chats, status, payload, seq, nextSeq, active, thread, waiters, deleting,
                 held, faults>>

\* Second statement: what was running is not run again. Then the daemon serves.
RecoverInterrupt ==
  /\ mode = "recovering"
  /\ mode' = "up"
  /\ status' = [j \in Job |-> IF status[j] = "running" THEN "interrupted" ELSE status[j]]
  /\ UNCHANGED <<chats, paused, payload, seq, nextSeq, active, thread, waiters, deleting,
                 held, faults>>

------------------------------------------------------------------------------
WorkerStep(w) == \/ Claim(w)
                 \/ \E bad \in BOOLEAN : Return(w, bad)
                 \/ Finish(w)
                 \/ FailPause(w)
                 \/ FailCleanup(w)

ChatStep(c) == \/ PromptRefused(c) \/ Resume(c) \/ HoldQueue(c) \/ Cancel(c)
               \/ BeginDelete(c) \/ FinishDelete(c) \/ DropEmpty(c)

JobStep(j) == \/ Remove(j)
              \/ \E t \in Text : Enqueue(j, t) \/ Prompt(j, t) \/ Edit(j, t)

Next == \/ \E w \in Worker : WorkerStep(w)
        \/ \E c \in Chat : ChatStep(c)
        \/ \E j \in Job : JobStep(j)
        \/ Crash \/ RecoverPause \/ RecoverInterrupt

\* A spawned thread keeps running, and a turn ends: the executor's requests
\* have deadlines (ACP_PROMPT_TOTAL_TIMEOUT).
Fairness == \A w \in Worker : WF_vars(WorkerStep(w))

Spec == Init /\ [][Next]_vars /\ Fairness
------------------------------------------------------------------------------
(* Properties. *)

ThreadState == [at : {"idle", "claim", "run", "finish", "fail", "cleanup"},
                chat : Chat \cup {NoChat}, job : Job \cup {NoJob},
                text : Text \cup {NoText}, stopped : BOOLEAN, failure : BOOLEAN]

\* The shape of the state.
TypeOK == /\ chats \subseteq Chat
          /\ paused \in [Chat -> BOOLEAN]
          /\ status \in [Job -> Status]
          /\ payload \in [Job -> Text \cup {NoText}]
          /\ seq \in [Job -> Nat]
          /\ nextSeq \in Nat \ {0}
          /\ mode \in {"up", "down", "recovering"}
          /\ active \in [Chat -> Worker \cup {NoWorker}]
          /\ thread \in [Worker -> ThreadState]
          /\ waiters \subseteq Job
          /\ deleting \subseteq Chat
          /\ held \subseteq Job
          /\ faults \in 0 .. MaxFaults

Executing(w) == thread[w].at \in {"run", "finish"}

\* "A single worker owns all deliveries for each chat" (prompt_queue.rs:1): a
\* live thread is the one its chat is registered under, so no two threads ever
\* serve a chat, and no registration outlives its thread.
SoleWorker ==
  /\ \A w \in Worker : thread[w].at # "idle" => /\ thread[w].chat \in Chat
                                                /\ active[thread[w].chat] = w
  /\ \A c \in Chat : active[c] # NoWorker => /\ thread[active[c]].at # "idle"
                                             /\ thread[active[c]].chat = c

\* A job a thread executes is marked running as long as its chat exists; and,
\* unless the store failed twice, a job marked running while the daemon serves
\* is in the hands of the worker of its chat, so none is stuck in that state.
RunningIsOwned ==
  /\ \A w \in Worker : Executing(w) /\ thread[w].chat \in chats
                          => status[thread[w].job] = "running"
  /\ mode = "up" /\ faults <= 1 =>
       \A j \in Job : status[j] = "running" =>
         \E w \in Worker : thread[w].job = j /\ thread[w].at # "idle"

\* Both together: a job that runs is in one pair of hands, those of the one worker
\* of its chat (prompt_queue.rs:1, fail_worker).
RunsInOneHand == SoleWorker /\ RunningIsOwned

\* What waited when its turn failed, when the user stopped or paused the chat,
\* or when the daemon died is not sent before the user resumes the queue, even
\* if one write of the store fails on the way.
HeldUntilResumed ==
  faults <= 1 => \A w \in Worker : thread[w].at = "run" => thread[w].job \notin held

\* The agent is sent what the queue shows: an edit the caller was told succeeded
\* is never lost to a worker that read the job before it.
SentAsShown ==
  \A w \in Worker : thread[w].at = "run" /\ thread[w].chat \in chats
                      => thread[w].text = payload[thread[w].job]

\* The queue is an OrderedDelivery: whatever stops, fails or crashes, the
\* prompts of a chat go out one at a time, in the order of their acceptance,
\* and none twice.
PhaseOf(j) == IF \E w \in Worker : Executing(w) /\ thread[w].job = j THEN "running"
              ELSE IF status[j] = "queued" THEN "waiting"
              ELSE IF status[j] = "absent" /\ ChatOf[j] \in chats THEN "new"
              ELSE "closed"

Delivery == INSTANCE OrderedDelivery
              WITH phase <- [j \in Job |-> PhaseOf(j)], ticket <- seq, next <- nextSeq

DeliversInOrder == Delivery!Spec

\* A waiting prompt is taken, unless its queue is stopped, its chat deleted, the
\* daemon killed or a write of the store failed; enqueueing more cannot push it
\* back for ever.
Drains(j) ==
  (status[j] = "queued") ~>
    (status[j] # "queued" \/ paused[ChatOf[j]] \/ mode # "up" \/ faults > 0)

\* A blocked prompt RPC returns, with the same exceptions.
Returns(j) ==
  (j \in waiters) ~>
    (j \notin waiters \/ paused[ChatOf[j]] \/ ChatOf[j] \notin chats \/ faults > 0)
==============================================================================
